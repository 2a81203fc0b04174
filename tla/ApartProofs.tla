----------------------------- MODULE ApartProofs -----------------------------
(* Accounts, sourcing, refunds, threads and documents, each for every value of *)
(* its constants.  A step of the composition is a step of the part that moves or   *)
(* leaves that part's variables alone, so each part is proved about by itself, *)
(* and the theorems on OneApart follow.                                        *)
EXTENDS Apart, Sums, TLAPS

-----------------------------------------------------------------------------
(* Accounts, for every kind of person and any number of requests, accounts,  *)
(* codes, approvals and failures.  The two accounts are kept together by what *)
(* each unfinished sign-up knows of the one it made; the code by who is       *)
(* writing it; the temporary password by who has claimed the activation.      *)

(* A request that is making the account, or taking back what it made, knows  *)
(* the account's uid and whether it made it; every later step has a user.    *)
Making(r) == request[r].step \in {"created", "register", "login", "undo"}
Makes(r) == Making(r) /\ request[r].flag

UidsKnown ==
  /\ firebase.uid <= lastUid /\ user.uid <= lastUid
  /\ user.uid = 0 => user = NoUser
  /\ \A r \in Request :
       /\ request[r].uid <= lastUid
       /\ Making(r) => request[r].uid # 0
       /\ request[r].step \in {"created", "undo"} => request[r].flag
       /\ ~Making(r) /\ request[r].step # "idle" => user.uid # 0

(* Two requests have one account only if it is shared, and one of them made  *)
(* it; who still goes on has its account unless it is shared.                *)
MakersApart ==
  \A r, q \in Request :
    r # q /\ Makes(r) /\ Making(q) /\ request[q].uid = request[r].uid =>
      ~request[q].flag /\ request[r].uid \in shared
MakersKept ==
  \A r \in Request :
    /\ Makes(r) /\ user.uid = request[r].uid => user.uid \in shared
    /\ Making(r) /\ request[r].step # "undo" /\ firebase.uid # request[r].uid =>
         request[r].uid \in shared
MakerLeft ==
  firebase.uid # 0 /\ user.uid = 0 /\ faults = 0 =>
    \E r \in Request : Makes(r) /\ request[r].uid = firebase.uid

(* Whoever writes the code does so alone unless mixed; what it is about to   *)
(* mail is the code that is stored, and what it is about to discard is used. *)
CodeAlone ==
  /\ \A r \in Request : request[r].step = "signin" => user.verified
  /\ ~mixed =>
       /\ inbox.code <= lastCode
       /\ \A r, q \in Request : Writing(r) /\ Writing(q) => r = q
       /\ \A r \in Request :
            /\ request[r].step = "mail" => /\ code.id = request[r].code
                                           /\ request[r].code = lastCode
                                           /\ inbox.code < lastCode
            /\ request[r].step = "discard" => user.verified \/ code.id \in spent
CodeStored ==
  ~mixed /\ ~user.verified /\ inbox.code # 0 =>
    \/ code.id = inbox.code
    \/ inbox.code \in spent
    \/ lastCode > inbox.code /\ faults > 0
    \/ \E r \in Request : request[r].step = "mail"

(* One request has claimed the activation, and nobody once the invitation    *)
(* is out; it sets a password only where there was none.                     *)
Owns(r) == request[r].step \in {"set", "unset", "invite"}
OneOwner ==
  /\ \A r \in Request : Owns(r) => user.active
  /\ \A r, q \in Request : Owns(r) /\ Owns(q) => r = q
  /\ inbox.password # "none" => user.active /\ \A r \in Request : ~Owns(r)
  /\ \A r \in Request : request[r].step = "set" => request[r].flag
Held(p) == firebase.password = "own" \/ (firebase.password = p /\ user.must)
PasswordHeld ==
  Usable /\ ~early =>
    /\ firebase.password = "own" =>
         \A r \in Request : request[r].step \in {"claim", "set"} => ~request[r].flag
    /\ \A r \in Request :
         /\ request[r].step = "change" => firebase.password = "own"
         /\ request[r].step = "set" => user.must
         /\ request[r].step = "invite" /\ request[r].flag => Held(request[r].round)
    /\ inbox.password # "none" => Held(inbox.password)

AccountsInv ==
  /\ TypeOK
  /\ UidsKnown /\ MakersApart /\ MakersKept /\ FirebaseKept /\ MakerLeft
  /\ CodeAlone /\ CodeStored
  /\ OneOwner /\ PasswordHeld

Row == [step : Steps, uid : 0..MaxUid, flag : BOOLEAN, code : 0..MaxCode,
        round : Approval \cup {"none"}]

(* A request that moves to a step, or is done. *)
LEMMA DoneRow ==
  ASSUME TypeOK, NEW r \in Request
  PROVE  /\ request \in [Request -> Row] /\ request[r] \in Row /\ Idle \in Row
         /\ Done(r) \in [Request -> Row] /\ Done(r)[r] = Idle
         /\ \A q \in Request : q # r => Done(r)[q] = request[q]
<1>1. request \in [Request -> Row]
  BY DEF TypeOK, Row
<1>2. Idle \in Row
  BY AccountsAssumption DEF Idle, Row, Steps
<1>3. QED
  BY <1>1, <1>2 DEF Done

(* The request's row with another step.                                      *)
LEMMA ToRow ==
  ASSUME TypeOK, NEW r \in Request, NEW s \in Steps
  PROVE  /\ To(r, s) \in [Request -> Row]
         /\ To(r, s)[r].step = s /\ To(r, s)[r].uid = request[r].uid
         /\ To(r, s)[r].flag = request[r].flag /\ To(r, s)[r].code = request[r].code
         /\ To(r, s)[r].round = request[r].round
         /\ \A q \in Request : q # r => To(r, s)[q] = request[q]
<1> DEFINE x == [request[r] EXCEPT !.step = s]
<1>1. request \in [Request -> Row] /\ request[r] \in Row
  BY DoneRow
<1>2. /\ x \in Row /\ x.step = s /\ x.uid = request[r].uid /\ x.flag = request[r].flag
      /\ x.code = request[r].code /\ x.round = request[r].round
  BY <1>1 DEF Row
<1>3. To(r, s) = [request EXCEPT ![r] = x]
  BY DEF To
<1> HIDE DEF x
<1>4. To(r, s) \in [Request -> Row] /\ To(r, s)[r] = x
      /\ \A q \in Request : q # r => To(r, s)[q] = request[q]
  BY <1>1, <1>2, <1>3
<1>5. QED
  BY <1>2, <1>4

(* Every step, by the request that takes it. *)
AccountStep(r) ==
  \/ CreateFirebaseUser(r) \/ CreateLocalUser(r) \/ DeleteFirebaseUser(r)
  \/ SignsUp /\ SignInWithGoogle(r, "register")
  \/ SignInWithGoogle(r, "login")
  \/ GoogleRegister(r) \/ GoogleLogin(r)

(* The account under its makers is left alone by every other step. *)
UidsRest ==
  /\ firebase'.uid = firebase.uid /\ user'.uid = user.uid
  /\ lastUid' = lastUid /\ shared' = shared /\ faults' \in {faults, faults + 1}
  /\ user' = user \/ user.uid # 0
  /\ \A q \in Request :
       \/ request'[q] = request[q]
       \/ /\ request'[q].step \notin {"created", "register", "login", "undo"}
          /\ request'[q].uid <= lastUid
          /\ request'[q].step # "idle" => user.uid # 0
          /\ Making(q) => faults' = faults + 1

UidsInv == UidsKnown /\ MakersApart /\ MakersKept /\ FirebaseKept /\ MakerLeft

(* Whatever leaves the accounts alone keeps what is known of them.           *)
LEMMA UidsStay ==
  ASSUME TypeOK, UidsInv, UidsRest
  PROVE  UidsInv'
<1>0. /\ lastUid \in Nat /\ faults \in Nat /\ user.uid \in Nat /\ firebase.uid \in Nat
      /\ \A q \in Request : request[q].uid \in Nat
  BY DEF TypeOK
<1>1. \A q \in Request : Making(q)' => request'[q] = request[q] /\ Making(q)
  BY DEF UidsRest, Making
<1>2. UidsKnown'
  BY <1>0, <1>1 DEF UidsInv, UidsKnown, UidsRest, Making
<1>3. MakersApart'
  BY <1>1 DEF UidsInv, MakersApart, UidsRest, Makes
<1>4. MakersKept'
  BY <1>1 DEF UidsInv, MakersKept, UidsRest, Makes
<1>5. FirebaseKept'
  BY DEF UidsInv, FirebaseKept, UidsRest
<1>6. MakerLeft'
  BY <1>0 DEF UidsInv, MakerLeft, UidsRest, Makes, Making
<1>7. QED
  BY <1>2, <1>3, <1>4, <1>5, <1>6 DEF UidsInv

(* The steps about the code and the activation. *)
OtherStep(r) ==
  \/ TrustGoogle(r) \/ Resend(r) \/ IssueUpsert(r) \/ IssueMail(r)
  \/ CheckCode(r) \/ WrongCode(r) \/ MarkFirebase(r) \/ MarkUser(r)
  \/ SignInVerified(r) \/ Discard(r)
  \/ \E a \in Approval : Activate(r, a)
  \/ Claim(r) \/ SetPassword(r) \/ UndoClaim(r) \/ SendInvite(r)
  \/ ChangePassword(r) \/ ClearMust(r) \/ Crash(r)

(* The next-state relation, by who moves.                                    *)
LEMMA NextIs ==
  Next <=> Age \/ ResetPassword \/ \E r \in Request : AccountStep(r) \/ OtherStep(r)
  BY DEF Next, AccountStep, OtherStep
UidsFrame ==
  /\ firebase'.uid = firebase.uid /\ user'.uid = user.uid
  /\ lastUid' = lastUid /\ shared' = shared /\ faults' \in {faults, faults + 1}
  /\ user' = user \/ user.uid # 0
Past(r) == ~Making(r) /\ request[r].step # "idle"
MakingSteps == {"created", "register", "login", "undo"}

(* A request that ends, by a failed call if it was making the account.       *)
LEMMA UidsRestDone ==
  ASSUME TypeOK, UidsInv, UidsFrame, NEW r \in Request, request' = Done(r),
         Making(r) => faults' = faults + 1
  PROVE  UidsRest
<1>1. /\ \A q \in Request : q # r => request'[q] = request[q]
      /\ request'[r] = Idle
  BY DoneRow
<1>2. request'[r].step = "idle" /\ request'[r].uid = 0 /\ 0 <= lastUid
  BY <1>1 DEF Idle, TypeOK
<1>3. QED
  BY <1>1, <1>2 DEF UidsRest, UidsFrame

(* A request past making the account goes to its next step.                  *)
LEMMA UidsRestTo ==
  ASSUME TypeOK, UidsInv, UidsFrame, NEW r \in Request, Past(r),
         NEW s \in Steps \ MakingSteps, request' = To(r, s)
  PROVE  UidsRest
<1>1. /\ \A q \in Request : q # r => request'[q] = request[q]
      /\ request'[r].step = s /\ request'[r].uid = request[r].uid
  BY ToRow
<1>2. request[r].uid <= lastUid /\ user.uid # 0
  BY DEF UidsInv, UidsKnown, Past
<1>3. QED
  BY <1>1, <1>2 DEF UidsRest, UidsFrame, Past, MakingSteps

(* A new request, or one that also changes its code. *)
LEMMA UidsRestNew ==
  ASSUME TypeOK, UidsInv, UidsFrame, NEW r \in Request, ~Making(r), user.uid # 0,
         NEW x \in Row, x.step \notin MakingSteps, x.uid <= lastUid,
         request' = [request EXCEPT ![r] = x]
  PROVE  UidsRest
<1>1. /\ \A q \in Request : q # r => request'[q] = request[q]
      /\ request'[r] = x
  BY DoneRow
<1>2. QED
  BY <1>1 DEF UidsRest, UidsFrame, MakingSteps

(* No request moves.                                                         *)
LEMMA UidsRestSame == ASSUME UidsFrame, request' = request PROVE UidsRest
  BY DEF UidsRest, UidsFrame

(* The steps about the code and the activation leave the accounts alone,     *)
LEMMA OtherRests ==
  ASSUME TypeOK, UidsInv, NEW r \in Request, OtherStep(r)
  PROVE  UidsRest
<1>t. /\ request \in [Request -> Row] /\ lastUid \in Nat /\ faults \in Nat
      /\ user \in [uid : 0..MaxUid, verified : BOOLEAN, active : BOOLEAN, must : BOOLEAN]
      /\ firebase \in [uid : 0..MaxUid, password : Passwords, google : BOOLEAN, verified : BOOLEAN]
      /\ Idle \in Row /\ request[r] \in Row
  BY DoneRow DEF TypeOK
<1>k. /\ user.uid <= lastUid /\ request[r].uid <= lastUid
      /\ Past(r) => user.uid # 0
  BY DEF UidsInv, UidsKnown, Past
<1>n. request[r] = Idle => ~Making(r)
  BY DEF Idle, Making
<1>1. ASSUME TrustGoogle(r) PROVE UidsRest
  <2>1. Past(r) /\ ~Making(r) /\ request' = Done(r)
    BY <1>1 DEF TrustGoogle, Past, Making
  <2>2. UidsFrame
    BY <1>t, <1>k, <2>1, <1>1 DEF TrustGoogle, UidsFrame, notAccounts
  <2>3. QED
    BY <2>1, <2>2, UidsRestDone
<1>2. ASSUME IssueMail(r) PROVE UidsRest
  <2>1. Past(r) /\ ~Making(r) /\ request' = Done(r)
    BY <1>2 DEF IssueMail, Past, Making
  <2>2. UidsFrame
    BY <1>t, <1>k, <2>1, <1>2 DEF IssueMail, UidsFrame, notCode, CanFail
  <2>3. QED
    BY <2>1, <2>2, UidsRestDone
<1>3. ASSUME Discard(r) PROVE UidsRest
  <2>1. Past(r) /\ ~Making(r) /\ request' = Done(r)
    BY <1>3 DEF Discard, Past, Making
  <2>2. UidsFrame
    BY <1>t, <1>k, <2>1, <1>3 DEF Discard, UidsFrame, notCode
  <2>3. QED
    BY <2>1, <2>2, UidsRestDone
<1>4. ASSUME UndoClaim(r) PROVE UidsRest
  <2>1. Past(r) /\ ~Making(r) /\ request' = Done(r)
    BY <1>4 DEF UndoClaim, Past, Making
  <2>2. UidsFrame
    BY <1>t, <1>k, <2>1, <1>4 DEF UndoClaim, UidsFrame, notActivation
  <2>3. QED
    BY <2>1, <2>2, UidsRestDone
<1>5. ASSUME SendInvite(r) PROVE UidsRest
  <2>1. Past(r) /\ ~Making(r) /\ request' = Done(r)
    BY <1>5 DEF SendInvite, Past, Making
  <2>2. UidsFrame
    BY <1>t, <1>k, <2>1, <1>5 DEF SendInvite, UidsFrame, notActivation, CanFail
  <2>3. QED
    BY <2>1, <2>2, UidsRestDone
<1>6. ASSUME ClearMust(r) PROVE UidsRest
  <2>1. Past(r) /\ ~Making(r) /\ request' = Done(r)
    BY <1>6 DEF ClearMust, Past, Making
  <2>2. UidsFrame
    BY <1>t, <1>k, <2>1, <1>6 DEF ClearMust, UidsFrame, notActivation
  <2>3. QED
    BY <2>1, <2>2, UidsRestDone
<1>7. ASSUME Crash(r) PROVE UidsRest
  <2>1. request' = Done(r) /\ faults' = faults + 1
    BY <1>7 DEF Crash
  <2>2. UidsFrame
    BY <1>t, <1>7 DEF Crash, UidsFrame, notCode
  <2>3. QED
    BY <2>1, <2>2, UidsRestDone
<1>8. ASSUME MarkFirebase(r) PROVE UidsRest
  <2>1. /\ Past(r) /\ ~Making(r)
        /\ request' = Done(r) \/ \E s \in {"marked"} : request' = To(r, s)
    BY <1>8 DEF MarkFirebase, Past, Making, AfterCheck
  <2>2. UidsFrame
    BY <1>t, <1>k, <2>1, <1>8 DEF MarkFirebase, UidsFrame, notAccounts, CanFail
  <2>3. {"marked"} \subseteq Steps \ MakingSteps
    BY DEF Steps, MakingSteps
  <2>4. QED
    BY <2>1, <2>2, <2>3, UidsRestDone, UidsRestTo
<1>9. ASSUME MarkUser(r) PROVE UidsRest
  <2>1. /\ Past(r) /\ ~Making(r)
        /\ request' = Done(r) \/ \E s \in {"signin"} : request' = To(r, s)
    BY <1>9 DEF MarkUser, Past, Making
  <2>2. UidsFrame
    BY <1>t, <1>k, <2>1, <1>9 DEF MarkUser, UidsFrame, notAccounts
  <2>3. {"signin"} \subseteq Steps \ MakingSteps
    BY DEF Steps, MakingSteps
  <2>4. QED
    BY <2>1, <2>2, <2>3, UidsRestDone, UidsRestTo
<1>10. ASSUME SignInVerified(r) PROVE UidsRest
  <2>1. /\ Past(r) /\ ~Making(r)
        /\ request' = Done(r) \/ \E s \in {"discard"} : request' = To(r, s)
    BY <1>10 DEF SignInVerified, Past, Making
  <2>2. UidsFrame
    BY <1>t, <1>k, <2>1, <1>10 DEF SignInVerified, UidsFrame, notCode, CanFail
  <2>3. {"discard"} \subseteq Steps \ MakingSteps
    BY DEF Steps, MakingSteps
  <2>4. QED
    BY <2>1, <2>2, <2>3, UidsRestDone, UidsRestTo
<1>11. ASSUME Claim(r) PROVE UidsRest
  <2>1. /\ Past(r) /\ ~Making(r)
        /\ request' = Done(r) \/ \E s \in {"set", "invite"} : request' = To(r, s)
    BY <1>11 DEF Claim, Past, Making
  <2>2. UidsFrame
    BY <1>t, <1>k, <2>1, <1>11 DEF Claim, UidsFrame, notActivation
  <2>3. {"set", "invite"} \subseteq Steps \ MakingSteps
    BY DEF Steps, MakingSteps
  <2>4. QED
    BY <2>1, <2>2, <2>3, UidsRestDone, UidsRestTo
<1>12. ASSUME SetPassword(r) PROVE UidsRest
  <2>1. /\ Past(r) /\ ~Making(r)
        /\ request' = Done(r) \/ \E s \in {"invite", "unset"} : request' = To(r, s)
    BY <1>12 DEF SetPassword, Past, Making
  <2>2. UidsFrame
    BY <1>t, <1>k, <2>1, <1>12 DEF SetPassword, UidsFrame, notActivation, CanFail
  <2>3. {"invite", "unset"} \subseteq Steps \ MakingSteps
    BY DEF Steps, MakingSteps
  <2>4. QED
    BY <2>1, <2>2, <2>3, UidsRestDone, UidsRestTo
<1>13. ASSUME Resend(r) PROVE UidsRest
  <2> DEFINE x == [Idle EXCEPT !.step = "issue", !.uid = user.uid]
  <2>1. x \in Row /\ x.step \notin MakingSteps /\ x.uid <= lastUid
    BY <1>t, <1>k DEF Row, Steps, MakingSteps, Idle
  <2>2. ~Making(r) /\ user.uid # 0
        /\ (request' = request \/ request' = [request EXCEPT ![r] = x])
    BY <1>13, <1>n DEF Resend
  <2>3. UidsFrame
    BY <1>t, <1>13 DEF Resend, UidsFrame, notCode
  <2> HIDE DEF x
  <2>4. QED
    BY <2>1, <2>2, <2>3, UidsRestNew, UidsRestSame
<1>14. ASSUME CheckCode(r) PROVE UidsRest
  <2> DEFINE x == [Idle EXCEPT !.step = "checked", !.uid = user.uid]
  <2>1. x \in Row /\ x.step \notin MakingSteps /\ x.uid <= lastUid
    BY <1>t, <1>k DEF Row, Steps, MakingSteps, Idle
  <2>2. ~Making(r) /\ user.uid # 0
        /\ (request' = request \/ request' = [request EXCEPT ![r] = x])
    BY <1>14, <1>n DEF CheckCode
  <2>3. UidsFrame
    BY <1>t, <1>14 DEF CheckCode, UidsFrame, notCode
  <2> HIDE DEF x
  <2>4. QED
    BY <2>1, <2>2, <2>3, UidsRestNew, UidsRestSame
<1>15. ASSUME WrongCode(r) PROVE UidsRest
  <2> DEFINE x == [Idle EXCEPT !.step = "discard"]
  <2>1. x \in Row /\ x.step \notin MakingSteps /\ x.uid <= lastUid
    <3>1. "discard" \in Steps /\ "discard" \notin MakingSteps /\ Idle.uid = 0
      BY DEF Steps, MakingSteps, Idle
    <3>2. x \in Row /\ x.step = "discard" /\ x.uid = Idle.uid
      BY <1>t, <3>1 DEF Row
    <3>3. QED
      BY <1>t, <3>1, <3>2
  <2>2. ~Making(r) /\ user.uid # 0
        /\ (request' = request \/ request' = [request EXCEPT ![r] = x])
    BY <1>15, <1>n DEF WrongCode
  <2>3. UidsFrame
    BY <1>t, <1>15 DEF WrongCode, UidsFrame, notCode
  <2> HIDE DEF x
  <2>4. QED
    BY <2>1, <2>2, <2>3, UidsRestNew, UidsRestSame
<1>16. ASSUME ChangePassword(r) PROVE UidsRest
  <2> DEFINE x == [Idle EXCEPT !.step = "change", !.uid = user.uid]
  <2>1. x \in Row /\ x.step \notin MakingSteps /\ x.uid <= lastUid
    BY <1>t, <1>k DEF Row, Steps, MakingSteps, Idle
  <2>2. ~Making(r) /\ user.uid # 0
        /\ (request' = request \/ request' = [request EXCEPT ![r] = x])
    BY <1>16, <1>n DEF ChangePassword, Usable
  <2>3. UidsFrame
    BY <1>t, <1>16 DEF ChangePassword, UidsFrame, notActivation
  <2> HIDE DEF x
  <2>4. QED
    BY <2>1, <2>2, <2>3, UidsRestNew, UidsRestSame
<1>17. ASSUME NEW a \in Approval, Activate(r, a) PROVE UidsRest
  <2>0. PICK flag \in BOOLEAN : flag = ~HasSignIn
    BY DEF HasSignIn
  <2> DEFINE x == [Idle EXCEPT !.step = "claim", !.uid = user.uid, !.flag = flag, !.round = a]
  <2>1. x \in Row /\ x.step \notin MakingSteps /\ x.uid <= lastUid
    <3>1. "claim" \in Steps /\ "claim" \notin MakingSteps /\ user.uid \in 0..MaxUid
      BY <1>t DEF Steps, MakingSteps
    <3>2. x \in Row /\ x.step = "claim" /\ x.uid = user.uid
      BY <1>t, <3>1 DEF Row
    <3>3. QED
      BY <1>k, <3>1, <3>2
  <2>2. ~Making(r) /\ user.uid # 0
        /\ (request' = request \/ request' = [request EXCEPT ![r] = x])
    BY <1>17, <1>n, <2>0 DEF Activate
  <2>3. UidsFrame
    BY <1>t, <1>17 DEF Activate, UidsFrame, notActivation
  <2> HIDE DEF x
  <2>4. QED
    BY <2>1, <2>2, <2>3, UidsRestNew, UidsRestSame
<1>18. ASSUME IssueUpsert(r) PROVE UidsRest
  <2> DEFINE x == [request[r] EXCEPT !.step = "mail", !.code = lastCode + 1]
  <2>1. x \in Row /\ x.step \notin MakingSteps /\ x.uid <= lastUid
    <3>1. lastCode + 1 \in 0..MaxCode
      BY <1>18, AccountsAssumption DEF IssueUpsert, TypeOK
    <3>2. QED
      BY <1>t, <1>k, <3>1 DEF Row, Steps, MakingSteps
  <2>2. /\ Past(r) /\ ~Making(r)
        /\ request' = [request EXCEPT ![r] = x]
    BY <1>18, <1>t DEF IssueUpsert, Past, Making
  <2>3. UidsFrame
    BY <1>t, <1>18 DEF IssueUpsert, UidsFrame, notCode
  <2> HIDE DEF x
  <2>4. QED
    BY <1>k, <2>1, <2>2, <2>3, UidsRestNew
<1>19. QED
  BY <1>1, <1>2, <1>3, <1>4, <1>5, <1>6, <1>7, <1>8, <1>9, <1>10, <1>11, <1>12, <1>13, <1>14, <1>15, <1>16, <1>17, <1>18 DEF OtherStep

(* and so do the code's ageing and a reset password.                         *)
LEMMA AloneRests == ASSUME TypeOK, Age \/ ResetPassword PROVE UidsRest
<1>1. UidsFrame /\ request' = request
  BY DEF Age, ResetPassword, UidsFrame, notCode, notActivation, TypeOK
<1>2. QED
  BY <1>1, UidsRestSame

(* The account's uid is a number, and so is a request's. *)
LEMMA UidTypes ==
  ASSUME TypeOK
  PROVE  /\ lastUid \in Nat /\ faults \in Nat /\ user.uid \in Nat /\ firebase.uid \in Nat
         /\ \A q \in Request : request[q].uid \in Nat /\ request[q].flag \in BOOLEAN
  BY DEF TypeOK

(* The others stand still while r moves. *)
OthersStay(r) == \A q \in Request : q # r => request'[q] = request[q]

(* A request signs up or in: it makes the account or joins its maker. *)
Enters(r) ==
  /\ request[r] = Idle /\ OthersStay(r)
  /\ request'[r].step \in {"created", "register", "login"}
  /\ request'[r].uid = firebase'.uid
  /\ request'[r].flag = (firebase.uid = 0)
  /\ request'[r].step = "created" => request'[r].flag
  /\ user' = user /\ faults' = faults
  /\ IF firebase.uid = 0
     THEN firebase'.uid = lastUid + 1 /\ lastUid' = lastUid + 1
     ELSE firebase'.uid = firebase.uid /\ lastUid' = lastUid
  /\ shared \subseteq shared'
  /\ \A q \in Request : Makes(q) /\ request[q].uid = firebase'.uid => firebase'.uid \in shared'

(* Making an account, or joining its maker, keeps what is known of them.     *)
LEMMA UidsEnter ==
  ASSUME TypeOK, UidsInv, NEW r \in Request, Enters(r)
  PROVE  UidsInv'
<1>1. /\ lastUid \in Nat /\ faults \in Nat /\ user.uid \in Nat /\ firebase.uid \in Nat
      /\ \A q \in Request : request[q].uid \in Nat
  BY UidTypes
<1>2. \A q \in Request : request[q].uid <= lastUid /\ (Making(q) => request[q].uid # 0)
  BY DEF UidsInv, UidsKnown
<1>3. \A q \in Request : q # r =>
        /\ request'[q] = request[q]
        /\ Making(q)' = Making(q) /\ Makes(q)' = Makes(q)
  BY DEF Enters, OthersStay, Making, Makes
<1>4. user.uid <= lastUid /\ firebase.uid <= lastUid
  BY DEF UidsInv, UidsKnown
<1>5. lastUid <= lastUid' /\ firebase'.uid <= lastUid' /\ lastUid' \in Nat /\ firebase'.uid \in Nat
      /\ firebase'.uid # 0
  BY <1>1, <1>4 DEF Enters
<1>6. UidsKnown'
  <2>1. firebase'.uid <= lastUid' /\ user'.uid <= lastUid' /\ (user'.uid = 0 => user' = NoUser)
    BY <1>1, <1>4, <1>5 DEF Enters, UidsInv, UidsKnown
  <2>2. \A q \in Request : q # r =>
          /\ request'[q].uid <= lastUid'
          /\ Making(q)' => request'[q].uid # 0
          /\ request'[q].step \in {"created", "undo"} => request'[q].flag
          /\ ~Making(q)' /\ request'[q].step # "idle" => user'.uid # 0
    BY <1>1, <1>3, <1>5 DEF Enters, UidsInv, UidsKnown
  <2>3. /\ request'[r].uid <= lastUid' /\ request'[r].uid # 0
        /\ request'[r].step \in {"created", "undo"} => request'[r].flag
        /\ Making(r)'
    BY <1>5 DEF Enters, Making
  <2>4. QED
    BY <2>1, <2>2, <2>3 DEF UidsKnown
<1>7. Makes(r)' => firebase.uid = 0 /\ request'[r].uid = lastUid + 1
  BY DEF Enters, Makes
<1>8. MakersApart'
  <2> SUFFICES ASSUME NEW p \in Request, NEW q \in Request, p # q,
                      Makes(p)', Making(q)', request'[q].uid = request'[p].uid
               PROVE  ~request'[q].flag /\ request'[p].uid \in shared'
    BY DEF MakersApart
  <2>1. CASE p = r
    BY <1>1, <1>2, <1>3, <1>7, <2>1
  <2>2. CASE q = r
    <3>1. Makes(p) /\ request'[p] = request[p] /\ request[p].uid = firebase'.uid
      BY <1>3, <2>2 DEF Enters
    <3>2. firebase'.uid <= lastUid /\ firebase.uid # 0
      BY <1>1, <1>2, <3>1 DEF Enters
    <3>3. QED
      BY <2>2, <3>1, <3>2 DEF Enters
  <2>3. CASE p # r /\ q # r
    BY <1>3, <2>3 DEF UidsInv, MakersApart, Enters
  <2>4. QED
    BY <2>1, <2>2, <2>3
<1>9. MakersKept'
  <2>1. Makes(r)' => user'.uid # request'[r].uid
    BY <1>1, <1>4, <1>7 DEF Enters
  <2>2. firebase'.uid = request'[r].uid
    BY DEF Enters
  <2>3. \A q \in Request : q # r /\ Makes(q)' /\ user'.uid = request'[q].uid => user'.uid \in shared'
    BY <1>3 DEF UidsInv, MakersKept, Enters
  <2>4. \A q \in Request :
          q # r /\ Making(q)' /\ request'[q].step # "undo" /\ firebase'.uid # request'[q].uid =>
            request'[q].uid \in shared'
    BY <1>2, <1>3 DEF UidsInv, MakersKept, Enters
  <2>5. QED
    BY <2>1, <2>2, <2>3, <2>4 DEF MakersKept
<1>10. FirebaseKept'
  BY DEF Enters, UidsInv, FirebaseKept
<1>11. MakerLeft'
  <2> SUFFICES ASSUME user'.uid = 0, faults' = 0
               PROVE  \E q \in Request : Makes(q)' /\ request'[q].uid = firebase'.uid
    BY DEF MakerLeft
  <2>1. CASE firebase.uid = 0
    BY <2>1 DEF Enters, Makes, Making
  <2>2. CASE firebase.uid # 0
    <3>1. PICK q \in Request : Makes(q) /\ request[q].uid = firebase.uid
      BY <2>2 DEF UidsInv, MakerLeft, Enters
    <3>2. q # r
      BY <3>1 DEF Makes, Making, Idle, Enters
    <3>3. QED
      BY <1>3, <2>2, <3>1, <3>2 DEF Enters
  <2>3. QED
    BY <2>1, <2>2
<1>12. QED
  BY <1>6, <1>8, <1>9, <1>10, <1>11 DEF UidsInv

(* A request finds no user, and writes the one of its account. *)
Writes(r) ==
  /\ Making(r) /\ request[r].step # "undo" /\ OthersStay(r)
  /\ user.uid = 0 /\ user'.uid = request[r].uid
  /\ firebase' = firebase /\ lastUid' = lastUid /\ shared' = shared
  /\ request'[r].step \notin MakingSteps /\ request'[r].uid <= lastUid

(* So does writing the user: no other maker has the same account.            *)
LEMMA UidsWrite ==
  ASSUME TypeOK, UidsInv, NEW r \in Request, Writes(r)
  PROVE  UidsInv'
<1>1. \A q \in Request : Making(q)' => q # r /\ request'[q] = request[q] /\ Making(q)
  BY DEF Writes, OthersStay, Making, MakingSteps
<1>2. user'.uid # 0 /\ user'.uid <= lastUid /\ user'.uid = request[r].uid
  BY DEF Writes, UidsInv, UidsKnown
<1>3. UidsKnown'
  <2>1. \A q \in Request : request'[q].uid <= lastUid'
    BY DEF Writes, OthersStay, UidsInv, UidsKnown
  <2>2. \A q \in Request : request'[q].step \in {"created", "undo"} => Making(q)'
    BY DEF Making
  <2>3. QED
    BY <1>1, <1>2, <2>1, <2>2 DEF Writes, UidsInv, UidsKnown
<1>4. MakersApart'
  BY <1>1 DEF UidsInv, MakersApart, Writes, Makes
<1>5. MakersKept'
  <2>1. \A q \in Request : Makes(q)' /\ user'.uid = request'[q].uid => user'.uid \in shared'
    BY <1>1, <1>2 DEF UidsInv, MakersApart, Writes, Makes
  <2>2. QED
    BY <1>1, <2>1 DEF UidsInv, MakersKept, Writes
<1>6. FirebaseKept'
  BY <1>2 DEF UidsInv, MakersKept, FirebaseKept, Writes
<1>7. MakerLeft'
  BY <1>2 DEF MakerLeft
<1>8. QED
  BY <1>3, <1>4, <1>5, <1>6, <1>7 DEF UidsInv

(* A request that could not write the user goes to undo, or is done. *)
Yields(r) ==
  /\ Making(r) /\ OthersStay(r)
  /\ user' = user /\ firebase' = firebase /\ lastUid' = lastUid /\ shared' = shared
  /\ faults' \in {faults, faults + 1}
  /\ \/ request'[r].step = "undo" /\ request[r].flag /\ request'[r].flag = request[r].flag
        /\ request'[r].uid = request[r].uid
     \/ /\ request'[r].step \notin MakingSteps /\ request'[r].uid <= lastUid
        /\ request'[r].step # "idle" => user.uid # 0
        /\ request[r].flag => user.uid # 0

(* So does giving up: whoever made the account goes to undo.                 *)
LEMMA UidsYield ==
  ASSUME TypeOK, UidsInv, NEW r \in Request, Yields(r)
  PROVE  UidsInv'
<1>0. /\ lastUid \in Nat /\ faults \in Nat /\ user.uid \in Nat /\ firebase.uid \in Nat
      /\ \A q \in Request : request[q].uid \in Nat
  BY UidTypes
<1>1. \A q \in Request : Making(q)' =>
        /\ Making(q) /\ request'[q].flag = request[q].flag /\ request'[q].uid = request[q].uid
        /\ request'[q].step # "undo" => request[q].step # "undo"
        /\ request'[q].step \in {"created", "undo"} =>
             request[q].step \in {"created", "undo"} \/ request'[q].flag
  BY DEF Yields, OthersStay, Making, MakingSteps
<1>2. UidsKnown'
  <2>1. firebase'.uid <= lastUid' /\ user'.uid <= lastUid' /\ (user'.uid = 0 => user' = NoUser)
    BY DEF Yields, UidsInv, UidsKnown
  <2>2. \A q \in Request : request'[q].uid <= lastUid'
    BY DEF Yields, OthersStay, UidsInv, UidsKnown
  <2>3. \A q \in Request : Making(q)' => request'[q].uid # 0
    BY <1>1 DEF UidsInv, UidsKnown
  <2>4. \A q \in Request : request'[q].step \in {"created", "undo"} => request'[q].flag
    BY <1>1 DEF UidsInv, UidsKnown, Making
  <2>5. \A q \in Request : ~Making(q)' /\ request'[q].step # "idle" => user'.uid # 0
    BY DEF UidsInv, UidsKnown, Yields, OthersStay, Making
  <2>6. QED
    BY <2>1, <2>2, <2>3, <2>4, <2>5 DEF UidsKnown
<1>3. MakersApart'
  BY <1>1 DEF UidsInv, MakersApart, Yields, Makes
<1>4. MakersKept'
  BY <1>1 DEF UidsInv, MakersKept, Yields, Makes
<1>5. FirebaseKept'
  BY DEF UidsInv, FirebaseKept, Yields
<1>6. MakerLeft'
  <2> SUFFICES ASSUME firebase'.uid # 0, user'.uid = 0, faults' = 0
               PROVE  \E q \in Request : Makes(q)' /\ request'[q].uid = firebase'.uid
    BY DEF MakerLeft
  <2>1. PICK q \in Request : Makes(q) /\ request[q].uid = firebase.uid
    BY <1>0 DEF Yields, UidsInv, MakerLeft
  <2>2. Makes(q)' /\ request'[q].uid = firebase'.uid
    BY <2>1 DEF Yields, OthersStay, Makes, Making
  <2>3. QED
    BY <2>2
<1>7. QED
  BY <1>2, <1>3, <1>4, <1>5, <1>6 DEF UidsInv

(* An account is taken back. *)
LEMMA UidsDelete ==
  ASSUME TypeOK, UidsInv, NEW r \in Request, DeleteFirebaseUser(r)
  PROVE  UidsInv'
<1>0. /\ lastUid \in Nat /\ faults \in Nat /\ user.uid \in Nat /\ firebase.uid \in Nat
      /\ \A q \in Request : request[q].uid \in Nat
  BY UidTypes
<1>1. OthersStay(r) /\ request'[r] = Idle
  BY DoneRow DEF DeleteFirebaseUser, OthersStay
<1>2. /\ user' = user /\ lastUid' = lastUid /\ shared' = shared
      /\ faults' \in {faults, faults + 1}
      /\ Makes(r) /\ request[r].uid # 0
      /\ \/ firebase' = NoFirebase /\ firebase.uid = request[r].uid
         \/ firebase' = firebase /\ (firebase.uid # request[r].uid \/ faults' = faults + 1)
  BY DEF DeleteFirebaseUser, UidsInv, UidsKnown, Makes, Making, HasAccount
<1>3. \A q \in Request : Making(q)' => q # r /\ request'[q] = request[q] /\ Making(q)
  BY <1>1 DEF OthersStay, Making, Idle
<1>4. NoFirebase.uid = 0
  BY DEF NoFirebase
<1>5. UidsKnown'
  <2>1. firebase'.uid <= lastUid' /\ user'.uid <= lastUid' /\ (user'.uid = 0 => user' = NoUser)
    BY <1>0, <1>2, <1>4 DEF UidsInv, UidsKnown
  <2>2. \A q \in Request : q # r =>
          /\ request'[q].uid <= lastUid'
          /\ Making(q)' => request'[q].uid # 0
          /\ request'[q].step \in {"created", "undo"} => request'[q].flag
          /\ ~Making(q)' /\ request'[q].step # "idle" => user'.uid # 0
    BY <1>1, <1>2 DEF UidsInv, UidsKnown, OthersStay, Making
  <2>3. request'[r].uid <= lastUid' /\ request'[r].step = "idle"
    BY <1>0, <1>1, <1>2 DEF Idle
  <2>4. QED
    BY <2>1, <2>2, <2>3 DEF UidsKnown, Making
<1>6. MakersApart'
  BY <1>2, <1>3 DEF UidsInv, MakersApart, Makes
<1>7. MakersKept'
  <2>1. \A q \in Request : Makes(q)' /\ user'.uid = request'[q].uid => user'.uid \in shared'
    BY <1>2, <1>3 DEF UidsInv, MakersKept, Makes
  <2>2. \A q \in Request :
          Making(q)' /\ request'[q].step # "undo" /\ firebase'.uid # request'[q].uid =>
            request'[q].uid \in shared'
    <3> SUFFICES ASSUME NEW q \in Request, Making(q)', request'[q].step # "undo",
                        firebase'.uid # request'[q].uid
                 PROVE  request'[q].uid \in shared'
      OBVIOUS
    <3>1. q # r /\ request'[q] = request[q] /\ Making(q)
      BY <1>3
    <3>2. CASE firebase.uid = request[q].uid
      <4>1. request[q].uid = request[r].uid
        BY <1>2, <3>1, <3>2
      <4>2. QED
        BY <1>2, <3>1, <4>1 DEF UidsInv, MakersApart
    <3>3. CASE firebase.uid # request[q].uid
      BY <1>2, <3>1, <3>3 DEF UidsInv, MakersKept
    <3>4. QED
      BY <3>2, <3>3
  <2>3. QED
    BY <2>1, <2>2 DEF MakersKept
<1>8. FirebaseKept'
  BY <1>2 DEF UidsInv, MakersKept, FirebaseKept
<1>9. MakerLeft'
  <2> SUFFICES ASSUME firebase'.uid # 0, user'.uid = 0, faults' = 0
               PROVE  \E q \in Request : Makes(q)' /\ request'[q].uid = firebase'.uid
    BY DEF MakerLeft
  <2>1. firebase' = firebase /\ firebase.uid # request[r].uid /\ faults = 0
    BY <1>0, <1>2, <1>4
  <2>2. PICK q \in Request : Makes(q) /\ request[q].uid = firebase.uid
    BY <1>2, <2>1 DEF UidsInv, MakerLeft
  <2>3. q # r
    BY <2>1, <2>2
  <2>4. QED
    BY <1>1, <2>1, <2>2, <2>3 DEF OthersStay, Makes, Making
<1>10. QED
  BY <1>5, <1>6, <1>7, <1>8, <1>9 DEF UidsInv

(* A request that becomes x. *)
LEMMA NewRow ==
  ASSUME TypeOK, NEW r \in Request, NEW x \in Row, request' = [request EXCEPT ![r] = x]
  PROVE  request' \in [Request -> Row] /\ request'[r] = x /\ OthersStay(r)
<1>1. request \in [Request -> Row]
  BY DoneRow
<1>2. QED
  BY <1>1 DEF OthersStay

(* The request a sign-up or a sign-in begins. *)
LEMMA EnterRow ==
  ASSUME TypeOK, NEW s \in Steps, NEW u \in 0..MaxUid, NEW f \in BOOLEAN
  PROVE  LET x == [Idle EXCEPT !.step = s, !.uid = u, !.flag = f]
         IN  x \in Row /\ x.step = s /\ x.uid = u /\ x.flag = f
<1>1. Idle \in [step : Steps, uid : 0..MaxUid, flag : BOOLEAN, code : 0..MaxCode,
                round : Approval \cup {"none"}]
  BY AccountsAssumption DEF Idle, Steps
<1>2. QED
  BY <1>1 DEF Row

(* createFirebaseUser enters with an account nobody had,                     *)
LEMMA CreateEnters ==
  ASSUME TypeOK, UidsInv, NEW r \in Request, CreateFirebaseUser(r)
  PROVE  /\ Enters(r) /\ request' \in [Request -> Row]
         /\ request'[r].step = "created" /\ lastUid' \in 0..MaxUid
<1> DEFINE x == [Idle EXCEPT !.step = "created", !.uid = lastUid + 1, !.flag = TRUE]
<1>1. "created" \in Steps /\ lastUid + 1 \in 0..MaxUid
  BY AccountsAssumption DEF Steps, CreateFirebaseUser, TypeOK
<1>2. x \in Row /\ x.step = "created" /\ x.uid = lastUid + 1 /\ x.flag = TRUE
  BY <1>1, EnterRow
<1>3. request' = [request EXCEPT ![r] = x]
  BY DEF CreateFirebaseUser
<1> HIDE DEF x
<1>4. request' \in [Request -> Row] /\ request'[r] = x /\ OthersStay(r)
  BY <1>2, <1>3, NewRow
<1>5. firebase'.uid = lastUid + 1
  BY DEF CreateFirebaseUser
<1>6. \A q \in Request : request[q].uid <= lastUid /\ lastUid \in Nat /\ request[q].uid \in Nat
  BY UidTypes DEF UidsInv, UidsKnown
<1>7. /\ \A q \in Request : request[q].uid # lastUid + 1
      /\ request[r] = Idle /\ firebase.uid = 0 /\ lastUid' = lastUid + 1
      /\ user' = user /\ faults' = faults /\ shared' = shared
  BY <1>6 DEF CreateFirebaseUser
<1>8. request'[r].flag = (firebase.uid = 0) /\ request'[r].flag
  BY <1>2, <1>4, <1>7
<1>9. Enters(r)
  BY <1>2, <1>4, <1>5, <1>7, <1>8 DEF Enters
<1>10. QED
  BY <1>1, <1>2, <1>4, <1>7, <1>9

(* signInWithGoogle with that or with the address's own.                     *)
LEMMA GoogleEnters ==
  ASSUME TypeOK, UidsInv, NEW r \in Request, NEW s \in {"register", "login"},
         SignInWithGoogle(r, s)
  PROVE  /\ Enters(r) /\ request' \in [Request -> Row]
         /\ request'[r].step = s /\ lastUid' \in 0..MaxUid
         /\ shared' \subseteq 1..MaxUid
<1>1. PICK f \in BOOLEAN : f = (firebase.uid = 0)
  OBVIOUS
<1>2. PICK u : u = IF firebase.uid = 0 THEN lastUid + 1 ELSE firebase.uid
  OBVIOUS
<1> DEFINE x == [Idle EXCEPT !.step = s, !.uid = u, !.flag = f]
<1>3. /\ request' = [request EXCEPT ![r] = x]
      /\ lastUid' = (IF firebase.uid = 0 THEN u ELSE lastUid)
      /\ shared' = (IF \E q \in Request : request[q].flag /\ request[q].uid = u
                    THEN shared \cup {u} ELSE shared)
      /\ request[r] = Idle /\ user' = user /\ faults' = faults
      /\ firebase.uid # 0 \/ lastUid < MaxUid
  BY <1>1, <1>2 DEF SignInWithGoogle
<1>4. firebase' = [firebase EXCEPT !.uid = u, !.google = TRUE,
                                   !.verified = @ \/ person.google]
  BY <1>2 DEF SignInWithGoogle
<1>5. firebase'.uid = u
  BY <1>4 DEF TypeOK
<1>6. /\ lastUid \in Nat /\ MaxUid \in Nat /\ lastUid <= MaxUid /\ firebase.uid \in Nat
      /\ firebase.uid <= MaxUid
  BY AccountsAssumption DEF TypeOK
<1>7. s \in Steps /\ u \in 0..MaxUid /\ u # 0 /\ lastUid' \in 0..MaxUid
  BY <1>2, <1>3, <1>6 DEF Steps
<1>8. x \in Row /\ x.step = s /\ x.uid = u /\ x.flag = f
  <2>1. f \in BOOLEAN /\ Idle \in Row
    BY <1>1, DoneRow
  <2>2. QED
    BY <2>1, <1>7 DEF Row
<1> HIDE DEF x
<1>9. request' \in [Request -> Row] /\ request'[r] = x /\ OthersStay(r)
  BY <1>3, <1>8, NewRow
<1>10. shared' \subseteq 1..MaxUid /\ shared \subseteq shared'
  BY <1>3, <1>6, <1>7 DEF TypeOK
<1>11. \A q \in Request : Makes(q) /\ request[q].uid = u => u \in shared'
  BY <1>3 DEF Makes
<1>12. Enters(r)
  BY <1>1, <1>2, <1>3, <1>5, <1>8, <1>9, <1>10, <1>11 DEF Enters
<1>13. QED
  BY <1>7, <1>8, <1>9, <1>10, <1>12

(* createLocalUser writes the user, or its request goes to undo;             *)
LEMMA CreateLocalMoves ==
  ASSUME TypeOK, UidsInv, NEW r \in Request, CreateLocalUser(r)
  PROVE  /\ Writes(r) \/ Yields(r)
         /\ request' \in [Request -> Row]
         /\ request'[r].step \in {"idle", "issue", "undo"}
         /\ request'[r].step = "issue" => user.uid = 0
         /\ user.uid # 0 => user' = user
<1>1. "issue" \in Steps /\ "undo" \in Steps /\ "idle" \in Steps
  BY DEF Steps
<1>2. /\ Done(r) \in [Request -> Row] /\ Done(r)[r].step = "idle" /\ Done(r)[r].uid = 0
      /\ \A q \in Request : q # r => Done(r)[q] = request[q]
  BY DoneRow DEF Idle
<1>3. \A s \in {"issue", "undo"} :
        /\ To(r, s) \in [Request -> Row]
        /\ To(r, s)[r].step = s /\ To(r, s)[r].uid = request[r].uid
        /\ To(r, s)[r].flag = request[r].flag
        /\ \A q \in Request : q # r => To(r, s)[q] = request[q]
  BY <1>1, ToRow
<1>4. /\ request[r].step = "created" /\ request[r].flag /\ request[r].uid <= lastUid
      /\ 0 <= lastUid
      /\ firebase' = firebase /\ lastUid' = lastUid /\ shared' = shared
  BY UidTypes DEF CreateLocalUser, UidsInv, UidsKnown
<1>5. CASE user.uid = 0 /\ user' = NewUser(r)
           /\ (request' = To(r, "issue") \/ request' = Done(r))
  <2>1. OthersStay(r) /\ request' \in [Request -> Row]
        /\ request'[r].step \in {"idle", "issue"} /\ request'[r].uid <= lastUid
    BY <1>2, <1>3, <1>4, <1>5 DEF OthersStay
  <2>2. user'.uid = request[r].uid
    BY <1>5 DEF NewUser
  <2>3. Writes(r)
    BY <1>4, <1>5, <2>1, <2>2 DEF Writes, Making, MakingSteps
  <2>4. QED
    BY <1>5, <2>1, <2>3
<1>6. CASE user' = user /\ request' = To(r, "undo") /\ faults' \in {faults, faults + 1}
  <2>1. OthersStay(r) /\ request' \in [Request -> Row]
        /\ request'[r].step = "undo" /\ request'[r].uid = request[r].uid
        /\ request'[r].flag = request[r].flag
    BY <1>3, <1>6 DEF OthersStay
  <2>2. Yields(r)
    BY <1>4, <1>6, <2>1 DEF Yields, Making
  <2>3. QED
    BY <1>6, <2>1, <2>2
<1>7. QED
  BY <1>5, <1>6 DEF CreateLocalUser

(* a failed Google call gives up;                                            *)
LEMMA GiveUpYields ==
  ASSUME TypeOK, UidsInv, NEW r \in Request, request[r].step \in {"register", "login"},
         user' = user, firebase' = firebase, lastUid' = lastUid, shared' = shared,
         faults' \in {faults, faults + 1}, request' = GiveUp(r)
  PROVE  /\ Yields(r) /\ request' \in [Request -> Row]
         /\ request'[r].step \in {"idle", "undo"}
<1>1. /\ Done(r) \in [Request -> Row] /\ Done(r)[r].step = "idle" /\ Done(r)[r].uid = 0
      /\ \A q \in Request : q # r => Done(r)[q] = request[q]
  BY DoneRow DEF Idle
<1>2. "undo" \in Steps
  BY DEF Steps
<1>3. /\ To(r, "undo") \in [Request -> Row]
      /\ To(r, "undo")[r].step = "undo" /\ To(r, "undo")[r].uid = request[r].uid
      /\ To(r, "undo")[r].flag = request[r].flag
      /\ \A q \in Request : q # r => To(r, "undo")[q] = request[q]
  BY <1>2, ToRow
<1>4. 0 <= lastUid
  BY UidTypes
<1>5. CASE request[r].flag /\ request' = To(r, "undo")
  BY <1>3, <1>5 DEF Yields, Making, OthersStay
<1>6. CASE ~request[r].flag /\ request' = Done(r)
  BY <1>1, <1>4, <1>6 DEF Yields, Making, OthersStay, MakingSteps
<1>7. QED
  BY <1>5, <1>6 DEF GiveUp, Drops

(* googleRegister writes the user or gives up;                               *)
LEMMA GoogleRegisterMoves ==
  ASSUME TypeOK, UidsInv, NEW r \in Request, GoogleRegister(r)
  PROVE  /\ Writes(r) \/ Yields(r)
         /\ request' \in [Request -> Row]
         /\ request'[r].step \in {"idle", "issue", "undo"}
         /\ request'[r].step = "issue" => user.uid = 0
         /\ user.uid # 0 => user' = user
<1>2. /\ Done(r) \in [Request -> Row] /\ Done(r)[r].step = "idle" /\ Done(r)[r].uid = 0
      /\ \A q \in Request : q # r => Done(r)[q] = request[q]
  BY DoneRow DEF Idle
<1>1. "issue" \in Steps
  BY DEF Steps
<1>3. /\ To(r, "issue") \in [Request -> Row]
      /\ To(r, "issue")[r].step = "issue" /\ To(r, "issue")[r].uid = request[r].uid
      /\ \A q \in Request : q # r => To(r, "issue")[q] = request[q]
  BY <1>1, ToRow
<1>4. /\ request[r].step = "register" /\ request[r].uid <= lastUid
      /\ 0 <= lastUid
      /\ firebase' = firebase /\ lastUid' = lastUid /\ shared' = shared
  BY UidTypes DEF GoogleRegister, UidsInv, UidsKnown
<1>5. CASE user.uid = 0 /\ user' = [NoUser EXCEPT !.uid = request[r].uid, !.verified = person.google]
           /\ (request' = To(r, "issue") \/ request' = Done(r))
  <2>1. OthersStay(r) /\ request' \in [Request -> Row]
        /\ request'[r].step \in {"idle", "issue"} /\ request'[r].uid <= lastUid
    BY <1>2, <1>3, <1>4, <1>5 DEF OthersStay
  <2>2. user'.uid = request[r].uid
    BY <1>5 DEF NoUser
  <2>3. Writes(r)
    BY <1>4, <1>5, <2>1, <2>2 DEF Writes, Making, MakingSteps
  <2>4. QED
    BY <1>5, <2>1, <2>3
<1>6. CASE user' = user /\ request' = GiveUp(r) /\ faults' \in {faults, faults + 1}
  BY <1>4, <1>6, GiveUpYields
<1>7. QED
  BY <1>5, <1>6 DEF GoogleRegister

(* googleLogin finds its user, or gives up.                                  *)
LEMMA GoogleLoginMoves ==
  ASSUME TypeOK, UidsInv, NEW r \in Request, GoogleLogin(r)
  PROVE  /\ Yields(r)
         /\ request' \in [Request -> Row]
         /\ request'[r].step \in {"idle", "trust", "undo"}
<1>2. /\ Done(r) \in [Request -> Row] /\ Done(r)[r].step = "idle" /\ Done(r)[r].uid = 0
      /\ \A q \in Request : q # r => Done(r)[q] = request[q]
  BY DoneRow DEF Idle
<1>1. "trust" \in Steps
  BY DEF Steps
<1>3. /\ To(r, "trust") \in [Request -> Row]
      /\ To(r, "trust")[r].step = "trust" /\ To(r, "trust")[r].uid = request[r].uid
      /\ \A q \in Request : q # r => To(r, "trust")[q] = request[q]
  BY <1>1, ToRow
<1>4. /\ request[r].step = "login" /\ request[r].uid <= lastUid /\ request[r].uid # 0
      /\ 0 <= lastUid /\ user' = user /\ faults' = faults
      /\ firebase' = firebase /\ lastUid' = lastUid /\ shared' = shared
  BY UidTypes DEF GoogleLogin, UidsInv, UidsKnown, Making
<1>5. CASE request' = GiveUp(r)
  BY <1>4, <1>5, GiveUpYields
<1>6. CASE user.uid = request[r].uid /\ (request' = To(r, "trust") \/ request' = Done(r))
  BY <1>2, <1>3, <1>4, <1>6 DEF Yields, Making, OthersStay, MakingSteps
<1>7. QED
  BY <1>5, <1>6 DEF GoogleLogin

(* The accounts under their makers, at every step. *)
LEMMA UidsStep ==
  ASSUME TypeOK, UidsInv, Next
  PROVE  UidsInv'
<1>1. ASSUME Age \/ ResetPassword PROVE UidsInv'
  BY <1>1, AloneRests, UidsStay
<1>2. ASSUME NEW r \in Request, OtherStep(r) PROVE UidsInv'
  BY <1>2, OtherRests, UidsStay
<1>3. ASSUME NEW r \in Request, AccountStep(r) PROVE UidsInv'
  BY <1>3, CreateEnters, GoogleEnters, CreateLocalMoves, GoogleRegisterMoves,
     GoogleLoginMoves, UidsDelete, UidsEnter, UidsWrite, UidsYield DEF AccountStep
<1>4. QED
  BY <1>1, <1>2, <1>3, NextIs

(* The request that ends,                                                    *)
LEMMA DoneMoves ==
  ASSUME TypeOK, NEW r \in Request, request' = Done(r)
  PROVE  /\ request' \in [Request -> Row] /\ OthersStay(r)
         /\ request'[r].step = "idle" /\ request'[r].uid = 0
  BY DoneRow DEF OthersStay, Idle

(* the one that goes on,                                                     *)
LEMMA ToMoves ==
  ASSUME TypeOK, NEW r \in Request, NEW s \in Steps, request' = To(r, s)
  PROVE  /\ request' \in [Request -> Row] /\ OthersStay(r)
         /\ request'[r].step = s /\ request'[r].uid = request[r].uid
         /\ request'[r].flag = request[r].flag /\ request'[r].code = request[r].code
         /\ request'[r].round = request[r].round
  BY ToRow DEF OthersStay

(* the steps there are,                                                      *)
LEMMA StepNames ==
  {"undo", "issue", "mail", "checked", "marked", "signin", "discard", "claim", "set",
   "unset", "invite", "change", "trust"} \subseteq Steps
  BY DEF Steps

(* The request begins at step s for the user. *)
LEMMA BeginMoves ==
  ASSUME TypeOK, NEW r \in Request, NEW s \in Steps, NEW u \in 0..MaxUid,
         request' = [request EXCEPT ![r] = [Idle EXCEPT !.step = s, !.uid = u]]
  PROVE  request' \in [Request -> Row] /\ OthersStay(r) /\ request'[r].step = s
<1> DEFINE x == [Idle EXCEPT !.step = s, !.uid = u]
<1>1. x \in Row /\ x.step = s /\ request' = [request EXCEPT ![r] = x]
  BY DoneRow DEF Row
<1> HIDE DEF x
<1>2. QED
  BY <1>1, NewRow

(* and how each of the steps about the code and the activation moves it.     *)
LEMMA ResendMoves ==
  ASSUME TypeOK, NEW r \in Request, Resend(r)
  PROVE  request' \in [Request -> Row] /\ OthersStay(r) /\ request'[r].step = "issue"
<1>1. user.uid \in 0..MaxUid /\ "issue" \in Steps
  BY DEF TypeOK, Steps
<1>2. QED
  BY <1>1, BeginMoves DEF Resend

(* verifyEmail with the right code,                                          *)
LEMMA CheckMoves ==
  ASSUME TypeOK, NEW r \in Request, CheckCode(r)
  PROVE  request' \in [Request -> Row] /\ OthersStay(r) /\ request'[r].step = "checked"
<1>1. user.uid \in 0..MaxUid /\ "checked" \in Steps
  BY DEF TypeOK, Steps
<1>2. QED
  BY <1>1, BeginMoves DEF CheckCode

(* changePassword, which has a second step only to end a must-change,        *)
LEMMA ChangeMoves ==
  ASSUME TypeOK, NEW r \in Request, ChangePassword(r)
  PROVE  /\ request' \in [Request -> Row] /\ OthersStay(r)
         /\ request' = request \/ request'[r].step = "change"
<1>1. user.uid \in 0..MaxUid /\ "change" \in Steps /\ request \in [Request -> Row]
  BY DoneRow DEF TypeOK, Steps
<1>2. CASE request' = request
  BY <1>1, <1>2 DEF OthersStay
<1>3. CASE request' = [request EXCEPT ![r] = [Idle EXCEPT !.step = "change", !.uid = user.uid]]
  BY <1>1, <1>3, BeginMoves
<1>4. QED
  BY <1>2, <1>3 DEF ChangePassword

(* verifyEmail with a wrong code, which discards the code at the limit,      *)
LEMMA WrongMoves ==
  ASSUME TypeOK, NEW r \in Request, WrongCode(r)
  PROVE  /\ request' \in [Request -> Row] /\ OthersStay(r)
         /\ \/ request' = request /\ spent' = spent /\ mixed' = mixed
            \/ /\ request'[r].step = "discard" /\ spent' = spent \cup {code.id}
               /\ Mix(r)
<1> DEFINE x == [Idle EXCEPT !.step = "discard"]
<1>1. "discard" \in Steps /\ Idle \in Row /\ request \in [Request -> Row]
  BY DoneRow DEF Steps
<1>2. x \in Row /\ x.step = "discard"
  BY <1>1 DEF Row
<1>3. CASE request' = request /\ spent' = spent /\ mixed' = mixed
  BY <1>1, <1>3 DEF OthersStay
<1>4. CASE request' = [request EXCEPT ![r] = x] /\ spent' = spent \cup {code.id} /\ Mix(r)
  <2> HIDE DEF x
  <2>1. QED
    BY <1>2, <1>4, NewRow
<1>5. QED
  BY <1>3, <1>4 DEF WrongCode

(* the storing of a new code,                                                *)
LEMMA UpsertMoves ==
  ASSUME TypeOK, NEW r \in Request, IssueUpsert(r)
  PROVE  /\ request' \in [Request -> Row] /\ OthersStay(r)
         /\ request'[r].step = "mail" /\ request'[r].code = lastCode + 1
         /\ lastCode + 1 \in 1..MaxCode
<1> DEFINE x == [request[r] EXCEPT !.step = "mail", !.code = lastCode + 1]
<1>1. /\ lastCode + 1 \in 1..MaxCode /\ lastCode + 1 \in 0..MaxCode
      /\ "mail" \in Steps /\ request[r] \in Row
  BY DoneRow, AccountsAssumption DEF IssueUpsert, TypeOK, Steps
<1>2. x \in Row /\ x.step = "mail" /\ x.code = lastCode + 1
  BY <1>1 DEF Row
<1>3. request' = [request EXCEPT ![r] = x]
  BY DoneRow DEF IssueUpsert
<1> HIDE DEF x
<1>4. QED
  BY <1>1, <1>2, <1>3, NewRow

(* and activate, which wants a password only where there is no sign-in.      *)
LEMMA ActivateMoves ==
  ASSUME TypeOK, NEW r \in Request, NEW a \in Approval, Activate(r, a)
  PROVE  /\ request' \in [Request -> Row] /\ OthersStay(r)
         /\ \/ request' = request
            \/ /\ request'[r].step = "claim" /\ (request'[r].flag => ~HasSignIn)
               /\ request[r].step = "idle"
<1>1. PICK f \in BOOLEAN : f = ~HasSignIn
  BY DEF HasSignIn
<1> DEFINE x == [Idle EXCEPT !.step = "claim", !.uid = user.uid, !.flag = f, !.round = a]
<1>2. "claim" \in Steps /\ user.uid \in 0..MaxUid /\ Idle \in Row /\ request \in [Request -> Row]
  BY DoneRow DEF Steps, TypeOK
<1>3. x \in Row /\ x.step = "claim" /\ x.flag = f
  BY <1>1, <1>2 DEF Row
<1>4. CASE request' = request
  BY <1>2, <1>4 DEF OthersStay
<1>5. CASE request' = [request EXCEPT ![r] = x]
  <2>1. request[r].step = "idle"
    BY DEF Activate, Idle
  <2> HIDE DEF x
  <2>2. request' \in [Request -> Row] /\ request'[r] = x /\ OthersStay(r)
    BY <1>3, <1>5, NewRow
  <2>3. QED
    BY <1>1, <1>3, <2>1, <2>2
<1>6. QED
  BY <1>1, <1>4, <1>5 DEF Activate

-----------------------------------------------------------------------------
(* Types, by the parts of the state. *)
Persons == [kind : Kind, google : BOOLEAN]
FirebaseRow == [uid : 0..MaxUid, password : Passwords, google : BOOLEAN, verified : BOOLEAN]
UserRow == [uid : 0..MaxUid, verified : BOOLEAN, active : BOOLEAN, must : BOOLEAN]
CodeRow == [id : 0..MaxCode, attempts : 0..MaxAttempts, age : {"new", "cooled", "expired"}]
InboxRow == [code : 0..MaxCode, password : Passwords]

(* TypeOK, by the parts of the state.                                        *)
LEMMA TypeParts ==
  TypeOK <=>
    /\ person \in Persons /\ firebase \in FirebaseRow /\ lastUid \in 0..MaxUid
    /\ user \in UserRow /\ code \in CodeRow /\ lastCode \in 0..MaxCode
    /\ inbox \in InboxRow /\ request \in [Request -> Row] /\ approved \subseteq Approval
    /\ faults \in 0..MaxFaults /\ shared \subseteq 1..MaxUid /\ mixed \in BOOLEAN
    /\ early \in BOOLEAN /\ spent \subseteq 1..MaxCode
  BY DEF TypeOK, Persons, FirebaseRow, UserRow, CodeRow, InboxRow, Row

(* What the steps write has the types of the rows.                           *)
LEMMA Changes ==
  ASSUME TypeOK
  PROVE  /\ NoFirebase \in FirebaseRow /\ NoUser \in UserRow /\ NoCode \in CodeRow
         /\ [firebase EXCEPT !.verified = TRUE] \in FirebaseRow
         /\ \A p \in Passwords : [firebase EXCEPT !.password = p] \in FirebaseRow
         /\ [user EXCEPT !.verified = TRUE] \in UserRow
         /\ [user EXCEPT !.must = FALSE] \in UserRow
         /\ [user EXCEPT !.active = FALSE, !.must = FALSE] \in UserRow
         /\ \A b \in BOOLEAN : [user EXCEPT !.active = TRUE, !.must = b] \in UserRow
         /\ \A c \in 0..MaxCode : [inbox EXCEPT !.code = c] \in InboxRow
         /\ \A p \in Passwords : [inbox EXCEPT !.password = p] \in InboxRow
         /\ "own" \in Passwords /\ {"none", "invited"} \subseteq Passwords
         /\ \A r \in Request : request[r].round \in Passwords
         /\ CanFail => faults + 1 \in 0..MaxFaults
         /\ \A r \in Request : Mix(r) => mixed' \in BOOLEAN
<1>1. /\ firebase \in FirebaseRow /\ user \in UserRow /\ inbox \in InboxRow
      /\ request \in [Request -> Row]
  BY TypeParts
<1>2. NoFirebase \in FirebaseRow
  BY AccountsAssumption DEF NoFirebase, FirebaseRow, Passwords
<1>3. NoUser \in UserRow
  BY AccountsAssumption DEF NoUser, UserRow
<1>4. NoCode \in CodeRow
  BY AccountsAssumption DEF NoCode, CodeRow
<1>5. /\ [firebase EXCEPT !.verified = TRUE] \in FirebaseRow
      /\ \A p \in Passwords : [firebase EXCEPT !.password = p] \in FirebaseRow
  BY <1>1 DEF FirebaseRow
<1>6. /\ [user EXCEPT !.verified = TRUE] \in UserRow
      /\ [user EXCEPT !.must = FALSE] \in UserRow
      /\ [user EXCEPT !.active = FALSE, !.must = FALSE] \in UserRow
      /\ \A b \in BOOLEAN : [user EXCEPT !.active = TRUE, !.must = b] \in UserRow
  BY <1>1 DEF UserRow
<1>7. /\ \A c \in 0..MaxCode : [inbox EXCEPT !.code = c] \in InboxRow
      /\ \A p \in Passwords : [inbox EXCEPT !.password = p] \in InboxRow
  BY <1>1 DEF InboxRow
<1>8. "own" \in Passwords /\ {"none", "invited"} \subseteq Passwords
      /\ \A r \in Request : request[r].round \in Passwords
  BY <1>1 DEF Passwords, Row
<1>9. CanFail => faults + 1 \in 0..MaxFaults
  BY AccountsAssumption DEF CanFail, TypeOK
<1>10. \A r \in Request : Mix(r) => mixed' \in BOOLEAN
  BY DEF Mix, TypeOK
<1>11. QED
  BY <1>2, <1>3, <1>4, <1>5, <1>6, <1>7, <1>8, <1>9, <1>10

(* Initially every variable has its type;                                    *)
LEMMA TypeInit == Init => TypeOK
<1> SUFFICES ASSUME Init PROVE TypeOK
  OBVIOUS
<1>1. /\ NoFirebase \in FirebaseRow /\ NoUser \in UserRow /\ NoCode \in CodeRow
      /\ [code |-> 0, password |-> "none"] \in InboxRow /\ Idle \in Row
  BY AccountsAssumption DEF NoFirebase, NoUser, NoCode, Idle, FirebaseRow, UserRow, CodeRow,
     InboxRow, Row, Passwords, Steps
<1>2. /\ 0 \in 0..MaxUid /\ 0 \in 0..MaxCode /\ 0 \in 0..MaxFaults
  BY AccountsAssumption
<1>3. QED
  BY <1>1, <1>2, TypeParts DEF Init, Persons

(* the steps that make accounts keep the types,                              *)
LEMMA TypeAccount ==
  ASSUME TypeOK, UidsInv, NEW r \in Request, AccountStep(r)
  PROVE  TypeOK'
<1>t. /\ person \in Persons /\ firebase \in FirebaseRow /\ lastUid \in 0..MaxUid
      /\ user \in UserRow /\ code \in CodeRow /\ lastCode \in 0..MaxCode
      /\ inbox \in InboxRow /\ request \in [Request -> Row] /\ approved \subseteq Approval
      /\ faults \in 0..MaxFaults /\ shared \subseteq 1..MaxUid /\ mixed \in BOOLEAN
      /\ early \in BOOLEAN /\ spent \subseteq 1..MaxCode
  BY TypeParts
<1>c. CanFail => faults + 1 \in 0..MaxFaults
  BY Changes
<1> DEFINE Kept == /\ person' \in Persons /\ code' \in CodeRow /\ lastCode' \in 0..MaxCode
                   /\ inbox' \in InboxRow /\ approved' \subseteq Approval
                   /\ mixed' \in BOOLEAN /\ early' \in BOOLEAN /\ spent' \subseteq 1..MaxCode
<1>k. UNCHANGED notAccounts => Kept
  BY <1>t DEF notAccounts
<1>q. Kept /\ firebase' \in FirebaseRow /\ lastUid' \in 0..MaxUid /\ user' \in UserRow
      /\ request' \in [Request -> Row] /\ faults' \in 0..MaxFaults
      /\ shared' \subseteq 1..MaxUid => TypeOK'
  BY TypeParts DEF TypeOK, Persons, FirebaseRow, UserRow, CodeRow, InboxRow, Row
<1> HIDE DEF Kept
<1>1. ASSUME CreateFirebaseUser(r) PROVE TypeOK'
  <2>1. request' \in [Request -> Row] /\ lastUid' \in 0..MaxUid
    BY <1>1, CreateEnters
  <2>2. lastUid + 1 \in 0..MaxUid
    BY <1>1, <2>1 DEF CreateFirebaseUser
  <2>3. PICK v \in BOOLEAN : v = (person.kind = "ADMIN")
    OBVIOUS
  <2>4. PICK p \in Passwords : p = CASE SignsUp -> "own"
                                 [] person.kind = "ADMIN" -> "invited"
                                 [] OTHER -> "none"
    <3>1. {"own", "invited", "none"} \subseteq Passwords
      BY DEF Passwords
    <3>2. SignsUp \/ (person.kind = "ADMIN" /\ ~SignsUp) \/ (person.kind # "ADMIN" /\ ~SignsUp)
      OBVIOUS
    <3>3. QED
      BY <3>1, <3>2 DEF SignsUp
  <2>5. firebase' = [uid |-> lastUid + 1, google |-> FALSE, password |-> p, verified |-> v]
    BY <1>1, <2>3, <2>4 DEF CreateFirebaseUser
  <2>6. firebase' \in FirebaseRow
    BY <2>2, <2>5 DEF FirebaseRow
  <2>7. user' = user /\ faults' = faults /\ shared' = shared /\ UNCHANGED notAccounts
    BY <1>1 DEF CreateFirebaseUser
  <2>8. QED
    BY <1>t, <1>k, <1>q, <2>1, <2>6, <2>7
<1>2. ASSUME CreateLocalUser(r) PROVE TypeOK'
  <2>1. request' \in [Request -> Row]
    BY <1>2, CreateLocalMoves
  <2>2. NewUser(r) \in UserRow
    <3>1. PICK v \in BOOLEAN : v = (person.kind = "ADMIN")
      OBVIOUS
    <3>2. NewUser(r) = [uid |-> request[r].uid, active |-> FALSE, must |-> v, verified |-> v]
      BY <3>1 DEF NewUser
    <3>3. QED
      BY <1>t, <3>2 DEF UserRow, Row
  <2>3. /\ user' \in UserRow /\ faults' \in 0..MaxFaults
        /\ firebase' = firebase /\ lastUid' = lastUid /\ shared' = shared
        /\ UNCHANGED notAccounts
    BY <1>2, <1>t, <1>c, <2>2 DEF CreateLocalUser
  <2>4. QED
    BY <1>t, <1>k, <1>q, <2>1, <2>3
<1>3. ASSUME DeleteFirebaseUser(r) PROVE TypeOK'
  <2>1. request' \in [Request -> Row]
    BY <1>3, DoneMoves DEF DeleteFirebaseUser
  <2>2. /\ firebase' \in FirebaseRow /\ faults' \in 0..MaxFaults
        /\ user' = user /\ lastUid' = lastUid /\ shared' = shared
        /\ UNCHANGED notAccounts
    BY <1>3, <1>t, <1>c, Changes DEF DeleteFirebaseUser
  <2>3. QED
    BY <1>t, <1>k, <1>q, <2>1, <2>2
<1>4. ASSUME NEW s \in {"register", "login"}, SignInWithGoogle(r, s) PROVE TypeOK'
  <2>1. request' \in [Request -> Row] /\ lastUid' \in 0..MaxUid /\ shared' \subseteq 1..MaxUid
    BY <1>4, GoogleEnters
  <2>2. PICK v \in BOOLEAN : v = (firebase.verified \/ person.google)
    OBVIOUS
  <2>3. PICK u : u = IF firebase.uid = 0 THEN lastUid + 1 ELSE firebase.uid
    OBVIOUS
  <2>4. firebase' = [firebase EXCEPT !.uid = u, !.google = TRUE, !.verified = v]
    BY <1>4, <1>t, <2>2, <2>3 DEF SignInWithGoogle, FirebaseRow
  <2>5. u \in 0..MaxUid
    BY <1>4, <1>t, <2>1, <2>3 DEF SignInWithGoogle, FirebaseRow
  <2>6. firebase' \in FirebaseRow
    BY <1>t, <2>4, <2>5 DEF FirebaseRow
  <2>7. user' = user /\ faults' = faults /\ UNCHANGED notAccounts
    BY <1>4 DEF SignInWithGoogle
  <2>8. QED
    BY <1>t, <1>k, <1>q, <2>1, <2>6, <2>7
<1>5. ASSUME GoogleRegister(r) PROVE TypeOK'
  <2>1. request' \in [Request -> Row]
    BY <1>5, GoogleRegisterMoves
  <2>2. [NoUser EXCEPT !.uid = request[r].uid, !.verified = person.google] \in UserRow
    <3>1. NoUser \in UserRow /\ request[r].uid \in 0..MaxUid /\ person.google \in BOOLEAN
      BY <1>t, Changes DEF Row, Persons
    <3>2. QED
      BY <3>1 DEF UserRow
  <2>3. /\ user' \in UserRow /\ faults' \in 0..MaxFaults
        /\ firebase' = firebase /\ lastUid' = lastUid /\ shared' = shared
        /\ UNCHANGED notAccounts
    BY <1>5, <1>t, <1>c, <2>2 DEF GoogleRegister
  <2>4. QED
    BY <1>t, <1>k, <1>q, <2>1, <2>3
<1>6. ASSUME GoogleLogin(r) PROVE TypeOK'
  <2>1. request' \in [Request -> Row]
    BY <1>6, GoogleLoginMoves
  <2>2. /\ user' = user /\ faults' = faults
        /\ firebase' = firebase /\ lastUid' = lastUid /\ shared' = shared
        /\ UNCHANGED notAccounts
    BY <1>6 DEF GoogleLogin
  <2>3. QED
    BY <1>t, <1>k, <1>q, <2>1, <2>2
<1>7. QED
  BY <1>1, <1>2, <1>3, <1>4, <1>5, <1>6 DEF AccountStep

(* (the types of the next state, by its parts)                               *)
LEMMA TypesNext ==
  ASSUME person' \in Persons, code' \in CodeRow, lastCode' \in 0..MaxCode,
         inbox' \in InboxRow, approved' \subseteq Approval,
         mixed' \in BOOLEAN, early' \in BOOLEAN, spent' \subseteq 1..MaxCode,
         firebase' \in FirebaseRow, lastUid' \in 0..MaxUid, user' \in UserRow,
         request' \in [Request -> Row], faults' \in 0..MaxFaults,
         shared' \subseteq 1..MaxUid
  PROVE  TypeOK'
<1>1. {mixed, early}' \subseteq BOOLEAN
  OBVIOUS
<1>2. request' \in [Request -> [step : Steps, uid : 0..MaxUid, flag : BOOLEAN,
                                code : 0..MaxCode, round : Approval \cup {"none"}]]
  BY DEF Row
<1>3. QED
  BY <1>1, <1>2, Zenon DEF TypeOK, Persons, FirebaseRow, UserRow, CodeRow, InboxRow

(* as do those about the code and the activation,                            *)
LEMMA TypeOther ==
  ASSUME TypeOK, UidsInv, NEW r \in Request, OtherStep(r)
  PROVE  TypeOK'
<1>t. /\ person \in Persons /\ firebase \in FirebaseRow /\ lastUid \in 0..MaxUid
      /\ user \in UserRow /\ code \in CodeRow /\ lastCode \in 0..MaxCode
      /\ inbox \in InboxRow /\ request \in [Request -> Row] /\ approved \subseteq Approval
      /\ faults \in 0..MaxFaults /\ shared \subseteq 1..MaxUid /\ mixed \in BOOLEAN
      /\ early \in BOOLEAN /\ spent \subseteq 1..MaxCode
  BY TypeParts
<1>c. CanFail => faults + 1 \in 0..MaxFaults
  BY Changes
<1>m. Mix(r) => mixed' \in BOOLEAN
  BY Changes
<1>q. (person' \in Persons /\ code' \in CodeRow /\ lastCode' \in 0..MaxCode
      /\ inbox' \in InboxRow /\ approved' \subseteq Approval
      /\ mixed' \in BOOLEAN /\ early' \in BOOLEAN /\ spent' \subseteq 1..MaxCode
      /\ firebase' \in FirebaseRow /\ lastUid' \in 0..MaxUid /\ user' \in UserRow
      /\ request' \in [Request -> Row] /\ faults' \in 0..MaxFaults
      /\ shared' \subseteq 1..MaxUid) => TypeOK'
  BY TypesNext
<1>r. request[r] \in Row /\ request[r].flag \in BOOLEAN /\ request[r].code \in 0..MaxCode
  BY <1>t DEF Row
<1>1. ASSUME TrustGoogle(r) PROVE TypeOK'
  <2>1. request' \in [Request -> Row]
    BY <1>1, DoneMoves DEF TrustGoogle
  <2>2. QED
    BY <1>1, <1>t, <1>c, <1>m, <1>q, <1>r, <2>1, Changes DEF TrustGoogle, notAccounts
<1>2. ASSUME Resend(r) PROVE TypeOK'
  <2>1. request' \in [Request -> Row]
    BY <1>2, ResendMoves
  <2>2. QED
    BY <1>2, <1>t, <1>c, <1>m, <1>q, <1>r, <2>1 DEF Resend, notCode
<1>3. ASSUME IssueMail(r) PROVE TypeOK'
  <2>1. request' \in [Request -> Row]
    BY <1>3, DoneMoves DEF IssueMail
  <2>2. QED
    BY <1>3, <1>t, <1>c, <1>m, <1>q, <1>r, <2>1, Changes DEF IssueMail, notCode
<1>4. ASSUME CheckCode(r) PROVE TypeOK'
  <2>1. request' \in [Request -> Row]
    BY <1>4, CheckMoves
  <2>2. QED
    BY <1>4, <1>t, <1>c, <1>m, <1>q, <1>r, <2>1 DEF CheckCode, notCode
<1>5. ASSUME MarkFirebase(r) PROVE TypeOK'
  <2>1. request' \in [Request -> Row]
    BY <1>5, StepNames, DoneMoves, ToMoves DEF MarkFirebase, AfterCheck
  <2>2. QED
    BY <1>5, <1>t, <1>c, <1>m, <1>q, <1>r, <2>1, Changes DEF MarkFirebase, notAccounts
<1>6. ASSUME MarkUser(r) PROVE TypeOK'
  <2>1. request' \in [Request -> Row]
    BY <1>6, StepNames, DoneMoves, ToMoves DEF MarkUser
  <2>2. QED
    BY <1>6, <1>t, <1>c, <1>m, <1>q, <1>r, <2>1, Changes DEF MarkUser, notAccounts
<1>7. ASSUME SignInVerified(r) PROVE TypeOK'
  <2>1. request' \in [Request -> Row]
    BY <1>7, StepNames, DoneMoves, ToMoves DEF SignInVerified
  <2>2. QED
    BY <1>7, <1>t, <1>c, <1>m, <1>q, <1>r, <2>1 DEF SignInVerified, notCode
<1>8. ASSUME Discard(r) PROVE TypeOK'
  <2>1. request' \in [Request -> Row]
    BY <1>8, DoneMoves DEF Discard
  <2>2. QED
    BY <1>8, <1>t, <1>c, <1>m, <1>q, <1>r, <2>1, Changes DEF Discard, notCode
<1>9. ASSUME Claim(r) PROVE TypeOK'
  <2>1. request' \in [Request -> Row]
    BY <1>9, StepNames, DoneMoves, ToMoves DEF Claim
  <2>2. QED
    BY <1>9, <1>t, <1>c, <1>m, <1>q, <1>r, <2>1, Changes DEF Claim, notActivation
<1>10. ASSUME SetPassword(r) PROVE TypeOK'
  <2>1. request' \in [Request -> Row]
    BY <1>10, StepNames, DoneMoves, ToMoves DEF SetPassword
  <2>2. QED
    BY <1>10, <1>t, <1>c, <1>m, <1>q, <1>r, <2>1, Changes DEF SetPassword, notActivation
<1>11. ASSUME UndoClaim(r) PROVE TypeOK'
  <2>1. request' \in [Request -> Row]
    BY <1>11, DoneMoves DEF UndoClaim
  <2>2. QED
    BY <1>11, <1>t, <1>c, <1>m, <1>q, <1>r, <2>1, Changes DEF UndoClaim, notActivation
<1>12. ASSUME SendInvite(r) PROVE TypeOK'
  <2>1. request' \in [Request -> Row]
    BY <1>12, DoneMoves DEF SendInvite
  <2>2. QED
    BY <1>12, <1>t, <1>c, <1>m, <1>q, <1>r, <2>1, Changes DEF SendInvite, notActivation
<1>13. ASSUME ClearMust(r) PROVE TypeOK'
  <2>1. request' \in [Request -> Row]
    BY <1>13, DoneMoves DEF ClearMust
  <2>2. QED
    BY <1>13, <1>t, <1>c, <1>m, <1>q, <1>r, <2>1, Changes DEF ClearMust, notActivation
<1>14. ASSUME Crash(r) PROVE TypeOK'
  <2>1. request' \in [Request -> Row]
    BY <1>14, DoneMoves DEF Crash
  <2>2. QED
    BY <1>14, <1>t, <1>c, <1>m, <1>q, <1>r, <2>1 DEF Crash, notCode
<1>15. ASSUME NEW a \in Approval, Activate(r, a) PROVE TypeOK'
  <2>1. request' \in [Request -> Row]
    BY <1>15, ActivateMoves
  <2>2. QED
    BY <1>15, <1>t, <1>q, <2>1 DEF Activate, notActivation
<1>16. ASSUME ChangePassword(r) PROVE TypeOK'
  <2>1. request' \in [Request -> Row] /\ [firebase EXCEPT !.password = "own"] \in FirebaseRow
    BY <1>16, ChangeMoves, Changes
  <2>2. early' \in BOOLEAN
    BY <1>16, <1>t DEF ChangePassword
  <2>3. QED
    BY <1>16, <1>t, <1>q, <2>1, <2>2 DEF ChangePassword, notActivation
<1>17. ASSUME WrongCode(r) PROVE TypeOK'
  <2>1. request' \in [Request -> Row] /\ mixed' \in BOOLEAN
        /\ spent' \in {spent, spent \cup {code.id}}
    BY <1>17, <1>m, <1>t, WrongMoves
  <2>2. code.id \in 1..MaxCode
    BY <1>17, <1>t DEF WrongCode, CodeRow
  <2>3. code' \in CodeRow
    <3>1. PICK n : n = IF code.attempts < MaxAttempts THEN code.attempts + 1 ELSE code.attempts
      OBVIOUS
    <3>2. n \in 0..MaxAttempts
      BY <1>t, <3>1, AccountsAssumption DEF CodeRow
    <3>3. code' = [code EXCEPT !.attempts = n]
      BY <1>17, <1>t, <3>1 DEF WrongCode, CodeRow
    <3>4. QED
      BY <1>t, <3>2, <3>3 DEF CodeRow
  <2>4. QED
    BY <1>17, <1>t, <1>q, <2>1, <2>2, <2>3 DEF WrongCode, notCode
<1>18. ASSUME IssueUpsert(r) PROVE TypeOK'
  <2>1. request' \in [Request -> Row] /\ lastCode + 1 \in 1..MaxCode
    BY <1>18, UpsertMoves
  <2>2. code' \in CodeRow /\ lastCode' \in 0..MaxCode
    BY <1>18, <1>t, <2>1, AccountsAssumption DEF IssueUpsert, CodeRow
  <2>3. mixed' \in BOOLEAN
    BY <1>18, <1>m DEF IssueUpsert
  <2>4. QED
    BY <1>18, <1>t, <1>q, <2>1, <2>2, <2>3 DEF IssueUpsert, notCode
<1>19. QED
  BY <1>1, <1>2, <1>3, <1>4, <1>5, <1>6, <1>7, <1>8, <1>9, <1>10, <1>11, <1>12, <1>13, <1>14,
     <1>15, <1>16, <1>17, <1>18 DEF OtherStep

(* the code's ageing and a reset password,                                   *)
LEMMA TypeAlone ==
  ASSUME TypeOK, Age \/ ResetPassword
  PROVE  TypeOK'
<1>t. /\ person \in Persons /\ firebase \in FirebaseRow /\ lastUid \in 0..MaxUid
      /\ user \in UserRow /\ code \in CodeRow /\ lastCode \in 0..MaxCode
      /\ inbox \in InboxRow /\ request \in [Request -> Row] /\ approved \subseteq Approval
      /\ faults \in 0..MaxFaults /\ shared \subseteq 1..MaxUid /\ mixed \in BOOLEAN
      /\ early \in BOOLEAN /\ spent \subseteq 1..MaxCode
  BY TypeParts
<1>q. (person' \in Persons /\ code' \in CodeRow /\ lastCode' \in 0..MaxCode
      /\ inbox' \in InboxRow /\ approved' \subseteq Approval
      /\ mixed' \in BOOLEAN /\ early' \in BOOLEAN /\ spent' \subseteq 1..MaxCode
      /\ firebase' \in FirebaseRow /\ lastUid' \in 0..MaxUid /\ user' \in UserRow
      /\ request' \in [Request -> Row] /\ faults' \in 0..MaxFaults
      /\ shared' \subseteq 1..MaxUid) => TypeOK'
  BY TypesNext
<1>1. ASSUME Age PROVE TypeOK'
  <2>1. code' \in CodeRow
    <3>1. PICK g : g = IF code.age = "new" THEN "cooled" ELSE "expired"
      OBVIOUS
    <3>2. code' = [code EXCEPT !.age = g] /\ g \in {"new", "cooled", "expired"}
      BY <1>1, <1>t, <3>1 DEF Age, CodeRow
    <3>3. QED
      BY <1>t, <3>2 DEF CodeRow
  <2>2. QED
    BY <1>1, <1>t, <1>q, <2>1 DEF Age, notCode
<1>2. ASSUME ResetPassword PROVE TypeOK'
  <2>1. [firebase EXCEPT !.password = "own"] \in FirebaseRow
    BY Changes
  <2>2. early' \in BOOLEAN
    BY <1>2, <1>t DEF ResetPassword
  <2>3. QED
    BY <1>2, <1>t, <1>q, <2>1, <2>2 DEF ResetPassword, notActivation
<1>3. QED
  BY <1>1, <1>2

(* and so every step.                                                        *)
LEMMA TypeStep ==
  ASSUME TypeOK, UidsInv, [Next]_vars
  PROVE  TypeOK'
<1>1. CASE UNCHANGED vars
  BY <1>1 DEF TypeOK, vars
<1>2. QED
  BY <1>1, TypeAccount, TypeOther, TypeAlone, NextIs

CodeInv == CodeAlone /\ CodeStored

(* What the codes and the faults are.                                        *)
LEMMA CodeTypes ==
  ASSUME TypeOK
  PROVE  /\ code.id \in Nat /\ lastCode \in Nat /\ inbox.code \in Nat /\ faults \in Nat
         /\ NoCode.id = 0 /\ NoUser.verified = FALSE /\ NoUser.active = FALSE
         /\ code \in CodeRow /\ inbox \in InboxRow /\ user \in UserRow
  BY TypeParts DEF TypeOK, NoCode, NoUser

(* A step that neither stores nor mails a code: a request may stop writing   *)
(* by failing, and may begin where nobody else writes.                       *)
CodeData ==
  /\ code'.id = code.id /\ lastCode' = lastCode /\ inbox'.code = inbox.code
  /\ mixed' = mixed /\ spent' = spent /\ faults' \in {faults, faults + 1}
  /\ user.verified => user'.verified
CodeMove(r) ==
  /\ OthersStay(r)
  /\ Writing(r) => faults' = faults + 1
  /\ request'[r].step = "signin" => user'.verified
  /\ Writing(r)' => request'[r].step = "issue" /\ \A q \in Request : ~Writing(q)

(* Such a step keeps the code's part of the invariant.                       *)
LEMMA CodeStays ==
  ASSUME TypeOK, CodeInv, CodeData, request' = request \/ \E r \in Request : CodeMove(r)
  PROVE  CodeInv'
<1>1. /\ code.id \in Nat /\ lastCode \in Nat /\ inbox.code \in Nat /\ faults \in Nat
  BY CodeTypes
<1>2. CASE request' = request
  <2>1. CodeAlone'
    BY <1>2 DEF CodeInv, CodeAlone, CodeData, Writing
  <2>2. CodeStored'
    BY <1>1, <1>2 DEF CodeInv, CodeStored, CodeData
  <2>3. QED
    BY <2>1, <2>2 DEF CodeInv
<1>3. ASSUME NEW r \in Request, CodeMove(r) PROVE CodeInv'
  <2>1. \A q \in Request : q # r => request'[q] = request[q] /\ Writing(q)' = Writing(q)
    BY <1>3 DEF CodeMove, OthersStay, Writing
  <2>2. Writing(r)' => request'[r].step = "issue" /\ \A q \in Request : ~Writing(q)
    BY <1>3 DEF CodeMove
  <2>3. CodeAlone'
    <3>1. \A q \in Request : request'[q].step = "signin" => user'.verified
      BY <1>3, <2>1 DEF CodeMove, CodeInv, CodeAlone, CodeData
    <3>2. ~mixed' => \A p, q \in Request : Writing(p)' /\ Writing(q)' => p = q
      BY <2>1, <2>2 DEF CodeInv, CodeAlone, CodeData
    <3>3. request'[r].step \notin {"mail", "discard"}
      BY <2>2 DEF Writing
    <3>4. ~mixed' => \A q \in Request :
            /\ request'[q].step = "mail" => /\ code'.id = request'[q].code
                                            /\ request'[q].code = lastCode'
                                            /\ inbox'.code < lastCode'
            /\ request'[q].step = "discard" => user'.verified \/ code'.id \in spent'
      BY <2>1, <3>3 DEF CodeInv, CodeAlone, CodeData
    <3>5. ~mixed' => inbox'.code <= lastCode'
      BY DEF CodeInv, CodeAlone, CodeData
    <3>6. QED
      BY <3>1, <3>2, <3>4, <3>5 DEF CodeAlone
  <2>4. CodeStored'
    <3> SUFFICES ASSUME ~mixed', ~user'.verified, inbox'.code # 0,
                        code'.id # inbox'.code, inbox'.code \notin spent',
                        \A q \in Request : request'[q].step # "mail"
                 PROVE  lastCode' > inbox'.code /\ faults' > 0
      BY DEF CodeStored
    <3>1. CASE lastCode > inbox.code /\ faults > 0
      BY <1>1, <3>1 DEF CodeData
    <3>2. CASE \E q \in Request : request[q].step = "mail"
      <4>1. request[r].step = "mail"
        BY <2>1, <3>2
      <4>2. lastCode > inbox.code
        BY <1>1, <4>1 DEF CodeInv, CodeAlone, CodeData
      <4>3. faults' = faults + 1
        BY <1>3, <4>1 DEF CodeMove, Writing
      <4>4. QED
        BY <1>1, <4>2, <4>3 DEF CodeData
    <3>3. QED
      BY <3>1, <3>2 DEF CodeInv, CodeStored, CodeData
  <2>5. QED
    BY <2>3, <2>4 DEF CodeInv
<1>4. QED
  BY <1>2, <1>3

(* Without a user nobody has come past making the account. *)
LEMMA NoUserNoStep ==
  ASSUME TypeOK, UidsInv, user.uid = 0
  PROVE  /\ \A q \in Request : request[q].step = "idle" \/ Making(q)
         /\ \A q \in Request : ~Writing(q)
         /\ ~user.verified /\ ~user.active
<1>1. user = NoUser /\ NoUser.verified = FALSE /\ NoUser.active = FALSE
  BY CodeTypes DEF UidsInv, UidsKnown
<1>2. \A q \in Request : request[q].step = "idle" \/ Making(q)
  BY DEF UidsInv, UidsKnown
<1>3. QED
  BY <1>1, <1>2 DEF Writing, Making

(* The steps that make accounts are such: a code is issued to a new user,    *)
(* when nobody else can be writing one.                                      *)
LEMMA CodeAccount ==
  ASSUME TypeOK, UidsInv, CodeInv, NEW r \in Request, AccountStep(r)
  PROVE  CodeInv'
<1>1. ASSUME OthersStay(r), UNCHANGED notAccounts, Making(r) \/ request[r] = Idle,
             request'[r].step \notin {"signin", "mail", "discard"},
             request'[r].step = "issue" => user.uid = 0,
             user' = user \/ user.uid = 0, faults' \in {faults, faults + 1}
      PROVE  CodeInv'
  <2>1. CodeData
    BY <1>1, NoUserNoStep DEF CodeData, notAccounts
  <2>2. ~Writing(r)
    BY <1>1 DEF Writing, Making, Idle
  <2>3. CodeMove(r)
    BY <1>1, <2>2, NoUserNoStep DEF CodeMove, Writing
  <2>4. QED
    BY <2>1, <2>3, CodeStays
<1>2. CASE CreateFirebaseUser(r)
  <2>1. Enters(r) /\ request'[r].step = "created"
    BY <1>2, CreateEnters
  <2>2. QED
    BY <1>1, <1>2, <2>1 DEF Enters, CreateFirebaseUser
<1>3. CASE CreateLocalUser(r)
  <2>1. /\ OthersStay(r)
        /\ request'[r].step \in {"idle", "issue", "undo"}
        /\ request'[r].step = "issue" => user.uid = 0
        /\ user.uid # 0 => user' = user
    BY <1>3, CreateLocalMoves DEF Writes, Yields
  <2>2. QED
    BY <1>1, <1>3, <2>1 DEF CreateLocalUser, Making
<1>4. CASE DeleteFirebaseUser(r)
  <2>1. OthersStay(r) /\ request'[r].step = "idle"
    BY <1>4, DoneMoves DEF DeleteFirebaseUser
  <2>2. QED
    BY <1>1, <1>4, <2>1 DEF DeleteFirebaseUser, Making
<1>5. ASSUME NEW s \in {"register", "login"}, SignInWithGoogle(r, s) PROVE CodeInv'
  <2>1. Enters(r) /\ request'[r].step = s
    BY <1>5, GoogleEnters
  <2>2. QED
    BY <1>1, <1>5, <2>1 DEF Enters, SignInWithGoogle
<1>6. CASE GoogleRegister(r)
  <2>1. /\ OthersStay(r)
        /\ request'[r].step \in {"idle", "issue", "undo"}
        /\ request'[r].step = "issue" => user.uid = 0
        /\ user.uid # 0 => user' = user
    BY <1>6, GoogleRegisterMoves DEF Writes, Yields
  <2>2. QED
    BY <1>1, <1>6, <2>1 DEF GoogleRegister, Making
<1>7. CASE GoogleLogin(r)
  <2>1. OthersStay(r) /\ request'[r].step \in {"idle", "trust", "undo"}
    BY <1>7, GoogleLoginMoves DEF Yields
  <2>2. QED
    BY <1>1, <1>7, <2>1 DEF GoogleLogin, Making
<1>8. QED
  BY <1>2, <1>3, <1>4, <1>5, <1>6, <1>7 DEF AccountStep

(* So are the steps that neither write nor read a code.                      *)
LEMMA CodeNeutral ==
  ASSUME TypeOK, UidsInv, CodeInv, NEW r \in Request,
         \/ TrustGoogle(r) \/ CheckCode(r) \/ MarkFirebase(r) \/ MarkUser(r)
         \/ Claim(r) \/ SetPassword(r) \/ UndoClaim(r) \/ SendInvite(r) \/ ClearMust(r)
         \/ ChangePassword(r) \/ Crash(r) \/ \E a \in Approval : Activate(r, a)
  PROVE  CodeInv'
<1>t. /\ user \in UserRow /\ inbox \in InboxRow /\ faults \in Nat
      /\ user.verified \in BOOLEAN
      /\ [user EXCEPT !.verified = TRUE].verified = TRUE
      /\ [user EXCEPT !.must = FALSE].verified = user.verified
      /\ [user EXCEPT !.active = FALSE, !.must = FALSE].verified = user.verified
      /\ [user EXCEPT !.active = TRUE, !.must = request[r].flag].verified = user.verified
      /\ [inbox EXCEPT !.password = request[r].round].code = inbox.code
  BY CodeTypes DEF UserRow, InboxRow
<1>1. CASE TrustGoogle(r)
  <2>1. OthersStay(r) /\ request'[r].step = "idle"
    BY <1>1, DoneMoves DEF TrustGoogle
  <2>2. CodeData
    BY <1>1, <1>t DEF CodeData, TrustGoogle, notAccounts
  <2>3. ~Writing(r)
    BY <1>1 DEF Writing, Idle, TrustGoogle
  <2>4. CodeMove(r)
    BY <1>1, <2>1, <2>3, <1>t DEF CodeMove, Writing, TrustGoogle, notAccounts
  <2>5. QED
    BY <2>2, <2>4, CodeStays
<1>2. CASE CheckCode(r)
  <2>1. OthersStay(r) /\ request'[r].step = "checked"
    BY <1>2, CheckMoves
  <2>2. CodeData
    BY <1>2, <1>t DEF CodeData, CheckCode, notCode
  <2>3. ~Writing(r)
    BY <1>2 DEF Writing, Idle, CheckCode
  <2>4. CodeMove(r)
    BY <1>2, <2>1, <2>3, <1>t DEF CodeMove, Writing, CheckCode, notCode
  <2>5. QED
    BY <2>2, <2>4, CodeStays
<1>3. CASE MarkFirebase(r)
  <2>1. OthersStay(r) /\ request'[r].step \in {"idle", "marked"}
    BY <1>3, StepNames, DoneMoves, ToMoves DEF MarkFirebase, AfterCheck
  <2>2. CodeData
    BY <1>3, <1>t DEF CodeData, MarkFirebase, notAccounts
  <2>3. ~Writing(r)
    BY <1>3 DEF Writing, Idle, MarkFirebase
  <2>4. CodeMove(r)
    BY <1>3, <2>1, <2>3, <1>t DEF CodeMove, Writing, MarkFirebase, notAccounts
  <2>5. QED
    BY <2>2, <2>4, CodeStays
<1>4. CASE MarkUser(r)
  <2>1. OthersStay(r) /\ request'[r].step = "signin"
    BY <1>4, StepNames, DoneMoves, ToMoves DEF MarkUser
  <2>2. CodeData
    BY <1>4, <1>t DEF CodeData, MarkUser, notAccounts
  <2>3. ~Writing(r)
    BY <1>4 DEF Writing, Idle, MarkUser
  <2>4. CodeMove(r)
    BY <1>4, <2>1, <2>3, <1>t DEF CodeMove, Writing, MarkUser, notAccounts
  <2>5. QED
    BY <2>2, <2>4, CodeStays
<1>5. CASE Claim(r)
  <2>1. OthersStay(r) /\ request'[r].step \in {"idle", "set", "invite"}
    BY <1>5, StepNames, DoneMoves, ToMoves DEF Claim
  <2>2. CodeData
    BY <1>5, <1>t DEF CodeData, Claim, notActivation
  <2>3. ~Writing(r)
    BY <1>5 DEF Writing, Idle, Claim
  <2>4. CodeMove(r)
    BY <1>5, <2>1, <2>3, <1>t DEF CodeMove, Writing, Claim, notActivation
  <2>5. QED
    BY <2>2, <2>4, CodeStays
<1>6. CASE SetPassword(r)
  <2>1. OthersStay(r) /\ request'[r].step \in {"invite", "unset"}
    BY <1>6, StepNames, DoneMoves, ToMoves DEF SetPassword
  <2>2. CodeData
    BY <1>6, <1>t DEF CodeData, SetPassword, notActivation
  <2>3. ~Writing(r)
    BY <1>6 DEF Writing, Idle, SetPassword
  <2>4. CodeMove(r)
    BY <1>6, <2>1, <2>3, <1>t DEF CodeMove, Writing, SetPassword, notActivation
  <2>5. QED
    BY <2>2, <2>4, CodeStays
<1>7. CASE UndoClaim(r)
  <2>1. OthersStay(r) /\ request'[r].step = "idle"
    BY <1>7, DoneMoves DEF UndoClaim
  <2>2. CodeData
    BY <1>7, <1>t DEF CodeData, UndoClaim, notActivation
  <2>3. ~Writing(r)
    BY <1>7 DEF Writing, Idle, UndoClaim
  <2>4. CodeMove(r)
    BY <1>7, <2>1, <2>3, <1>t DEF CodeMove, Writing, UndoClaim, notActivation
  <2>5. QED
    BY <2>2, <2>4, CodeStays
<1>8. CASE SendInvite(r)
  <2>1. OthersStay(r) /\ request'[r].step = "idle"
    BY <1>8, DoneMoves DEF SendInvite
  <2>2. CodeData
    BY <1>8, <1>t DEF CodeData, SendInvite, notActivation
  <2>3. ~Writing(r)
    BY <1>8 DEF Writing, Idle, SendInvite
  <2>4. CodeMove(r)
    BY <1>8, <2>1, <2>3, <1>t DEF CodeMove, Writing, SendInvite, notActivation
  <2>5. QED
    BY <2>2, <2>4, CodeStays
<1>9. CASE ClearMust(r)
  <2>1. OthersStay(r) /\ request'[r].step = "idle"
    BY <1>9, DoneMoves DEF ClearMust
  <2>2. CodeData
    BY <1>9, <1>t DEF CodeData, ClearMust, notActivation
  <2>3. ~Writing(r)
    BY <1>9 DEF Writing, Idle, ClearMust
  <2>4. CodeMove(r)
    BY <1>9, <2>1, <2>3, <1>t DEF CodeMove, Writing, ClearMust, notActivation
  <2>5. QED
    BY <2>2, <2>4, CodeStays
<1>10. CASE ChangePassword(r)
  <2>1. CodeData
    BY <1>10, <1>t DEF CodeData, ChangePassword, notActivation
  <2>2. request' = request \/ CodeMove(r)
    <3>1. request' = request \/ (OthersStay(r) /\ request'[r].step = "change")
      BY <1>10, ChangeMoves
    <3>2. ~Writing(r)
      BY <1>10 DEF ChangePassword, Writing, Idle
    <3>3. QED
      BY <3>1, <3>2 DEF CodeMove, Writing
  <2>3. QED
    BY <2>1, <2>2, CodeStays
<1>11. CASE Crash(r)
  <2>1. CodeData
    BY <1>11, <1>t DEF CodeData, Crash, notCode
  <2>2. CodeMove(r)
    <3>1. OthersStay(r) /\ request'[r].step = "idle"
      BY <1>11, DoneMoves DEF Crash
    <3>2. QED
      BY <1>11, <3>1 DEF CodeMove, Writing, Crash
  <2>3. QED
    BY <2>1, <2>2, CodeStays
<1>12. ASSUME NEW a \in Approval, Activate(r, a) PROVE CodeInv'
  <2>1. CodeData
    BY <1>12, <1>t DEF CodeData, Activate, notActivation
  <2>2. request' = request \/ CodeMove(r)
    <3>1. request' = request \/ (OthersStay(r) /\ request'[r].step = "claim"
                                 /\ request[r].step = "idle")
      BY <1>12, ActivateMoves
    <3>2. QED
      BY <3>1 DEF CodeMove, Writing
  <2>3. QED
    BY <2>1, <2>2, CodeStays
<1>13. QED
  BY <1>1, <1>2, <1>3, <1>4, <1>5, <1>6, <1>7, <1>8, <1>9, <1>10, <1>11, <1>12

(* Who begins to write alone leaves the code unmixed. *)
LEMMA MixAlone ==
  ASSUME NEW r \in Request, Mix(r)
  PROVE  ~mixed' => ~mixed /\ \A q \in Request : q # r => ~Writing(q)
  BY DEF Mix

(* A resend begins to write, alone or mixed;                                 *)
LEMMA CodeResend ==
  ASSUME TypeOK, CodeInv, NEW r \in Request, Resend(r)
  PROVE  CodeInv'
<1>1. /\ OthersStay(r) /\ request'[r].step = "issue" /\ request[r].step = "idle"
      /\ code' = code /\ lastCode' = lastCode /\ inbox' = inbox /\ spent' = spent
      /\ user' = user /\ faults' = faults
      /\ ~mixed' => ~mixed /\ \A q \in Request : q # r => ~Writing(q)
  <2>1. Mix(r)
    BY DEF Resend
  <2>2. ~mixed' => ~mixed /\ \A q \in Request : q # r => ~Writing(q)
    BY <2>1, MixAlone
  <2>3. OthersStay(r) /\ request'[r].step = "issue"
    BY ResendMoves
  <2>4. QED
    BY <2>2, <2>3 DEF Resend, notCode, Idle
<1>2. \A q \in Request : q # r => request'[q] = request[q] /\ Writing(q)' = Writing(q)
  BY <1>1 DEF OthersStay, Writing
<1>3. CodeAlone'
  BY <1>1, <1>2 DEF CodeInv, CodeAlone
<1>4. CodeStored'
  BY <1>1, <1>2 DEF CodeInv, CodeStored
<1>5. QED
  BY <1>3, <1>4 DEF CodeInv

(* the new code is the newest, and about to be mailed;                       *)
LEMMA CodeUpsert ==
  ASSUME TypeOK, CodeInv, NEW r \in Request, IssueUpsert(r)
  PROVE  CodeInv'
<1>1. /\ OthersStay(r) /\ request'[r].step = "mail" /\ request'[r].code = lastCode + 1
      /\ code'.id = lastCode + 1 /\ lastCode' = lastCode + 1 /\ inbox' = inbox
      /\ user' = user
      /\ ~mixed' => ~mixed /\ \A q \in Request : q # r => ~Writing(q)
  BY UpsertMoves, MixAlone DEF IssueUpsert, notCode
<1>2. \A q \in Request : q # r => request'[q] = request[q] /\ Writing(q)' = Writing(q)
  BY <1>1 DEF OthersStay, Writing
<1>3. lastCode \in Nat /\ inbox.code \in Nat
  BY CodeTypes
<1>4. CodeAlone'
  <2>1. ~mixed' => inbox.code <= lastCode
    BY <1>1 DEF CodeInv, CodeAlone
  <2>2. \A q \in Request : request'[q].step = "signin" => user'.verified
    BY <1>1, <1>2 DEF CodeInv, CodeAlone
  <2>3. ~mixed' => \A q \in Request : Writing(q)' => q = r
    BY <1>1, <1>2
  <2>4. ~mixed' => \A q \in Request : request'[q].step \in {"mail", "discard"} => q = r
    BY <2>3 DEF Writing
  <2>5. QED
    BY <1>1, <1>3, <2>1, <2>2, <2>3, <2>4 DEF CodeAlone
<1>5. CodeStored'
  BY <1>1 DEF CodeStored
<1>6. QED
  BY <1>4, <1>5 DEF CodeInv

(* the mailed code is the stored one, or the mail failed;                    *)
LEMMA CodeMail ==
  ASSUME TypeOK, CodeInv, NEW r \in Request, IssueMail(r)
  PROVE  CodeInv'
<1>1. /\ OthersStay(r) /\ request'[r].step = "idle" /\ request[r].step = "mail"
      /\ code' = code /\ lastCode' = lastCode /\ mixed' = mixed /\ spent' = spent
      /\ user' = user
      /\ \/ inbox'.code = request[r].code
         \/ inbox' = inbox /\ faults' = faults + 1
  BY CodeTypes, DoneMoves DEF IssueMail, notCode, InboxRow
<1>2. \A q \in Request : q # r => request'[q] = request[q] /\ Writing(q)' = Writing(q)
  BY <1>1 DEF OthersStay, Writing
<1>3. lastCode \in Nat /\ inbox.code \in Nat /\ faults \in Nat /\ ~Writing(r)' /\ Writing(r)
  BY <1>1, CodeTypes DEF Writing
<1>4. ~mixed => /\ code.id = request[r].code /\ request[r].code = lastCode
                /\ inbox.code < lastCode /\ inbox'.code <= lastCode
                /\ \A q \in Request : ~Writing(q)'
  <2>1. ~mixed => \A q \in Request : Writing(q) => q = r
    BY <1>3 DEF CodeInv, CodeAlone
  <2>2. QED
    BY <1>1, <1>2, <1>3, <2>1 DEF CodeInv, CodeAlone
<1>5. CodeAlone'
  <2>1. \A q \in Request : request'[q].step = "signin" => user'.verified
    BY <1>1, <1>2 DEF CodeInv, CodeAlone
  <2>2. \A q \in Request : request'[q].step \in {"mail", "discard"} => Writing(q)'
    BY DEF Writing
  <2>3. QED
    BY <1>1, <1>4, <2>1, <2>2 DEF CodeAlone
<1>6. CodeStored'
  BY <1>1, <1>3, <1>4 DEF CodeStored
<1>7. QED
  BY <1>5, <1>6 DEF CodeInv

(* a code guessed at too often is spent before it is discarded;              *)
LEMMA CodeWrong ==
  ASSUME TypeOK, CodeInv, NEW r \in Request, WrongCode(r)
  PROVE  CodeInv'
<1>1. /\ OthersStay(r) /\ request[r].step = "idle"
      /\ code'.id = code.id /\ lastCode' = lastCode /\ inbox' = inbox
      /\ user' = user /\ faults' = faults
  BY CodeTypes, WrongMoves DEF WrongCode, notCode, Idle, CodeRow
<1>2. CASE request' = request /\ spent' = spent /\ mixed' = mixed
  <2>1. CodeData
    BY <1>1, <1>2 DEF CodeData
  <2>2. QED
    BY <1>2, <2>1, CodeStays
<1>3. CASE request'[r].step = "discard" /\ spent' = spent \cup {code.id} /\ Mix(r)
  <2>1. ~mixed' => ~mixed /\ \A q \in Request : q # r => ~Writing(q)
    BY <1>3, MixAlone
  <2>2. \A q \in Request : q # r => request'[q] = request[q] /\ Writing(q)' = Writing(q)
    BY <1>1 DEF OthersStay, Writing
  <2>3. CodeAlone'
    BY <1>1, <1>3, <2>1, <2>2 DEF CodeInv, CodeAlone, Writing
  <2>4. CodeStored'
    BY <1>1, <1>3, <2>1, <2>2 DEF CodeInv, CodeStored
  <2>5. QED
    BY <2>3, <2>4 DEF CodeInv
<1>4. QED
  BY <1>2, <1>3, WrongMoves

(* who is signed in is verified;                                             *)
LEMMA CodeSignIn ==
  ASSUME TypeOK, CodeInv, NEW r \in Request, SignInVerified(r)
  PROVE  CodeInv'
<1>1. /\ OthersStay(r) /\ request[r].step = "signin"
      /\ request'[r].step \in {"idle", "discard"}
      /\ request'[r].step = "discard" => Mix(r)
      /\ request'[r].step = "idle" => mixed' = mixed
      /\ code' = code /\ lastCode' = lastCode /\ inbox' = inbox /\ user' = user
  <2>1. "discard" \in Steps
    BY DEF Steps
  <2>2. CASE request' = Done(r) /\ mixed' = mixed
    BY <2>2, DoneMoves DEF SignInVerified, notCode
  <2>3. CASE request' = To(r, "discard") /\ Mix(r)
    BY <2>1, <2>3, ToMoves DEF SignInVerified, notCode
  <2>4. QED
    BY <2>2, <2>3 DEF SignInVerified
<1>2. user'.verified
  BY <1>1 DEF CodeInv, CodeAlone
<1>3. ~mixed' => /\ ~mixed
                 /\ request'[r].step = "discard" => \A q \in Request : q # r => ~Writing(q)
  BY <1>1, MixAlone
<1>4. \A q \in Request : q # r => request'[q] = request[q] /\ Writing(q)' = Writing(q)
  BY <1>1 DEF OthersStay, Writing
<1>5. spent' = spent
  BY DEF SignInVerified
<1>6. CodeAlone'
  BY <1>1, <1>2, <1>3, <1>4, <1>5 DEF CodeInv, CodeAlone, Writing
<1>7. CodeStored'
  BY <1>2 DEF CodeStored
<1>8. QED
  BY <1>6, <1>7 DEF CodeInv

(* and what is discarded is spent or no longer needed.                       *)
LEMMA CodeDiscard ==
  ASSUME TypeOK, CodeInv, NEW r \in Request, Discard(r)
  PROVE  CodeInv'
<1>1. /\ OthersStay(r) /\ request'[r].step = "idle" /\ request[r].step = "discard"
      /\ code' = NoCode /\ lastCode' = lastCode /\ inbox' = inbox /\ mixed' = mixed
      /\ spent' = spent /\ user' = user /\ faults' = faults
  BY DoneMoves DEF Discard, notCode
<1>2. \A q \in Request : q # r => request'[q] = request[q] /\ Writing(q)' = Writing(q)
  BY <1>1 DEF OthersStay, Writing
<1>3. ~mixed => /\ \A q \in Request : Writing(q) => q = r
                /\ user.verified \/ code.id \in spent
  BY <1>1 DEF CodeInv, CodeAlone, Writing
<1>4. \A q \in Request : request[q].step \in {"mail", "discard"} => Writing(q)
  BY DEF Writing
<1>5. CodeAlone'
  BY <1>1, <1>2, <1>3, <1>4 DEF CodeInv, CodeAlone, Writing
<1>6. CodeStored'
  BY <1>1, <1>2, <1>3, <1>4 DEF CodeInv, CodeStored
<1>7. QED
  BY <1>5, <1>6 DEF CodeInv

(* Every step keeps the code's part of the invariant.                        *)
LEMMA CodeStep ==
  ASSUME TypeOK, UidsInv, CodeInv, [Next]_vars
  PROVE  CodeInv'
<1>1. CASE UNCHANGED vars
  BY <1>1 DEF CodeInv, CodeAlone, CodeStored, Writing, vars
<1>2. CASE Age \/ ResetPassword
  <2>1. CodeData /\ request' = request
    BY <1>2, CodeTypes DEF CodeData, Age, ResetPassword, notCode, notActivation, CodeRow
  <2>2. QED
    BY <2>1, CodeStays
<1>3. ASSUME NEW r \in Request, OtherStep(r) PROVE CodeInv'
  BY <1>3, CodeNeutral, CodeResend, CodeUpsert, CodeMail, CodeWrong, CodeSignIn, CodeDiscard
  DEF OtherStep
<1>4. QED
  BY <1>1, <1>2, <1>3, CodeAccount, NextIs

ActInv == OneOwner /\ PasswordHeld
Late(q) == request[q].step \in {"claim", "set", "unset", "invite", "change"}

(* Nobody is activating and nothing was mailed. *)
LEMMA ActVacuous ==
  ASSUME \A q \in Request : ~Late(q)', inbox'.password = "none"
  PROVE  ActInv'
<1>1. \A q \in Request :
        request'[q].step \notin {"claim", "set", "unset", "invite", "change"}
  BY DEF Late
<1>2. QED
  BY <1>1 DEF ActInv, OneOwner, PasswordHeld, Owns

(* A step that leaves the activation alone, but may end a request. *)
ActFrame ==
  /\ user'.uid = user.uid /\ user'.active = user.active /\ user'.must = user.must
  /\ inbox'.password = inbox.password /\ early' = early
  /\ Usable' => Usable /\ firebase'.password = firebase.password
  /\ \A q \in Request : Late(q)' => request'[q] = request[q]

(* Such a step keeps the activation's part of the invariant.                 *)
LEMMA ActStays ==
  ASSUME ActInv, ActFrame
  PROVE  ActInv'
<1>1. \A q \in Request : Late(q)' => Late(q) /\ request'[q] = request[q]
  BY DEF ActFrame, Late
<1>2. \A q \in Request : Owns(q)' => Owns(q) /\ request'[q] = request[q]
  BY <1>1 DEF Owns, Late
<1>3. \A q \in Request : request'[q].step \in {"claim", "set", "unset", "invite", "change"} =>
        request'[q] = request[q]
  BY <1>1 DEF Late
<1>4. OneOwner'
  BY <1>2, <1>3 DEF ActInv, OneOwner, ActFrame
<1>5. PasswordHeld'
  <2> SUFFICES ASSUME Usable', ~early' PROVE
        /\ firebase'.password = "own" =>
             \A q \in Request : request'[q].step \in {"claim", "set"} => ~request'[q].flag
        /\ \A q \in Request :
             /\ request'[q].step = "change" => firebase'.password = "own"
             /\ request'[q].step = "set" => user'.must
             /\ request'[q].step = "invite" /\ request'[q].flag =>
                  firebase'.password = "own" \/
                  (firebase'.password = request'[q].round /\ user'.must)
        /\ inbox'.password # "none" =>
             firebase'.password = "own" \/ (firebase'.password = inbox'.password /\ user'.must)
    BY DEF PasswordHeld, Held
  <2>1. Usable /\ ~early /\ firebase'.password = firebase.password
    BY DEF ActFrame
  <2>2. QED
    BY <1>3, <2>1 DEF ActInv, PasswordHeld, ActFrame, Held
<1>6. QED
  BY <1>4, <1>5 DEF ActInv

(* The steps that make accounts are such: without a user nobody activates,   *)
(* and with one they touch neither it nor the password it signs in with.     *)
LEMMA ActAccount ==
  ASSUME TypeOK, UidsInv, ActInv, NEW r \in Request, AccountStep(r)
  PROVE  ActInv'
<1>1. /\ OthersStay(r) /\ ~Late(r)' /\ inbox' = inbox /\ early' = early
      /\ user' = user \/ user.uid = 0
      /\ firebase' = firebase \/ firebase'.uid = 0 \/ (firebase.uid = 0 /\ firebase'.uid = lastUid + 1)
         \/ (firebase'.uid = firebase.uid /\ firebase'.password = firebase.password)
  <2>1. CASE CreateFirebaseUser(r)
    <3>1. OthersStay(r) /\ request'[r].step = "created"
      BY <2>1, CreateEnters DEF Enters
    <3>2. QED
      BY <2>1, <3>1 DEF CreateFirebaseUser, notAccounts, Late
  <2>2. CASE CreateLocalUser(r)
    <3>1. /\ OthersStay(r) /\ request'[r].step \in {"idle", "issue", "undo"}
          /\ user.uid # 0 => user' = user
      BY <2>2, CreateLocalMoves DEF Writes, Yields
    <3>2. QED
      BY <2>2, <3>1 DEF CreateLocalUser, notAccounts, Late
  <2>3. CASE DeleteFirebaseUser(r)
    <3>1. OthersStay(r) /\ request'[r].step = "idle"
      BY <2>3, DoneMoves DEF DeleteFirebaseUser
    <3>2. QED
      BY <2>3, <3>1 DEF DeleteFirebaseUser, notAccounts, Late, NoFirebase
  <2>4. ASSUME NEW s \in {"register", "login"}, SignInWithGoogle(r, s)
        PROVE  /\ OthersStay(r) /\ ~Late(r)' /\ inbox' = inbox /\ early' = early /\ user' = user
               /\ \/ firebase.uid = 0 /\ firebase'.uid = lastUid + 1
                  \/ firebase'.uid = firebase.uid /\ firebase'.password = firebase.password
    <3>1. Enters(r) /\ request'[r].step = s
      BY <2>4, GoogleEnters
    <3>2. firebase'.password = firebase.password
      <4>1. firebase \in FirebaseRow
        BY TypeParts
      <4>2. QED
        BY <2>4, <4>1 DEF SignInWithGoogle, FirebaseRow
    <3>3. QED
      BY <2>4, <3>1, <3>2 DEF Enters, SignInWithGoogle, notAccounts, Late
  <2>5. CASE GoogleRegister(r)
    <3>1. /\ OthersStay(r) /\ request'[r].step \in {"idle", "issue", "undo"}
          /\ user.uid # 0 => user' = user
      BY <2>5, GoogleRegisterMoves DEF Writes, Yields
    <3>2. QED
      BY <2>5, <3>1 DEF GoogleRegister, notAccounts, Late
  <2>6. CASE GoogleLogin(r)
    <3>1. OthersStay(r) /\ request'[r].step \in {"idle", "trust", "undo"}
      BY <2>6, GoogleLoginMoves DEF Yields
    <3>2. QED
      BY <2>6, <3>1 DEF GoogleLogin, notAccounts, Late
  <2>7. QED
    BY <2>1, <2>2, <2>3, <2>4, <2>5, <2>6 DEF AccountStep
<1>2. CASE user.uid = 0
  <2>1. \A q \in Request : ~Late(q)
    BY <1>2, NoUserNoStep DEF Late, Making
  <2>2. \A q \in Request : ~Late(q)'
    BY <1>1, <2>1 DEF OthersStay, Late
  <2>3. inbox.password = "none"
    BY <1>2, NoUserNoStep DEF ActInv, OneOwner
  <2>4. QED
    BY <1>1, <2>2, <2>3, ActVacuous
<1>3. CASE user.uid # 0
  <2>1. user' = user
    BY <1>1, <1>3
  <2>2. user.uid <= lastUid /\ lastUid \in Nat /\ user.uid \in Nat
    BY UidTypes DEF UidsInv, UidsKnown
  <2>3. Usable' => Usable /\ firebase'.password = firebase.password
    BY <1>1, <1>3, <2>1, <2>2 DEF Usable
  <2>4. \A q \in Request : Late(q)' => request'[q] = request[q]
    BY <1>1 DEF OthersStay
  <2>5. QED
    BY <1>1, <2>1, <2>3, <2>4, ActStays DEF ActFrame
<1>4. QED
  BY <1>2, <1>3

(* The steps that only read the activation, or end a request. *)
LEMMA ActNeutral ==
  ASSUME TypeOK, ActInv, NEW r \in Request,
         \/ TrustGoogle(r) \/ Resend(r) \/ IssueUpsert(r) \/ IssueMail(r) \/ CheckCode(r)
         \/ WrongCode(r) \/ MarkFirebase(r) \/ MarkUser(r) \/ SignInVerified(r)
         \/ Discard(r) \/ Crash(r)
  PROVE  ActInv'
<1>t. /\ firebase \in FirebaseRow /\ user \in UserRow /\ inbox \in InboxRow
      /\ request \in [Request -> Row]
  BY TypeParts
<1>1. ASSUME OthersStay(r), request' = request \/ ~Late(r)',
             /\ user' = user \/ user' = [user EXCEPT !.verified = TRUE]
             /\ firebase' = firebase \/ firebase' = [firebase EXCEPT !.verified = TRUE],
             inbox' = inbox \/ \E c \in 0..MaxCode : inbox' = [inbox EXCEPT !.code = c],
             early' = early
      PROVE  ActInv'
  <2>1. user'.uid = user.uid /\ user'.active = user.active /\ user'.must = user.must
    BY <1>1, <1>t DEF UserRow
  <2>2. firebase'.uid = firebase.uid /\ firebase'.password = firebase.password
    BY <1>1, <1>t DEF FirebaseRow
  <2>3. inbox'.password = inbox.password
    BY <1>1, <1>t DEF InboxRow
  <2>4. \A q \in Request : Late(q)' => request'[q] = request[q]
    BY <1>1 DEF OthersStay
  <2>5. Usable' => Usable /\ firebase'.password = firebase.password
    BY <2>1, <2>2 DEF Usable
  <2>6. QED
    BY <1>1, <2>1, <2>3, <2>4, <2>5, ActStays DEF ActFrame
<1>2. CASE TrustGoogle(r)
  BY <1>1, <1>2, DoneMoves DEF TrustGoogle, notAccounts, Late
<1>3. CASE Resend(r)
  BY <1>1, <1>3, ResendMoves DEF Resend, notCode, Late
<1>4. CASE IssueUpsert(r)
  BY <1>1, <1>4, UpsertMoves DEF IssueUpsert, notCode, Late
<1>5. CASE IssueMail(r)
  <2>1. request[r].code \in 0..MaxCode
    BY <1>t DEF Row
  <2>2. OthersStay(r) /\ request'[r].step = "idle"
    BY <1>5, DoneMoves DEF IssueMail
  <2>3. QED
    BY <1>1, <1>5, <2>1, <2>2 DEF IssueMail, notCode, Late
<1>6. CASE CheckCode(r)
  BY <1>1, <1>6, CheckMoves DEF CheckCode, notCode, Late
<1>7. CASE WrongCode(r)
  <2>1. OthersStay(r) /\ (request' = request \/ ~Late(r)')
    BY <1>7, WrongMoves DEF Late
  <2>2. QED
    BY <1>1, <1>7, <2>1 DEF WrongCode, notCode
<1>8. CASE MarkFirebase(r)
  <2>1. OthersStay(r) /\ request'[r].step \in {"idle", "marked"}
    BY <1>8, StepNames, DoneMoves, ToMoves DEF MarkFirebase, AfterCheck
  <2>2. QED
    BY <1>1, <1>8, <2>1 DEF MarkFirebase, notAccounts, Late
<1>9. CASE MarkUser(r)
  <2>1. OthersStay(r) /\ request'[r].step = "signin"
    BY <1>9, StepNames, ToMoves DEF MarkUser
  <2>2. QED
    BY <1>1, <1>9, <2>1 DEF MarkUser, notAccounts, Late
<1>10. CASE SignInVerified(r)
  <2>1. OthersStay(r) /\ request'[r].step \in {"idle", "discard"}
    BY <1>10, StepNames, DoneMoves, ToMoves DEF SignInVerified
  <2>2. QED
    BY <1>1, <1>10, <2>1 DEF SignInVerified, notCode, Late
<1>11. CASE Discard(r)
  BY <1>1, <1>11, DoneMoves DEF Discard, notCode, Late
<1>12. CASE Crash(r)
  BY <1>1, <1>12, DoneMoves DEF Crash, notCode, Late
<1>13. QED
  BY <1>2, <1>3, <1>4, <1>5, <1>6, <1>7, <1>8, <1>9, <1>10, <1>11, <1>12

(* activate finds whether there is a sign-in;                                *)
LEMMA ActActivate ==
  ASSUME TypeOK, ActInv, NEW r \in Request, NEW a \in Approval, Activate(r, a)
  PROVE  ActInv'
<1>1. /\ OthersStay(r)
      /\ request' = request \/ (request'[r].step = "claim" /\ (request'[r].flag => ~HasSignIn))
      /\ user' = user /\ firebase' = firebase /\ inbox' = inbox /\ early' = early
  BY ActivateMoves DEF Activate, notActivation
<1>2. CASE request' = request
  BY <1>1, <1>2, ActStays DEF ActFrame, Usable
<1>3. CASE request'[r].step = "claim" /\ (request'[r].flag => ~HasSignIn)
  <2>1. \A q \in Request : q # r => request'[q] = request[q]
    BY <1>1 DEF OthersStay
  <2>2. OneOwner'
    BY <1>1, <1>3, <2>1 DEF ActInv, OneOwner, Owns
  <2>3. firebase.password = "own" => ~request'[r].flag
    BY <1>3 DEF HasSignIn
  <2>4. PasswordHeld'
    BY <1>1, <1>3, <2>1, <2>3 DEF ActInv, PasswordHeld, Usable, Held
  <2>5. QED
    BY <2>2, <2>4 DEF ActInv
<1>4. QED
  BY <1>1, <1>2, <1>3

(* one request claims the activation;                                        *)
LEMMA ActClaim ==
  ASSUME TypeOK, ActInv, NEW r \in Request, Claim(r)
  PROVE  ActInv'
<1>t. user \in UserRow /\ request \in [Request -> Row] /\ request[r].flag \in BOOLEAN
  BY TypeParts DEF Row
<1>0. /\ firebase' = firebase /\ inbox' = inbox /\ early' = early /\ request[r].step = "claim"
  BY DEF Claim, notActivation
<1>1. CASE ~Claimable
  <2>1. OthersStay(r) /\ request'[r].step = "idle" /\ user' = user
    BY <1>1, DoneMoves DEF Claim
  <2>2. \A q \in Request : Late(q)' => request'[q] = request[q]
    BY <2>1 DEF OthersStay, Late
  <2>3. QED
    BY <1>0, <2>1, <2>2, ActStays DEF ActFrame, Usable
<1>2. CASE Claimable
  <2>1. /\ user' = [user EXCEPT !.active = TRUE, !.must = request[r].flag]
        /\ request' = To(r, IF request[r].flag THEN "set" ELSE "invite")
    BY <1>2 DEF Claim
  <2>2. user'.uid = user.uid /\ user'.active = TRUE /\ user'.must = request[r].flag
    BY <1>t, <2>1 DEF UserRow
  <2>3. /\ OthersStay(r) /\ request'[r].flag = request[r].flag
        /\ request'[r].step = IF request[r].flag THEN "set" ELSE "invite"
    BY <2>1, StepNames, ToMoves
  <2>4. \A q \in Request : q # r => request'[q] = request[q]
    BY <2>3 DEF OthersStay
  <2>5. inbox.password = "none" /\ \A q \in Request : ~Owns(q)
    BY <1>2 DEF Claimable, ActInv, OneOwner
  <2>6. \A q \in Request : request[q].step \notin {"set", "unset", "invite"}
    BY <2>5 DEF Owns
  <2>7. OneOwner'
    BY <1>0, <2>2, <2>3, <2>4, <2>5, <2>6 DEF OneOwner, Owns
  <2>8. PasswordHeld'
    BY <1>0, <2>2, <2>3, <2>4, <2>5, <2>6 DEF ActInv, PasswordHeld, Usable, Held
  <2>9. QED
    BY <2>7, <2>8 DEF ActInv
<1>3. QED
  BY <1>1, <1>2

(* it sets the password only where the farmer has none of their own;         *)
LEMMA ActSet ==
  ASSUME TypeOK, ActInv, NEW r \in Request, SetPassword(r)
  PROVE  ActInv'
<1>t. firebase \in FirebaseRow /\ request \in [Request -> Row]
      /\ request[r].round \in Approval \cup {"none"}
  BY TypeParts DEF Row
<1>0. user' = user /\ inbox' = inbox /\ early' = early /\ request[r].step = "set"
  BY DEF SetPassword, notActivation
<1>1. \/ request' = To(r, "invite") /\ firebase' = [firebase EXCEPT !.password = request[r].round]
      \/ /\ request' = To(r, "unset")
         /\ firebase' = firebase \/ firebase' = [firebase EXCEPT !.password = request[r].round]
  BY DEF SetPassword
<1>2. firebase'.uid = firebase.uid
  BY <1>t, <1>1 DEF FirebaseRow
<1>3. \/ request'[r].step = "invite" /\ firebase'.password = request[r].round
      \/ request'[r].step = "unset" /\ firebase'.password \in {firebase.password, request[r].round}
  BY <1>t, <1>1, StepNames, ToMoves DEF FirebaseRow
<1>4. /\ OthersStay(r) /\ request'[r].flag = request[r].flag
      /\ request'[r].round = request[r].round
  BY <1>1, StepNames, ToMoves
<1>5. \A q \in Request : q # r => request'[q] = request[q]
  BY <1>4 DEF OthersStay
<1>6. /\ user.active /\ request[r].flag /\ inbox.password = "none"
      /\ \A q \in Request : request[q].step \in {"set", "unset", "invite"} => q = r
  BY <1>0 DEF ActInv, OneOwner, Owns
<1>7. OneOwner'
  BY <1>0, <1>3, <1>4, <1>5, <1>6 DEF OneOwner, Owns
<1>8. request[r].round # "own"
  BY <1>t, AccountsAssumption
<1>9. PasswordHeld'
  <2> SUFFICES ASSUME Usable', ~early' PROVE
        /\ firebase'.password = "own" =>
             \A q \in Request : request'[q].step \in {"claim", "set"} => ~request'[q].flag
        /\ \A q \in Request :
             /\ request'[q].step = "change" => firebase'.password = "own"
             /\ request'[q].step = "set" => user'.must
             /\ request'[q].step = "invite" /\ request'[q].flag =>
                  firebase'.password = "own" \/
                  (firebase'.password = request'[q].round /\ user'.must)
        /\ inbox'.password # "none" =>
             firebase'.password = "own" \/ (firebase'.password = inbox'.password /\ user'.must)
    BY DEF PasswordHeld, Held
  <2>1. Usable /\ ~early
    BY <1>0, <1>2 DEF Usable
  <2>2. user.must /\ firebase.password # "own" /\ \A q \in Request : request[q].step # "change"
    BY <1>0, <1>6, <2>1 DEF ActInv, PasswordHeld
  <2>3. firebase'.password # "own"
    BY <1>3, <1>8, <2>2
  <2>4. \A q \in Request : request'[q].step \notin {"change", "set"}
    BY <1>3, <1>5, <1>6, <2>2
  <2>5. \A q \in Request : request'[q].step = "invite" =>
          q = r /\ firebase'.password = request'[q].round
    BY <1>3, <1>4, <1>5, <1>6
  <2>6. QED
    BY <1>0, <1>6, <2>2, <2>3, <2>4, <2>5
<1>10. QED
  BY <1>7, <1>9 DEF ActInv

(* a failure undoes the claim;                                               *)
LEMMA ActUndo ==
  ASSUME TypeOK, ActInv, NEW r \in Request, UndoClaim(r)
  PROVE  ActInv'
<1>0. /\ firebase' = firebase /\ inbox' = inbox /\ early' = early /\ request[r].step = "unset"
      /\ OthersStay(r) /\ request'[r].step = "idle"
  BY DoneMoves DEF UndoClaim, notActivation
<1>1. user'.uid = user.uid
  BY TypeParts DEF UndoClaim, UserRow
<1>2. \A q \in Request : q # r => request'[q] = request[q]
  BY <1>0 DEF OthersStay
<1>3. /\ inbox.password = "none"
      /\ \A q \in Request : request[q].step \in {"set", "unset", "invite"} => q = r
  BY <1>0 DEF ActInv, OneOwner, Owns
<1>4. OneOwner'
  BY <1>0, <1>2, <1>3 DEF OneOwner, Owns
<1>5. PasswordHeld'
  BY <1>0, <1>1, <1>2, <1>3 DEF ActInv, PasswordHeld, Usable
<1>6. QED
  BY <1>4, <1>5 DEF ActInv

(* the invitation goes out with the password that was set;                   *)
LEMMA ActInvite ==
  ASSUME TypeOK, ActInv, NEW r \in Request, SendInvite(r)
  PROVE  ActInv'
<1>0. /\ firebase' = firebase /\ user' = user /\ early' = early /\ request[r].step = "invite"
      /\ OthersStay(r) /\ request'[r].step = "idle"
  BY DoneMoves DEF SendInvite, notActivation
<1>1. \/ inbox' = inbox
      \/ request[r].flag /\ inbox'.password = request[r].round
  BY TypeParts DEF SendInvite, InboxRow
<1>2. \A q \in Request : q # r => request'[q] = request[q]
  BY <1>0 DEF OthersStay
<1>3. /\ inbox.password = "none" /\ user.active
      /\ \A q \in Request : request[q].step \in {"set", "unset", "invite"} => q = r
  BY <1>0 DEF ActInv, OneOwner, Owns
<1>4. OneOwner'
  BY <1>0, <1>2, <1>3 DEF OneOwner, Owns
<1>5. PasswordHeld'
  BY <1>0, <1>1, <1>2, <1>3 DEF ActInv, PasswordHeld, Usable, Held
<1>6. QED
  BY <1>4, <1>5 DEF ActInv

(* A password is chosen, early when an activation still runs. *)
LEMMA ActChoose ==
  ASSUME TypeOK, ActInv, firebase' = [firebase EXCEPT !.password = "own"],
         user' = user, inbox' = inbox,
         early' = (early \/ \E q \in Request : request[q].step \in {"claim", "set"}),
         request' = request \/ \E r \in Request : OthersStay(r) /\ request'[r].step = "change"
  PROVE  ActInv'
<1>1. firebase'.password = "own"
  BY TypeParts DEF FirebaseRow
<1>2. \A q \in Request : request'[q] = request[q] \/ request'[q].step = "change"
  BY DEF OthersStay
<1>3. OneOwner'
  BY <1>2 DEF ActInv, OneOwner, Owns
<1>4. ~early' => \A q \in Request : request'[q].step \notin {"claim", "set"}
  BY <1>2
<1>5. PasswordHeld'
  BY <1>1, <1>4 DEF PasswordHeld, Held
<1>6. QED
  BY <1>3, <1>5 DEF ActInv

(* who has changed the password is free of it.                               *)
LEMMA ActClear ==
  ASSUME TypeOK, ActInv, NEW r \in Request, ClearMust(r)
  PROVE  ActInv'
<1>0. /\ firebase' = firebase /\ inbox' = inbox /\ early' = early /\ request[r].step = "change"
      /\ OthersStay(r) /\ request'[r].step = "idle"
  BY DoneMoves DEF ClearMust, notActivation
<1>1. user'.uid = user.uid /\ user'.active = user.active
  BY TypeParts DEF ClearMust, UserRow
<1>2. \A q \in Request : q # r => request'[q] = request[q]
  BY <1>0 DEF OthersStay
<1>3. OneOwner'
  BY <1>0, <1>1, <1>2 DEF ActInv, OneOwner, Owns
<1>4. Usable /\ ~early => /\ firebase.password = "own"
                          /\ \A q \in Request : request[q].step # "set"
  BY <1>0 DEF ActInv, PasswordHeld, OneOwner
<1>5. PasswordHeld'
  BY <1>0, <1>1, <1>2, <1>4 DEF ActInv, PasswordHeld, Usable, Held
<1>6. QED
  BY <1>3, <1>5 DEF ActInv

(* Every step keeps the activation's part of the invariant.                  *)
LEMMA ActStep ==
  ASSUME TypeOK, UidsInv, ActInv, [Next]_vars
  PROVE  ActInv'
<1>1. CASE UNCHANGED vars
  BY <1>1, ActStays DEF ActFrame, Usable, vars
<1>2. CASE Age
  BY <1>2, ActStays DEF ActFrame, Usable, Age, notCode
<1>3. CASE ResetPassword
  BY <1>3, ActChoose DEF ResetPassword, notActivation
<1>4. ASSUME NEW r \in Request, ChangePassword(r) PROVE ActInv'
  BY <1>4, ActChoose, ChangeMoves DEF ChangePassword, notActivation
<1>5. ASSUME NEW r \in Request, OtherStep(r) PROVE ActInv'
  BY <1>4, <1>5, ActNeutral, ActActivate, ActClaim, ActSet, ActUndo, ActInvite, ActClear
  DEF OtherStep
<1>6. QED
  BY <1>1, <1>2, <1>3, <1>5, ActAccount, NextIs

-----------------------------------------------------------------------------
(* Initially there is no account, no code and no invitation.                 *)
LEMMA AccountsInit == Init => TypeOK /\ UidsInv /\ CodeInv /\ ActInv
<1> SUFFICES ASSUME Init PROVE TypeOK /\ UidsInv /\ CodeInv /\ ActInv
  OBVIOUS
<1>1. /\ \A r \in Request : request[r].step = "idle" /\ request[r].uid = 0
      /\ firebase.uid = 0 /\ user = NoUser /\ user.uid = 0 /\ lastUid = 0
      /\ inbox.code = 0 /\ inbox.password = "none" /\ lastCode = 0
  BY DEF Init, Idle, NoFirebase, NoUser
<1>2. UidsInv
  BY <1>1 DEF UidsInv, UidsKnown, MakersApart, MakersKept, FirebaseKept, MakerLeft, Makes, Making
<1>3. CodeInv
  BY <1>1 DEF CodeInv, CodeAlone, CodeStored, Writing
<1>4. ActInv
  BY <1>1 DEF ActInv, OneOwner, PasswordHeld, Owns
<1>5. QED
  BY <1>2, <1>3, <1>4, TypeInit

(* The inductive invariant of the accounts.                                  *)
THEOREM AccountsInvariance == Spec => [](TypeOK /\ UidsInv /\ CodeInv /\ ActInv)
<1>1. TypeOK /\ UidsInv /\ CodeInv /\ ActInv /\ [Next]_vars
      => (TypeOK /\ UidsInv /\ CodeInv /\ ActInv)'
  <2> SUFFICES ASSUME TypeOK, UidsInv, CodeInv, ActInv, [Next]_vars
               PROVE  TypeOK' /\ UidsInv' /\ CodeInv' /\ ActInv'
    OBVIOUS
  <2>1. UidsInv'
    <3>1. CASE UNCHANGED vars
      BY <3>1 DEF UidsInv, UidsKnown, MakersApart, MakersKept, FirebaseKept, MakerLeft, Makes,
         Making, vars
    <3>2. QED
      BY <3>1, UidsStep
  <2>2. QED
    BY <2>1, TypeStep, CodeStep, ActStep
<1>2. QED
  BY <1>1, AccountsInit, PTL DEF Spec

(* However sign-ups, sign-ins with Google, failures and crashes interleave, a *)
(* local user keeps its Firebase account unless another signed in to it while *)
(* its maker ran, and an account without a user is left by a failure alone.  *)
THEOREM SpecAccountWhole == Spec => []AccountWhole
<1>1. TypeOK /\ UidsInv => AccountWhole
  <2> SUFFICES ASSUME TypeOK, UidsInv PROVE AccountWhole
    OBVIOUS
  <2>1. FirebaseKept
    BY DEF UidsInv
  <2>2. NothingLingers
    <3> SUFFICES ASSUME Quiet, firebase.uid # 0, user.uid = 0, faults = 0 PROVE FALSE
      BY UidTypes DEF NothingLingers
    <3>1. QED
      BY DEF UidsInv, MakerLeft, Makes, Making, Quiet, Idle
  <2>3. QED
    BY <2>1, <2>2 DEF AccountWhole
<1>2. QED
  BY <1>1, AccountsInvariance, PTL

(* The code in the last mail verifies, for any number of codes and guesses,  *)
(* unless it was spent, two requests wrote at once or a failure came between *)
(* storing and mailing.                                                      *)
THEOREM SpecMailedCodeWorks == Spec => []MailedCodeWorks
<1>1. CodeInv => MailedCodeWorks
  BY DEF CodeInv, CodeStored, MailedCodeWorks, Quiet, Idle
<1>2. QED
  BY <1>1, AccountsInvariance, PTL

(* The temporary password in a farmer's invitation is the account's and must be *)
(* changed, until the farmer chooses one, for any number of approvals.       *)
THEOREM SpecInvitePasswordHeld == Spec => []InvitePasswordHeld
<1>1. ActInv => InvitePasswordHeld
  BY DEF ActInv, PasswordHeld, Held, InvitePasswordHeld
<1>2. QED
  BY <1>1, AccountsInvariance, PTL

-----------------------------------------------------------------------------
(* Sourcing, for every set of checkouts and orders.  The stored status may   *)
(* be stale, so the inductive invariant says how stale: what each            *)
(* transaction under way is going to store, given what the locks it holds    *)
(* keep the others from doing meanwhile.                                     *)
(* What the components' assumptions say of Apart's constants. *)
LEMMA SourcingMap == CheckoutOf \in [Order -> Checkout]
  BY PartsAssumption DEF Src!SourcingAssumption

NoneLive == \A d \in Checkout : checkout[d] \notin Src!Live
Paid == {"CONFIRMED", "FULFILMENT", "CLOSED"}
Open == {"PENDING", "READY"}

ClosedShown == closed => status \in Paid

(* Only the release of a paid checkout by close parts the two, and that    *)
(* closes the request.                                                     *)
OrdersPaid ==
  \A o \in Order : order[o] \in Open =>
    /\ checkout[CheckoutOf[o]] # "NONE"
    /\ ~closed => checkout[CheckoutOf[o]] = "PAID"

OrderingSound ==
  \A o \in Order : ordering[o] # Nothing =>
    order[o] \in Open /\ ordering[o].status \in Paid

PayingSound ==
  \A c \in Checkout : paying[c] # Nothing =>
    /\ checkout[c] = "AWAITING_PAYMENT"
    /\ paying[c].to \in {"PAID", "CANCELLED", "EXPIRED"}
    /\ closed => paying[c].status = "CLOSED"
    /\ ~closed /\ paying[c].to = "PAID" => paying[c].status \in Paid
    /\ ~closed /\ paying[c].to # "PAID" => paying[c].status \in Src!OpenForMatch

AdminSound ==
  admin # Nothing =>
    /\ admin.op \in {"assign", "save"} => ~closed /\ NoneLive
    /\ admin.op = "save" => admin.status \in Src!OpenForMatch
    /\ admin.op = "confirm" =>
         /\ NoneLive
         /\ checkout[admin.to] = "NONE"
         /\ closed => admin.status = "CLOSED"
         /\ ~closed => admin.status = "AWAITING_BUYER"
    /\ admin.op = "close" =>
         \A d \in Checkout : /\ checkout[d] = "AWAITING_PAYMENT" => d \in admin.to
                             /\ d \in admin.to => checkout[d] # "NONE"

SourcingInv ==
  /\ Src!TypeOK
  /\ Src!OneLiveCheckout
  /\ Src!StatusShowsCheckout
  /\ ClosedShown
  /\ OrdersPaid
  /\ OrderingSound
  /\ PayingSound
  /\ AdminSound

(* deriveSourcingStatus, case by case.                                     *)
LEMMA DerivedFacts ==
  ASSUME NEW ch, NEW ord, NEW cl \in BOOLEAN, NEW ag \in BOOLEAN, NEW al \in BOOLEAN
  PROVE  /\ Src!Derived(ch, ord, cl, ag, al) \in Src!RequestStatus
         /\ cl => Src!Derived(ch, ord, cl, ag, al) = "CLOSED"
         /\ (\E c \in Checkout : ch[c] = "PAID") =>
              Src!Derived(ch, ord, cl, ag, al) \in Paid
         /\ ~cl /\ (\A c \in Checkout : ch[c] # "PAID")
              /\ (\E c \in Checkout : ch[c] = "AWAITING_PAYMENT") =>
              Src!Derived(ch, ord, cl, ag, al) = "AWAITING_BUYER"
         /\ ~cl /\ (\A c \in Checkout : ch[c] \notin Src!Live) =>
              Src!Derived(ch, ord, cl, ag, al) \in Src!OpenForMatch
<1> DEFINE paid == {ord[o] : o \in {p \in Order : ch[CheckoutOf[p]] = "PAID"}}
<1>1. ASSUME \A c \in Checkout : ch[c] # "PAID"
      PROVE  paid # {"CANCELLED"} /\ "READY" \notin paid
  <2>1. {p \in Order : ch[CheckoutOf[p]] = "PAID"} = {}
    BY <1>1, SourcingMap
  <2>2. paid = {}
    BY <2>1
  <2>3. QED
    BY <2>2
<1>2. Src!Derived(ch, ord, cl, ag, al) =
        IF cl \/ paid = {"CANCELLED"} THEN "CLOSED"
        ELSE IF "READY" \in paid THEN "FULFILMENT"
        ELSE IF \E c \in Checkout : ch[c] = "PAID" THEN "CONFIRMED"
        ELSE IF \E c \in Checkout : ch[c] = "AWAITING_PAYMENT" THEN "AWAITING_BUYER"
        ELSE IF al THEN "FINDING_SUPPLY"
        ELSE IF ag THEN "IN_REVIEW" ELSE "NEW"
  BY DEF Src!Derived
<1> HIDE DEF paid
<1>3. Src!Derived(ch, ord, cl, ag, al) \in Src!RequestStatus
  BY <1>2 DEF Src!RequestStatus
<1>4. cl => Src!Derived(ch, ord, cl, ag, al) = "CLOSED"
  BY <1>2
<1>5. (\E c \in Checkout : ch[c] = "PAID") => Src!Derived(ch, ord, cl, ag, al) \in Paid
  BY <1>2 DEF Paid
<1>6. ~cl /\ (\A c \in Checkout : ch[c] # "PAID")
          /\ (\E c \in Checkout : ch[c] = "AWAITING_PAYMENT") =>
        Src!Derived(ch, ord, cl, ag, al) = "AWAITING_BUYER"
  BY <1>1, <1>2
<1>7. ~cl /\ (\A c \in Checkout : ch[c] \notin Src!Live) =>
        Src!Derived(ch, ord, cl, ag, al) \in Src!OpenForMatch
  BY <1>1, <1>2 DEF Src!Live, Src!OpenForMatch
<1>8. QED
  BY <1>3, <1>4, <1>5, <1>6, <1>7

(* A release or a payment moves unpaid orders only.                        *)
LEMMA MovedFacts ==
  ASSUME order \in [Order -> Src!OrderStatus], NEW S, NEW to \in Src!OrderStatus
  PROVE  /\ Src!Moved(S, to) \in [Order -> Src!OrderStatus]
         /\ \A o \in Order : order[o] \in Open => Src!Moved(S, to)[o] = order[o]
         /\ \A o \in Order : Src!Moved(S, to)[o] # order[o] =>
              /\ order[o] = "AWAITING_PAYMENT"
              /\ CheckoutOf[o] \in S
              /\ Src!Moved(S, to)[o] = to
BY DEF Src!Moved, Open

(* A new request has nothing under way.                                    *)
LEMMA SourcingInit == Src!Init => SourcingInv
BY SourcingMap DEF Src!Init, SourcingInv, Src!TypeOK, Src!OneLiveCheckout, Src!StatusShowsCheckout, ClosedShown,
   OrdersPaid, OrderingSound, PayingSound, AdminSound, Src!RequestStatus,
   Src!CheckoutStatus, Src!OrderStatus, Src!Live, Open

(* A step that leaves the rows and the other transactions alone has only   *)
(* its own promise to keep.                                                *)
LEMMA OthersKeep ==
  ASSUME SourcingInv, UNCHANGED <<status, Src!rows>>
  PROVE  /\ Src!OneLiveCheckout' /\ Src!StatusShowsCheckout' /\ ClosedShown' /\ OrdersPaid'
         /\ UNCHANGED ordering => OrderingSound'
         /\ UNCHANGED paying => PayingSound'
         /\ UNCHANGED admin => AdminSound'
BY DEF SourcingInv, Src!rows, Src!OneLiveCheckout, Src!StatusShowsCheckout, ClosedShown, OrdersPaid,
   OrderingSound, PayingSound, AdminSound, NoneLive

(* A transaction on an open order is going to store one of Paid.           *)
LEMMA OrderBeginInv ==
  ASSUME SourcingInv, NEW o \in Order, Src!OrderBegin(o) PROVE SourcingInv'
<1>t. Src!TypeOK /\ OrdersPaid /\ OrderingSound
  BY DEF SourcingInv
<1>1. PICK to \in Src!NextOf(order[o]) :
        ordering' = [ordering EXCEPT ![o] = [to |-> to, status |-> Src!OrderSync(o, to)]]
  BY DEF Src!OrderBegin
<1>2. order[o] \in Open /\ to \in Src!OrderStatus
  BY <1>1 DEF Src!NextOf, Open, Src!OrderStatus
<1>3. UNCHANGED <<status, Src!rows, paying, admin, Src!escalation>>
  BY DEF Src!OrderBegin
<1> DEFINE ord == [order EXCEPT ![o] = to]
<1>4. Src!OrderSync(o, to) = Src!Derived(checkout, ord, closed, agent, allocated)
  BY DEF Src!OrderSync
<1>5. closed \in BOOLEAN /\ agent \in BOOLEAN /\ allocated \in BOOLEAN
  BY <1>t DEF Src!TypeOK
<1>6. Src!OrderSync(o, to) \in Paid /\ Src!OrderSync(o, to) \in Src!RequestStatus
  <2>1. closed \/ \E c \in Checkout : checkout[c] = "PAID"
    BY <1>t, <1>2, SourcingMap DEF OrdersPaid
  <2> HIDE DEF ord
  <2> DEFINE st == Src!Derived(checkout, ord, closed, agent, allocated)
  <2>2. /\ st \in Src!RequestStatus
        /\ closed => st = "CLOSED"
        /\ (\E c \in Checkout : checkout[c] = "PAID") => st \in Paid
    BY <1>5, DerivedFacts
  <2> HIDE DEF st
  <2>3. st \in Paid
    BY <2>1, <2>2 DEF Paid
  <2>4. QED
    BY <1>4, <2>2, <2>3 DEF st
<1> HIDE DEF ord
<1>7. Src!TypeOK'
  BY <1>t, <1>1, <1>2, <1>3, <1>6 DEF Src!TypeOK, Src!rows, Src!escalation
<1>8. OrderingSound'
  BY <1>t, <1>1, <1>2, <1>3, <1>6 DEF Src!TypeOK, OrderingSound, Src!rows
<1>9. QED
  BY <1>3, <1>7, <1>8, OthersKeep DEF SourcingInv

(* What it stores is right about the checkouts: the order's checkout is    *)
(* still paid, as nothing but close takes that back.                       *)
LEMMA OrderCommitInv ==
  ASSUME SourcingInv, NEW o \in Order, Src!OrderCommit(o) PROVE SourcingInv'
<1>t. /\ Src!TypeOK /\ Src!OneLiveCheckout /\ Src!StatusShowsCheckout /\ ClosedShown
      /\ OrdersPaid /\ OrderingSound /\ PayingSound /\ AdminSound
  BY DEF SourcingInv
<1>1. /\ ordering[o] # Nothing
      /\ order' = [order EXCEPT ![o] = ordering[o].to]
      /\ status' = ordering[o].status
      /\ closed' = (closed \/ ordering[o].status = "CLOSED")
      /\ ordering' = [ordering EXCEPT ![o] = Nothing]
      /\ UNCHANGED <<agent, allocated, checkout, paying, admin, Src!escalation>>
  BY DEF Src!OrderCommit, Src!Store
<1>2. /\ order[o] \in Open
      /\ ordering[o].to \in Src!OrderStatus
      /\ ordering[o].status \in Paid /\ ordering[o].status \in Src!RequestStatus
  BY <1>t, <1>1 DEF Src!TypeOK, OrderingSound
<1>3. ~closed => checkout[CheckoutOf[o]] = "PAID" /\ CheckoutOf[o] \in Checkout
  BY <1>t, <1>2, SourcingMap DEF OrdersPaid
<1>4. Src!TypeOK'
  BY <1>t, <1>1, <1>2 DEF Src!TypeOK, Src!escalation
<1>5. Src!OneLiveCheckout'
  BY <1>t, <1>1 DEF Src!OneLiveCheckout
<1>6. Src!StatusShowsCheckout'
  BY <1>t, <1>1, <1>2, <1>3 DEF Src!StatusShowsCheckout, Src!OneLiveCheckout, Paid, Src!Live
<1>7. ClosedShown'
  BY <1>1, <1>2 DEF ClosedShown
<1>8. OrdersPaid'
  BY <1>t, <1>1, <1>2 DEF OrdersPaid, Src!TypeOK
<1>9. OrderingSound'
  BY <1>t, <1>1 DEF OrderingSound, Src!TypeOK
<1>10. PayingSound'
  <2> SUFFICES ASSUME NEW c \in Checkout, paying[c] # Nothing, ~closed PROVE FALSE
    BY <1>t, <1>1 DEF PayingSound
  <2>1. QED
    BY <1>t, <1>3 DEF PayingSound, Src!OneLiveCheckout, Src!Live
<1>11. AdminSound'
  <2>1. CASE closed
    BY <2>1, <1>t, <1>1 DEF AdminSound, NoneLive
  <2>2. CASE ~closed
    <3>1. ~NoneLive
      BY <2>2, <1>3 DEF NoneLive, Src!Live
    <3>2. QED
      BY <3>1, <1>t, <1>1 DEF AdminSound, NoneLive
  <2>3. QED
    BY <2>1, <2>2
<1>12. QED
  BY <1>4, <1>5, <1>6, <1>7, <1>8, <1>9, <1>10, <1>11 DEF SourcingInv

(* Paying or releasing a checkout: what it is going to store fits the only *)
(* live checkout being decided.                                            *)
LEMMA CheckoutBeginInv ==
  ASSUME SourcingInv, NEW c \in Checkout, Src!CheckoutBegin(c) PROVE SourcingInv'
<1>t. Src!TypeOK /\ Src!OneLiveCheckout /\ PayingSound
  BY DEF SourcingInv
<1> DEFINE ch(to) == [checkout EXCEPT ![c] = to]
           ord(to) == Src!Moved({c}, Src!OrdersGo(to))
           st(to) == Src!Derived(ch(to), ord(to), closed, agent, allocated)
<1>1. PICK to \in {"PAID", "CANCELLED", "EXPIRED"} :
        paying' = [paying EXCEPT ![c] = [to |-> to, status |-> st(to)]]
  BY DEF Src!CheckoutBegin
<1>2. checkout[c] = "AWAITING_PAYMENT"
  BY DEF Src!CheckoutBegin
<1>3. UNCHANGED <<status, Src!rows, ordering, admin, Src!escalation>>
  BY DEF Src!CheckoutBegin
<1>4. closed \in BOOLEAN /\ agent \in BOOLEAN /\ allocated \in BOOLEAN
  BY <1>t DEF Src!TypeOK
<1>5. to = "PAID" => \E d \in Checkout : ch(to)[d] = "PAID"
  BY <1>t DEF Src!TypeOK
<1>6. to # "PAID" => \A d \in Checkout : ch(to)[d] \notin Src!Live
  BY <1>t, <1>2 DEF Src!TypeOK, Src!OneLiveCheckout, Src!Live
<1>7. /\ st(to) \in Src!RequestStatus
      /\ closed => st(to) = "CLOSED"
      /\ to = "PAID" => st(to) \in Paid
      /\ ~closed /\ to # "PAID" => st(to) \in Src!OpenForMatch
  <2> HIDE DEF ch, ord
  <2>1. QED
    BY <1>4, <1>5, <1>6, DerivedFacts
<1> HIDE DEF st
<1>8. Src!TypeOK'
  BY <1>t, <1>1, <1>3, <1>7 DEF Src!TypeOK, Src!rows, Src!escalation, Src!CheckoutStatus
<1>9. PayingSound'
  BY <1>t, <1>1, <1>2, <1>3, <1>7 DEF Src!TypeOK, PayingSound, Src!rows
<1>10. QED
  BY <1>3, <1>8, <1>9, OthersKeep DEF SourcingInv

(* It does store it, and no other transaction relied on the checkout's     *)
(* waiting.                                                                *)
LEMMA CheckoutCommitInv ==
  ASSUME SourcingInv, NEW c \in Checkout, Src!CheckoutCommit(c) PROVE SourcingInv'
<1>t. /\ Src!TypeOK /\ Src!OneLiveCheckout /\ Src!StatusShowsCheckout /\ ClosedShown
      /\ OrdersPaid /\ OrderingSound /\ PayingSound /\ AdminSound
  BY DEF SourcingInv
<1> DEFINE to == paying[c].to
           goes == Src!OrdersGo(to)
<1>1. /\ paying[c] # Nothing
      /\ checkout' = [checkout EXCEPT ![c] = to]
      /\ order' = Src!Moved({c}, goes)
      /\ status' = paying[c].status
      /\ closed' = (closed \/ paying[c].status = "CLOSED")
      /\ paying' = [paying EXCEPT ![c] = Nothing]
      /\ UNCHANGED <<agent, allocated, ordering, admin, Src!escalation>>
  BY DEF Src!CheckoutCommit, Src!Store
<1>2. /\ checkout[c] = "AWAITING_PAYMENT"
      /\ to \in {"PAID", "CANCELLED", "EXPIRED"}
      /\ closed => paying[c].status = "CLOSED"
      /\ ~closed /\ to = "PAID" => paying[c].status \in Paid
      /\ ~closed /\ to # "PAID" => paying[c].status \in Src!OpenForMatch
      /\ paying[c].status \in Src!RequestStatus
  BY <1>t, <1>1 DEF PayingSound, Src!TypeOK
<1>3. /\ goes \in Src!OrderStatus
      /\ to = "PAID" => goes = "PENDING"
      /\ to # "PAID" => goes = "CANCELLED"
  BY DEF Src!OrdersGo, Src!OrderStatus
<1>4. /\ order' \in [Order -> Src!OrderStatus]
      /\ \A o \in Order : order[o] \in Open => order'[o] = order[o]
      /\ \A o \in Order : order'[o] # order[o] =>
           order[o] = "AWAITING_PAYMENT" /\ CheckoutOf[o] = c /\ order'[o] = goes
  BY <1>t, <1>1, <1>3, MovedFacts DEF Src!TypeOK
<1>5. \A d \in Checkout : d # c => checkout[d] \notin Src!Live /\ checkout'[d] = checkout[d]
  BY <1>t, <1>1, <1>2 DEF Src!OneLiveCheckout, Src!Live, Src!TypeOK
<1>6. checkout'[c] = to
  BY <1>t, <1>1 DEF Src!TypeOK
<1> HIDE DEF to, goes
<1>7. Src!TypeOK'
  BY <1>t, <1>1, <1>2, <1>4 DEF Src!TypeOK, Src!CheckoutStatus, Src!escalation
<1>8. Src!OneLiveCheckout'
  BY <1>5 DEF Src!OneLiveCheckout
<1>9. Src!StatusShowsCheckout'
  BY <1>1, <1>2, <1>5, <1>6 DEF Src!StatusShowsCheckout, Src!Live, Paid, Src!OpenForMatch
<1>10. ClosedShown'
  BY <1>1, <1>2 DEF ClosedShown, Paid
<1>11. OrdersPaid'
  <2> SUFFICES ASSUME NEW o \in Order, order'[o] \in Open
               PROVE  /\ checkout'[CheckoutOf[o]] # "NONE"
                      /\ ~closed' => checkout'[CheckoutOf[o]] = "PAID"
    BY DEF OrdersPaid
  <2>1. CASE order'[o] = order[o]
    <3>1. /\ checkout[CheckoutOf[o]] # "NONE"
          /\ ~closed => checkout[CheckoutOf[o]] = "PAID"
          /\ CheckoutOf[o] \in Checkout
      BY <2>1, <1>t, SourcingMap DEF OrdersPaid
    <3>2. QED
      BY <3>1, <1>1, <1>2, <1>5, <1>6
  <2>2. CASE order'[o] # order[o]
    BY <2>2, <1>2, <1>3, <1>4, <1>6 DEF Open
  <2>3. QED
    BY <2>1, <2>2
<1>12. OrderingSound'
  BY <1>t, <1>1, <1>4 DEF OrderingSound
<1>13. PayingSound'
  BY <1>t, <1>1, <1>5 DEF PayingSound, Src!TypeOK, Src!Live
<1>14. AdminSound'
  BY <1>t, <1>1, <1>2, <1>5, <1>6 DEF AdminSound, NoneLive, Src!Live
<1>15. QED
  BY <1>7, <1>8, <1>9, <1>10, <1>11, <1>12, <1>13, <1>14 DEF SourcingInv

(* assign begins only while no checkout is live, and none appears before   *)
(* it ends, as confirm needs the same lock.                                *)
LEMMA AssignInv ==
  ASSUME SourcingInv, Src!AssignBegin \/ Src!AssignCommit PROVE SourcingInv'
<1>t. /\ Src!TypeOK /\ Src!OneLiveCheckout /\ Src!StatusShowsCheckout /\ ClosedShown
      /\ OrdersPaid /\ OrderingSound /\ PayingSound /\ AdminSound
  BY DEF SourcingInv
<1>1. CASE Src!AssignBegin
  <2>1. /\ status \in Src!OpenForMatch
        /\ admin' = [op |-> "assign"]
        /\ UNCHANGED <<status, Src!rows, ordering, paying, Src!escalation>>
    BY <1>1 DEF Src!AssignBegin, Src!AdminBegin
  <2>2. Src!TypeOK'
    BY <1>t, <2>1 DEF Src!TypeOK, Src!rows, Src!escalation
  <2>3. ~closed /\ NoneLive
    BY <1>t, <2>1 DEF ClosedShown, Src!StatusShowsCheckout, Src!OpenForMatch, Paid, NoneLive, Src!Live
  <2>4. AdminSound'
    BY <2>1, <2>3 DEF AdminSound, NoneLive, Src!rows
  <2>5. QED
    BY <2>1, <2>2, <2>4, OthersKeep DEF SourcingInv
<1>2. CASE Src!AssignCommit
  <2> DEFINE st == Src!Derived(checkout, order, closed, TRUE, allocated)
  <2>1. /\ admin # Nothing /\ admin.op = "assign"
        /\ admin' = Nothing
        /\ status' = st
        /\ closed' = (closed \/ st = "CLOSED")
        /\ agent' = TRUE
        /\ UNCHANGED <<allocated, checkout, order, ordering, paying, Src!escalation>>
    BY <1>2 DEF Src!AssignCommit, Src!AdminCommit, Src!Store
  <2>2. ~closed /\ NoneLive
    BY <1>t, <2>1 DEF AdminSound
  <2>3. st \in Src!OpenForMatch
    BY <1>t, <2>2, DerivedFacts DEF Src!TypeOK, NoneLive
  <2> HIDE DEF st
  <2>4. Src!TypeOK'
    BY <1>t, <2>1, <2>3 DEF Src!TypeOK, Src!OpenForMatch, Src!RequestStatus, Src!escalation
  <2>5. ~closed'
    BY <2>1, <2>2, <2>3 DEF Src!OpenForMatch
  <2>6. QED
    BY <1>t, <2>1, <2>2, <2>3, <2>4, <2>5
    DEF SourcingInv, Src!OneLiveCheckout, Src!StatusShowsCheckout, ClosedShown, OrdersPaid,
        OrderingSound, PayingSound, AdminSound, Src!OpenForMatch, NoneLive, Src!Live
<1>3. QED
  BY <1>1, <1>2

(* save, likewise.                                                         *)
LEMMA SaveInv ==
  ASSUME SourcingInv, Src!SaveBegin \/ Src!SaveCommit PROVE SourcingInv'
<1>t. /\ Src!TypeOK /\ Src!OneLiveCheckout /\ Src!StatusShowsCheckout /\ ClosedShown
      /\ OrdersPaid /\ OrderingSound /\ PayingSound /\ AdminSound
  BY DEF SourcingInv
<1>1. CASE Src!SaveBegin
  <2> DEFINE st(some) == Src!Derived(checkout, order, closed, agent, some)
  <2>1. PICK some \in BOOLEAN :
          admin' = [op |-> "save", to |-> some, status |-> st(some)]
    BY <1>1 DEF Src!SaveBegin, Src!AdminBegin
  <2>2. /\ status \in Src!OpenForMatch
        /\ UNCHANGED <<status, Src!rows, ordering, paying, Src!escalation>>
    BY <1>1 DEF Src!SaveBegin, Src!AdminBegin
  <2>3. ~closed /\ NoneLive
    BY <1>t, <2>2 DEF ClosedShown, Src!StatusShowsCheckout, Src!OpenForMatch, Paid, NoneLive, Src!Live
  <2>4. st(some) \in Src!OpenForMatch
    BY <1>t, <2>3, DerivedFacts DEF Src!TypeOK, NoneLive
  <2> HIDE DEF st
  <2>5. Src!TypeOK'
    BY <1>t, <2>1, <2>2, <2>4 DEF Src!TypeOK, Src!rows, Src!escalation, Src!OpenForMatch, Src!RequestStatus
  <2>6. AdminSound'
    BY <2>1, <2>2, <2>3, <2>4 DEF AdminSound, NoneLive, Src!rows
  <2>7. QED
    BY <2>2, <2>5, <2>6, OthersKeep DEF SourcingInv
<1>2. CASE Src!SaveCommit
  <2>1. /\ admin # Nothing /\ admin.op = "save"
        /\ admin' = Nothing
        /\ status' = admin.status
        /\ closed' = (closed \/ admin.status = "CLOSED")
        /\ allocated' = admin.to
        /\ UNCHANGED <<agent, checkout, order, ordering, paying, Src!escalation>>
    BY <1>2 DEF Src!SaveCommit, Src!AdminCommit, Src!Store
  <2>2. ~closed /\ NoneLive /\ admin.status \in Src!OpenForMatch
    BY <1>t, <2>1 DEF AdminSound
  <2>3. admin.to \in BOOLEAN
    BY <1>t, <2>1 DEF Src!TypeOK
  <2>4. Src!TypeOK'
    BY <1>t, <2>1, <2>2, <2>3 DEF Src!TypeOK, Src!OpenForMatch, Src!RequestStatus, Src!escalation
  <2>5. ~closed'
    BY <2>1, <2>2 DEF Src!OpenForMatch
  <2>6. QED
    BY <1>t, <2>1, <2>2, <2>4, <2>5
    DEF SourcingInv, Src!OneLiveCheckout, Src!StatusShowsCheckout, ClosedShown, OrdersPaid,
        OrderingSound, PayingSound, AdminSound, Src!OpenForMatch, NoneLive, Src!Live
<1>3. QED
  BY <1>1, <1>2

(* confirm places the only live checkout.                                  *)
LEMMA ConfirmInv ==
  ASSUME SourcingInv, (\E c \in Checkout : Src!ConfirmBegin(c)) \/ Src!ConfirmCommit PROVE SourcingInv'
<1>t. /\ Src!TypeOK /\ Src!OneLiveCheckout /\ Src!StatusShowsCheckout /\ ClosedShown
      /\ OrdersPaid /\ OrderingSound /\ PayingSound /\ AdminSound
  BY DEF SourcingInv
<1>1. ASSUME NEW c \in Checkout, Src!ConfirmBegin(c) PROVE SourcingInv'
  <2> DEFINE ch == [checkout EXCEPT ![c] = "AWAITING_PAYMENT"]
             st == Src!Derived(ch, order, closed, agent, allocated)
  <2>1. /\ checkout[c] = "NONE"
        /\ NoneLive
        /\ admin' = [op |-> "confirm", to |-> c, status |-> st]
        /\ UNCHANGED <<status, Src!rows, ordering, paying, Src!escalation>>
    BY <1>1 DEF Src!ConfirmBegin, Src!AdminBegin, NoneLive
  <2>2. /\ \A d \in Checkout : ch[d] # "PAID"
        /\ \E d \in Checkout : ch[d] = "AWAITING_PAYMENT"
    BY <1>t, <2>1 DEF Src!TypeOK, NoneLive, Src!Live
  <2>3. /\ st \in Src!RequestStatus
        /\ closed => st = "CLOSED"
        /\ ~closed => st = "AWAITING_BUYER"
    <3> HIDE DEF ch
    <3>1. QED
      BY <1>t, <2>2, DerivedFacts DEF Src!TypeOK
  <2> HIDE DEF st
  <2>4. Src!TypeOK'
    BY <1>t, <2>1, <2>3 DEF Src!TypeOK, Src!rows, Src!escalation
  <2>5. AdminSound'
    BY <2>1, <2>3 DEF AdminSound, NoneLive, Src!rows
  <2>6. QED
    BY <2>1, <2>4, <2>5, OthersKeep DEF SourcingInv
<1>2. CASE Src!ConfirmCommit
  <2> DEFINE c == admin.to
  <2>1. /\ admin # Nothing /\ admin.op = "confirm"
        /\ admin' = Nothing
        /\ status' = admin.status
        /\ closed' = (closed \/ admin.status = "CLOSED")
        /\ checkout' = [checkout EXCEPT ![c] = "AWAITING_PAYMENT"]
        /\ order' = [o \in Order |-> IF CheckoutOf[o] = c THEN "AWAITING_PAYMENT"
                                                         ELSE order[o]]
        /\ UNCHANGED <<agent, allocated, ordering, paying, Src!escalation>>
    BY <1>2 DEF Src!ConfirmCommit, Src!AdminCommit, Src!Store
  <2>2. /\ NoneLive
        /\ checkout[c] = "NONE"
        /\ closed => admin.status = "CLOSED"
        /\ ~closed => admin.status = "AWAITING_BUYER"
    BY <1>t, <2>1 DEF AdminSound
  <2>3. c \in Checkout
    BY <1>t, <2>1 DEF Src!TypeOK
  <2> HIDE DEF c
  <2>4. /\ checkout'[c] = "AWAITING_PAYMENT"
        /\ \A d \in Checkout : d # c => checkout'[d] = checkout[d] /\ checkout[d] \notin Src!Live
    BY <1>t, <2>1, <2>2, <2>3 DEF Src!TypeOK, NoneLive
  <2>5. closed' = closed
    BY <1>t, <2>1, <2>2 DEF Src!TypeOK
  <2>6. \A o \in Order : order'[o] \in Open =>
          order[o] = order'[o] /\ CheckoutOf[o] # c
    BY <2>1 DEF Open
  <2>7. \A o \in Order : order[o] \in Open => CheckoutOf[o] # c
    BY <1>t, <2>2 DEF OrdersPaid
  <2>8. Src!TypeOK'
    BY <1>t, <2>1, <2>2, <2>5 DEF Src!TypeOK, Src!CheckoutStatus, Src!OrderStatus, Src!RequestStatus, Src!escalation
  <2>9. Src!OneLiveCheckout'
    BY <2>4 DEF Src!OneLiveCheckout
  <2>10. Src!StatusShowsCheckout'
    BY <2>1, <2>2, <2>3, <2>4, <2>5 DEF Src!StatusShowsCheckout, Src!Live
  <2>11. ClosedShown'
    BY <2>1, <2>2, <2>5 DEF ClosedShown, Paid
  <2>12. OrdersPaid'
    BY <1>t, <2>4, <2>5, <2>6, SourcingMap DEF OrdersPaid
  <2>13. OrderingSound'
    BY <1>t, <2>1, <2>7 DEF OrderingSound
  <2>14. PayingSound'
    BY <1>t, <2>1, <2>2, <2>4 DEF PayingSound, Src!Live
  <2>15. AdminSound'
    BY <2>1 DEF AdminSound
  <2>16. QED
    BY <2>8, <2>9, <2>10, <2>11, <2>12, <2>13, <2>14, <2>15 DEF SourcingInv
<1>3. QED
  BY <1>1, <1>2

(* close ends with the request closed, whatever became of the checkout it  *)
(* found.                                                                  *)
LEMMA CloseInv ==
  ASSUME SourcingInv, Src!CloseBegin \/ Src!CloseCommit PROVE SourcingInv'
<1>t. /\ Src!TypeOK /\ Src!OneLiveCheckout /\ Src!StatusShowsCheckout /\ ClosedShown
      /\ OrdersPaid /\ OrderingSound /\ PayingSound /\ AdminSound
  BY DEF SourcingInv
<1>1. CASE Src!CloseBegin
  <2>1. /\ admin' = [op |-> "close",
                     to |-> {c \in Checkout : checkout[c] = "AWAITING_PAYMENT"}]
        /\ UNCHANGED <<status, Src!rows, ordering, paying, Src!escalation>>
    BY <1>1 DEF Src!CloseBegin, Src!AdminBegin
  <2>2. Src!TypeOK'
    BY <1>t, <2>1 DEF Src!TypeOK, Src!rows, Src!escalation
  <2>3. AdminSound'
    BY <2>1 DEF AdminSound, Src!rows
  <2>4. QED
    BY <2>1, <2>2, <2>3, OthersKeep DEF SourcingInv
<1>2. CASE Src!CloseCommit
  <2> DEFINE S == admin.to
  <2>1. /\ admin # Nothing /\ admin.op = "close"
        /\ admin' = Nothing
        /\ \A c \in S : paying[c] = Nothing
        /\ status' = "CLOSED" /\ closed' = TRUE
        /\ checkout' = [c \in Checkout |-> IF c \in S THEN "CANCELLED" ELSE checkout[c]]
        /\ order' = Src!Moved(S, "CANCELLED")
        /\ UNCHANGED <<agent, allocated, ordering, paying, Src!escalation>>
    BY <1>2 DEF Src!CloseCommit, Src!AdminCommit, Src!Store
  <2>2. \A d \in Checkout : /\ checkout[d] = "AWAITING_PAYMENT" => d \in S
                            /\ d \in S => checkout[d] # "NONE"
    BY <1>t, <2>1 DEF AdminSound
  <2> HIDE DEF S
  <2>3. /\ order' \in [Order -> Src!OrderStatus]
        /\ \A o \in Order : order[o] \in Open => order'[o] = order[o]
        /\ \A o \in Order : order'[o] # order[o] => order'[o] = "CANCELLED"
    BY <1>t, <2>1, MovedFacts DEF Src!TypeOK, Src!OrderStatus
  <2>4. Src!TypeOK'
    BY <1>t, <2>1, <2>3 DEF Src!TypeOK, Src!CheckoutStatus, Src!RequestStatus, Src!escalation
  <2>5. Src!OneLiveCheckout'
    BY <1>t, <2>1 DEF Src!OneLiveCheckout, Src!Live
  <2>6. Src!StatusShowsCheckout' /\ ClosedShown'
    BY <2>1 DEF Src!StatusShowsCheckout, ClosedShown, Paid
  <2>7. OrdersPaid'
    BY <1>t, <2>1, <2>3, SourcingMap DEF OrdersPaid, Open
  <2>8. OrderingSound'
    BY <1>t, <2>1, <2>3 DEF OrderingSound
  <2>9. PayingSound'
    BY <1>t, <2>1, <2>2 DEF PayingSound
  <2>10. AdminSound'
    BY <2>1 DEF AdminSound
  <2>11. QED
    BY <2>4, <2>5, <2>6, <2>7, <2>8, <2>9, <2>10 DEF SourcingInv
<1>3. QED
  BY <1>1, <1>2

(* An abort drops a promise, and escalate touches nothing the others read. *)
LEMMA QuietInv ==
  ASSUME SourcingInv,
         \/ \E o \in Order : Src!OrderAborts(o)
         \/ \E c \in Checkout : Src!CheckoutAborts(c)
         \/ Src!AdminAborts
         \/ \E a \in Call : Src!EscalateRead(a) \/ Src!EscalateWrite(a)
         \/ UNCHANGED Src!vars
  PROVE  SourcingInv'
<1>t. Src!TypeOK /\ OrderingSound /\ PayingSound
  BY DEF SourcingInv
<1>1. ASSUME NEW o \in Order, Src!OrderAborts(o) PROVE SourcingInv'
  <2>1. Src!TypeOK' /\ OrderingSound'
    BY <1>1, <1>t DEF Src!OrderAborts, Src!TypeOK, OrderingSound, Src!rows, Src!escalation
  <2>2. QED
    BY <1>1, <2>1, OthersKeep DEF Src!OrderAborts, SourcingInv
<1>2. ASSUME NEW c \in Checkout, Src!CheckoutAborts(c) PROVE SourcingInv'
  <2>1. Src!TypeOK' /\ PayingSound'
    BY <1>2, <1>t DEF Src!CheckoutAborts, Src!TypeOK, PayingSound, Src!rows, Src!escalation
  <2>2. QED
    BY <1>2, <2>1, OthersKeep DEF Src!CheckoutAborts, SourcingInv
<1>3. CASE Src!AdminAborts
  <2>1. Src!TypeOK' /\ AdminSound'
    BY <1>3, <1>t DEF Src!AdminAborts, Src!TypeOK, AdminSound, Src!rows, Src!escalation
  <2>2. QED
    BY <1>3, <2>1, OthersKeep DEF Src!AdminAborts, SourcingInv
<1>4. ASSUME NEW a \in Call, Src!EscalateRead(a) \/ Src!EscalateWrite(a) PROVE SourcingInv'
  <2>1. Src!TypeOK'
    BY <1>4, <1>t DEF Src!EscalateRead, Src!EscalateWrite, Src!TypeOK, Src!rows, Src!jobs
  <2>2. QED
    BY <1>4, <2>1, OthersKeep DEF Src!EscalateRead, Src!EscalateWrite, SourcingInv, Src!jobs
<1>5. CASE UNCHANGED Src!vars
  <2>1. Src!TypeOK'
    BY <1>5, <1>t DEF Src!vars, Src!TypeOK, Src!rows, Src!jobs, Src!escalation
  <2>2. QED
    BY <1>5, <2>1, OthersKeep DEF Src!vars, SourcingInv, Src!jobs
<1>6. QED
  BY <1>1, <1>2, <1>3, <1>4, <1>5

(* Every step keeps the invariant.                                         *)
LEMMA SourcingNext == SourcingInv /\ [Src!Next]_(Src!vars) => SourcingInv'
BY OrderBeginInv, OrderCommitInv, CheckoutBeginInv, CheckoutCommitInv, AssignInv,
   SaveInv, ConfirmInv, CloseInv, QuietInv DEF Src!Next

(* The invariant that says how stale the stored status may be.             *)
THEOREM SourcingInvariance == Src!Spec => []SourcingInv
<1>1. QED
  BY SourcingInit, SourcingNext, PTL DEF Src!Spec

(* Type correctness of the rows and of every transaction under way.        *)
THEOREM SourcingTypeOK == Src!Spec => []Src!TypeOK
<1>1. SourcingInv => Src!TypeOK
  BY DEF SourcingInv
<1>2. QED
  BY <1>1, SourcingInvariance, PTL

(* A request is never bought twice, however many checkouts and orders it   *)
(* has and however their transactions overlap.                             *)
THEOREM SpecOneLiveCheckout == Src!Spec => []Src!OneLiveCheckout
<1>1. SourcingInv => Src!OneLiveCheckout
  BY DEF SourcingInv
<1>2. QED
  BY <1>1, SourcingInvariance, PTL

(* The stored status never hides a waiting or a paid checkout from the     *)
(* guards of save, assign and close.                                       *)
THEOREM SpecStatusShowsCheckout == Src!Spec => []Src!StatusShowsCheckout
<1>1. SourcingInv => Src!StatusShowsCheckout
  BY DEF SourcingInv
<1>2. QED
  BY <1>1, SourcingInvariance, PTL

(* Only save changes the selection, and it holds sourcing:{id} since it    *)
(* found no checkout live.                                                 *)
LEMMA StepSelectionFrozen ==
  ASSUME SourcingInv, Src!Next, allocated' # allocated
  PROVE  \A c \in Checkout : checkout[c] \notin Src!Live
<1>1. Src!SaveCommit
  BY DEF Src!Next, Src!OrderBegin, Src!OrderCommit, Src!OrderAborts, Src!CheckoutBegin, Src!CheckoutCommit,
         Src!CheckoutAborts, Src!ConfirmBegin, Src!AssignBegin, Src!AssignCommit, Src!SaveBegin,
         Src!ConfirmCommit, Src!CloseBegin, Src!CloseCommit, Src!AdminBegin, Src!AdminAborts,
         Src!EscalateRead, Src!EscalateWrite, Src!rows
<1>2. admin # Nothing /\ admin.op = "save"
  BY <1>1 DEF Src!SaveCommit, Src!AdminCommit
<1>3. QED
  BY <1>2 DEF SourcingInv, AdminSound, NoneLive

(* "The selection cannot change after a checkout is placed", for every set *)
(* of checkouts and orders.                                                *)
THEOREM SpecSelectionFrozen == Src!Spec => Src!SelectionFrozen
<1>1. SourcingInv /\ [Src!Next]_(Src!vars) =>
        [allocated' # allocated => \A c \in Checkout : checkout[c] \notin Src!Live]_(Src!vars)
  BY StepSelectionFrozen DEF Src!vars
<1>2. QED
  BY <1>1, SourcingInvariance, PTL DEF Src!Spec, Src!SelectionFrozen

(* A paid order becomes CANCELLED only by its own transaction.             *)
LEMMA StepPaidOrdersSurvive ==
  ASSUME SourcingInv, Src!Next, NEW o \in Order, order[o] \in Open, order'[o] = "CANCELLED"
  PROVE  ordering[o] # Nothing
<1>t. Src!TypeOK /\ OrdersPaid /\ AdminSound
  BY DEF SourcingInv
<1>0. order[o] # "CANCELLED"
  BY DEF Open
<1>1. ASSUME NEW p \in Order, Src!OrderCommit(p) PROVE ordering[o] # Nothing
  BY <1>0, <1>1, <1>t DEF Src!OrderCommit, Src!TypeOK
<1>2. ASSUME NEW c \in Checkout, Src!CheckoutCommit(c) PROVE FALSE
  <2>1. Src!OrdersGo(paying[c].to) \in Src!OrderStatus
    BY DEF Src!OrdersGo, Src!OrderStatus
  <2>2. order'[o] = order[o]
    BY <1>2, <1>t, <2>1, MovedFacts DEF Src!CheckoutCommit, Src!TypeOK
  <2>3. QED
    BY <1>0, <2>2
<1>3. CASE Src!ConfirmCommit
  BY <1>0, <1>3 DEF Src!ConfirmCommit
<1>4. CASE Src!CloseCommit
  <2>1. order'[o] = order[o]
    BY <1>4, <1>t, MovedFacts DEF Src!CloseCommit, Src!TypeOK, Src!OrderStatus
  <2>2. QED
    BY <1>0, <2>1
<1>5. CASE UNCHANGED order
  BY <1>0, <1>5
<1>6. QED
  BY <1>1, <1>2, <1>3, <1>4, <1>5
  DEF Src!Next, Src!OrderBegin, Src!OrderAborts, Src!CheckoutBegin, Src!CheckoutAborts, Src!ConfirmBegin,
      Src!AssignBegin, Src!AssignCommit, Src!SaveBegin, Src!SaveCommit, Src!CloseBegin, Src!AdminBegin,
      Src!AdminAborts, Src!EscalateRead, Src!EscalateWrite, Src!rows

(* Neither a late release nor the closing of the request ends an order the *)
(* buyer has paid for, for every set of checkouts and orders.              *)
THEOREM SpecPaidOrdersSurvive == Src!Spec => Src!PaidOrdersSurvive
<1>1. SourcingInv /\ [Src!Next]_(Src!vars) =>
        [\A o \in Order :
           order[o] \in {"PENDING", "READY"} /\ order'[o] = "CANCELLED" =>
             ordering[o] # Nothing]_(Src!vars)
  BY StepPaidOrdersSurvive DEF Src!vars, Open
<1>2. QED
  BY <1>1, SourcingInvariance, PTL DEF Src!Spec, Src!PaidOrdersSurvive

(* A sourcing request is never bought twice and its stored status tells    *)
(* whether it has a live checkout, for any checkouts and admins.           *)
THEOREM SpecBoughtOnce == Src!Spec => []Src!BoughtOnce
<1>1. Src!OneLiveCheckout /\ Src!StatusShowsCheckout => Src!BoughtOnce
  BY DEF Src!BoughtOnce
<1>. QED
  BY <1>1, SpecOneLiveCheckout, SpecStatusShowsCheckout, PTL

-----------------------------------------------------------------------------
(* Refunds, for every payment, set of orders and bound.                      *)

(* Nothing happens to a row at Paystack, or to a result for it, before the *)
(* row exists; and a result under way says what Paystack decided.          *)
RowsFirst ==
  /\ \A r \in F!Refund : provider[r] # "none" \/ r \in submitting => refund[r] # "NONE"
  /\ \A x \in results : refund[x.row] # "NONE"

ResultsTrue ==
  \A x \in results :
    /\ provider[x.about] \in {"processed", "failed"}
    /\ x.outcome = IF provider[x.about] = "processed" THEN "PROCESSED" ELSE "FAILED"

RefundsInv == F!TypeOK /\ RowsFirst /\ ResultsTrue /\ F!OneLivePerOrder /\ F!LoneRefundTrue

(* The settled payment starts with its automatic refund or with none.      *)
LEMMA RefundsInit == F!Init => RefundsInv
<1> SUFFICES ASSUME F!Init PROVE RefundsInv
  OBVIOUS
<1>1. F!TypeOK
  BY PartsAssumption DEF F!RefundsAssumption, F!Init, F!TypeOK, F!RefundStatus, F!ProviderStatus
<1>2. RowsFirst /\ ResultsTrue /\ F!LoneRefundTrue
  BY DEF F!Init, RowsFirst, ResultsTrue, F!LoneRefundTrue
<1>3. F!OneLivePerOrder
  BY PartsAssumption DEF F!RefundsAssumption, F!Init, F!OneLivePerOrder
<1>4. QED
  BY <1>1, <1>2, <1>3 DEF RefundsInv

(* A new row: only the guard of RefundOrder keeps a second live refund of  *)
(* the same order away.                                                    *)
LEMMA CreateInv ==
  ASSUME RefundsInv, NEW r \in F!Refund, NEW what \in Bought \cup {Whole}, NEW sum,
         F!Create(r, what, sum), \A q \in F!LiveRefunds : of[q] = what => what = Whole
  PROVE  RefundsInv'
<1>t. F!TypeOK /\ RowsFirst /\ ResultsTrue /\ F!OneLivePerOrder /\ F!LoneRefundTrue
  BY DEF RefundsInv
<1>1. /\ refund[r] = "NONE"
      /\ \A q \in 1..(r - 1) : refund[q] # "NONE"
      /\ refund' = [refund EXCEPT ![r] = "PENDING"]
      /\ of' = [of EXCEPT ![r] = what]
      /\ amount' = [amount EXCEPT ![r] = sum]
      /\ submitting' = submitting \cup {r}
      /\ UNCHANGED <<orphaned, cancelled, identified, results, provider>>
  BY DEF F!Create
<1>2. F!TypeOK'
  BY <1>t, <1>1 DEF F!TypeOK, F!RefundStatus
<1>3. RowsFirst'
  BY <1>t, <1>1 DEF RowsFirst, F!TypeOK
<1>4. ResultsTrue'
  BY <1>t, <1>1 DEF ResultsTrue
<1>5. F!OneLivePerOrder'
  <2> SUFFICES ASSUME NEW o \in Bought, NEW p \in F!Refund, NEW q \in F!Refund,
                      of'[p] = o, of'[q] = o, p \in F!LiveRefunds', q \in F!LiveRefunds'
               PROVE  p = q
    BY DEF F!OneLivePerOrder
  <2>1. \A s \in F!Refund : s # r => /\ of'[s] = of[s]
                                     /\ s \in F!LiveRefunds' => s \in F!LiveRefunds
    BY <1>t, <1>1 DEF F!TypeOK, F!LiveRefunds
  <2>2. of'[r] = what
    BY <1>t, <1>1 DEF F!TypeOK
  <2>3. o # Whole
    BY PartsAssumption DEF F!RefundsAssumption
  <2>4. QED
    BY <2>1, <2>2, <2>3, <1>t DEF F!OneLivePerOrder
<1>6. F!LoneRefundTrue'
  <2> SUFFICES ASSUME \A q \in F!Refund : q # 1 => refund'[q] = "NONE"
               PROVE  \A q \in F!Refund :
                        /\ refund'[q] = "PROCESSED" => provider'[q] = "processed"
                        /\ refund'[q] = "FAILED" => provider'[q] \in {"refused", "failed"}
    BY DEF F!LoneRefundTrue
  <2>1. r = 1
    BY <1>t, <1>1 DEF F!TypeOK
  <2>2. \A q \in F!Refund : refund'[q] \notin {"PROCESSED", "FAILED"}
    BY <1>t, <1>1, <2>1 DEF F!TypeOK
  <2>3. QED
    BY <2>2
<1>7. QED
  BY <1>2, <1>3, <1>4, <1>5, <1>6 DEF RefundsInv

(* A step that creates no row: it may settle a row, and move Paystack on.  *)
LEMMA SettleInv ==
  ASSUME RefundsInv, F!TypeOK', UNCHANGED of,
         \A r \in F!Refund : \/ refund'[r] = refund[r]
                             \/ refund[r] = "PENDING" /\ refund'[r] \in {"PROCESSED", "FAILED"}
  PROVE  F!OneLivePerOrder'
<1>1. \A r \in F!Refund : r \in F!LiveRefunds' => r \in F!LiveRefunds
  BY DEF F!LiveRefunds, F!LiveStatus
<1>2. QED
  BY <1>1 DEF RefundsInv, F!OneLivePerOrder

(* Every step keeps the invariant.                                         *)
LEMMA RefundsNext == RefundsInv /\ [F!Next]_(F!vars) => RefundsInv'
<1> SUFFICES ASSUME RefundsInv, [F!Next]_(F!vars) PROVE RefundsInv'
  OBVIOUS
<1>t. F!TypeOK /\ RowsFirst /\ ResultsTrue /\ F!OneLivePerOrder /\ F!LoneRefundTrue
  BY DEF RefundsInv
<1>1. ASSUME NEW o \in Bought, F!CancelOrder(o) PROVE RefundsInv'
  <2>1. F!TypeOK' /\ RowsFirst' /\ ResultsTrue' /\ F!LoneRefundTrue'
    BY <1>1, <1>t DEF F!CancelOrder, F!TypeOK, RowsFirst, ResultsTrue, F!LoneRefundTrue, F!server
  <2>2. QED
    BY <1>1, <2>1, SettleInv DEF F!CancelOrder, RefundsInv
<1>2. ASSUME NEW r \in F!Refund, F!RefundRest(r) PROVE RefundsInv'
  BY <1>2, CreateInv DEF F!RefundRest
<1>3. ASSUME NEW r \in F!Refund, NEW o \in Bought, F!RefundOrder(r, o) PROVE RefundsInv'
  <2>1. /\ F!Create(r, o, Share[o])
        /\ \A q \in F!LiveRefunds : of[q] # o
    BY <1>3 DEF F!RefundOrder
  <2>2. QED
    BY <2>1, CreateInv
<1>4. ASSUME NEW r \in F!Refund, F!Ask(r) \/ F!ProviderTakes(r) \/ F!ProviderSettles(r)
      PROVE  RefundsInv'
  <2>1. PICK v \in {"asked", "taken", "processed", "failed"} :
          /\ provider' = [provider EXCEPT ![r] = v]
          /\ provider[r] \in {"none", "asked", "taken"}
          /\ provider[r] # "none" \/ r \in submitting
          /\ UNCHANGED <<orphaned, cancelled, refund, of, amount, identified, F!server>>
    BY <1>4 DEF F!Ask, F!ProviderTakes, F!ProviderSettles
  <2>2. F!TypeOK'
    BY <2>1, <1>t DEF F!TypeOK, F!ProviderStatus, F!server
  <2>3. RowsFirst'
    BY <2>1, <1>t DEF RowsFirst, F!TypeOK, F!server
  <2>4. ResultsTrue'
    <3> SUFFICES ASSUME NEW x \in results
                 PROVE  provider'[x.about] = provider[x.about]
      BY <2>1, <1>t DEF ResultsTrue, F!server
    <3>1. provider[x.about] \in {"processed", "failed"}
      BY <1>t DEF ResultsTrue
    <3>2. QED
      BY <3>1, <2>1, <1>t DEF F!TypeOK
  <2>5. F!LoneRefundTrue'
    BY <2>1, <1>t DEF F!LoneRefundTrue, F!TypeOK
  <2>6. QED
    BY <2>1, <2>2, <2>3, <2>4, <2>5, SettleInv DEF RefundsInv
<1>5. ASSUME NEW r \in F!Refund, F!SubmitAnswered(r) \/ F!SubmitUnknown(r) PROVE RefundsInv'
  <2>1. /\ submitting' \subseteq submitting
        /\ identified' \subseteq F!Refund
        /\ UNCHANGED <<orphaned, cancelled, refund, of, amount, results, provider>>
    BY <1>5, <1>t DEF F!SubmitAnswered, F!SubmitUnknown, F!TypeOK
  <2>2. F!TypeOK' /\ RowsFirst' /\ ResultsTrue' /\ F!LoneRefundTrue'
    BY <2>1, <1>t DEF F!TypeOK, RowsFirst, ResultsTrue, F!LoneRefundTrue
  <2>3. QED
    BY <2>1, <2>2, SettleInv DEF RefundsInv
<1>6. ASSUME NEW r \in F!Refund, F!SubmitRefused(r) PROVE RefundsInv'
  <2>1. /\ r \in submitting /\ provider[r] = "asked"
        /\ provider' = [provider EXCEPT ![r] = "refused"]
        /\ refund' = [refund EXCEPT ![r] = IF refund[r] = "PENDING" THEN "FAILED"
                                                                  ELSE refund[r]]
        /\ submitting' = submitting \ {r}
        /\ UNCHANGED <<orphaned, cancelled, of, amount, identified, results>>
    BY <1>6 DEF F!SubmitRefused, F!Refuse
  <2>2. F!TypeOK'
    BY <2>1, <1>t DEF F!TypeOK, F!RefundStatus, F!ProviderStatus
  <2>3. RowsFirst'
    BY <2>1, <1>t DEF RowsFirst, F!TypeOK, F!Result
  <2>4. ResultsTrue'
    <3> SUFFICES ASSUME NEW x \in results
                 PROVE  provider'[x.about] = provider[x.about]
      BY <2>1, <1>t DEF ResultsTrue
    <3>1. provider[x.about] \in {"processed", "failed"}
      BY <1>t DEF ResultsTrue
    <3>2. QED
      BY <3>1, <2>1, <1>t DEF F!TypeOK
  <2>5. F!LoneRefundTrue'
    <3> SUFFICES ASSUME \A q \in F!Refund : q # 1 => refund'[q] = "NONE", NEW q \in F!Refund
                 PROVE  /\ refund'[q] = "PROCESSED" => provider'[q] = "processed"
                        /\ refund'[q] = "FAILED" => provider'[q] \in {"refused", "failed"}
      BY DEF F!LoneRefundTrue
    <3>1. \A p \in F!Refund : p # 1 => refund[p] = "NONE"
      BY <2>1, <1>t DEF F!TypeOK
    <3>2. /\ refund[q] = "PROCESSED" => provider[q] = "processed"
          /\ refund[q] = "FAILED" => provider[q] \in {"refused", "failed"}
      BY <3>1, <1>t DEF F!LoneRefundTrue
    <3>3. QED
      BY <3>2, <2>1, <1>t DEF F!TypeOK
  <2>6. QED
    BY <2>1, <2>2, <2>3, <2>4, <2>5, <1>t, SettleInv DEF RefundsInv, F!TypeOK
<1>7. ASSUME NEW r \in F!Refund, F!ResultRead(r) PROVE RefundsInv'
  <2>1. PICK row \in F!FoundFor(r) :
          /\ refund[row] = "PENDING"
          /\ results' = results \cup {[about |-> r, outcome |-> F!Outcome(r), row |-> row]}
    BY <1>7 DEF F!ResultRead
  <2>2. /\ provider[r] \in {"processed", "failed"}
        /\ UNCHANGED <<orphaned, cancelled, refund, of, amount, identified, submitting,
                       provider>>
    BY <1>7 DEF F!ResultRead
  <2>3. row \in F!Refund
    BY DEF F!FoundFor
  <2>4. F!Outcome(r) \in {"PROCESSED", "FAILED"}
    BY DEF F!Outcome
  <2>5. F!TypeOK'
    BY <2>1, <2>2, <2>3, <2>4, <1>t DEF F!TypeOK, F!Result
  <2>6. RowsFirst' /\ ResultsTrue' /\ F!LoneRefundTrue'
    BY <2>1, <2>2, <1>t DEF RowsFirst, ResultsTrue, F!LoneRefundTrue, F!Outcome
  <2>7. QED
    BY <2>2, <2>5, <2>6, SettleInv DEF RefundsInv
<1>8. ASSUME NEW x \in results, F!ResultWrite(x) PROVE RefundsInv'
  <2>1. /\ results' = results \ {x}
        /\ refund' = [refund EXCEPT ![x.row] = IF refund[x.row] = "PENDING" THEN x.outcome
                                                                  ELSE refund[x.row]]
        /\ UNCHANGED <<orphaned, cancelled, of, amount, identified, submitting, provider>>
    BY <1>8 DEF F!ResultWrite
  <2>2. /\ x.about \in F!Refund /\ x.row \in F!Refund
        /\ x.outcome \in {"PROCESSED", "FAILED"}
    BY <1>t DEF F!TypeOK, F!Result
  <2>3. F!TypeOK'
    BY <2>1, <2>2, <1>t DEF F!TypeOK, F!RefundStatus
  <2>4. \A q \in F!Refund : \/ refund'[q] = refund[q]
                            \/ /\ q = x.row /\ refund[q] = "PENDING"
                               /\ refund'[q] = x.outcome
    BY <2>1, <2>2, <1>t DEF F!TypeOK
  <2>5. RowsFirst'
    BY <2>1, <2>2, <2>4, <1>t DEF RowsFirst, F!TypeOK, F!Result
  <2>6. ResultsTrue'
    BY <2>1, <1>t DEF ResultsTrue
  <2>7. F!LoneRefundTrue'
    <3> SUFFICES ASSUME \A q \in F!Refund : q # 1 => refund'[q] = "NONE", NEW q \in F!Refund
                 PROVE  /\ refund'[q] = "PROCESSED" => provider'[q] = "processed"
                        /\ refund'[q] = "FAILED" => provider'[q] \in {"refused", "failed"}
      BY DEF F!LoneRefundTrue
    <3>1. \A p \in F!Refund : p # 1 => refund[p] = "NONE"
      BY <2>2, <2>4
    <3>2. /\ refund[q] = "PROCESSED" => provider[q] = "processed"
          /\ refund[q] = "FAILED" => provider[q] \in {"refused", "failed"}
      BY <3>1, <1>t DEF F!LoneRefundTrue
    <3>3. refund[x.row] # "NONE" /\ refund[x.about] # "NONE"
      BY <2>2, <1>t DEF RowsFirst, ResultsTrue
    <3>4. x.row = 1 /\ x.about = 1
      BY <3>1, <3>3, <2>2
    <3>5. x.outcome = IF provider[1] = "processed" THEN "PROCESSED" ELSE "FAILED"
      BY <3>4, <1>t DEF ResultsTrue
    <3>6. provider[1] \in {"processed", "failed"}
      BY <3>4, <1>t DEF ResultsTrue
    <3>7. QED
      BY <2>1, <2>4, <3>2, <3>4, <3>5, <3>6
  <2>8. QED
    BY <2>1, <2>2, <2>3, <2>4, <2>5, <2>6, <2>7, SettleInv DEF RefundsInv
<1>9. CASE F!Crash
  <2>1. F!TypeOK' /\ RowsFirst' /\ ResultsTrue' /\ F!LoneRefundTrue'
    BY <1>9, <1>t DEF F!Crash, F!TypeOK, RowsFirst, ResultsTrue, F!LoneRefundTrue
  <2>2. QED
    BY <1>9, <2>1, SettleInv DEF F!Crash, RefundsInv
<1>10. CASE UNCHANGED F!vars
  <2>1. F!TypeOK' /\ RowsFirst' /\ ResultsTrue' /\ F!LoneRefundTrue'
    BY <1>10, <1>t DEF F!vars, F!server, F!TypeOK, RowsFirst, ResultsTrue, F!LoneRefundTrue
  <2>2. QED
    BY <1>10, <2>1, SettleInv DEF F!vars, RefundsInv
<1>11. QED
  BY <1>1, <1>2, <1>3, <1>4, <1>5, <1>6, <1>7, <1>8, <1>9, <1>10 DEF F!Next

(* The invariant of the rows, the results under way and Paystack.          *)
THEOREM RefundsInvariance == F!Spec => []RefundsInv
<1>1. QED
  BY RefundsInit, RefundsNext, PTL DEF F!Spec

(* An order has at most one live refund, whatever fails or is refused      *)
(* meanwhile.                                                              *)
THEOREM SpecOneLivePerOrder == F!Spec => []F!OneLivePerOrder
<1>1. RefundsInv => F!OneLivePerOrder
  BY DEF RefundsInv
<1>2. QED
  BY <1>1, RefundsInvariance, PTL

(* A refund that is the only one of its payment ends as Paystack ended it, *)
(* for any timing of answers, events, duplicates and crashes.              *)
THEOREM SpecLoneRefundTrue == F!Spec => []F!LoneRefundTrue
<1>1. RefundsInv => F!LoneRefundTrue
  BY DEF RefundsInv
<1>2. QED
  BY <1>1, RefundsInvariance, PTL

(* Every write of Refund.status is guarded on PENDING, or is the row's     *)
(* creation.                                                               *)
LEMMA StepFirstResultStays ==
  ASSUME RefundsInv, F!Next, NEW r \in F!Refund, refund[r] \in {"PROCESSED", "FAILED"}
  PROVE  refund'[r] = refund[r]
<1>t. F!TypeOK
  BY DEF RefundsInv
<1>1. ASSUME NEW q \in F!Refund, NEW what, NEW sum, F!Create(q, what, sum)
      PROVE  refund'[r] = refund[r]
  BY <1>1, <1>t DEF F!Create, F!TypeOK
<1>2. ASSUME NEW q \in F!Refund, F!SubmitRefused(q) PROVE refund'[r] = refund[r]
  BY <1>2, <1>t DEF F!SubmitRefused, F!Refuse, F!TypeOK
<1>3. ASSUME NEW x \in results, F!ResultWrite(x) PROVE refund'[r] = refund[r]
  BY <1>3, <1>t DEF F!ResultWrite, F!TypeOK
<1>4. QED
  BY <1>1, <1>2, <1>3
  DEF F!Next, F!CancelOrder, F!RefundRest, F!RefundOrder, F!Ask, F!SubmitAnswered, F!SubmitUnknown,
      F!ProviderTakes, F!ProviderSettles, F!ResultRead, F!Crash, F!server

(* The first result of a refund is final, for any number of refunds and    *)
(* of events.                                                              *)
THEOREM SpecFirstResultStays == F!Spec => F!FirstResultStays
<1>1. RefundsInv /\ [F!Next]_(F!vars) =>
        [\A r \in F!Refund : refund[r] \in {"PROCESSED", "FAILED"} =>
           refund'[r] = refund[r]]_(F!vars)
  BY StepFirstResultStays DEF F!vars
<1>2. QED
  BY <1>1, RefundsInvariance, PTL DEF F!Spec, F!FirstResultStays

-----------------------------------------------------------------------------
(* What is live among the refunds, in money *)

AmountsNatural == amount \in [F!Refund -> Nat]

(* What remains to be refunded, by the sum over the live refunds.            *)
LEMMA RemainingIsSum ==
  /\ F!Remaining = Charged - Sum(amount, F!LiveRefunds)
  /\ F!Remaining' = Charged - Sum(amount', F!LiveRefunds')
  BY DEF F!Remaining, F!MapThenSumSet, F!MapThenFoldSet, Sum, MapThenSumSet, MapThenFoldSet

(* Of the refunds there are finitely many.                                   *)
LEMMA LiveFinite == IsFiniteSet(F!Refund) /\ IsFiniteSet(F!LiveRefunds)
<1>1. IsFiniteSet(F!Refund)
  BY PartsAssumption, FS_Interval DEF F!RefundsAssumption, F!Refund
<1>2. F!LiveRefunds \subseteq F!Refund
  BY DEF F!LiveRefunds
<1>3. QED
  BY <1>1, <1>2, FS_Subset

(* The automatic refund is of all that was charged.                          *)
LEMMA AmountsInit == F!Init => AmountsNatural /\ F!WithinCharged
<1> SUFFICES ASSUME F!Init PROVE AmountsNatural /\ F!WithinCharged
  OBVIOUS
<1>1. Charged \in Nat /\ MaxRefunds \in Nat
  BY PartsAssumption DEF F!RefundsAssumption
<1>2. AmountsNatural /\ \A r \in F!Refund : amount[r] \in Nat
  BY <1>1 DEF F!Init, AmountsNatural
<1>3. CASE F!LiveRefunds = {}
  <2>1. Sum(amount, F!LiveRefunds) = 0
    BY <1>3, SumEmpty
  <2>2. F!Remaining = Charged - 0
    BY <2>1, RemainingIsSum
  <2>3. QED
    BY <1>1, <1>2, <2>2 DEF F!WithinCharged
<1>4. CASE F!LiveRefunds # {}
  <2>1. F!LiveRefunds = {1} /\ orphaned /\ 1 \in F!Refund
    BY <1>4 DEF F!Init, F!LiveRefunds, F!LiveStatus
  <2>2. amount[1] = Charged
    BY <2>1 DEF F!Init
  <2>3. Sum(amount, {1}) = amount[1] + Sum(amount, {1} \ {1})
    BY <1>2, <2>1, LiveFinite, SumRemove
  <2>4. {1} \ {1} = {}
    OBVIOUS
  <2>5. Sum(amount, {1}) = Charged
    BY <2>2, <2>3, <2>4, <1>1, SumEmpty
  <2>6. F!Remaining = Charged - Charged
    BY <2>1, <2>5, RemainingIsSum
  <2>7. QED
    BY <1>1, <1>2, <2>6 DEF F!WithinCharged
<1>5. QED
  BY <1>2, <1>3, <1>4

(* A new row adds no more than what remains.                                 *)
LEMMA AmountsCreate ==
  ASSUME RefundsInv, AmountsNatural, F!WithinCharged,
         NEW r \in F!Refund, NEW what, NEW sum \in Nat, F!Create(r, what, sum)
  PROVE  AmountsNatural' /\ F!WithinCharged'
<1> DEFINE live == F!LiveRefunds
<1>1. /\ refund[r] = "NONE" /\ refund' = [refund EXCEPT ![r] = "PENDING"]
      /\ amount' = [amount EXCEPT ![r] = sum]
      /\ sum <= F!Remaining
  BY DEF F!Create
<1>2. AmountsNatural'
  BY <1>1 DEF AmountsNatural
<1>3. r \notin live /\ F!LiveRefunds' = live \cup {r}
  BY <1>1 DEF RefundsInv, F!TypeOK, F!LiveRefunds, F!LiveStatus
<1>4. /\ \A q \in live : amount'[q] = amount[q] /\ amount[q] \in Int
      /\ \A q \in live \cup {r} : amount'[q] \in Int
      /\ amount'[r] = sum
  BY <1>1, <1>2, <1>3 DEF AmountsNatural, F!LiveRefunds
<1>5. Sum(amount', live \cup {r}) = amount'[r] + Sum(amount', live)
  BY <1>3, <1>4, LiveFinite, SumAdd
<1>6. Sum(amount', live) = Sum(amount, live)
  BY <1>4, LiveFinite, SumSame
<1>7. Sum(amount, live) \in Int
  BY <1>4, LiveFinite, SumType
<1>8. F!Remaining = Charged - Sum(amount, live) /\ Charged \in Nat
  BY RemainingIsSum, PartsAssumption DEF F!RefundsAssumption
<1>9. F!Remaining' = Charged - Sum(amount', live \cup {r})
  BY <1>3, RemainingIsSum
<1>10. QED
  <2> HIDE DEF live
  <2>1. F!Remaining' = Charged - (sum + Sum(amount, live))
    BY <1>4, <1>5, <1>6, <1>9
  <2>2. F!Remaining' >= 0
    BY <2>1, <1>1, <1>7, <1>8
  <2>3. QED
    BY <2>2, <1>2 DEF F!WithinCharged

(* Any other step keeps the amounts, and no row comes alive.                 *)
LEMMA AmountsSettle ==
  ASSUME AmountsNatural, F!WithinCharged, UNCHANGED amount,
         \A r \in F!Refund : refund'[r] \in F!LiveStatus => refund[r] \in F!LiveStatus
  PROVE  AmountsNatural' /\ F!WithinCharged'
<1>1. F!LiveRefunds' \subseteq F!LiveRefunds
  BY DEF F!LiveRefunds
<1>2. \A r \in F!LiveRefunds : amount[r] \in Nat
  BY DEF AmountsNatural, F!LiveRefunds
<1>3. Sum(amount, F!LiveRefunds') <= Sum(amount, F!LiveRefunds)
  BY <1>1, <1>2, LiveFinite, SumSubset
<1>4. Sum(amount, F!LiveRefunds) \in Int /\ Sum(amount, F!LiveRefunds') \in Int
  BY <1>1, <1>2, LiveFinite, FS_Subset, SumType
<1>5. F!Remaining' = Charged - Sum(amount, F!LiveRefunds')
  BY RemainingIsSum
<1>6. QED
  BY <1>3, <1>4, <1>5, RemainingIsSum, PartsAssumption
  DEF F!WithinCharged, F!RefundsAssumption, AmountsNatural

(* The amounts stay natural and within the charge at every step.             *)
LEMMA AmountsNext ==
  RefundsInv /\ AmountsNatural /\ F!WithinCharged /\ [F!Next]_(F!vars)
    => AmountsNatural' /\ F!WithinCharged'
<1> SUFFICES ASSUME RefundsInv, AmountsNatural, F!WithinCharged, [F!Next]_(F!vars)
             PROVE  AmountsNatural' /\ F!WithinCharged'
  OBVIOUS
<1>t. F!TypeOK
  BY DEF RefundsInv
<1>1. ASSUME NEW r \in F!Refund, F!RefundRest(r)
      PROVE  AmountsNatural' /\ F!WithinCharged'
  <2>1. F!Create(r, Whole, F!Remaining) /\ F!Remaining > 0
    BY <1>1 DEF F!RefundRest, F!Create
  <2>2. F!Remaining \in Int
    <3>1. \A q \in F!LiveRefunds : amount[q] \in Int
      BY DEF AmountsNatural, F!LiveRefunds
    <3>2. Sum(amount, F!LiveRefunds) \in Int /\ Charged \in Nat
      BY <3>1, LiveFinite, SumType, PartsAssumption DEF F!RefundsAssumption
    <3>3. QED
      BY <3>2, RemainingIsSum
  <2>3. F!Remaining \in Nat
    BY <2>1, <2>2
  <2>4. QED
    BY <2>1, <2>3, AmountsCreate
<1>2. ASSUME NEW r \in F!Refund, NEW o \in Bought, F!RefundOrder(r, o)
      PROVE  AmountsNatural' /\ F!WithinCharged'
  <2>1. F!Create(r, o, Share[o]) /\ Share[o] \in Nat
    BY <1>2, PartsAssumption DEF F!RefundOrder, F!RefundsAssumption
  <2>2. QED
    BY <2>1, AmountsCreate
<1>3. ASSUME NEW r \in F!Refund, F!SubmitRefused(r)
      PROVE  AmountsNatural' /\ F!WithinCharged'
  <2>1. \A q \in F!Refund : refund'[q] \in F!LiveStatus => refund[q] \in F!LiveStatus
    BY <1>3, <1>t DEF F!SubmitRefused, F!Refuse, F!TypeOK, F!LiveStatus
  <2>2. QED
    BY <1>3, <2>1, AmountsSettle DEF F!SubmitRefused
<1>4. ASSUME NEW x \in results, F!ResultWrite(x)
      PROVE  AmountsNatural' /\ F!WithinCharged'
  <2>1. \A q \in F!Refund : refund'[q] \in F!LiveStatus => refund[q] \in F!LiveStatus
    BY <1>4, <1>t DEF F!ResultWrite, F!TypeOK, F!LiveStatus
  <2>2. QED
    BY <1>4, <2>1, AmountsSettle DEF F!ResultWrite
<1>5. ASSUME UNCHANGED <<refund, amount>>
      PROVE  AmountsNatural' /\ F!WithinCharged'
  BY <1>5, AmountsSettle
<1>6. QED
  BY <1>1, <1>2, <1>3, <1>4, <1>5
  DEF F!Next, F!vars, F!CancelOrder, F!Ask, F!SubmitAnswered, F!SubmitUnknown,
      F!ProviderTakes, F!ProviderSettles, F!ResultRead, F!Crash, F!server

-----------------------------------------------------------------------------
(* Threads, for every set of orders, agents and messages.                    *)

ThreadRow == [agent : Agent \cup {Nothing}, last : T!Time, buyerRead : T!Time, agentRead : T!Time]
MessageRow == [state : {"none", "inserted", "saved"}, of : Talked \cup {Nothing}, at : T!Time]
RequestRow == [step : {"idle", "open", "send", "inserted", "updated"},
               of : Talked \cup {Nothing}, by : T!User \cup {Nothing},
               id : (T!Message \cup Agent) \cup {Nothing}]

(* A message is saved, or about to be, by the one request that inserted it.  *)
Inserting(r) == asking[r].step \in {"inserted", "updated"}
RequestsSound ==
  \A r \in Request :
    /\ asking[r].step \in {"send", "inserted", "updated"} =>
         /\ asking[r].id \in T!Message /\ asking[r].of \in Talked
         /\ asking[r].id[1] \in {Buyer, thread[asking[r].of].agent}
         /\ T!Opened(asking[r].of)
    /\ asking[r].step = "open" =>
         /\ asking[r].of \in Talked /\ asking[r].id \in Agent
         /\ deal[asking[r].of] # "AWAITING_PAYMENT"
    /\ Inserting(r) =>
         /\ message[asking[r].id].state = "inserted"
         /\ message[asking[r].id].of = asking[r].of
         /\ deal[asking[r].of] # "CLOSED"

OneInserts ==
  \A r, q \in Request : Inserting(r) /\ Inserting(q) /\ asking[r].id = asking[q].id => r = q

(* Finitely many messages have been written so far, and clients have seen    *)
(* none but those saved.                                                     *)
Written == {m \in T!Message : message[m].state # "none"}
SeenSaved == \A u \in Reader, o \in Talked : seen[u][o] \subseteq T!Saved(o)

ThreadsInv ==
  /\ T!TypeOK
  /\ RequestsSound
  /\ OneInserts
  /\ IsFiniteSet(Written)
  /\ SeenSaved
  /\ T!MissNeedsOverlap
  /\ T!ThreadsKeepTheirPeople

(* Initially no message is written and nobody has read.                      *)
LEMMA ThreadsInit == T!Init => ThreadsInv
<1> SUFFICES ASSUME T!Init PROVE ThreadsInv
  OBVIOUS
<1>1. T!TypeOK
  BY PartsAssumption
  DEF T!Init, T!TypeOK, T!ConversationsAssumption, T!Time, T!NoThread, T!NoMessage, T!NoRequest
<1>2. RequestsSound /\ OneInserts
  BY DEF T!Init, RequestsSound, OneInserts, Inserting, T!NoRequest
<1>3. Written = {} /\ \A o \in Talked : T!Saved(o) = {}
  BY DEF T!Init, Written, T!Saved, T!NoMessage
<1>4. SeenSaved /\ T!MissNeedsOverlap /\ IsFiniteSet(Written)
  BY <1>3, FS_EmptySet DEF T!Init, SeenSaved, T!MissNeedsOverlap
<1>5. T!ThreadsKeepTheirPeople
  BY <1>3 DEF T!Init, T!ThreadsKeepTheirPeople, T!Opened, T!NoThread
<1>6. QED
  BY <1>1, <1>2, <1>4, <1>5 DEF ThreadsInv

(* orderBy createdAt, id: a linear order of the messages. *)
LEMMA OlderIsOrder ==
  ASSUME T!TypeOK, NEW l \in T!Message, NEW m \in T!Message, NEW n \in T!Message
  PROVE  /\ ~T!Older(m, m)
         /\ T!Older(l, m) /\ T!Older(m, n) => T!Older(l, n)
         /\ m = n \/ T!Older(m, n) \/ T!Older(n, m)
<1>1. /\ message[l].at \in Nat /\ message[m].at \in Nat /\ message[n].at \in Nat
      /\ Rank[l] \in Nat /\ Rank[m] \in Nat /\ Rank[n] \in Nat
      /\ Rank[m] = Rank[n] => m = n
  BY PartsAssumption DEF T!TypeOK, T!Time, T!ConversationsAssumption
<1>2. QED
  BY <1>1 DEF T!Older

(* Of finitely many messages one is the newest, and one the oldest. *)
LEMMA NewestExists ==
  ASSUME T!TypeOK, NEW S \in SUBSET T!Message, IsFiniteSet(S), S # {}
  PROVE  (\E m \in S : \A n \in S : ~T!Older(m, n)) /\ (\E m \in S : \A n \in S : ~T!Older(n, m))
<1> DEFINE Bounded == {R \in SUBSET S : \/ R = {}
                                     \/ /\ \E m \in R : \A n \in R : ~T!Older(m, n)
                                        /\ \E m \in R : \A n \in R : ~T!Older(n, m)}
<1>1. {} \in Bounded
  OBVIOUS
<1>2. ASSUME NEW R \in SUBSET S, NEW x \in S \ R, R \in Bounded PROVE R \cup {x} \in Bounded
  <2>0. x \in T!Message /\ R \subseteq T!Message
    OBVIOUS
  <2>1. CASE R = {}
    <3>1. ~T!Older(x, x)
      BY <2>0, OlderIsOrder
    <3>2. QED
      BY <2>1, <3>1
  <2>2. CASE R # {}
    <3>1. PICK m \in R : \A n \in R : ~T!Older(m, n)
      BY <1>2, <2>2
    <3>2. \E k \in R \cup {x} : \A n \in R \cup {x} : ~T!Older(k, n)
      <4>1. CASE T!Older(m, x)
        <5>1. ASSUME NEW n \in R, T!Older(x, n) PROVE FALSE
          BY <2>0, <3>1, <4>1, <5>1, OlderIsOrder
        <5>2. ~T!Older(x, x)
          BY <2>0, OlderIsOrder
        <5>3. QED
          BY <5>1, <5>2
      <4>2. CASE ~T!Older(m, x)
        BY <3>1, <4>2
      <4>3. QED
        BY <4>1, <4>2
    <3>3. PICK p \in R : \A n \in R : ~T!Older(n, p)
      BY <1>2, <2>2
    <3>4. \E k \in R \cup {x} : \A n \in R \cup {x} : ~T!Older(n, k)
      <4>1. CASE T!Older(x, p)
        <5>1. ASSUME NEW n \in R, T!Older(n, x) PROVE FALSE
          BY <2>0, <3>3, <4>1, <5>1, OlderIsOrder
        <5>2. ~T!Older(x, x)
          BY <2>0, OlderIsOrder
        <5>3. QED
          BY <5>1, <5>2
      <4>2. CASE ~T!Older(x, p)
        BY <3>3, <4>2
      <4>3. QED
        BY <4>1, <4>2
    <3>5. QED
      BY <3>2, <3>4
  <2>3. QED
    BY <2>1, <2>2
<1>3. S \in Bounded
  <2> HIDE DEF Bounded
  <2>1. QED
    BY <1>1, <1>2, AllSubsets
<1>4. QED
  BY <1>3

(* The instance counts as this module does. *)
LEMMA SameCardinality == \A S : T!Cardinality(S) = Cardinality(S)
  BY DEF T!Cardinality, Cardinality

(* A page has no gap: with a message it has every newer one of those asked   *)
(* for, or every older one.                                                  *)
LEMMA PageWhole ==
  ASSUME T!TypeOK, NEW S \in SUBSET T!Message, IsFiniteSet(S), NEW m \in S, NEW n \in S, T!Older(m, n)
  PROVE  /\ m \in T!Latest(S) => n \in T!Latest(S)
         /\ n \in T!Earliest(S) => m \in T!Earliest(S)
<1>1. {k \in S : T!Older(n, k)} \subseteq {k \in S : T!Older(m, k)}
  BY OlderIsOrder
<1>2. {k \in S : T!Older(k, m)} \subseteq {k \in S : T!Older(k, n)}
  BY OlderIsOrder
<1>3. /\ IsFiniteSet({k \in S : T!Older(m, k)}) /\ IsFiniteSet({k \in S : T!Older(k, n)})
      /\ IsFiniteSet({k \in S : T!Older(n, k)}) /\ IsFiniteSet({k \in S : T!Older(k, m)})
  BY FS_Subset
<1>4. Cardinality({k \in S : T!Older(n, k)}) <= Cardinality({k \in S : T!Older(m, k)})
  BY <1>1, <1>3, FS_Subset
<1>5. Cardinality({k \in S : T!Older(k, m)}) <= Cardinality({k \in S : T!Older(k, n)})
  BY <1>2, <1>3, FS_Subset
<1>6. /\ Cardinality({k \in S : T!Older(n, k)}) \in Nat /\ Cardinality({k \in S : T!Older(m, k)}) \in Nat
      /\ Cardinality({k \in S : T!Older(k, m)}) \in Nat /\ Cardinality({k \in S : T!Older(k, n)}) \in Nat
      /\ PageSize \in Nat
  BY <1>3, FS_CardinalityType, PartsAssumption DEF T!ConversationsAssumption
<1>7. QED
  BY <1>4, <1>5, <1>6, SameCardinality DEF T!Latest, T!Earliest

(* A step that saves nothing, drops nothing saved, and shows nothing.        *)
LEMMA ThreadsQuiet ==
  ASSUME ThreadsInv, UNCHANGED <<seen, overtaken>>,
         \A m \in T!Message : \/ message'[m] = message[m]
                              \/ message[m].state # "saved" /\ message'[m].state # "saved",
         \A o \in Talked : T!Opened(o) => thread'[o].agent = thread[o].agent
  PROVE  /\ SeenSaved' /\ T!MissNeedsOverlap'
         /\ \A o \in Talked : T!Saved(o)' = T!Saved(o)
         /\ \A o \in Talked : \A m \in T!Saved(o)' : m[1] \in {Buyer, thread'[o].agent}
<1>1. ASSUME NEW o \in Talked PROVE T!Saved(o)' = T!Saved(o)
  BY DEF T!Saved
<1>2. \A o \in Talked, m, n \in T!Message :
        m \in T!Saved(o) /\ n \in T!Saved(o) => (T!Older(m, n)' <=> T!Older(m, n))
  BY DEF T!Saved, T!Older
<1>3. SeenSaved'
  BY <1>1 DEF ThreadsInv, SeenSaved
<1>4. T!MissNeedsOverlap'
  <2> SUFFICES ASSUME NEW u \in Reader, NEW o \in Talked,
                      NEW m \in T!Saved(o)' \ (seen'[u][o] \cup overtaken'),
                      NEW n \in seen'[u][o], NEW p \in seen'[u][o]
               PROVE  ~(T!Older(n, m)' /\ T!Older(m, p)')
    BY DEF T!MissNeedsOverlap
  <2>1. m \in T!Saved(o) \ (seen[u][o] \cup overtaken) /\ n \in seen[u][o] /\ p \in seen[u][o]
    BY <1>1
  <2>2. n \in T!Saved(o) /\ p \in T!Saved(o)
    BY <2>1 DEF ThreadsInv, SeenSaved
  <2>3. m \in T!Message /\ n \in T!Message /\ p \in T!Message
    BY <2>1, <2>2 DEF T!Saved
  <2>4. ~(T!Older(n, m) /\ T!Older(m, p))
    BY <2>1 DEF ThreadsInv, T!MissNeedsOverlap
  <2>5. (T!Older(n, m)' <=> T!Older(n, m)) /\ (T!Older(m, p)' <=> T!Older(m, p))
    BY <1>2, <2>1, <2>2, <2>3
  <2>6. QED
    BY <2>4, <2>5
<1>5. ASSUME NEW o \in Talked, NEW m \in T!Saved(o)' PROVE m[1] \in {Buyer, thread'[o].agent}
  <2>1. m \in T!Saved(o) /\ m \in T!Message
    BY <1>1, <1>5 DEF T!Saved
  <2>2. m[1] \in {Buyer, thread[o].agent} /\ m[1] # Nothing
    BY <2>1, PartsAssumption DEF ThreadsInv, T!ThreadsKeepTheirPeople, T!ConversationsAssumption, T!Message
  <2>3. QED
    BY <2>2 DEF T!Opened
<1>6. QED
  BY <1>1, <1>3, <1>4, <1>5

(* Time, the order and its agent: no request and no message moves.           *)
LEMMA SurroundingsInv ==
  ASSUME ThreadsInv, \/ T!Tick
                     \/ \E o \in Talked : T!Pay(o) \/ T!Assign(o) \/ T!Close(o)
                     \/ \E u \in Reader, o \in Talked : T!MarkRead(u, o)
  PROVE  ThreadsInv'
<1>t. T!TypeOK /\ RequestsSound /\ OneInserts /\ T!ThreadsKeepTheirPeople
  BY DEF ThreadsInv
<1>1. UNCHANGED <<message, asking, seen, overtaken>>
  BY DEF T!Tick, T!Pay, T!Assign, T!Close, T!MarkRead
<1>2. /\ T!TypeOK'
      /\ \A o \in Talked : thread'[o].agent = thread[o].agent
      /\ \A o \in Talked :
           /\ deal[o] # "AWAITING_PAYMENT" => deal'[o] # "AWAITING_PAYMENT"
           /\ deal[o] # "CLOSED" => deal'[o] # "CLOSED" \/ ~T!Shared(o)
  <2>1. CASE T!Tick
    BY <1>t, <2>1, PartsAssumption DEF T!Tick, T!TypeOK, T!Time, T!ConversationsAssumption
  <2>2. ASSUME NEW o \in Talked, T!Pay(o) PROVE <1>2!1 /\ <1>2!2 /\ <1>2!3
    BY <1>t, <2>2 DEF T!Pay, T!TypeOK
  <2>3. ASSUME NEW o \in Talked, T!Assign(o) PROVE <1>2!1 /\ <1>2!2 /\ <1>2!3
    BY <1>t, <2>3 DEF T!Assign, T!TypeOK
  <2>4. ASSUME NEW o \in Talked, T!Close(o) PROVE <1>2!1 /\ <1>2!2 /\ <1>2!3
    BY <1>t, <2>4 DEF T!Close, T!Closable, T!TypeOK
  <2>5. ASSUME NEW u \in Reader, NEW o \in Talked, T!MarkRead(u, o)
        PROVE  <1>2!1 /\ <1>2!2 /\ <1>2!3
    <3>1. /\ thread' = IF u = Buyer THEN [thread EXCEPT ![o].buyerRead = clock]
                                    ELSE [thread EXCEPT ![o].agentRead = clock]
          /\ UNCHANGED <<clock, deal, assigned, message, asking, seen, overtaken>>
      BY <2>5 DEF T!MarkRead
    <3>2. clock \in T!Time /\ thread \in [Talked -> ThreadRow]
      BY <1>t DEF T!TypeOK, ThreadRow
    <3>3. thread' \in [Talked -> ThreadRow]
      BY <3>1, <3>2 DEF ThreadRow
    <3>4. \A p \in Talked : thread'[p].agent = thread[p].agent
      BY <3>1, <3>2 DEF ThreadRow
    <3>5. T!TypeOK'
      BY <3>1, <3>3, <1>t DEF T!TypeOK, ThreadRow
    <3>6. QED
      BY <3>1, <3>4, <3>5
  <2>6. QED
    BY <2>1, <2>2, <2>3, <2>4, <2>5
<1>3. RequestsSound'
  BY <1>1, <1>2, <1>t DEF RequestsSound, Inserting, T!Opened, T!Shared
<1>4. OneInserts' /\ Written' = Written
  BY <1>1, <1>t DEF OneInserts, Inserting, Written
<1>5. SeenSaved' /\ T!MissNeedsOverlap' /\ T!ThreadsKeepTheirPeople'
  BY <1>1, <1>2, <1>t, ThreadsQuiet DEF T!ThreadsKeepTheirPeople, T!Opened
<1>6. QED
  BY <1>2, <1>3, <1>4, <1>5 DEF ThreadsInv

(* open: whoever comes first creates the thread, and it stays.               *)
LEMMA OpenInv ==
  ASSUME ThreadsInv, NEW r \in Request,
         (\E u \in T!User, o \in Talked : T!OpenRead(r, u, o)) \/ T!OpenCreate(r)
  PROVE  ThreadsInv'
<1>t. T!TypeOK /\ RequestsSound /\ OneInserts /\ T!ThreadsKeepTheirPeople
  BY DEF ThreadsInv
<1>1. UNCHANGED <<deal, message, seen, overtaken>>
  BY DEF T!OpenRead, T!OpenCreate
<1>2. /\ T!TypeOK'
      /\ ~Inserting(r)
      /\ \E new : /\ asking' = [asking EXCEPT ![r] = new]
                  /\ \/ new = T!NoRequest
                     \/ /\ new.step = "open" /\ new.of \in Talked /\ new.id \in Agent
                        /\ deal[new.of] # "AWAITING_PAYMENT"
      /\ \A o \in Talked : T!Opened(o) => thread'[o].agent = thread[o].agent
      /\ \A o \in Talked : T!Opened(o)' => T!Opened(o) \/ deal[o] # "AWAITING_PAYMENT"
  <2>1. ASSUME NEW u \in T!User, NEW o \in Talked, T!OpenRead(r, u, o)
        PROVE  <1>2!1 /\ <1>2!2 /\ <1>2!3 /\ <1>2!4 /\ <1>2!5
    <3> DEFINE new == [step |-> "open", of |-> o, by |-> u, id |-> assigned[o]]
    <3>1. asking' = [asking EXCEPT ![r] = new] /\ asking[r] = T!NoRequest
      BY <2>1 DEF T!OpenRead
    <3>2. /\ new.step = "open" /\ new.of \in Talked /\ new.id \in Agent
          /\ deal[new.of] # "AWAITING_PAYMENT"
      BY <2>1, <1>t DEF T!OpenRead, T!TypeOK
    <3>3. T!TypeOK'
      BY <2>1, <1>t DEF T!OpenRead, T!TypeOK
    <3>4. ~Inserting(r)
      BY <3>1 DEF Inserting, T!NoRequest
    <3>5. UNCHANGED thread
      BY <2>1 DEF T!OpenRead
    <3> HIDE DEF new
    <3>6. QED
      BY <3>1, <3>2, <3>3, <3>4, <3>5 DEF T!Opened
  <2>2. CASE T!OpenCreate(r)
    <3>1. asking' = [asking EXCEPT ![r] = T!NoRequest] /\ asking[r].step = "open"
      BY <2>2 DEF T!OpenCreate
    <3>2. asking[r].of \in Talked /\ asking[r].id \in Agent
          /\ deal[asking[r].of] # "AWAITING_PAYMENT"
      BY <3>1, <1>t DEF RequestsSound
    <3>3. \/ UNCHANGED thread
          \/ /\ ~T!Opened(asking[r].of)
             /\ thread' = [thread EXCEPT ![asking[r].of].agent = asking[r].id]
      BY <2>2 DEF T!OpenCreate
    <3>4. T!TypeOK'
      <4>1. thread' \in [Talked -> ThreadRow]
        <5>1. thread \in [Talked -> ThreadRow]
          BY <1>t DEF T!TypeOK, ThreadRow
        <5>2. CASE UNCHANGED thread
          BY <5>1, <5>2
        <5>3. ASSUME NEW o \in Talked, NEW a \in Agent, thread' = [thread EXCEPT ![o].agent = a]
              PROVE  thread' \in [Talked -> ThreadRow]
          <6>1. [thread[o] EXCEPT !.agent = a] \in ThreadRow
            BY <5>1 DEF ThreadRow
          <6>2. QED
            BY <5>1, <5>3, <6>1
        <5>4. QED
          BY <3>2, <3>3, <5>2, <5>3
      <4>2. asking' \in [Request -> RequestRow]
        BY <3>1, <1>t DEF T!TypeOK, RequestRow, T!NoRequest
      <4>3. QED
        BY <2>2, <4>1, <4>2, <1>t DEF T!OpenCreate, T!TypeOK, ThreadRow, RequestRow
    <3>5. ~Inserting(r)
      BY <3>1 DEF Inserting
    <3>6. /\ \A o \in Talked : T!Opened(o) => thread'[o].agent = thread[o].agent
          /\ \A o \in Talked : T!Opened(o)' => T!Opened(o) \/ deal[o] # "AWAITING_PAYMENT"
      BY <3>2, <3>3, <1>t DEF T!Opened, T!TypeOK
    <3>7. QED
      BY <3>1, <3>4, <3>5, <3>6
  <2>3. QED
    BY <2>1, <2>2
<1>3. RequestsSound'
  <2>1. PICK new : /\ asking' = [asking EXCEPT ![r] = new]
                   /\ \/ new = T!NoRequest
                      \/ /\ new.step = "open" /\ new.of \in Talked /\ new.id \in Agent
                         /\ deal[new.of] # "AWAITING_PAYMENT"
    BY <1>2
  <2>2. asking'[r] = new /\ \A q \in Request : q # r => asking'[q] = asking[q]
    BY <2>1, <1>t DEF T!TypeOK
  <2>3. ASSUME NEW q \in Request, q # r PROVE RequestsSound!(q)'
    BY <2>2, <2>3, <1>1, <1>2, <1>t DEF RequestsSound, Inserting, T!Opened
  <2>4. RequestsSound!(r)'
    BY <2>1, <2>2, <1>1 DEF T!NoRequest, Inserting
  <2>5. QED
    BY <2>3, <2>4 DEF RequestsSound
<1>4. OneInserts' /\ Written' = Written
  <2>1. ~Inserting(r)' /\ \A q \in Request : q # r => asking'[q] = asking[q]
    BY <1>2, <1>t DEF T!TypeOK, Inserting, T!NoRequest
  <2>2. QED
    BY <2>1, <1>1, <1>t DEF OneInserts, Inserting, Written
<1>5. SeenSaved' /\ T!MissNeedsOverlap' /\ T!ThreadsKeepTheirPeople'
  BY <1>1, <1>2, <1>t, ThreadsQuiet DEF T!ThreadsKeepTheirPeople
<1>6. QED
  BY <1>2, <1>3, <1>4, <1>5 DEF ThreadsInv

(* A send until its commit, and a send that ends without one: of the         *)
(* messages only the request's own moves, and it is not saved.               *)
LEMMA SendInv ==
  ASSUME ThreadsInv, NEW r \in Request,
         \/ \E u \in T!User, o \in Talked, c \in ClientId : T!SendRead(r, u, o, c)
         \/ T!SendInsert(r) \/ T!SendUpdate(r) \/ T!SendEnds(r) \/ T!Abort(r)
  PROVE  ThreadsInv'
<1> DEFINE m == asking[r].id
           Others == \A q \in Request : q # r => asking'[q] = asking[q]
           Rests == asking'[r] = T!NoRequest
           Reads == /\ asking'[r].step = "send"
                    /\ asking'[r].id \in T!Message /\ asking'[r].of \in Talked
                    /\ asking'[r].id[1] \in {Buyer, thread[asking'[r].of].agent}
                    /\ T!Opened(asking'[r].of)
           Inserts == /\ asking[r].step = "send" /\ message[m].state = "none"
                      /\ deal[asking[r].of] # "CLOSED"
                      /\ message' = [message EXCEPT ![m] =
                                       [state |-> "inserted", of |-> asking[r].of, at |-> clock]]
                      /\ asking'[r] = [asking[r] EXCEPT !.step = "inserted"]
           Updates == /\ asking[r].step = "inserted"
                      /\ asking'[r] = [asking[r] EXCEPT !.step = "updated"]
           Filter == Inserting(r) /\ message' = [message EXCEPT ![m] = T!NoMessage]
<1>t. T!TypeOK /\ RequestsSound /\ OneInserts /\ T!ThreadsKeepTheirPeople
  BY DEF ThreadsInv
<1>1. UNCHANGED <<clock, deal, assigned, thread, seen, overtaken>>
  BY DEF T!SendRead, T!SendInsert, T!SendUpdate, T!SendEnds, T!Abort
<1>2. /\ asking' \in [Request -> RequestRow] /\ Others
      /\ \/ Inserts
         \/ Updates /\ UNCHANGED message
         \/ Reads /\ ~Inserting(r) /\ UNCHANGED message
         \/ Rests /\ Filter
         \/ Rests /\ ~Inserting(r) /\ UNCHANGED message
  <2>r. asking \in [Request -> RequestRow] /\ asking[r] \in RequestRow
    BY <1>t DEF T!TypeOK, RequestRow
  <2>n. T!NoRequest \in RequestRow
    BY DEF T!NoRequest, RequestRow
  <2>1. ASSUME NEW u \in T!User, NEW o \in Talked, NEW c \in ClientId, T!SendRead(r, u, o, c)
        PROVE  /\ asking' \in [Request -> RequestRow] /\ Others
               /\ Reads /\ ~Inserting(r) /\ UNCHANGED message
    <3> DEFINE new == [step |-> "send", of |-> o, by |-> u, id |-> <<u, c>>]
    <3>1. asking' = [asking EXCEPT ![r] = new] /\ asking[r] = T!NoRequest /\ UNCHANGED message
      BY <2>1 DEF T!SendRead
    <3>2. T!Opened(o) /\ u \in {Buyer, thread[o].agent}
      BY <2>1 DEF T!SendRead, T!Participant
    <3>3. /\ new.step = "send" /\ new.id \in T!Message /\ new.of = o /\ new.id[1] = u
          /\ new \in RequestRow
      BY DEF T!Message, RequestRow
    <3> HIDE DEF new
    <3>4. asking'[r] = new /\ asking' \in [Request -> RequestRow] /\ Others
      BY <2>r, <3>1, <3>3
    <3>5. ~Inserting(r)
      BY <3>1 DEF Inserting, T!NoRequest
    <3>6. QED
      BY <3>1, <3>2, <3>3, <3>4, <3>5
  <2>2. CASE T!SendInsert(r)
    <3>1. [asking[r] EXCEPT !.step = "inserted"] \in RequestRow
      BY <2>r DEF RequestRow
    <3>2. /\ asking' = [asking EXCEPT ![r] = [asking[r] EXCEPT !.step = "inserted"]]
          /\ asking[r].step = "send" /\ message[m].state = "none"
          /\ deal[asking[r].of] # "CLOSED"
          /\ message' = [message EXCEPT ![m] =
                           [state |-> "inserted", of |-> asking[r].of, at |-> clock]]
      BY <2>2, <2>r DEF T!SendInsert
    <3>3. asking' \in [Request -> RequestRow] /\ Others /\ Inserts
      <4> HIDE DEF m
      <4>1. QED
        BY <2>r, <3>1, <3>2
    <3>4. QED
      BY <3>3
  <2>3. CASE T!SendUpdate(r)
    <3>1. [asking[r] EXCEPT !.step = "updated"] \in RequestRow
      BY <2>r DEF RequestRow
    <3>2. /\ asking' = [asking EXCEPT ![r] = [asking[r] EXCEPT !.step = "updated"]]
          /\ asking[r].step = "inserted" /\ UNCHANGED message
      BY <2>3, <2>r DEF T!SendUpdate
    <3>3. QED
      BY <2>r, <3>1, <3>2
  <2>4. CASE T!SendEnds(r)
    <3>1. asking' = [asking EXCEPT ![r] = T!NoRequest] /\ UNCHANGED message /\ ~Inserting(r)
      BY <2>4 DEF T!SendEnds, Inserting
    <3>2. QED
      BY <2>r, <2>n, <3>1
  <2>5. CASE T!Abort(r)
    <3>1. /\ asking' = [asking EXCEPT ![r] = T!NoRequest]
          /\ Filter \/ (~Inserting(r) /\ UNCHANGED message)
      BY <2>5 DEF T!Abort, Inserting
    <3>2. QED
      <4> HIDE DEF Filter
      <4>1. QED
        BY <2>r, <2>n, <3>1
  <2>6. QED
    BY <2>1, <2>2, <2>3, <2>4, <2>5
<1> HIDE DEF Inserts, Updates, Reads, Rests, Filter
<1>3. /\ Inserts \/ Updates \/ Filter => m \in T!Message /\ asking[r].of \in Talked
      /\ Updates \/ Filter => message[m].state = "inserted"
  BY <1>t DEF RequestsSound, Inserting, Inserts, Updates, Filter
<1>4. \A n \in T!Message :
        \/ message'[n] = message[n]
        \/ n = m /\ message[n].state # "saved" /\ message'[n].state # "saved"
  BY <1>2, <1>3, <1>t DEF Inserts, Filter, T!NoMessage, T!TypeOK
<1>5. T!TypeOK'
  <2>1. message' \in [T!Message -> MessageRow]
    <3>1. message \in [T!Message -> MessageRow] /\ clock \in T!Time
      BY <1>t DEF T!TypeOK, MessageRow
    <3>2. T!NoMessage \in MessageRow
      BY PartsAssumption DEF T!NoMessage, MessageRow, T!Time, T!ConversationsAssumption
    <3>3. asking[r].of \in Talked =>
            [state |-> "inserted", of |-> asking[r].of, at |-> clock] \in MessageRow
      BY <3>1 DEF MessageRow
    <3>4. Inserts => /\ [state |-> "inserted", of |-> asking[r].of, at |-> clock] \in MessageRow
                     /\ message' = [message EXCEPT ![m] =
                                      [state |-> "inserted", of |-> asking[r].of, at |-> clock]]
      BY <1>3, <3>3 DEF Inserts
    <3>5. Filter => message' = [message EXCEPT ![m] = T!NoMessage]
      BY DEF Filter
    <3> HIDE DEF m
    <3>6. CASE Inserts
      BY <3>1, <3>4, <3>6
    <3>7. CASE Filter
      BY <3>1, <3>2, <3>5, <3>7
    <3>8. QED
      BY <1>2, <3>1, <3>6, <3>7
  <2>2. QED
    BY <1>1, <1>2, <2>1, <1>t DEF T!TypeOK, RequestRow, MessageRow
<1>6. ASSUME NEW q \in Request, q # r PROVE RequestsSound!(q)'
  <2>1. asking'[q] = asking[q] /\ RequestsSound!(q)
    BY <1>2, <1>6, <1>t DEF RequestsSound
  <2>2. Inserting(q) => message'[asking[q].id] = message[asking[q].id]
    <3>1. ASSUME Inserting(q), asking[q].id = m, Inserts \/ Filter PROVE FALSE
      <4>1. message[asking[q].id].state = "inserted"
        BY <2>1, <3>1
      <4>2. Inserting(r)
        BY <3>1, <4>1 DEF Inserts, Filter
      <4>3. QED
        BY <1>6, <3>1, <4>2, <1>t DEF OneInserts
    <3>2. Inserting(q) => asking[q].id \in T!Message
      BY <2>1 DEF Inserting
    <3>3. QED
      BY <3>1, <3>2, <1>2, <1>t DEF Inserts, Filter, T!TypeOK
  <2>3. QED
    BY <2>1, <2>2, <1>1 DEF Inserting, T!Opened
<1>7. RequestsSound!(r)'
  <2>1. CASE Inserts
    <3>1. /\ asking'[r].step = "inserted" /\ asking'[r].id = m
          /\ asking'[r].of = asking[r].of
      BY <2>1, <1>t DEF Inserts, T!TypeOK
    <3>2. message'[m].state = "inserted" /\ message'[m].of = asking[r].of
      BY <2>1, <1>3, <1>t DEF Inserts, T!TypeOK
    <3>3. RequestsSound!(r) /\ asking[r].step = "send" /\ deal[asking[r].of] # "CLOSED"
      BY <2>1, <1>t DEF RequestsSound, Inserts
    <3>4. QED
      BY <3>1, <3>2, <3>3, <1>1 DEF Inserting, T!Opened
  <2>2. CASE Updates /\ UNCHANGED message
    <3>1. /\ asking'[r].step = "updated" /\ asking'[r].id = m
          /\ asking'[r].of = asking[r].of
      BY <2>2, <1>t DEF Updates, T!TypeOK
    <3>2. RequestsSound!(r) /\ asking[r].step = "inserted"
      BY <2>2, <1>t DEF RequestsSound, Updates
    <3>3. QED
      BY <2>2, <3>1, <3>2, <1>1 DEF Inserting, T!Opened
  <2>3. CASE Reads
    BY <2>3, <1>1 DEF Reads, Inserting, T!Opened
  <2>4. CASE Rests
    BY <2>4 DEF Rests, T!NoRequest, Inserting
  <2>5. QED
    BY <1>2, <2>1, <2>2, <2>3, <2>4
<1>8. RequestsSound'
  BY <1>6, <1>7 DEF RequestsSound
<1>9. OneInserts'
  <2> SUFFICES ASSUME NEW p \in Request, NEW q \in Request, Inserting(p)', Inserting(q)',
                      asking'[p].id = asking'[q].id, p # q
               PROVE  FALSE
    BY DEF OneInserts
  <2>1. \A s \in Request : s # r => (Inserting(s)' <=> Inserting(s)) /\ asking'[s].id = asking[s].id
    BY <1>2 DEF Inserting
  <2>2. PICK s \in Request : s # r /\ Inserting(s) /\ asking[s].id = asking'[r].id /\ Inserting(r)'
    BY <2>1, <1>t DEF OneInserts
  <2>3. asking'[r].id = m /\ (Inserts \/ Updates)
    BY <2>2, <1>2, <1>t DEF Inserts, Updates, Reads, Rests, Inserting, T!NoRequest, T!TypeOK
  <2>4. message[m].state = "inserted"
    BY <2>2, <2>3, <1>t DEF RequestsSound
  <2>5. Inserting(r)
    BY <2>3, <2>4 DEF Inserts, Updates, Inserting
  <2>6. QED
    BY <2>2, <2>3, <2>5, <1>t DEF OneInserts
<1>10. IsFiniteSet(Written')
  <2>1. Written' \subseteq Written \cup {m}
    BY <1>4 DEF Written
  <2>2. IsFiniteSet(Written \cup {m})
    BY FS_AddElement DEF ThreadsInv
  <2>3. QED
    BY <2>1, <2>2, FS_Subset
<1>11. SeenSaved' /\ T!MissNeedsOverlap' /\ T!ThreadsKeepTheirPeople'
  BY <1>1, <1>4, <1>t, ThreadsQuiet DEF T!ThreadsKeepTheirPeople, T!Opened
<1>12. QED
  BY <1>5, <1>8, <1>9, <1>10, <1>11 DEF ThreadsInv

(* The commit: the message is saved, and if it is older than one saved       *)
(* before, it is overtaken.                                                  *)
LEMMA CommitInv ==
  ASSUME ThreadsInv, NEW r \in Request, T!SendCommit(r)
  PROVE  ThreadsInv'
<1> DEFINE m == asking[r].id
           o == asking[r].of
<1>t. T!TypeOK /\ RequestsSound /\ OneInserts /\ T!ThreadsKeepTheirPeople
  BY DEF ThreadsInv
<1>1. /\ asking[r].step = "updated"
      /\ message' = [message EXCEPT ![m].state = "saved"]
      /\ thread' = [thread EXCEPT ![o].last = message[m].at]
      /\ overtaken' = IF \E n \in T!Saved(o) : T!Older(m, n) THEN overtaken \cup {m} ELSE overtaken
      /\ asking' = [asking EXCEPT ![r] = T!NoRequest]
      /\ UNCHANGED <<clock, deal, assigned, seen>>
  BY DEF T!SendCommit, T!LastAt
<1>2. /\ m \in T!Message /\ o \in Talked /\ Inserting(r)
      /\ m[1] \in {Buyer, thread[o].agent}
      /\ message[m].state = "inserted" /\ message[m].of = o
  BY <1>1, <1>t DEF RequestsSound, Inserting
<1> HIDE DEF m, o
<1>m. /\ \A n \in T!Message : n # m => message'[n] = message[n]
      /\ message'[m].state = "saved" /\ message'[m].of = o /\ message'[m].at = message[m].at
      /\ message' \in [T!Message -> MessageRow]
  <2>1. message \in [T!Message -> MessageRow]
    BY <1>t DEF T!TypeOK, MessageRow
  <2>2. /\ [message[m] EXCEPT !.state = "saved"] \in MessageRow
        /\ [message[m] EXCEPT !.state = "saved"].state = "saved"
        /\ [message[m] EXCEPT !.state = "saved"].of = o
        /\ [message[m] EXCEPT !.state = "saved"].at = message[m].at
    BY <1>2, <2>1 DEF MessageRow
  <2>3. message' = [message EXCEPT ![m] = [message[m] EXCEPT !.state = "saved"]]
    BY <1>1, <1>2, <2>1
  <2>4. message'[m] = [message[m] EXCEPT !.state = "saved"]
    BY <1>2, <2>1, <2>3
  <2>5. message' \in [T!Message -> MessageRow] /\ \A n \in T!Message : n # m => message'[n] = message[n]
    BY <1>2, <2>1, <2>2, <2>3
  <2>6. QED
    BY <2>2, <2>4, <2>5
<1>h. \A p \in Talked : thread'[p].agent = thread[p].agent
  BY <1>1, <1>2, <1>t DEF T!TypeOK
<1>3. T!TypeOK'
  <2>1. thread' \in [Talked -> ThreadRow]
    <3>1. thread \in [Talked -> ThreadRow] /\ message[m].at \in T!Time
      BY <1>2, <1>t DEF T!TypeOK, ThreadRow
    <3>2. [thread[o] EXCEPT !.last = message[m].at] \in ThreadRow
      BY <1>2, <3>1 DEF ThreadRow
    <3>3. QED
      BY <1>1, <1>2, <3>1, <3>2
  <2>2. asking' \in [Request -> RequestRow]
    BY <1>1, <1>t DEF T!TypeOK, RequestRow, T!NoRequest
  <2>3. overtaken' \subseteq T!Message
    BY <1>1, <1>2, <1>t DEF T!TypeOK
  <2>4. QED
    BY <1>1, <1>m, <2>1, <2>2, <2>3, <1>t DEF T!TypeOK, ThreadRow, RequestRow, MessageRow
<1>4. \A q \in Request : q # r => asking'[q] = asking[q]
  BY <1>1
<1>5. asking'[r] = T!NoRequest
  BY <1>1, <1>t DEF T!TypeOK
<1>6. RequestsSound'
  <2>1. RequestsSound!(r)'
    BY <1>5 DEF T!NoRequest, Inserting
  <2>2. ASSUME NEW q \in Request, q # r PROVE RequestsSound!(q)'
    <3>1. asking'[q] = asking[q] /\ RequestsSound!(q)
      BY <1>4, <2>2, <1>t DEF RequestsSound
    <3>2. Inserting(q) => asking[q].id # m
      BY <1>2, <2>2, <1>t DEF OneInserts, m
    <3>3. Inserting(q) => asking[q].id \in T!Message
      BY <3>1 DEF Inserting
    <3>4. asking[q].step \in {"send", "inserted", "updated", "open"} => asking[q].of \in Talked
      BY <3>1
    <3>5. QED
      BY <3>1, <3>2, <3>3, <3>4, <1>m, <1>h, <1>1 DEF Inserting, T!Opened
  <2>3. QED
    BY <2>1, <2>2 DEF RequestsSound
<1>7. OneInserts'
  BY <1>4, <1>5, <1>t DEF OneInserts, Inserting, T!NoRequest
<1>8. IsFiniteSet(Written')
  <2>1. Written' \subseteq Written
    BY <1>2, <1>m DEF Written
  <2>2. QED
    BY <2>1, FS_Subset DEF ThreadsInv
<1>9. \A p \in Talked : T!Saved(p)' = IF p = o THEN T!Saved(p) \cup {m} ELSE T!Saved(p)
  BY <1>2, <1>m DEF T!Saved
<1>10. m \notin T!Saved(o)
  BY <1>2 DEF T!Saved
<1>11. SeenSaved'
  BY <1>1, <1>9 DEF ThreadsInv, SeenSaved
<1>12. \A k, n \in T!Message : T!Older(k, n)' <=> T!Older(k, n)
  <2>1. \A n \in T!Message : message'[n].at = message[n].at
    BY <1>m
  <2>2. QED
    BY <2>1 DEF T!Older
<1>13. T!MissNeedsOverlap'
  <2> SUFFICES ASSUME NEW u \in Reader, NEW p \in Talked,
                      NEW l \in T!Saved(p)' \ (seen'[u][p] \cup overtaken'),
                      NEW n \in seen'[u][p], NEW k \in seen'[u][p],
                      T!Older(n, l)', T!Older(l, k)'
               PROVE  FALSE
    BY DEF T!MissNeedsOverlap
  <2>1. n \in seen[u][p] /\ k \in seen[u][p] /\ l \notin seen[u][p] /\ l \notin overtaken
    BY <1>1
  <2>2. n \in T!Saved(p) /\ k \in T!Saved(p)
    BY <2>1 DEF ThreadsInv, SeenSaved
  <2>3. l \in T!Message /\ n \in T!Message /\ k \in T!Message
    BY <2>2 DEF T!Saved
  <2>4. T!Older(n, l) /\ T!Older(l, k)
    BY <1>12, <2>3
  <2>5. CASE l \in T!Saved(p)
    BY <2>1, <2>4, <2>5 DEF ThreadsInv, T!MissNeedsOverlap
  <2>6. CASE l = m /\ p = o
    BY <1>1, <2>2, <2>4, <2>6
  <2>7. QED
    BY <1>9, <2>5, <2>6
<1>14. T!ThreadsKeepTheirPeople'
  <2>1. ASSUME NEW p \in Talked, NEW n \in T!Saved(p)' PROVE n[1] \in {Buyer, thread'[p].agent}
    <3>1. n \in T!Saved(p) \/ (n = m /\ p = o)
      BY <1>9, <2>1
    <3>2. QED
      BY <1>2, <1>h, <3>1, <1>t DEF T!ThreadsKeepTheirPeople
  <2>2. \A p \in Talked : T!Opened(p)' => deal'[p] # "AWAITING_PAYMENT"
    BY <1>1, <1>h, <1>t DEF T!ThreadsKeepTheirPeople, T!Opened
  <2>3. QED
    BY <2>1, <2>2 DEF T!ThreadsKeepTheirPeople
<1>15. QED
  BY <1>3, <1>6, <1>7, <1>8, <1>11, <1>13, <1>14 DEF ThreadsInv

(* listMessages: a page joins what the client has without a gap.             *)
LEMMA ListInv ==
  ASSUME ThreadsInv, NEW u \in Reader, NEW o \in Talked, T!ListMessages(u, o)
  PROVE  ThreadsInv'
<1>t. T!TypeOK /\ RequestsSound /\ OneInserts /\ T!ThreadsKeepTheirPeople
  BY DEF ThreadsInv
<1> DEFINE S == T!Saved(o)
           B == seen[u][o]
           After == {m \in S : \A n \in T!NewestOf(B) : T!Older(n, m)}
           Before == {m \in S : \A n \in T!OldestOf(B) : T!Older(m, n)}
<1>1. UNCHANGED <<clock, deal, assigned, thread, message, asking, overtaken>>
  BY DEF T!ListMessages
<1>2. PICK page : /\ seen' = [seen EXCEPT ![u][o] = B \cup page]
                  /\ \/ B = {} /\ page = T!Latest(S)
                     \/ B # {} /\ page = T!Earliest(After)
                     \/ B # {} /\ page = T!Latest(Before)
  BY DEF T!ListMessages, T!FirstPage, T!PageAfter, T!PageBefore
<1>3. S \subseteq T!Message /\ IsFiniteSet(S) /\ B \subseteq S
  <2>1. S \subseteq Written
    BY DEF T!Saved, Written
  <2>2. QED
    BY <2>1, FS_Subset DEF T!Saved, ThreadsInv, SeenSaved
<1>4. page \subseteq S
  BY <1>2 DEF T!Latest, T!Earliest
<1>5. /\ seen' \in [Reader -> [Talked -> SUBSET T!Message]]
      /\ seen'[u][o] = B \cup page
      /\ \A v \in Reader, p \in Talked : v # u \/ p # o => seen'[v][p] = seen[v][p]
  <2> HIDE DEF S
  <2>1. QED
    BY <1>2, <1>3, <1>4, <1>t DEF T!TypeOK
<1>6. T!TypeOK'
  BY <1>1, <1>5, <1>t DEF T!TypeOK
<1>7. RequestsSound' /\ OneInserts' /\ Written' = Written /\ T!ThreadsKeepTheirPeople'
  BY <1>1, <1>t DEF RequestsSound, OneInserts, Inserting, Written, T!ThreadsKeepTheirPeople,
                    T!Opened, T!Saved
<1>8. \A p \in Talked : T!Saved(p)' = T!Saved(p)
  BY <1>1 DEF T!Saved
<1>9. \A m, n \in T!Message : T!Older(m, n)' <=> T!Older(m, n)
  BY <1>1 DEF T!Older
<1>10. SeenSaved'
  BY <1>3, <1>4, <1>5, <1>8 DEF ThreadsInv, SeenSaved
<1>11. ASSUME NEW m \in S \ (B \cup page \cup overtaken), NEW n \in B \cup page, NEW p \in B \cup page,
              T!Older(n, m), T!Older(m, p)
       PROVE  FALSE
  <2>0. m \in T!Message /\ n \in T!Message /\ p \in T!Message /\ m \in S /\ n \in S /\ p \in S
    BY <1>3, <1>4
  <2>m. \A k, l \in B : ~(T!Older(k, m) /\ T!Older(m, l))
    BY DEF ThreadsInv, T!MissNeedsOverlap
  <2>o. \A k, l \in T!Message : T!Older(k, l) /\ T!Older(l, m) => T!Older(k, m)
    BY <2>0, OlderIsOrder, <1>t
  <2>1. CASE B = {} /\ page = T!Latest(S)
    <3>1. n \in T!Latest(S)
      BY <2>1
    <3>2. m \in T!Latest(S)
      BY <2>0, <3>1, <1>3, <1>t, <1>11, PageWhole
    <3>3. QED
      BY <2>1, <3>2
  <2>2. CASE B # {} /\ page = T!Earliest(After)
    <3>1. IsFiniteSet(B) /\ B \subseteq T!Message
      BY <1>3, FS_Subset
    <3>2. PICK k \in B : \A l \in B : ~T!Older(k, l)
      BY <2>2, <3>1, <1>t, NewestExists
    <3>3. k \in T!NewestOf(B) /\ k \in T!Message
      BY <3>1, <3>2 DEF T!NewestOf
    <3>4. CASE T!Older(k, m)
      <4>1. p \in page
        <5>1. ASSUME p \in B PROVE FALSE
          BY <3>2, <3>4, <5>1, <2>m, <1>11
        <5>2. QED
          BY <5>1
      <4>2. \A l \in T!NewestOf(B) : l = k
        BY <3>1, <3>2, <3>3, <1>t, OlderIsOrder DEF T!NewestOf
      <4>3. m \in After
        BY <2>0, <3>4, <4>2
      <4>4. After \subseteq T!Message /\ IsFiniteSet(After)
        BY <1>3, FS_Subset
      <4>5. p \in After /\ p \in T!Earliest(After)
        BY <2>2, <4>1 DEF T!Earliest
      <4>6. m \in T!Earliest(After)
        <5> HIDE DEF After
        <5>1. QED
          BY <4>3, <4>4, <4>5, <1>t, <1>11, PageWhole
      <4>7. QED
        BY <2>2, <4>6
    <3>5. CASE ~T!Older(k, m)
      <4>1. k # m
        BY <3>2
      <4>2. T!Older(m, k)
        BY <2>0, <3>3, <3>5, <4>1, <1>t, OlderIsOrder
      <4>3. n \notin B
        BY <3>2, <4>2, <2>m, <1>11
      <4>4. n \in After
        BY <2>2, <4>3 DEF T!Earliest
      <4>5. T!Older(k, n)
        BY <3>3, <4>4
      <4>6. QED
        BY <2>0, <3>3, <3>5, <4>5, <2>o, <1>11
    <3>6. QED
      BY <3>4, <3>5
  <2>3. CASE B # {} /\ page = T!Latest(Before)
    <3>1. IsFiniteSet(B) /\ B \subseteq T!Message
      BY <1>3, FS_Subset
    <3>2. PICK k \in B : \A l \in B : ~T!Older(l, k)
      BY <2>3, <3>1, <1>t, NewestExists
    <3>3. k \in T!OldestOf(B) /\ k \in T!Message
      BY <3>1, <3>2 DEF T!OldestOf
    <3>4. CASE T!Older(m, k)
      <4>1. n \in page
        <5>1. ASSUME n \in B PROVE FALSE
          BY <3>2, <3>4, <5>1, <2>m, <1>11
        <5>2. QED
          BY <5>1
      <4>2. \A l \in T!OldestOf(B) : l = k
        BY <3>1, <3>2, <3>3, <1>t, OlderIsOrder DEF T!OldestOf
      <4>3. m \in Before
        BY <2>0, <3>4, <4>2
      <4>4. Before \subseteq T!Message /\ IsFiniteSet(Before)
        BY <1>3, FS_Subset
      <4>5. n \in Before /\ n \in T!Latest(Before)
        BY <2>3, <4>1 DEF T!Latest
      <4>6. m \in T!Latest(Before)
        <5> HIDE DEF Before
        <5>1. QED
          BY <4>3, <4>4, <4>5, <1>t, <1>11, PageWhole
      <4>7. QED
        BY <2>3, <4>6
    <3>5. CASE ~T!Older(m, k)
      <4>1. k # m
        BY <3>2
      <4>2. T!Older(k, m)
        BY <2>0, <3>3, <3>5, <4>1, <1>t, OlderIsOrder
      <4>3. p \notin B
        BY <3>2, <4>2, <2>m, <1>11
      <4>4. p \in Before
        BY <2>3, <4>3 DEF T!Latest
      <4>5. T!Older(p, k)
        BY <3>3, <4>4
      <4>6. T!Older(m, k)
        BY <2>0, <3>3, <4>5, <1>t, <1>11, OlderIsOrder
      <4>7. QED
        BY <3>5, <4>6
    <3>6. QED
      BY <3>4, <3>5
  <2>4. QED
    BY <1>2, <2>1, <2>2, <2>3
<1>12. T!MissNeedsOverlap'
  <2> SUFFICES ASSUME NEW v \in Reader, NEW q \in Talked,
                      NEW m \in T!Saved(q)' \ (seen'[v][q] \cup overtaken'),
                      NEW n \in seen'[v][q], NEW p \in seen'[v][q],
                      T!Older(n, m)', T!Older(m, p)'
               PROVE  FALSE
    BY DEF T!MissNeedsOverlap
  <2>1. m \in T!Saved(q) /\ n \in T!Saved(q) /\ p \in T!Saved(q) /\ m \notin overtaken
    BY <1>1, <1>8, <1>10 DEF SeenSaved
  <2>2. m \in T!Message /\ n \in T!Message /\ p \in T!Message
    BY <2>1 DEF T!Saved
  <2>3. T!Older(n, m) /\ T!Older(m, p)
    BY <1>9, <2>2
  <2>4. CASE v = u /\ q = o
    BY <1>5, <1>11, <2>1, <2>3, <2>4
  <2>5. CASE v # u \/ q # o
    BY <1>5, <2>1, <2>3, <2>5 DEF ThreadsInv, T!MissNeedsOverlap
  <2>6. QED
    BY <2>4, <2>5
<1>13. QED
  BY <1>6, <1>7, <1>10, <1>12 DEF ThreadsInv

(* Every step of the threads keeps their invariant.                          *)
LEMMA ThreadsNext == ThreadsInv /\ [T!Next]_(T!vars) => ThreadsInv'
<1> SUFFICES ASSUME ThreadsInv, [T!Next]_(T!vars) PROVE ThreadsInv'
  OBVIOUS
<1>1. CASE T!Tick \/ \E o \in Talked : T!Pay(o) \/ T!Assign(o) \/ T!Close(o)
  BY <1>1, SurroundingsInv
<1>2. ASSUME NEW u \in Reader, NEW o \in Talked, T!ListMessages(u, o) PROVE ThreadsInv'
  BY <1>2, ListInv
<1>3. CASE \E u \in Reader, o \in Talked : T!MarkRead(u, o)
  BY <1>3, SurroundingsInv
<1>4. ASSUME NEW r \in Request, (\E u \in T!User, o \in Talked : T!OpenRead(r, u, o)) \/ T!OpenCreate(r)
      PROVE  ThreadsInv'
  BY <1>4, OpenInv
<1>5. ASSUME NEW r \in Request,
             \/ \E u \in T!User, o \in Talked, c \in ClientId : T!SendRead(r, u, o, c)
             \/ T!SendInsert(r) \/ T!SendUpdate(r) \/ T!SendEnds(r) \/ T!Abort(r)
      PROVE  ThreadsInv'
  BY <1>5, SendInv
<1>6. ASSUME NEW r \in Request, T!SendCommit(r) PROVE ThreadsInv'
  BY <1>6, CommitInv
<1>7. CASE UNCHANGED T!vars
  BY <1>7 DEF ThreadsInv, T!vars, T!TypeOK, RequestsSound, OneInserts, Inserting, Written, SeenSaved,
              T!MissNeedsOverlap, T!ThreadsKeepTheirPeople, T!Saved, T!Opened, T!Older
<1>8. CASE T!Next
  <2>1. ASSUME NEW r \in Request, NEW u \in T!User, NEW o \in Talked,
               T!OpenRead(r, u, o) \/ \E c \in ClientId : T!SendRead(r, u, o, c)
        PROVE  ThreadsInv'
    BY <1>4, <1>5, <2>1
  <2>2. QED
    BY <1>1, <1>2, <1>3, <1>4, <1>5, <1>6, <1>8, <2>1 DEF T!Next
<1>9. QED
  BY <1>7, <1>8

(* A closed order's thread gets no message: only a commit saves one, and the *)
(* request that commits has found the order open and holds it.               *)
LEMMA SilentStep ==
  ASSUME ThreadsInv, [T!Next]_(T!vars), NEW o \in Talked, deal[o] = "CLOSED"
  PROVE  T!Saved(o)' = T!Saved(o)
<1>t. T!TypeOK /\ RequestsSound
  BY DEF ThreadsInv
<1>1. CASE UNCHANGED message
  BY <1>1 DEF T!Saved
<1>2. ASSUME NEW r \in Request, T!SendCommit(r) PROVE T!Saved(o)' = T!Saved(o)
  <2>1. /\ asking[r].step = "updated"
        /\ message' = [message EXCEPT ![asking[r].id].state = "saved"]
    BY <1>2 DEF T!SendCommit
  <2>2. /\ message[asking[r].id].state = "inserted" /\ asking[r].id \in T!Message
        /\ message[asking[r].id].of # o
    BY <2>1, <1>t DEF RequestsSound, Inserting
  <2>3. /\ \A m \in T!Message : m # asking[r].id => message'[m] = message[m]
        /\ message'[asking[r].id].of = message[asking[r].id].of
    BY <2>1, <2>2, <1>t DEF T!TypeOK
  <2>4. QED
    BY <2>2, <2>3 DEF T!Saved
<1>3. ASSUME NEW r \in Request, T!SendInsert(r) \/ T!Abort(r) PROVE T!Saved(o)' = T!Saved(o)
  <2>1. \A m \in T!Message : \/ message'[m] = message[m]
                             \/ message[m].state # "saved" /\ message'[m].state # "saved"
    BY <1>3, <1>t DEF T!SendInsert, T!Abort, RequestsSound, Inserting, T!NoMessage, T!TypeOK
  <2>2. QED
    BY <2>1 DEF T!Saved
<1>4. QED
  BY <1>1, <1>2, <1>3
  DEF T!Next, T!vars, T!Tick, T!Pay, T!Assign, T!Close, T!ListMessages, T!MarkRead, T!OpenRead, T!OpenCreate,
      T!SendRead, T!SendUpdate, T!SendEnds

-----------------------------------------------------------------------------
(* Documents, for any documents, requests, objects and failures.  An object's *)
(* key is drawn once, for one slot, and is a request's own until a row names  *)
(* it; a document that only one request handles is as that request found it.  *)
Papers == Document \ {"id"}

(* What a request, q, was sent, and the slots it may put an object in or take *)
(* one from.  A save has done with the application's other documents once it  *)
(* is written.                                                                *)
SentTo(q) == q.files \cup D!Held(q.new)
MineOf(q) ==
  q.files \cup D!Held(q.old) \cup D!Entire(q.op)
    \cup (IF q.op = "save" /\ q.step = "clean" THEN {} ELSE D!Held(q.new))
MineApart ==
  \A r, q \in Request : r # q => MineOf(filing[r]) \cap MineOf(filing[q]) \subseteq overlap

(* What each request works on.                                                *)
ShapeOf(q) ==
  LET old == D!Held(q.old) IN
  /\ q.step = "idle" => q = D!Idle
  /\ q.op = "none" => q.step = "idle"
  /\ q.step # "upload" => q.files = {}
  /\ q.step = "clean" => q.op \in {"save", "complete", "identity", "replace", "drop", "remove"}
  /\ q.step = "undo" => q.op \notin {"drop", "remove"}
  /\ q.step = "claim" => q.op = "complete"
  /\ q.files \cap D!Held(q.new) = {}
  /\ q.op \in {"save", "complete", "replace"} => SentTo(q) \cup old \subseteq Document
  /\ q.op = "identity" => SentTo(q) \cup old \subseteq {"id"}
  /\ q.op = "create" => SentTo(q) \subseteq Papers
  /\ q.op \in {"register", "drop", "remove"} => SentTo(q) = {}
  /\ q.op \in {"register", "create", "add"} => old = {}
  /\ q.op = "drop" => old \subseteq Papers
  /\ q.op = "add" => SentTo(q) \subseteq {"proof"} /\ (q.step = "upload" => SentTo(q) = {"proof"})
  /\ q.op = "remove" => old = {"proof"}
  /\ q.op \in {"save", "complete", "identity", "replace"} /\ q.step = "upload" =>
       old \subseteq SentTo(q)
Shapes == \A r \in Request : ShapeOf(filing[r])

(* Slot s has key k, in a row or in what a request knows.                     *)
InSlot(s, k) ==
  \/ s \in Document /\ (application.doc[s] = k \/ profile.doc[s] = k)
  \/ s = "proof" /\ k \in proofs
  \/ \E r \in Request : filing[r].new[s] = k \/ filing[r].old[s] = k
OneSlot ==
  /\ \A k \in D!Key, s, t \in D!Slot : InSlot(s, k) /\ InSlot(t, k) => s = t
  /\ \A k \in D!Key, s \in D!Slot : InSlot(s, k) => k <= lastKey
  /\ \A k \in stored : k <= lastKey

(* What a request has uploaded, at slot s, is there, and known to nobody else. *)
Loading(q) == q.step \in {"upload", "undo"}
FreshAt(r, s) ==
  LET k == filing[r].new[s] IN
  /\ s \in Document => application.doc[s] # k /\ profile.doc[s] # k
  /\ k \notin proofs
  /\ \A q \in Request : filing[q].old[s] # k /\ (q # r => filing[q].new[s] # k)
  /\ filing[r].step = "upload" => k \in stored
Fresh ==
  \A r \in Request, s \in D!Slot :
    Loading(filing[r]) /\ filing[r].new[s] # D!None => FreshAt(r, s)

(* The profile and the application it comes from.                             *)
Grown ==
  /\ application.status = "NONE" => application.doc = D!NoDocuments
  /\ application.status = "DRAFT" => ~profile.exists
  /\ ~profile.exists =>
       profile.doc = D!NoDocuments /\ profile.farm = D!None /\ lastFarm = 0
  /\ profile.farm = D!None => \A d \in Papers : profile.doc[d] = D!None
StageOf(q) ==
  /\ q.op \in {"create", "identity", "replace", "drop"} => profile.exists
  /\ q.op = "register" => application.status = "NONE"
  /\ q.op \in {"save", "complete"} => application.status # "NONE"
  /\ q.op \in {"replace", "drop"} => q.farm # D!None
  /\ q.op = "create" /\ q.step = "upload" =>
       profile.farm = D!None /\ application.status # "DRAFT" /\ lastFarm < MaxFarm
Stages == \A r \in Request : StageOf(filing[r])
OneCreates ==
  \A r, q \in Request : filing[r].op = "create" /\ filing[q].op = "create" => r = q

(* The document as the code shows it, and as a request finds it.              *)
Shown(d) == IF profile.exists THEN profile.doc[d] ELSE application.doc[d]
FoundBy(q, d) ==
  /\ q.op \in {"save", "complete"} /\ q.step # "undo" /\ d \in MineOf(q) =>
       application.status = "DRAFT"
  /\ q.op \in {"save", "complete"} /\ q.step = "upload" /\ d \in SentTo(q) =>
       q.old[d] = application.doc[d]
  /\ q.op \in {"identity", "replace"} /\ q.step = "upload" /\ d \in SentTo(q) =>
       q.old[d] = profile.doc[d]
  /\ q.op = "drop" /\ q.step = "upload" /\ d # "id" => q.old[d] = profile.doc[d]
  /\ q.op = "complete" /\ q.step \in {"clean", "claim"} => q.new[d] = application.doc[d]
  /\ q.step = "clean" /\ q.old[d] # D!None => q.old[d] # Shown(d)
AsFound == \A r \in Request, d \in Document \ overlap : FoundBy(filing[r], d)

(* A photo that is to be deleted has no row, and none is touched after the    *)
(* goods were handed over but by a request that began before.                 *)
PhotosGone ==
  \A r \in Request : filing[r].step = "clean" => filing[r].old["proof"] \notin proofs
PhotosLate ==
  handover = "HANDED_OVER" =>
    \A r \in Request :
      filing[r].op \in {"add", "remove"} /\ filing[r].step = "upload" => "proof" \in overlap

(* Every object has a row or a request that will give it one or delete it.    *)
Rowed(k) == k \in proofs \/ \E d \in Document : k \in {application.doc[d], profile.doc[d]}
Pending(q, k) ==
  \E s \in D!Slot : \/ Loading(q) /\ q.new[s] = k
                    \/ q.step = "clean" /\ q.old[s] = k
Accounted ==
  failures = 0 /\ overlap = {} =>
    \A k \in stored : Rowed(k) \/ \E r \in Request : Pending(filing[r], k)

FilesInv ==
  /\ D!TypeOK /\ Shapes /\ MineApart /\ OneSlot /\ Fresh /\ Grown /\ Stages /\ OneCreates
  /\ AsFound /\ PhotosGone /\ PhotosLate /\ Accounted /\ D!RowsKeepFiles
-----------------------------------------------------------------------------

(* What is kept of a request.                                                 *)
Asked == [op : D!Op, step : {"idle", "upload", "clean", "undo", "claim"},
          files : SUBSET D!Slot, new : D!Keys, old : D!Keys, farm : 0..MaxFarm]

(* The constants, and the requests' keys before anything is uploaded.         *)
LEMMA DocumentFacts ==
  /\ "id" \in Document /\ Document \subseteq {"id", "farm"} /\ "proof" \notin Document
  /\ D!Slot = Document \cup {"proof"} /\ D!None \notin D!Key
  /\ D!NoKeys \in D!Keys /\ D!NoDocuments \in [Document -> D!Key \cup {D!None}]
  /\ D!Idle \in Asked /\ MaxFarm \in Nat \ {0} /\ MaxKey \in Nat /\ MaxFaults \in Nat
  /\ \A s \in D!Slot : D!NoKeys[s] = D!None
  /\ \A d \in Document : D!NoDocuments[d] = D!None
  /\ D!Held(D!NoKeys) = {}
<1>1. MaxFarm \in Nat \ {0} /\ "id" \in Document /\ Document \subseteq {"id", "farm"}
      /\ MaxKey \in Nat /\ MaxFaults \in Nat
  BY PartsAssumption DEF D!DocumentsAssumption
<1>2. D!NoKeys \in D!Keys /\ D!NoDocuments \in [Document -> D!Key \cup {D!None}]
  BY DEF D!NoKeys, D!Keys, D!NoDocuments
<1>3. D!None \notin D!Key
  BY DEF D!None, D!Key
<1>4. 0 \in 0..MaxFarm
  BY <1>1
<1>5. D!Idle \in Asked
  BY <1>2, <1>4 DEF D!Idle, Asked, D!Op, D!None
<1>6. QED
  BY <1>1, <1>2, <1>3, <1>5 DEF D!Slot, D!NoKeys, D!NoDocuments, D!Held

(* A request is one.                                                          *)
LEMMA AskedType ==
  ASSUME D!TypeOK, NEW r \in Request
  PROVE  filing[r] \in Asked
BY DEF D!TypeOK, Asked

(* A step of request r that leaves rows and bucket alone.                     *)
LEMMA QuietFiles ==
  ASSUME FilesInv, NEW r \in Request, NEW x \in Asked,
         filing' = [filing EXCEPT ![r] = x], UNCHANGED <<D!rows, D!bucket>>,
         overlap \subseteq overlap', overlap' \subseteq D!Slot,
         failures' \in 0..MaxFaults, failures' = 0 => failures = 0,
         ShapeOf(x), StageOf(x), x.step # "clean",
         \A q \in Request \ {r} : MineOf(x) \cap MineOf(filing[q]) \subseteq overlap',
         \A s \in D!Slot : x.new[s] \in {D!None, filing[r].new[s]},
         \A s \in D!Slot :
           \/ x.old[s] \in {D!None, filing[r].old[s]}
           \/ s \in Document /\ x.old[s] \in {application.doc[s], profile.doc[s]}
           \/ s = "proof" /\ x.old[s] \in proofs,
         Loading(x) => \/ x.new = D!NoKeys
                       \/ Loading(filing[r]) /\ (x.step = "upload" => filing[r].step = "upload"),
         x.op = "create" => \A q \in Request \ {r} : filing[q].op # "create",
         \A d \in Document \ overlap' : FoundBy(x, d),
         handover = "HANDED_OVER" /\ x.op \in {"add", "remove"} /\ x.step = "upload" =>
           "proof" \in overlap',
         failures' = 0 => \A k \in D!Key : Pending(filing[r], k) => Pending(x, k)
  PROVE  FilesInv'
<1> USE DocumentFacts
<1>1. /\ D!TypeOK /\ Shapes /\ MineApart /\ OneSlot /\ Fresh /\ Grown /\ Stages /\ OneCreates
      /\ AsFound /\ PhotosGone /\ PhotosLate /\ Accounted /\ D!RowsKeepFiles
  BY DEF FilesInv
<1>2. /\ UNCHANGED <<role, application, profile, lastFarm, verified, handover, proofs, stored,
                     lastKey>>
  BY DEF D!rows, D!farms, D!bucket
<1>3. filing \in [Request -> Asked] /\ filing' \in [Request -> Asked]
      /\ stored \subseteq D!Key
  BY <1>1 DEF D!TypeOK, Asked
<1>4. filing'[r] = x /\ \A q \in Request \ {r} : filing'[q] = filing[q]
  BY <1>3
<1>5. D!TypeOK'
  BY <1>1, <1>2, <1>3 DEF D!TypeOK, Asked
<1>6. Shapes'
  BY <1>1, <1>4 DEF Shapes
<1>7. MineApart'
  <2> SUFFICES ASSUME NEW p \in Request, NEW q \in Request, p # q
               PROVE  MineOf(filing'[p]) \cap MineOf(filing'[q]) \subseteq overlap'
    BY DEF MineApart, MineOf
  <2>1. MineOf(filing[p]) \cap MineOf(filing[q]) \subseteq overlap'
    BY <1>1 DEF MineApart
  <2>2. QED
    BY <1>4, <2>1
<1>8. \A s \in D!Slot, k \in D!Key : InSlot(s, k)' => InSlot(s, k)
  BY <1>2, <1>4 DEF InSlot
<1>9. OneSlot'
  BY <1>1, <1>2, <1>8 DEF OneSlot
<1>10. Fresh'
  <2> SUFFICES ASSUME NEW q \in Request, NEW s \in D!Slot, Loading(filing'[q]),
                      filing'[q].new[s] # D!None
               PROVE  FreshAt(q, s)'
    BY DEF Fresh
  <2>1. FreshAt(q, s) /\ filing'[q].new[s] = filing[q].new[s]
        /\ (filing'[q].step = "upload" => filing[q].step = "upload")
    BY <1>1, <1>4 DEF Fresh
  <2>2. ASSUME NEW p \in Request
        PROVE  filing'[p].old[s] # filing[q].new[s]
               /\ (p # q => filing'[p].new[s] # filing[q].new[s])
    <3>1. CASE p = r
      BY <1>4, <2>1, <3>1 DEF FreshAt
    <3>2. CASE p # r
      BY <1>4, <2>1, <3>2 DEF FreshAt
    <3>3. QED
      BY <3>1, <3>2
  <2>3. QED
    BY <1>2, <2>1, <2>2 DEF FreshAt
<1>11. Grown' /\ Stages' /\ OneCreates'
  BY <1>1, <1>2, <1>4 DEF Grown, Stages, StageOf, OneCreates
<1>12. AsFound'
  <2>1. \A q \in Asked, d \in Document : FoundBy(q, d)' <=> FoundBy(q, d)
    BY <1>2 DEF FoundBy, Shown
  <2>2. QED
    BY <1>1, <1>2, <1>3, <1>4 DEF AsFound, FoundBy, Shown
<1>13. PhotosGone' /\ PhotosLate'
  BY <1>1, <1>2, <1>4 DEF PhotosGone, PhotosLate
<1>14. Accounted'
  <2> SUFFICES ASSUME failures' = 0, overlap' = {}, NEW k \in stored'
               PROVE  Rowed(k)' \/ \E q \in Request : Pending(filing'[q], k)
    BY DEF Accounted, Pending, Loading
  <2>1. Rowed(k) \/ \E q \in Request : Pending(filing[q], k)
    BY <1>1, <1>2 DEF Accounted
  <2>2. Rowed(k)' <=> Rowed(k)
    BY <1>2 DEF Rowed
  <2>3. QED
    BY <1>2, <1>3, <1>4, <2>1, <2>2
<1>15. D!RowsKeepFiles'
  BY <1>1, <1>2 DEF D!RowsKeepFiles
<1>16. QED
  BY <1>5, <1>6, <1>7, <1>9, <1>10, <1>11, <1>12, <1>13, <1>14, <1>15 DEF FilesInv

(* What a request starts with.                                                *)
Opened(op, files, old) ==
  [op |-> op, step |-> "upload", files |-> files, new |-> D!NoKeys, old |-> old,
   farm |-> profile.farm]

(* A request that has read what it needs begins.                              *)
LEMMA BeginFiles ==
  ASSUME FilesInv, NEW r \in Request, NEW op \in D!Op, NEW files \in SUBSET D!Slot,
         NEW old \in D!Keys, D!Begin(r, op, files, old),
         ShapeOf(Opened(op, files, old)), StageOf(Opened(op, files, old)),
         \A s \in D!Slot :
           \/ old[s] = D!None
           \/ s \in Document /\ old[s] \in {application.doc[s], profile.doc[s]}
           \/ s = "proof" /\ old[s] \in proofs,
         op = "create" => ~D!Creating,
         \A d \in Document : FoundBy(Opened(op, files, old), d),
         op \in {"add", "remove"} => handover # "HANDED_OVER"
  PROVE  FilesInv'
<1> USE DocumentFacts
<1>1. D!TypeOK
  BY DEF FilesInv
<1>3. PICK x \in Asked : x = Opened(op, files, old)
  BY <1>1 DEF Asked, Opened, D!TypeOK, D!Farmer
<1>2. /\ filing[r] = D!Idle
      /\ filing' = [filing EXCEPT ![r] = x]
      /\ overlap' = overlap \cup
           UNION {D!Handles(q) \cap (files \cup D!Held(old) \cup D!Entire(op)) : q \in Request}
      /\ UNCHANGED <<D!rows, D!bucket, failures>>
  BY <1>3 DEF D!Begin, Opened
<1>4. overlap \subseteq overlap' /\ overlap' \subseteq D!Slot
  <2>1. D!Held(old) \cup D!Entire(op) \subseteq D!Slot
    BY DEF D!Held, D!Entire
  <2>2. overlap \subseteq overlap'
        /\ overlap' \subseteq overlap \cup (files \cup D!Held(old) \cup D!Entire(op))
    BY <1>2
  <2>3. overlap \subseteq D!Slot
    BY <1>1 DEF D!TypeOK
  <2>4. QED
    BY <2>1, <2>2, <2>3
<1>5. failures' \in 0..MaxFaults /\ failures' = failures
  BY <1>1, <1>2 DEF D!TypeOK
<1>6. \A q \in Request \ {r} : MineOf(x) \cap MineOf(filing[q]) \subseteq overlap'
  <2>1. MineOf(x) \subseteq files \cup D!Held(old) \cup D!Entire(op)
    BY <1>3 DEF MineOf, Opened
  <2>2. \A q \in Request : MineOf(filing[q]) \subseteq D!Handles(q)
    BY DEF MineOf, D!Handles
  <2>3. QED
    BY <1>2, <2>1, <2>2
<1>7. \A k \in D!Key : ~Pending(filing[r], k)
  BY <1>2 DEF Pending, Loading, D!Idle
<1>8. /\ x.new = D!NoKeys /\ x.old = old /\ x.op = op /\ x.step = "upload"
  BY <1>3 DEF Opened
<1>9. op = "create" => \A q \in Request \ {r} : filing[q].op # "create"
  BY DEF D!Creating
<1>10. ShapeOf(x) /\ StageOf(x) /\ \A d \in Document : FoundBy(x, d)
  BY <1>3
<1>11. /\ UNCHANGED <<D!rows, D!bucket>>
       /\ \A s \in D!Slot : x.new[s] \in {D!None, filing[r].new[s]}
       /\ \A s \in D!Slot :
            \/ x.old[s] \in {D!None, filing[r].old[s]}
            \/ s \in Document /\ x.old[s] \in {application.doc[s], profile.doc[s]}
            \/ s = "proof" /\ x.old[s] \in proofs
       /\ handover = "HANDED_OVER" => x.op \notin {"add", "remove"}
  BY <1>2, <1>8
<1>12. /\ x.step # "clean" /\ (Loading(x) => x.new = D!NoKeys)
       /\ x.op = "create" => \A q \in Request \ {r} : filing[q].op # "create"
       /\ \A d \in Document \ overlap' : FoundBy(x, d)
       /\ failures' = 0 => \A k \in D!Key : Pending(filing[r], k) => Pending(x, k)
       /\ failures' = 0 => failures = 0
  BY <1>5, <1>7, <1>8, <1>9, <1>10
<1>13. overlap \subseteq overlap' /\ overlap' \subseteq D!Slot /\ failures' \in 0..MaxFaults
  BY <1>4, <1>5
<1>14. ShapeOf(x) /\ StageOf(x)
  BY <1>10
<1>15. handover = "HANDED_OVER" /\ x.op \in {"add", "remove"} /\ x.step = "upload" =>
           "proof" \in overlap'
  BY <1>11
<1>16. filing' = [filing EXCEPT ![r] = x]
  BY <1>2
<1>17. QED
  BY <1>6, <1>13, <1>14, <1>15, <1>16, <1>11, <1>12, QuietFiles

(* Each of the requests begins so.                                            *)
LEMMA FilesBegin ==
  ASSUME FilesInv, NEW r \in Request,
         \/ \E op \in {"save", "complete"}, files \in SUBSET Document : D!Save(r, op, files)
         \/ D!Register(r) \/ D!RemoveFarm(r) \/ D!UploadIdDocument(r)
         \/ \E files \in SUBSET Document : D!CreateFarm(r, files) \/ D!Replace(r, files)
         \/ D!AddProof(r) \/ \E k \in D!Key : D!RemoveProof(r, k)
  PROVE  FilesInv'
<1> USE DocumentFacts
<1>1. D!TypeOK /\ Grown
  BY DEF FilesInv
<1>2. /\ application.doc \in [Document -> D!Key \cup {D!None}]
      /\ profile.doc \in [Document -> D!Key \cup {D!None}]
      /\ proofs \subseteq D!Key
  BY <1>1 DEF D!TypeOK, D!Application, D!Farmer, D!HandoverProof
<1>3. ASSUME NEW doc \in [Document -> D!Key \cup {D!None}], NEW files \in SUBSET D!Slot
      PROVE  /\ D!OldOf(doc, files) \in D!Keys
             /\ D!Held(D!OldOf(doc, files)) \subseteq files \cap Document
             /\ \A s \in D!Slot : D!OldOf(doc, files)[s] =
                  IF s \in files \cap Document THEN doc[s] ELSE D!None
  BY DEF D!OldOf, D!Keys, D!Held
<1>4. ASSUME NEW op \in {"save", "complete"}, NEW files \in SUBSET Document,
             D!Save(r, op, files)
      PROVE  FilesInv'
  <2> DEFINE old == D!OldOf(application.doc, files)
  <2>1. /\ old \in D!Keys /\ D!Held(old) \subseteq files
        /\ \A s \in D!Slot : old[s] = IF s \in files THEN application.doc[s] ELSE D!None
    BY <1>2, <1>3
  <2>2. D!Begin(r, op, files, old) /\ application.status = "DRAFT"
    BY <1>4 DEF D!Save, D!Editable
  <2> HIDE DEF old
  <2>3. ShapeOf(Opened(op, files, old)) /\ StageOf(Opened(op, files, old))
    BY <2>1, <2>2 DEF ShapeOf, StageOf, Opened, SentTo
  <2>4. \A d \in Document : FoundBy(Opened(op, files, old), d)
    BY <2>1, <2>2 DEF FoundBy, Opened, SentTo
  <2>5. QED
    BY ZenonT(40), <2>1, <2>2, <2>3, <2>4, BeginFiles DEF D!Op
<1>5. CASE D!Register(r)
  <2>1. ShapeOf(Opened("register", {}, D!NoKeys)) /\ StageOf(Opened("register", {}, D!NoKeys))
    BY <1>5 DEF D!Register, ShapeOf, StageOf, Opened, SentTo
  <2>2. \A d \in Document : FoundBy(Opened("register", {}, D!NoKeys), d)
    BY DEF FoundBy, Opened, SentTo
  <2>3. QED
    BY <1>5, <2>1, <2>2, BeginFiles DEF D!Op, D!Register
<1>6. CASE D!RemoveFarm(r)
  <2> DEFINE old == D!OldOf(profile.doc, Papers)
  <2>1. /\ old \in D!Keys /\ D!Held(old) \subseteq Papers
        /\ \A s \in D!Slot : old[s] = IF s \in Papers THEN profile.doc[s] ELSE D!None
    BY <1>2, <1>3 DEF Papers
  <2>2. D!Begin(r, "drop", {}, old) /\ profile.farm # D!None
    BY <1>6 DEF D!RemoveFarm, Papers
  <2> HIDE DEF old
  <2>3. ShapeOf(Opened("drop", {}, old)) /\ StageOf(Opened("drop", {}, old))
    BY <1>1, <2>1, <2>2 DEF ShapeOf, StageOf, Opened, SentTo, Grown
  <2>4. \A d \in Document : FoundBy(Opened("drop", {}, old), d)
    BY <2>1 DEF FoundBy, Opened, SentTo, Papers
  <2>5. QED
    BY <2>1, <2>2, <2>3, <2>4, BeginFiles DEF D!Op, Papers
<1>7. ASSUME NEW op \in {"identity", "replace"}, NEW files \in SUBSET Document,
             op = "identity" => files = {"id"}, op = "replace" => profile.farm # D!None,
             profile.exists, D!Begin(r, op, files, D!OldOf(profile.doc, files))
      PROVE  FilesInv'
  <2> DEFINE old == D!OldOf(profile.doc, files)
  <2>1. /\ old \in D!Keys /\ D!Held(old) \subseteq files
        /\ \A s \in D!Slot : old[s] = IF s \in files THEN profile.doc[s] ELSE D!None
    BY <1>2, <1>3
  <2>2. D!Begin(r, op, files, old)
    BY <1>7
  <2> HIDE DEF old
  <2>3. ShapeOf(Opened(op, files, old)) /\ StageOf(Opened(op, files, old))
    BY <1>7, <2>1 DEF ShapeOf, StageOf, Opened, SentTo
  <2>4. \A d \in Document : FoundBy(Opened(op, files, old), d)
    BY <1>7, <2>1 DEF FoundBy, Opened, SentTo
  <2>5. op \in D!Op /\ op \notin {"create", "add", "remove"}
    BY DEF D!Op
  <2>6. QED
    BY <2>1, <2>2, <2>3, <2>4, <2>5, BeginFiles
<1>8. CASE D!UploadIdDocument(r)
  BY <1>7, <1>8 DEF D!UploadIdDocument
<1>9. ASSUME NEW files \in SUBSET Document, D!Replace(r, files)
      PROVE  FilesInv'
  BY <1>1, <1>7, <1>9 DEF D!Replace, Grown
<1>10. ASSUME NEW files \in SUBSET Document, D!CreateFarm(r, files)
       PROVE  FilesInv'
  <2>1. /\ ShapeOf(Opened("create", files, D!NoKeys))
        /\ StageOf(Opened("create", files, D!NoKeys))
    BY <1>1, <1>10 DEF D!CreateFarm, ShapeOf, StageOf, Opened, SentTo, Grown, Papers
  <2>2. \A d \in Document : FoundBy(Opened("create", files, D!NoKeys), d)
    BY DEF FoundBy, Opened, SentTo
  <2>3. QED
    BY <1>10, <2>1, <2>2, BeginFiles DEF D!Op, D!CreateFarm
<1>11. CASE D!AddProof(r)
  <2>1. /\ ShapeOf(Opened("add", {"proof"}, D!NoKeys))
        /\ StageOf(Opened("add", {"proof"}, D!NoKeys))
    BY DEF ShapeOf, StageOf, Opened, SentTo
  <2>2. \A d \in Document : FoundBy(Opened("add", {"proof"}, D!NoKeys), d)
    BY DEF FoundBy, Opened, SentTo
  <2>3. QED
    BY <1>11, <2>1, <2>2, BeginFiles DEF D!Op, D!AddProof
<1>12. ASSUME NEW k \in D!Key, D!RemoveProof(r, k)
       PROVE  FilesInv'
  <2> DEFINE old == [D!NoKeys EXCEPT !["proof"] = k]
  <2>1. /\ old \in D!Keys /\ D!Held(old) = {"proof"}
        /\ \A s \in D!Slot : old[s] = IF s = "proof" THEN k ELSE D!None
    BY <1>3 DEF D!Keys, D!Held
  <2>2. D!Begin(r, "remove", {}, old) /\ k \in proofs /\ handover # "HANDED_OVER"
    BY <1>12 DEF D!RemoveProof, D!Removable
  <2> HIDE DEF old
  <2>3. ShapeOf(Opened("remove", {}, old)) /\ StageOf(Opened("remove", {}, old))
    BY <2>1 DEF ShapeOf, StageOf, Opened, SentTo
  <2>4. \A d \in Document : FoundBy(Opened("remove", {}, old), d)
    BY DEF FoundBy, Opened, SentTo
  <2>5. QED
    BY <2>1, <2>2, <2>3, <2>4, BeginFiles DEF D!Op
<1>13. QED
  BY <1>4, <1>5, <1>6, <1>8, <1>9, <1>10, <1>11, <1>12

(* A request is over: with nothing left to name or to delete, or failed.      *)
LEMMA DoneFiles ==
  ASSUME FilesInv, NEW r \in Request, filing' = D!Done(r),
         UNCHANGED <<D!rows, D!bucket, overlap>>,
         failures' \in 0..MaxFaults, failures' = 0 => failures = 0,
         failures' = 0 => \A k \in D!Key : ~Pending(filing[r], k)
  PROVE  FilesInv'
<1> USE DocumentFacts
<1>1. PICK x \in Asked : x = D!Idle
  OBVIOUS
<1>2. filing' = [filing EXCEPT ![r] = x]
  BY <1>1 DEF D!Done
<1>3. /\ x.op = "none" /\ x.step = "idle" /\ x.files = {} /\ x.new = D!NoKeys
      /\ x.old = D!NoKeys
  BY <1>1 DEF D!Idle
<1>4. ShapeOf(x) /\ StageOf(x)
  BY <1>1, <1>3 DEF ShapeOf, StageOf, SentTo
<1>5. MineOf(x) = {}
  BY <1>3 DEF MineOf, D!Entire
<1>6. \A d \in Document : FoundBy(x, d)
  BY <1>3 DEF FoundBy
<1>7. overlap \subseteq overlap' /\ overlap' \subseteq D!Slot /\ UNCHANGED <<D!rows, D!bucket>>
  BY DEF FilesInv, D!TypeOK
<1>8. /\ x.step # "clean" /\ ~Loading(x) /\ x.op \notin {"create", "add", "remove"}
      /\ \A q \in Request \ {r} : MineOf(x) \cap MineOf(filing[q]) \subseteq overlap'
      /\ \A s \in D!Slot : x.new[s] = D!None /\ x.old[s] = D!None
      /\ failures' = 0 => \A k \in D!Key : Pending(filing[r], k) => Pending(x, k)
  BY <1>3, <1>5 DEF Loading
<1>9. QED
  BY ZenonT(40), <1>2, <1>4, <1>6, <1>7, <1>8, QuietFiles

(* A request has failed and will take away what it has uploaded.              *)
LEMMA UndoFiles ==
  ASSUME FilesInv, NEW r \in Request, filing[r].step = "upload",
         filing[r].op \notin {"drop", "remove"},
         filing' = [filing EXCEPT ![r] = [filing[r] EXCEPT !.step = "undo", !.files = {}]],
         UNCHANGED <<D!rows, D!bucket, overlap>>,
         failures' \in 0..MaxFaults, failures' = 0 => failures = 0
  PROVE  FilesInv'
<1> USE DocumentFacts
<1>1. D!TypeOK /\ ShapeOf(filing[r]) /\ StageOf(filing[r]) /\ MineApart
  BY DEF FilesInv, Shapes, Stages
<1>2. filing[r] \in Asked
  BY <1>1, AskedType
<1>3. PICK x \in Asked : x = [filing[r] EXCEPT !.step = "undo", !.files = {}]
  BY <1>2 DEF Asked
<1>4. filing' = [filing EXCEPT ![r] = x]
  BY <1>3
<1>5. /\ x.step = "undo" /\ x.files = {} /\ x.op = filing[r].op /\ x.new = filing[r].new
      /\ x.old = filing[r].old
  BY <1>2, <1>3 DEF Asked
<1>6. ShapeOf(x)
  BY <1>1, <1>5 DEF ShapeOf, SentTo
<1>7. StageOf(x)
  BY <1>1, <1>2, <1>3 DEF StageOf, Asked
<1>8. MineOf(x) \subseteq MineOf(filing[r])
  BY <1>5 DEF MineOf
<1>9. \A q \in Request \ {r} : MineOf(x) \cap MineOf(filing[q]) \subseteq overlap
  BY <1>1, <1>8 DEF MineApart
<1>11. \A d \in Document : FoundBy(x, d)
  BY <1>5 DEF FoundBy
<1>12. \A k \in D!Key : Pending(filing[r], k) => Pending(x, k)
  BY <1>5 DEF Pending, Loading
<1>13. overlap \subseteq overlap' /\ overlap' \subseteq D!Slot /\ UNCHANGED <<D!rows, D!bucket>>
  BY <1>1 DEF D!TypeOK
<1>14. x.op = "create" => \A q \in Request \ {r} : filing[q].op # "create"
  BY <1>5 DEF FilesInv, OneCreates
<1>15. QED
  BY <1>4, <1>5, <1>6, <1>7, <1>9, <1>11, <1>12, <1>13, <1>14, QuietFiles DEF Loading

(* What holds of the requests holds while one goes on with less.              *)
LEMMA RequestsStep ==
  ASSUME FilesInv, NEW r \in Request, NEW x \in Asked, filing' = [filing EXCEPT ![r] = x],
         overlap' = overlap, ShapeOf(x), MineOf(x) \subseteq MineOf(filing[r]),
         x.op \in {filing[r].op, "none"}
  PROVE  Shapes' /\ MineApart' /\ OneCreates'
<1>1. filing \in [Request -> Asked] /\ Shapes /\ MineApart /\ OneCreates
  BY DEF FilesInv, D!TypeOK, Asked
<1>2. filing'[r] = x /\ \A q \in Request \ {r} : filing'[q] = filing[q]
  BY <1>1
<1>3. Shapes' /\ OneCreates'
  BY <1>1, <1>2 DEF Shapes, OneCreates
<1>4. MineApart'
  <2> SUFFICES ASSUME NEW p \in Request, NEW q \in Request, p # q
               PROVE  MineOf(filing'[p]) \cap MineOf(filing'[q]) \subseteq overlap
    BY DEF MineApart, MineOf
  <2>1. MineOf(filing[p]) \cap MineOf(filing[q]) \subseteq overlap
    BY <1>1 DEF MineApart
  <2>2. MineOf(filing'[p]) \subseteq MineOf(filing[p])
        /\ MineOf(filing'[q]) \subseteq MineOf(filing[q])
    BY <1>2
  <2>3. QED
    BY <2>1, <2>2
<1>5. QED
  BY <1>3, <1>4

(* Keys stay in their slots while request r writes what it holds.             *)
LEMMA SlotsStep ==
  ASSUME FilesInv, NEW r \in Request, NEW x \in Asked, filing' = [filing EXCEPT ![r] = x],
         ~Loading(x), lastKey' = lastKey, stored' \subseteq stored,
         \A q \in Request \ {r}, s \in D!Slot :
           filing[q].step = "upload" /\ filing[q].new[s] # D!None /\ filing[q].new[s] \in stored =>
             filing[q].new[s] \in stored',
         \A d \in Document :
           /\ application'.doc[d] \in {D!None, application.doc[d], filing[r].new[d]}
           /\ profile'.doc[d] \in {D!None, profile.doc[d], filing[r].new[d]},
         proofs' \subseteq proofs \cup {filing[r].new["proof"]},
         \A s \in D!Slot :
           /\ x.old[s] \in {D!None, filing[r].old[s]}
           /\ \/ x.new[s] \in {D!None, filing[r].new[s]}
              \/ s \in Document /\ x.new[s] = application.doc[s]
  PROVE  OneSlot' /\ Fresh'
<1> USE DocumentFacts
<1>1. /\ D!TypeOK /\ OneSlot /\ Fresh
      /\ filing \in [Request -> Asked]
  BY DEF FilesInv, D!TypeOK, Asked
<1>2. filing'[r] = x /\ \A q \in Request \ {r} : filing'[q] = filing[q]
  BY <1>1
<1>3. ASSUME NEW s \in D!Slot, NEW k \in D!Key, InSlot(s, k)'
      PROVE  InSlot(s, k)
  <2>1. CASE s \in Document /\ (application'.doc[s] = k \/ profile'.doc[s] = k)
    <3>1. \/ application.doc[s] = k \/ profile.doc[s] = k
          \/ filing[r].new[s] = k
      BY <2>1
    <3>2. QED
      BY <2>1, <3>1 DEF InSlot
  <2>2. CASE s = "proof" /\ k \in proofs'
    BY <2>2 DEF InSlot
  <2>3. CASE \E q \in Request : filing'[q].new[s] = k \/ filing'[q].old[s] = k
    BY <1>2, <2>3 DEF InSlot
  <2>4. QED
    BY <1>3, <2>1, <2>2, <2>3 DEF InSlot
<1>4. OneSlot'
  BY <1>1, <1>3 DEF OneSlot
<1>5. ASSUME NEW q \in Request, NEW s \in D!Slot, Loading(filing'[q]),
             filing'[q].new[s] # D!None
      PROVE  FreshAt(q, s)'
  <2>1. q # r /\ filing'[q] = filing[q]
    BY <1>2, <1>5
  <2> DEFINE k == filing[q].new[s]
  <2>2. FreshAt(q, s)
    BY <1>1, <1>5, <2>1 DEF Fresh
  <2>3. k \in D!Key
    BY <1>1, <1>5, <2>1 DEF Asked, D!Keys
  <2>4. \A p \in Request : filing'[p].old[s] # k /\ (p # q => filing'[p].new[s] # k)
    BY <1>2, <1>5, <2>1, <2>2 DEF FreshAt
  <2>5. s \in Document => application'.doc[s] # k /\ profile'.doc[s] # k
    BY ZenonT(40), <1>5, <2>1, <2>2 DEF FreshAt
  <2>6. k \notin proofs'
    <3>1. k # filing[r].new["proof"]
      <4>1. CASE s = "proof"
        BY <2>1, <2>2, <4>1 DEF FreshAt
      <4>2. CASE s # "proof"
        BY <1>1, <2>3, <4>2 DEF OneSlot, InSlot
      <4>3. QED
        BY <4>1, <4>2
    <3>2. QED
      BY <2>2, <3>1 DEF FreshAt
  <2>7. filing'[q].step = "upload" => k \in stored'
    BY <1>5, <2>1, <2>2 DEF FreshAt
  <2>8. QED
    BY <2>1, <2>4, <2>5, <2>6, <2>7 DEF FreshAt
<1>6. QED
  BY <1>4, <1>5 DEF Fresh

(* What a request has written: documents of its own, and what it held.        *)
WritesOwn(r, x) ==
  \A d \in Document \ overlap :
    /\ FoundBy(x, d)'
    /\ \/ d \in MineOf(filing[r])
       \/ /\ application'.status = application.status
          /\ application'.doc[d] = application.doc[d]
          /\ profile'.doc[d] = profile.doc[d]
    /\ \/ Shown(d)' \in {Shown(d), D!None}
       \/ Loading(filing[r]) /\ Shown(d)' = filing[r].new[d]

(* A request writes only documents of its own, so that the others find theirs *)
(* as they were, unless two handle one.                                       *)
LEMMA FoundStep ==
  ASSUME FilesInv, NEW r \in Request, NEW x \in Asked, filing' = [filing EXCEPT ![r] = x],
         overlap' = overlap, WritesOwn(r, x)
  PROVE  AsFound'
<1> USE DocumentFacts
<1>1. /\ AsFound /\ MineApart /\ Fresh
      /\ filing \in [Request -> Asked]
  BY DEF FilesInv, D!TypeOK, Asked
<1>2. filing'[r] = x /\ \A q \in Request \ {r} : filing'[q] = filing[q]
  BY <1>1
<1>3. ASSUME NEW q \in Request \ {r}, NEW d \in Document \ overlap
      PROVE  FoundBy(filing[q], d)'
  <2>1. FoundBy(filing[q], d)
    BY <1>1 DEF AsFound
  <2>2. d \in MineOf(filing[q]) =>
          /\ application'.status = application.status
          /\ application'.doc[d] = application.doc[d]
          /\ profile'.doc[d] = profile.doc[d]
    BY <1>1 DEF MineApart, WritesOwn
  <2>3. /\ filing[q].step = "upload" /\ d \in SentTo(filing[q]) => d \in MineOf(filing[q])
        /\ filing[q].op = "drop" /\ d # "id" => d \in MineOf(filing[q])
        /\ filing[q].op = "complete" => d \in MineOf(filing[q])
    BY DEF MineOf, SentTo, D!Entire
  <2>4. ASSUME filing[q].step = "clean", filing[q].old[d] # D!None
        PROVE  filing[q].old[d] # Shown(d)'
    <3>1. filing[q].old[d] # Shown(d)
      BY <2>1, <2>4 DEF FoundBy
    <3>2. ASSUME Loading(filing[r]), Shown(d)' = filing[r].new[d], Shown(d)' # D!None
          PROVE  filing[q].old[d] # filing[r].new[d]
      BY <1>1, <3>2 DEF Fresh, FreshAt
    <3>3. QED
      BY <2>4, <3>1, <3>2 DEF WritesOwn
  <2>5. QED
    BY <1>2, <2>1, <2>2, <2>3, <2>4 DEF FoundBy
<1>4. QED
  BY <1>2, <1>3 DEF AsFound, FoundBy, Shown, WritesOwn

(* An object that lost its row is the one the request will delete.            *)
LEMMA AccountedStep ==
  ASSUME FilesInv, NEW r \in Request, NEW x \in Asked, filing' = [filing EXCEPT ![r] = x],
         overlap' = overlap, failures' = 0 => failures = 0, stored' \subseteq stored,
         \A k \in stored' :
           failures' = 0 /\ overlap = {} /\ (Rowed(k) \/ Pending(filing[r], k)) =>
             Rowed(k)' \/ Pending(x, k)
  PROVE  Accounted'
<1>1. /\ Accounted /\ filing \in [Request -> Asked]
  BY DEF FilesInv, D!TypeOK, Asked
<1>2. filing'[r] = x /\ \A q \in Request \ {r} : filing'[q] = filing[q]
  BY <1>1
<1>3. ASSUME failures' = 0, overlap = {}, NEW k \in stored'
      PROVE  Rowed(k)' \/ \E q \in Request : Pending(filing'[q], k)
  <2>1. Rowed(k) \/ \E q \in Request : Pending(filing[q], k)
    BY <1>1, <1>3 DEF Accounted
  <2>2. QED
    BY <1>2, <1>3, <2>1
<1>4. QED
  BY <1>3 DEF Accounted, Pending, Loading

(* What has gone up is there, for slots of the request's own.                 *)
LEMMA LoadedFacts ==
  ASSUME FilesInv, NEW r \in Request, filing[r].step = "upload", filing[r].files = {}
  PROVE  /\ filing[r] \in Asked /\ ShapeOf(filing[r]) /\ StageOf(filing[r])
         /\ \A s \in D!Slot : filing[r].new[s] # D!None =>
              /\ s \in MineOf(filing[r]) /\ s \in SentTo(filing[r]) /\ FreshAt(r, s)
              /\ filing[r].new[s] \in stored
         /\ \A d \in Document \ overlap : FoundBy(filing[r], d)
<1>1. D!TypeOK /\ Shapes /\ Stages /\ Fresh /\ AsFound
  BY DEF FilesInv
<1>2. filing[r] \in Asked
  BY <1>1, AskedType
<1>3. ASSUME NEW s \in D!Slot, filing[r].new[s] # D!None
      PROVE  s \in MineOf(filing[r]) /\ s \in SentTo(filing[r]) /\ FreshAt(r, s)
             /\ filing[r].new[s] \in stored
  <2>1. FreshAt(r, s)
    BY <1>1, <1>3 DEF Fresh, Loading
  <2>2. s \in D!Held(filing[r].new)
    BY <1>3 DEF D!Held
  <2>3. QED
    BY <2>1, <2>2 DEF FreshAt, MineOf, SentTo
<1>4. QED
  BY <1>1, <1>2, <1>3 DEF Shapes, Stages, AsFound

(* A row's keys after a write.                                                *)
LEMMA WithValue ==
  ASSUME NEW doc \in [Document -> D!Key \cup {D!None}], NEW keys \in D!Keys
  PROVE  /\ D!With(doc, keys) \in [Document -> D!Key \cup {D!None}]
         /\ \A d \in Document :
              D!With(doc, keys)[d] = IF keys[d] # D!None THEN keys[d] ELSE doc[d]
BY DocumentFacts DEF D!With, D!Keys

(* The application's documents are replaced by those that went up.            *)
LEMMA WriteApplicationFiles ==
  ASSUME FilesInv, NEW r \in Request, D!WriteApplication(r)
  PROVE  FilesInv'
<1> USE DocumentFacts
<1>1. /\ D!TypeOK /\ Shapes /\ MineApart /\ OneSlot /\ Fresh /\ Grown /\ Stages /\ OneCreates
      /\ AsFound /\ PhotosGone /\ PhotosLate /\ Accounted /\ D!RowsKeepFiles
      /\ filing \in [Request -> Asked]
  BY DEF FilesInv, D!TypeOK, Asked
<1>2. filing[r].step = "upload" /\ filing[r].files = {} /\ filing[r].op \in {"save", "complete"}
  BY DEF D!WriteApplication, D!Loaded
<1>3. /\ filing[r] \in Asked /\ ShapeOf(filing[r]) /\ StageOf(filing[r])
      /\ \A s \in D!Slot : filing[r].new[s] # D!None =>
           /\ s \in MineOf(filing[r]) /\ s \in SentTo(filing[r]) /\ FreshAt(r, s)
           /\ filing[r].new[s] \in stored
      /\ \A d \in Document \ overlap : FoundBy(filing[r], d)
  BY <1>2, LoadedFacts
<1>4. /\ UNCHANGED <<role, profile, lastFarm, verified, handover, proofs, stored, lastKey,
                     failures, overlap>>
  BY DEF D!WriteApplication, D!farms, D!bucket
<1>5. application \in D!Application /\ filing[r].new \in D!Keys /\ filing[r].old \in D!Keys
      /\ profile.doc \in [Document -> D!Key \cup {D!None}]
  BY <1>1, <1>3 DEF D!TypeOK, Asked, D!Farmer
<1> DEFINE doc == D!With(application.doc, filing[r].new)
<1>6. /\ doc \in [Document -> D!Key \cup {D!None}]
      /\ \A d \in Document :
           doc[d] = IF filing[r].new[d] # D!None THEN filing[r].new[d] ELSE application.doc[d]
  BY <1>5, WithValue DEF D!Application
<1>7. PICK x \in Asked :
        x = [filing[r] EXCEPT
               !.step = "clean",
               !.new = [s \in D!Slot |-> IF s \in Document THEN doc[s] ELSE D!None]]
  BY <1>3, <1>6 DEF Asked, D!Keys
<1>8. /\ filing' = [filing EXCEPT ![r] = x]
      /\ application' = [application EXCEPT !.doc = doc]
  BY <1>7 DEF D!WriteApplication
<1>9. /\ x.step = "clean" /\ x.op = filing[r].op /\ x.old = filing[r].old /\ x.files = {}
      /\ x.farm = filing[r].farm
      /\ \A s \in D!Slot : x.new[s] = IF s \in Document THEN doc[s] ELSE D!None
  BY <1>2, <1>3, <1>7 DEF Asked
<1>10. application'.doc = doc /\ application'.status = application.status
       /\ application' \in D!Application
  BY <1>5, <1>6, <1>8 DEF D!Application
<1> HIDE DEF doc
<1>11. D!TypeOK'
  BY <1>1, <1>4, <1>8, <1>10 DEF D!TypeOK, Asked
<1>12. ShapeOf(x)
  BY <1>2, <1>3, <1>9 DEF ShapeOf, SentTo, D!Held
<1>13. MineOf(x) \subseteq MineOf(filing[r])
  BY <1>2, <1>9 DEF MineOf, D!Held, D!Entire
<1>14. Shapes' /\ MineApart' /\ OneCreates'
  BY <1>4, <1>8, <1>9, <1>12, <1>13, RequestsStep
<1>15. OneSlot' /\ Fresh'
  <2>1. \A d \in Document :
          /\ application'.doc[d] \in {D!None, application.doc[d], filing[r].new[d]}
          /\ profile'.doc[d] \in {D!None, profile.doc[d], filing[r].new[d]}
    BY <1>4, <1>6, <1>10
  <2>2. \A s \in D!Slot :
          /\ x.old[s] \in {D!None, filing[r].old[s]}
          /\ \/ x.new[s] \in {D!None, filing[r].new[s]}
             \/ s \in Document /\ x.new[s] = application.doc[s]
    BY <1>6, <1>9
  <2>3. QED
    BY <1>4, <1>8, <1>9, <2>1, <2>2, SlotsStep DEF Loading
<1>16. filing'[r] = x /\ \A q \in Request \ {r} : filing'[q] = filing[q]
  BY <1>1, <1>8
<1>17. Grown'
  BY <1>1, <1>2, <1>3, <1>4, <1>10 DEF Grown, StageOf
<1>18. Stages'
  BY <1>1, <1>4, <1>9, <1>10, <1>16 DEF Stages, StageOf
<1>19. \A d \in Document \ overlap : d \in MineOf(filing[r]) => application.status = "DRAFT"
  BY <1>2, <1>3 DEF FoundBy
<1>20. WritesOwn(r, x)
  <2> SUFFICES ASSUME NEW d \in Document \ overlap
               PROVE  /\ FoundBy(x, d)'
                      /\ \/ d \in MineOf(filing[r])
                         \/ /\ application'.status = application.status
                            /\ application'.doc[d] = application.doc[d]
                            /\ profile'.doc[d] = profile.doc[d]
                      /\ \/ Shown(d)' \in {Shown(d), D!None}
                         \/ Loading(filing[r]) /\ Shown(d)' = filing[r].new[d]
    BY DEF WritesOwn
  <2>1. d \in MineOf(x) => application'.status = "DRAFT"
    BY <1>10, <1>13, <1>19
  <2>2. x.new[d] = application'.doc[d]
    BY <1>9, <1>10
  <2>3. ASSUME x.old[d] # D!None
        PROVE  x.old[d] # Shown(d)'
    <3>1. d \in D!Held(filing[r].old)
      BY <1>9, <2>3 DEF D!Held
    <3>2. d \in SentTo(filing[r])
      BY <1>2, <1>3, <3>1 DEF ShapeOf
    <3>3. filing[r].new[d] # D!None
      BY <1>2, <3>2 DEF SentTo, D!Held
    <3>4. filing[r].old[d] # filing[r].new[d]
      BY <1>3, <3>3 DEF FreshAt
    <3>5. ~profile.exists
      BY <1>1, <1>3, <1>19, <3>3 DEF Grown
    <3>6. QED
      BY <1>4, <1>6, <1>9, <1>10, <3>3, <3>4, <3>5 DEF Shown
  <2>4. FoundBy(x, d)'
    BY <1>9, <2>1, <2>2, <2>3 DEF FoundBy
  <2>5. QED
    BY <1>2, <1>3, <1>4, <1>6, <1>10, <2>4 DEF Shown, Loading
<1>21. AsFound'
  BY <1>4, <1>8, <1>20, FoundStep
<1>22. PhotosGone' /\ PhotosLate'
  <2>1. x.old["proof"] = D!None
    BY <1>2, <1>3, <1>9 DEF ShapeOf, D!Held
  <2>2. D!None \notin proofs
    BY <1>1 DEF D!TypeOK, D!HandoverProof
  <2>3. QED
    BY <1>1, <1>4, <1>9, <1>16, <2>1, <2>2 DEF PhotosGone, PhotosLate
<1>23. ASSUME NEW k \in stored, overlap = {}, Rowed(k) \/ Pending(filing[r], k)
       PROVE  Rowed(k)' \/ Pending(x, k)
  <2>1. k # D!None
    BY <1>1 DEF D!TypeOK
  <2>2. CASE Pending(filing[r], k)
    <3>1. PICK s \in D!Slot : filing[r].new[s] = k
      BY <1>2, <2>2 DEF Pending
    <3>2. s \in Document
      BY <1>2, <1>3, <2>1, <3>1 DEF ShapeOf
    <3>3. QED
      BY <1>6, <1>10, <2>1, <3>1, <3>2 DEF Rowed
  <2>3. CASE Rowed(k)
    <3>1. ASSUME NEW d \in Document, application.doc[d] = k
          PROVE  Rowed(k)' \/ Pending(x, k)
      <4>1. CASE filing[r].new[d] = D!None
        BY <1>6, <1>10, <3>1, <4>1 DEF Rowed
      <4>2. CASE filing[r].new[d] # D!None
        <5>1. filing[r].old[d] = k
          BY <1>2, <1>3, <1>23, <3>1, <4>2 DEF FoundBy
        <5>2. QED
          BY <1>9, <5>1 DEF Pending
      <4>3. QED
        BY <4>1, <4>2
    <3>2. QED
      BY <1>4, <2>3, <3>1 DEF Rowed
  <2>4. QED
    BY <1>23, <2>2, <2>3
<1>24. Accounted'
  BY <1>4, <1>8, <1>23, AccountedStep
<1>25. D!RowsKeepFiles'
  BY <1>1, <1>3, <1>4, <1>6, <1>10 DEF D!RowsKeepFiles
<1>26. QED
  BY <1>11, <1>14, <1>15, <1>17, <1>18, <1>21, <1>22, <1>24, <1>25 DEF FilesInv

(* A request has written the profile: with what it holds, or emptied.         *)
LEMMA ProfileFiles ==
  ASSUME FilesInv, NEW r \in Request, NEW x \in Asked, filing' = [filing EXCEPT ![r] = x],
         UNCHANGED <<role, handover, proofs, stored, lastKey, failures, overlap>>,
         D!TypeOK', Grown', Stages', application'.doc = application.doc,
         ~Loading(x), x.op \in {filing[r].op, "none"}, ShapeOf(x),
         MineOf(x) \subseteq MineOf(filing[r]),
         \A s \in D!Slot :
           x.old[s] \in {D!None, filing[r].old[s]} /\ x.new[s] \in {D!None, filing[r].new[s]},
         x.step = "clean" => x.old["proof"] = D!None,
         \A d \in Document : profile'.doc[d] \in {D!None, profile.doc[d], filing[r].new[d]},
         WritesOwn(r, x),
         \A d \in Document \ overlap : Shown(d)' # D!None => Shown(d)' \in stored,
         \A k \in stored :
           overlap = {} /\ (Rowed(k) \/ Pending(filing[r], k)) => Rowed(k)' \/ Pending(x, k)
  PROVE  FilesInv'
<1> USE DocumentFacts
<1>1. /\ D!TypeOK /\ Shapes /\ MineApart /\ OneSlot /\ Fresh /\ Grown /\ Stages /\ OneCreates
      /\ AsFound /\ PhotosGone /\ PhotosLate /\ Accounted /\ D!RowsKeepFiles
      /\ filing \in [Request -> Asked]
  BY DEF FilesInv, D!TypeOK, Asked
<1>2. filing'[r] = x /\ \A q \in Request \ {r} : filing'[q] = filing[q]
  BY <1>1
<1>3. Shapes' /\ MineApart' /\ OneCreates'
  BY RequestsStep
<1>4. OneSlot' /\ Fresh'
  <2>1. \A d \in Document :
          /\ application'.doc[d] \in {D!None, application.doc[d], filing[r].new[d]}
          /\ profile'.doc[d] \in {D!None, profile.doc[d], filing[r].new[d]}
    OBVIOUS
  <2>2. \A s \in D!Slot :
          /\ x.old[s] \in {D!None, filing[r].old[s]}
          /\ \/ x.new[s] \in {D!None, filing[r].new[s]}
             \/ s \in Document /\ x.new[s] = application.doc[s]
    OBVIOUS
  <2>3. QED
    BY <2>1, <2>2, SlotsStep
<1>5. AsFound'
  BY FoundStep
<1>6. PhotosGone' /\ PhotosLate'
  <2>1. D!None \notin proofs
    BY <1>1 DEF D!TypeOK, D!HandoverProof
  <2>2. PhotosGone'
    BY <1>1, <1>2, <2>1 DEF PhotosGone
  <2>3. PhotosLate'
    BY <1>1, <1>2 DEF PhotosLate, Loading
  <2>4. QED
    BY <2>2, <2>3
<1>7. Accounted'
  BY AccountedStep
<1>8. D!RowsKeepFiles'
  BY <1>1 DEF D!RowsKeepFiles, Shown
<1>9. QED
  BY <1>3, <1>4, <1>5, <1>6, <1>7, <1>8 DEF FilesInv

(* The two ways the code gives up are one.                                    *)
LEMMA ToUndo ==
  ASSUME NEW r \in Request, filing[r] \in Asked, filing[r].files = {}
  PROVE  D!To(r, "undo")
           = [filing EXCEPT ![r] = [filing[r] EXCEPT !.step = "undo", !.files = {}]]
<1>1. [filing[r] EXCEPT !.step = "undo"]
        = [filing[r] EXCEPT !.step = "undo", !.files = {}]
  BY DEF Asked
<1>2. QED
  BY <1>1 DEF D!To

(* The profile's documents are replaced, or the farm was gone or VERIFIED.    *)
LEMMA WriteProfileFiles ==
  ASSUME FilesInv, NEW r \in Request, D!WriteProfile(r)
  PROVE  FilesInv'
<1> USE DocumentFacts
<1>1. /\ D!TypeOK /\ Grown /\ Stages /\ AsFound /\ D!RowsKeepFiles
      /\ filing \in [Request -> Asked]
  BY DEF FilesInv, D!TypeOK, Asked
<1>2. /\ filing[r].step = "upload" /\ filing[r].files = {}
      /\ filing[r].op \in {"identity", "replace"}
      /\ UNCHANGED <<role, application, lastFarm, verified, handover, proofs, stored, lastKey,
                     failures, overlap>>
  BY DEF D!WriteProfile, D!Loaded, D!bucket
<1>3. /\ filing[r] \in Asked /\ ShapeOf(filing[r]) /\ StageOf(filing[r])
      /\ \A s \in D!Slot : filing[r].new[s] # D!None =>
           /\ s \in MineOf(filing[r]) /\ s \in SentTo(filing[r]) /\ FreshAt(r, s)
           /\ filing[r].new[s] \in stored
      /\ \A d \in Document \ overlap : FoundBy(filing[r], d)
  BY <1>2, LoadedFacts
<1>4. CASE ~D!Replaceable(r)
  <2>1. filing' = [filing EXCEPT ![r] = [filing[r] EXCEPT !.step = "undo", !.files = {}]]
    BY <1>2, <1>3, <1>4, ToUndo DEF D!WriteProfile
  <2>2. UNCHANGED <<D!rows, D!bucket, overlap>> /\ failures' \in 0..MaxFaults
        /\ failures' = failures
    BY <1>1, <1>2, <1>4 DEF D!WriteProfile, D!rows, D!farms, D!bucket, D!TypeOK
  <2>3. QED
    BY <1>2, <2>1, <2>2, UndoFiles
<1>5. CASE D!Replaceable(r)
  <2> DEFINE doc == D!With(profile.doc, filing[r].new)
  <2>1. /\ profile' = [profile EXCEPT !.doc = doc]
        /\ filing' = D!To(r, "clean")
    BY <1>5 DEF D!WriteProfile
  <2>2. profile \in D!Farmer /\ filing[r].new \in D!Keys /\ filing[r].old \in D!Keys
    BY <1>1, <1>3 DEF D!TypeOK, Asked
  <2>3. /\ doc \in [Document -> D!Key \cup {D!None}]
        /\ \A d \in Document :
             doc[d] = IF filing[r].new[d] # D!None THEN filing[r].new[d] ELSE profile.doc[d]
    BY <2>2, WithValue DEF D!Farmer
  <2> HIDE DEF doc
  <2>4. PICK x \in Asked : x = [filing[r] EXCEPT !.step = "clean"]
    BY <1>3 DEF Asked
  <2>5. filing' = [filing EXCEPT ![r] = x]
    BY <1>1, <2>1, <2>4 DEF D!To, Asked
  <2>6. /\ x.step = "clean" /\ x.op = filing[r].op /\ x.old = filing[r].old /\ x.files = {}
        /\ x.farm = filing[r].farm /\ x.new = filing[r].new
    BY <1>2, <1>3, <2>4 DEF Asked
  <2>7. /\ profile' \in D!Farmer /\ profile'.doc = doc /\ profile'.farm = profile.farm
        /\ profile'.exists = profile.exists
    BY <2>1, <2>2, <2>3 DEF D!Farmer
  <2>8. D!TypeOK'
    BY <1>1, <1>2, <2>5, <2>7 DEF D!TypeOK, Asked
  <2>9. profile.exists
    BY <1>2, <1>3 DEF StageOf
  <2>10. Grown'
    <3>1. ASSUME profile.farm = D!None, NEW d \in Papers
          PROVE  doc[d] = D!None
      <4>1. filing[r].op = "identity"
        BY <1>2, <1>5, <1>3, <3>1 DEF D!Replaceable, StageOf
      <4>2. filing[r].new[d] = D!None
        BY <1>3, <4>1 DEF ShapeOf, Papers
      <4>3. QED
        BY <1>1, <2>3, <3>1, <4>2 DEF Grown, Papers
    <3>2. QED
      BY <1>1, <1>2, <2>7, <2>9, <3>1 DEF Grown
  <2>11. filing'[r] = x /\ \A q \in Request \ {r} : filing'[q] = filing[q]
    BY <1>1, <2>5
  <2>12. Stages'
    BY <1>1, <1>2, <2>6, <2>7, <2>11 DEF Stages, StageOf
  <2>13. ShapeOf(x)
    BY <1>2, <1>3, <2>6 DEF ShapeOf, SentTo
  <2>14. MineOf(x) \subseteq MineOf(filing[r])
    BY <1>2, <2>6 DEF MineOf
  <2>15. x.old["proof"] = D!None
    BY <1>2, <1>3, <2>6 DEF ShapeOf, D!Held
  <2>16. WritesOwn(r, x) /\ \A d \in Document \ overlap : Shown(d)' # D!None => Shown(d)' \in stored
    <3> SUFFICES ASSUME NEW d \in Document \ overlap
                 PROVE  /\ FoundBy(x, d)'
                        /\ \/ d \in MineOf(filing[r])
                           \/ profile'.doc[d] = profile.doc[d]
                        /\ \/ Shown(d)' \in {Shown(d), D!None}
                           \/ Loading(filing[r]) /\ Shown(d)' = filing[r].new[d]
                        /\ Shown(d)' # D!None => Shown(d)' \in stored
      BY <1>2 DEF WritesOwn
    <3>1. Shown(d) = profile.doc[d] /\ Shown(d)' = doc[d]
      BY <2>7, <2>9 DEF Shown
    <3>2. ASSUME x.old[d] # D!None
          PROVE  x.old[d] # Shown(d)'
      <4>1. d \in D!Held(filing[r].old)
        BY <2>6, <3>2 DEF D!Held
      <4>2. d \in SentTo(filing[r])
        BY <1>2, <1>3, <4>1 DEF ShapeOf
      <4>3. filing[r].new[d] # D!None
        BY <1>2, <4>2 DEF SentTo, D!Held
      <4>4. filing[r].old[d] # filing[r].new[d]
        BY <1>3, <4>3 DEF FreshAt
      <4>5. QED
        BY <2>3, <2>6, <3>1, <4>3, <4>4
    <3>3. FoundBy(x, d)'
      BY <1>2, <2>6, <3>2 DEF FoundBy
    <3>4. profile.doc[d] # D!None => profile.doc[d] \in stored
      BY <1>1, <2>9 DEF D!RowsKeepFiles
    <3>5. CASE filing[r].new[d] = D!None
      BY <1>2, <2>3, <2>7, <3>1, <3>3, <3>4, <3>5
    <3>6. CASE filing[r].new[d] # D!None
      <4>1. d \in MineOf(filing[r]) /\ filing[r].new[d] \in stored
        BY <1>3, <3>6
      <4>2. Loading(filing[r]) /\ Shown(d)' = filing[r].new[d]
        BY <1>2, <2>3, <3>1, <3>6 DEF Loading
      <4>3. QED
        BY <3>3, <4>1, <4>2
    <3>7. QED
      BY <3>5, <3>6
  <2>17. ASSUME NEW k \in stored, overlap = {}, Rowed(k) \/ Pending(filing[r], k)
         PROVE  Rowed(k)' \/ Pending(x, k)
    <3>1. k # D!None
      BY <1>1 DEF D!TypeOK
    <3>2. CASE Pending(filing[r], k)
      <4>1. PICK s \in D!Slot : filing[r].new[s] = k
        BY <1>2, <3>2 DEF Pending
      <4>2. s \in Document
        BY <1>2, <1>3, <3>1, <4>1 DEF ShapeOf
      <4>3. QED
        BY <2>3, <2>7, <3>1, <4>1, <4>2 DEF Rowed
    <3>3. CASE Rowed(k)
      <4>1. ASSUME NEW d \in Document, profile.doc[d] = k
            PROVE  Rowed(k)' \/ Pending(x, k)
        <5>1. CASE filing[r].new[d] = D!None
          BY <2>3, <2>7, <4>1, <5>1 DEF Rowed
        <5>2. CASE filing[r].new[d] # D!None
          <6>1. filing[r].old[d] = k
            BY <1>2, <1>3, <2>17, <4>1, <5>2 DEF FoundBy
          <6>2. QED
            BY <2>6, <6>1 DEF Pending
        <5>3. QED
          BY <5>1, <5>2
      <4>2. QED
        BY <1>2, <3>3, <4>1 DEF Rowed
    <3>4. QED
      BY <2>17, <3>2, <3>3
  <2>18. /\ application'.doc = application.doc
         /\ \A s \in D!Slot :
              x.old[s] \in {D!None, filing[r].old[s]} /\ x.new[s] \in {D!None, filing[r].new[s]}
         /\ \A d \in Document : profile'.doc[d] \in {D!None, profile.doc[d], filing[r].new[d]}
         /\ ~Loading(x) /\ x.op \in {filing[r].op, "none"}
    BY <1>2, <2>3, <2>6, <2>7 DEF Loading
  <2>19. QED
    BY <1>2, <2>5, <2>8, <2>10, <2>12, <2>13, <2>14, <2>15, <2>16, <2>17, <2>18, ProfileFiles
<1>6. QED
  BY <1>4, <1>5

(* A request has created a farm, or a profile, and is done.                   *)
LEMMA InsertedFiles ==
  ASSUME FilesInv, NEW r \in Request, filing' = D!Done(r),
         UNCHANGED <<role, handover, proofs, stored, lastKey, failures, overlap>>,
         application' \in D!Application, application'.doc = application.doc,
         profile' \in D!Farmer, lastFarm' \in 0..MaxFarm, verified' \in BOOLEAN,
         Grown', Stages',
         \A d \in Document : profile'.doc[d] \in {profile.doc[d], filing[r].new[d]},
         \/ application'.status = application.status
         \/ \A d \in Document : d \in MineOf(filing[r]),
         \A d \in Document \ overlap :
           /\ profile'.doc[d] = profile.doc[d] \/ d \in MineOf(filing[r])
           /\ \/ Shown(d)' \in {Shown(d), D!None}
              \/ Loading(filing[r]) /\ Shown(d)' = filing[r].new[d]
           /\ Shown(d)' # D!None => Shown(d)' \in stored,
         \A k \in stored :
           overlap = {} /\ (Rowed(k) \/ Pending(filing[r], k)) => Rowed(k)'
  PROVE  FilesInv'
<1> USE DocumentFacts
<1>1. D!TypeOK
  BY DEF FilesInv
<1>2. PICK x \in Asked : x = D!Idle
  OBVIOUS
<1>3. filing' = [filing EXCEPT ![r] = x]
  BY <1>2 DEF D!Done
<1>4. /\ x.op = "none" /\ x.step = "idle" /\ x.files = {} /\ x.new = D!NoKeys
      /\ x.old = D!NoKeys
  BY <1>2 DEF D!Idle
<1>5. ShapeOf(x) /\ MineOf(x) \subseteq MineOf(filing[r]) /\ ~Loading(x)
  BY <1>2, <1>4 DEF ShapeOf, SentTo, MineOf, D!Entire, Loading
<1>6. D!TypeOK'
  BY <1>1, <1>3 DEF D!TypeOK, Asked
<1>7. WritesOwn(r, x)
  <2>1. \A d \in Document : FoundBy(x, d)'
    BY <1>4 DEF FoundBy
  <2>2. QED
    BY <2>1 DEF WritesOwn
<1>8. /\ \A s \in D!Slot :
           x.old[s] \in {D!None, filing[r].old[s]} /\ x.new[s] \in {D!None, filing[r].new[s]}
      /\ x.step # "clean" /\ x.op \in {filing[r].op, "none"}
      /\ \A d \in Document : profile'.doc[d] \in {D!None, profile.doc[d], filing[r].new[d]}
      /\ \A d \in Document \ overlap : Shown(d)' # D!None => Shown(d)' \in stored
      /\ \A k \in stored :
           overlap = {} /\ (Rowed(k) \/ Pending(filing[r], k)) => Rowed(k)' \/ Pending(x, k)
  BY <1>4
<1>9. QED
  BY <1>3, <1>5, <1>6, <1>7, <1>8, ProfileFiles

(* A farmer registered in the field has a farm and no documents yet.          *)
LEMMA WriteRegisteredFiles ==
  ASSUME FilesInv, NEW r \in Request, D!WriteRegistered(r)
  PROVE  FilesInv'
<1> USE DocumentFacts
<1>1. /\ D!TypeOK /\ Grown /\ Stages /\ D!RowsKeepFiles
      /\ filing \in [Request -> Asked]
  BY DEF FilesInv, D!TypeOK, Asked
<1>2. /\ filing[r].step = "upload" /\ filing[r].files = {} /\ filing[r].op = "register"
      /\ UNCHANGED <<role, application, handover, proofs, stored, lastKey, failures, overlap>>
  BY DEF D!WriteRegistered, D!Loaded, D!bucket
<1>3. filing[r] \in Asked /\ ShapeOf(filing[r]) /\ StageOf(filing[r])
  BY <1>2, LoadedFacts
<1>4. CASE ~(~profile.exists /\ lastFarm < MaxFarm)
  <2>1. filing' = [filing EXCEPT ![r] = [filing[r] EXCEPT !.step = "undo", !.files = {}]]
    BY <1>2, <1>3, <1>4, ToUndo DEF D!WriteRegistered
  <2>2. UNCHANGED <<D!rows, D!bucket, overlap>> /\ failures' \in 0..MaxFaults
        /\ failures' = failures
    BY <1>1, <1>2, <1>4 DEF D!WriteRegistered, D!rows, D!farms, D!bucket, D!TypeOK
  <2>3. QED
    BY <1>2, <2>1, <2>2, UndoFiles
<1>5. CASE ~profile.exists /\ lastFarm < MaxFarm
  <2> DEFINE doc == D!With(profile.doc, filing[r].new)
  <2>1. /\ profile' = [exists |-> TRUE, farm |-> lastFarm + 1, doc |-> doc]
        /\ lastFarm' = lastFarm + 1 /\ verified' = FALSE
        /\ filing' = D!Done(r)
    BY <1>5 DEF D!WriteRegistered, D!InsertFarm
  <2>2. profile \in D!Farmer /\ filing[r].new \in D!Keys
        /\ \A s \in D!Slot : filing[r].new[s] = D!None
    BY <1>1, <1>2, <1>3 DEF D!TypeOK, Asked, ShapeOf, SentTo, D!Held
  <2>3. /\ doc \in [Document -> D!Key \cup {D!None}]
        /\ \A d \in Document : doc[d] = D!None
    <3>1. profile.doc = D!NoDocuments
      BY <1>1, <1>5 DEF Grown
    <3>2. \A d \in Document :
            doc[d] = IF filing[r].new[d] # D!None THEN filing[r].new[d] ELSE profile.doc[d]
      BY <2>2, WithValue DEF D!Farmer
    <3>3. doc \in [Document -> D!Key \cup {D!None}]
      BY <2>2, WithValue DEF D!Farmer
    <3>4. QED
      BY <2>2, <3>1, <3>2, <3>3
  <2> HIDE DEF doc
  <2>4. lastFarm \in 0..MaxFarm
    BY <1>1 DEF D!TypeOK
  <2>5. /\ profile'.exists /\ profile'.doc = doc /\ profile'.farm = lastFarm + 1
        /\ lastFarm' \in 0..MaxFarm /\ profile'.farm # D!None
        /\ profile' \in D!Farmer
    BY <1>5, <2>1, <2>3, <2>4 DEF D!Farmer, D!None
  <2>6. Grown'
    BY <1>1, <1>2, <1>3, <2>5 DEF Grown, StageOf
  <2>7. Stages'
    <3>1. filing' \in [Request -> Asked] /\ filing'[r] = D!Idle
          /\ \A q \in Request \ {r} : filing'[q] = filing[q]
      BY <1>1, <2>1 DEF D!Done
    <3>2. QED
      BY <1>1, <1>2, <1>5, <2>5, <3>1 DEF Stages, StageOf, D!Idle
  <2>8. \A d \in Document : Shown(d)' = D!None /\ profile'.doc[d] = profile.doc[d]
    BY <1>1, <1>5, <2>3, <2>5 DEF Shown, Grown
  <2>9. ASSUME NEW k \in stored, Rowed(k) \/ Pending(filing[r], k)
        PROVE  Rowed(k)'
    <3>1. k # D!None
      BY <1>1 DEF D!TypeOK
    <3>2. ~Pending(filing[r], k)
      BY <1>2, <2>2, <3>1 DEF Pending
    <3>3. QED
      BY <1>2, <2>8, <2>9, <3>2 DEF Rowed
  <2>10. application' \in D!Application /\ application'.doc = application.doc
         /\ application'.status = application.status /\ verified' \in BOOLEAN
    BY <1>1, <1>2, <2>1 DEF D!TypeOK
  <2>11. QED
    BY <1>2, <2>1, <2>5, <2>6, <2>7, <2>8, <2>9, <2>10, InsertedFiles
<1>6. QED
  BY <1>4, <1>5

(* A further farm comes with the documents that went up.                      *)
LEMMA WriteFarmFiles ==
  ASSUME FilesInv, NEW r \in Request, D!WriteFarm(r)
  PROVE  FilesInv'
<1> USE DocumentFacts
<1>1. /\ D!TypeOK /\ Grown /\ Stages /\ OneCreates /\ D!RowsKeepFiles
      /\ filing \in [Request -> Asked]
  BY DEF FilesInv, D!TypeOK, Asked
<1> DEFINE doc == D!With(profile.doc, filing[r].new)
<1>2. /\ filing[r].step = "upload" /\ filing[r].files = {} /\ filing[r].op = "create"
      /\ UNCHANGED <<role, application, handover, proofs, stored, lastKey, failures, overlap>>
      /\ profile' = [exists |-> TRUE, farm |-> lastFarm + 1, doc |-> doc]
      /\ lastFarm' = lastFarm + 1 /\ verified' = FALSE
      /\ filing' = D!Done(r)
  BY DEF D!WriteFarm, D!Loaded, D!bucket, D!InsertFarm
<1>3. /\ filing[r] \in Asked /\ ShapeOf(filing[r]) /\ StageOf(filing[r])
      /\ \A s \in D!Slot : filing[r].new[s] # D!None =>
           s \in MineOf(filing[r]) /\ filing[r].new[s] \in stored
  BY <1>2, LoadedFacts
<1>4. profile \in D!Farmer /\ filing[r].new \in D!Keys /\ lastFarm \in 0..MaxFarm
  BY <1>1, <1>3 DEF D!TypeOK, Asked
<1>5. /\ doc \in [Document -> D!Key \cup {D!None}]
      /\ \A d \in Document :
           doc[d] = IF filing[r].new[d] # D!None THEN filing[r].new[d] ELSE profile.doc[d]
  BY <1>4, WithValue DEF D!Farmer
<1> HIDE DEF doc
<1>6. /\ profile.exists /\ profile.farm = D!None /\ application.status # "DRAFT"
      /\ lastFarm < MaxFarm
  BY <1>2, <1>3 DEF StageOf
<1>7. /\ profile'.exists /\ profile'.doc = doc /\ profile'.farm = lastFarm + 1
      /\ lastFarm' \in 0..MaxFarm /\ profile'.farm # D!None
      /\ profile' \in D!Farmer
  BY <1>2, <1>4, <1>5, <1>6 DEF D!Farmer, D!None
<1>8. Grown'
  BY <1>1, <1>2, <1>6, <1>7 DEF Grown
<1>9. Stages'
  <2>1. filing'[r] = D!Idle /\ \A q \in Request \ {r} : filing'[q] = filing[q]
    BY <1>1, <1>2 DEF D!Done
  <2>2. QED
    BY <1>1, <1>2, <1>6, <1>7, <2>1 DEF Stages, StageOf, OneCreates, D!Idle
<1>10. ASSUME NEW d \in Document
       PROVE  /\ profile'.doc[d] \in {profile.doc[d], filing[r].new[d]}
              /\ profile'.doc[d] = profile.doc[d] \/ d \in MineOf(filing[r])
              /\ \/ Shown(d)' \in {Shown(d), D!None}
                 \/ Loading(filing[r]) /\ Shown(d)' = filing[r].new[d]
              /\ Shown(d)' # D!None /\ d \notin overlap => Shown(d)' \in stored
  BY <1>1, <1>2, <1>3, <1>5, <1>6, <1>7 DEF Shown, Loading, D!RowsKeepFiles
<1>11. ASSUME NEW k \in stored, Rowed(k) \/ Pending(filing[r], k)
       PROVE  Rowed(k)'
  <2>1. k # D!None
    BY <1>1 DEF D!TypeOK
  <2>2. CASE Pending(filing[r], k)
    <3>1. PICK s \in D!Slot : filing[r].new[s] = k
      BY <1>2, <2>2 DEF Pending
    <3>2. s \in Document
      BY <1>2, <1>3, <2>1, <3>1 DEF ShapeOf, SentTo, D!Held, Papers
    <3>3. QED
      BY <1>5, <1>7, <2>1, <3>1, <3>2 DEF Rowed
  <2>3. CASE Rowed(k)
    <3>1. ASSUME NEW d \in Document, profile.doc[d] = k
          PROVE  profile'.doc[d] = k
      <4>1. d = "id"
        BY <1>1, <1>6, <2>1, <3>1 DEF Grown, Papers
      <4>2. filing[r].new[d] = D!None
        BY <1>2, <1>3, <4>1 DEF ShapeOf, SentTo, D!Held, Papers
      <4>3. QED
        BY <1>5, <1>7, <3>1, <4>2
    <3>2. QED
      BY <1>2, <2>3, <3>1 DEF Rowed
  <2>4. QED
    BY <1>11, <2>2, <2>3
<1>12. application' \in D!Application /\ application'.doc = application.doc
       /\ application'.status = application.status /\ verified' \in BOOLEAN
  BY <1>1, <1>2 DEF D!TypeOK
<1>13. QED
  BY <1>2, <1>7, <1>8, <1>9, <1>10, <1>11, <1>12, InsertedFiles

(* A farm that goes leaves its documents to the request that removed it.      *)
LEMMA DeleteFarmFiles ==
  ASSUME FilesInv, NEW r \in Request, D!DeleteFarm(r)
  PROVE  FilesInv'
<1> USE DocumentFacts
<1>1. /\ D!TypeOK /\ Grown /\ Stages /\ AsFound /\ D!RowsKeepFiles
      /\ filing \in [Request -> Asked]
  BY DEF FilesInv, D!TypeOK, Asked
<1>2. /\ filing[r].step = "upload" /\ filing[r].files = {} /\ filing[r].op = "drop"
      /\ UNCHANGED <<role, application, lastFarm, handover, proofs, stored, lastKey,
                     failures, overlap>>
  BY DEF D!DeleteFarm, D!Loaded, D!bucket
<1>3. /\ filing[r] \in Asked /\ ShapeOf(filing[r]) /\ StageOf(filing[r])
      /\ \A d \in Document \ overlap : FoundBy(filing[r], d)
  BY <1>2, LoadedFacts
<1>4. \A s \in D!Slot : filing[r].new[s] = D!None
  BY <1>2, <1>3 DEF ShapeOf, SentTo, D!Held
<1>5. \A k \in D!Key : ~Pending(filing[r], k)
  BY <1>2, <1>4 DEF Pending
<1>6. CASE profile.farm # filing[r].farm
  <2>1. /\ filing' = D!Done(r) /\ UNCHANGED <<D!rows, D!bucket, overlap>>
        /\ failures' \in 0..MaxFaults /\ failures' = failures
    BY <1>1, <1>2, <1>6 DEF D!DeleteFarm, D!rows, D!farms, D!bucket, D!TypeOK
  <2>2. QED
    BY <1>5, <2>1, DoneFiles
<1>7. CASE profile.farm = filing[r].farm
  <2> DEFINE doc == [d \in Document |-> IF d = "id" THEN profile.doc[d] ELSE D!None]
  <2>1. /\ profile' = [profile EXCEPT !.farm = D!None, !.doc = doc]
        /\ verified' = FALSE /\ filing' = D!To(r, "clean")
    BY <1>7 DEF D!DeleteFarm
  <2>2. profile \in D!Farmer
    BY <1>1 DEF D!TypeOK
  <2>3. /\ doc \in [Document -> D!Key \cup {D!None}]
        /\ \A d \in Document : doc[d] = IF d = "id" THEN profile.doc[d] ELSE D!None
    BY <2>2 DEF D!Farmer
  <2> HIDE DEF doc
  <2>4. PICK x \in Asked : x = [filing[r] EXCEPT !.step = "clean"]
    BY <1>3 DEF Asked
  <2>5. filing' = [filing EXCEPT ![r] = x]
    BY <1>1, <2>1, <2>4 DEF D!To, Asked
  <2>6. /\ x.step = "clean" /\ x.op = filing[r].op /\ x.old = filing[r].old /\ x.files = {}
        /\ x.farm = filing[r].farm /\ x.new = filing[r].new
    BY <1>2, <1>3, <2>4 DEF Asked
  <2>7. /\ profile' \in D!Farmer /\ profile'.doc = doc /\ profile'.farm = D!None
        /\ profile'.exists = profile.exists
    <3>1. D!None \in 0..MaxFarm
      BY DEF D!None
    <3>2. QED
      BY <2>1, <2>2, <2>3, <3>1 DEF D!Farmer
  <2>8. D!TypeOK'
    <3>1. verified' \in BOOLEAN
      BY <2>1
    <3>2. filing' \in [Request -> Asked]
      BY <1>1, <2>5
    <3>3. QED
      BY <1>1, <1>2, <2>7, <3>1, <3>2 DEF D!TypeOK, Asked
  <2>9. profile.exists
    BY <1>2, <1>3 DEF StageOf
  <2>10. Grown'
    BY <1>1, <1>2, <2>3, <2>7, <2>9 DEF Grown, Papers
  <2>11. filing'[r] = x /\ \A q \in Request \ {r} : filing'[q] = filing[q]
    BY <1>1, <2>5
  <2>12. Stages'
    BY <1>1, <1>2, <2>6, <2>7, <2>11 DEF Stages, StageOf
  <2>13. ShapeOf(x)
    BY <1>2, <1>3, <2>6 DEF ShapeOf, SentTo
  <2>14. MineOf(x) \subseteq MineOf(filing[r])
    BY <1>2, <2>6 DEF MineOf
  <2>15. x.old["proof"] = D!None
    BY <1>2, <1>3, <2>6 DEF ShapeOf, D!Held, Papers
  <2>16. WritesOwn(r, x) /\ \A d \in Document \ overlap : Shown(d)' # D!None => Shown(d)' \in stored
    <3> SUFFICES ASSUME NEW d \in Document \ overlap
                 PROVE  /\ FoundBy(x, d)'
                        /\ \/ d \in MineOf(filing[r])
                           \/ profile'.doc[d] = profile.doc[d]
                        /\ Shown(d)' \in {Shown(d), D!None}
                        /\ Shown(d)' # D!None => Shown(d)' \in stored
      BY <1>2 DEF WritesOwn
    <3>1. Shown(d) = profile.doc[d] /\ Shown(d)' = doc[d]
      BY <2>7, <2>9 DEF Shown
    <3>2. x.old[d] # D!None => d # "id"
      BY <1>2, <1>3, <2>6 DEF ShapeOf, D!Held, Papers
    <3>3. FoundBy(x, d)'
      BY <1>2, <2>3, <2>6, <3>1, <3>2 DEF FoundBy
    <3>4. profile.doc[d] # D!None => profile.doc[d] \in stored
      BY <1>1, <2>9 DEF D!RowsKeepFiles
    <3>5. d = "id" \/ d \in MineOf(filing[r])
      BY <1>2 DEF MineOf, D!Entire
    <3>6. QED
      BY <2>3, <2>7, <3>1, <3>3, <3>4, <3>5
  <2>17. ASSUME NEW k \in stored, overlap = {}, Rowed(k) \/ Pending(filing[r], k)
         PROVE  Rowed(k)' \/ Pending(x, k)
    <3>1. k \in D!Key
      BY <1>1 DEF D!TypeOK
    <3>2. ASSUME NEW d \in Document, profile.doc[d] = k
          PROVE  Rowed(k)' \/ Pending(x, k)
      <4>1. CASE d = "id"
        BY <2>3, <2>7, <3>2, <4>1 DEF Rowed
      <4>2. CASE d # "id"
        <5>1. filing[r].old[d] = k
          BY <1>2, <1>3, <2>17, <3>2, <4>2 DEF FoundBy
        <5>2. QED
          BY <2>6, <5>1 DEF Pending
      <4>3. QED
        BY <4>1, <4>2
    <3>3. QED
      BY <1>2, <1>5, <2>17, <3>1, <3>2 DEF Rowed
  <2>18. /\ application'.doc = application.doc
         /\ \A s \in D!Slot :
              x.old[s] \in {D!None, filing[r].old[s]} /\ x.new[s] \in {D!None, filing[r].new[s]}
         /\ \A d \in Document : profile'.doc[d] \in {D!None, profile.doc[d], filing[r].new[d]}
         /\ ~Loading(x) /\ x.op \in {filing[r].op, "none"}
    BY <1>2, <2>3, <2>6, <2>7 DEF Loading
  <2>19. QED
    BY <1>2, <2>5, <2>8, <2>10, <2>12, <2>13, <2>14, <2>15, <2>16, <2>17, <2>18, ProfileFiles
<1>8. QED
  BY <1>6, <1>7

(* Two requests that claim the application would overlap; the one that does   *)
(* gives the profile the keys it saved.                                       *)
LEMMA ClaimFiles ==
  ASSUME FilesInv, NEW r \in Request, D!Claim(r)
  PROVE  FilesInv'
<1> USE DocumentFacts
<1>1. /\ D!TypeOK /\ Grown /\ Stages /\ AsFound /\ Shapes /\ D!RowsKeepFiles
      /\ filing \in [Request -> Asked]
  BY DEF FilesInv, D!TypeOK, Asked
<1>2. /\ filing[r].step = "claim" /\ filing' = D!Done(r)
      /\ UNCHANGED <<role, handover, proofs, stored, lastKey, failures, overlap>>
  BY DEF D!Claim, D!bucket
<1>3. \A k \in D!Key : ~Pending(filing[r], k)
  BY <1>2 DEF Pending, Loading
<1>4. CASE D!Refused(r)
  <2>1. UNCHANGED <<D!rows, D!bucket, overlap>> /\ failures' \in 0..MaxFaults
        /\ failures' = failures
    BY <1>1, <1>2, <1>4 DEF D!Refused, D!rows, D!farms, D!bucket, D!TypeOK
  <2>2. QED
    BY <1>2, <1>3, <2>1, DoneFiles
<1>5. ASSUME D!Claimed(r), profile' \in D!Farmer, lastFarm' \in 0..MaxFarm, verified' \in BOOLEAN,
             profile'.exists,
             profile'.farm = D!None => \A d \in Papers : profile'.doc[d] = D!None,
             \A d \in Document : profile'.doc[d] \in {D!None, filing[r].new[d]}
      PROVE  FilesInv'
  <2>1. /\ application.status = "DRAFT" /\ ~profile.exists
        /\ application' = [application EXCEPT !.status = "COMPLETED"]
    BY <1>1, <1>5 DEF D!Claimed, Grown
  <2>2. /\ application' \in D!Application /\ application'.doc = application.doc
        /\ application'.status = "COMPLETED"
    BY <1>1, <2>1 DEF D!TypeOK, D!Application, D!ApplicationStatus
  <2>3. filing[r].op = "complete"
    BY <1>1, <1>2 DEF Shapes, ShapeOf
  <2>4. \A d \in Document : d \in MineOf(filing[r])
    BY <2>3 DEF MineOf, D!Entire
  <2>5. Grown'
    BY <1>5, <2>2 DEF Grown
  <2>6. Stages'
    <3>1. filing'[r] = D!Idle /\ \A q \in Request \ {r} : filing'[q] = filing[q]
      BY <1>1, <1>2 DEF D!Done
    <3>2. QED
      BY <1>1, <2>1, <2>2, <3>1 DEF Stages, StageOf, D!Idle
  <2>7. \A d \in Document : profile.doc[d] = D!None
    BY <1>1, <2>1 DEF Grown
  <2>8. ASSUME NEW d \in Document \ overlap
        PROVE  /\ Shown(d)' \in {Shown(d), D!None}
               /\ Shown(d)' # D!None => Shown(d)' \in stored
    <3>1. filing[r].new[d] = application.doc[d]
      BY <1>1, <1>2, <2>3 DEF AsFound, FoundBy
    <3>2. Shown(d) = application.doc[d] /\ Shown(d)' = profile'.doc[d]
      BY <1>5, <2>1 DEF Shown
    <3>3. application.doc[d] # D!None => application.doc[d] \in stored
      BY <1>1, <2>1 DEF D!RowsKeepFiles
    <3>4. QED
      BY <1>5, <3>1, <3>2, <3>3
  <2>9. ASSUME NEW k \in stored, Rowed(k) \/ Pending(filing[r], k)
        PROVE  Rowed(k)'
    <3>1. k \in D!Key
      BY <1>1 DEF D!TypeOK
    <3>2. QED
      BY <1>2, <1>3, <2>2, <2>7, <2>9, <3>1 DEF Rowed
  <2>10. \A d \in Document : profile'.doc[d] \in {profile.doc[d], filing[r].new[d]}
    BY <1>5, <2>7
  <2>11. QED
    BY <1>2, <1>5, <2>2, <2>4, <2>5, <2>6, <2>8, <2>9, <2>10, InsertedFiles
<1>6. /\ profile \in D!Farmer /\ lastFarm \in 0..MaxFarm /\ filing[r].new \in D!Keys
      /\ verified \in BOOLEAN
  BY <1>1 DEF D!TypeOK, Asked
<1>7. CASE D!CreateFarmer(r)
  <2> DEFINE doc == D!With(profile.doc, filing[r].new)
  <2>1. /\ D!Claimed(r) /\ lastFarm' = lastFarm + 1 /\ verified' = FALSE
        /\ profile' = [exists |-> TRUE, farm |-> lastFarm + 1, doc |-> doc]
    BY <1>7 DEF D!CreateFarmer, D!InsertFarm
  <2>2. lastFarm = 0 /\ \A d \in Document : profile.doc[d] = D!None
    BY <1>1, <2>1 DEF D!Claimed, Grown
  <2>3. /\ doc \in [Document -> D!Key \cup {D!None}]
        /\ \A d \in Document :
             doc[d] = IF filing[r].new[d] # D!None THEN filing[r].new[d] ELSE profile.doc[d]
    BY <1>6, WithValue DEF D!Farmer
  <2> HIDE DEF doc
  <2>4. /\ profile' \in D!Farmer /\ profile'.exists /\ profile'.farm # D!None
        /\ profile'.doc = doc /\ lastFarm' \in 0..MaxFarm
    BY <1>6, <2>1, <2>2, <2>3 DEF D!Farmer, D!None
  <2>5. \A d \in Document : profile'.doc[d] \in {D!None, filing[r].new[d]}
    BY <2>2, <2>3, <2>4
  <2>6. QED
    BY <1>5, <2>1, <2>4, <2>5
<1>8. CASE D!CreateAgent(r)
  <2>1. /\ D!Claimed(r) /\ UNCHANGED <<lastFarm, verified>>
        /\ profile' = [profile EXCEPT !.exists = TRUE, !.doc["id"] = filing[r].new["id"]]
    BY <1>8 DEF D!CreateAgent
  <2>2. \A d \in Document : profile.doc[d] = D!None
    BY <1>1, <2>1 DEF D!Claimed, Grown
  <2>3. filing[r].new["id"] \in D!Key \cup {D!None}
    BY <1>6 DEF D!Keys
  <2>4. /\ profile' \in D!Farmer /\ profile'.exists
        /\ \A d \in Document :
             profile'.doc[d] = IF d = "id" THEN filing[r].new[d] ELSE D!None
    BY <1>6, <2>1, <2>2, <2>3 DEF D!Farmer
  <2>5. QED
    BY <1>5, <1>6, <2>1, <2>4 DEF Papers
<1>9. QED
  BY <1>4, <1>7, <1>8 DEF D!Claim

(* A photo gets its row, or loses it.                                         *)
LEMMA PhotoFiles ==
  ASSUME FilesInv, NEW r \in Request, NEW x \in Asked, filing' = [filing EXCEPT ![r] = x],
         UNCHANGED <<role, application, profile, lastFarm, verified, handover, stored, lastKey,
                     failures, overlap>>,
         proofs' \subseteq D!Key, proofs' \subseteq stored,
         proofs' \subseteq proofs \cup {filing[r].new["proof"]},
         ~Loading(x), x.op \in {filing[r].op, "none"}, ShapeOf(x), StageOf(x),
         MineOf(x) \subseteq MineOf(filing[r]),
         \A s \in D!Slot :
           x.old[s] \in {D!None, filing[r].old[s]} /\ x.new[s] \in {D!None, filing[r].new[s]},
         x.step = "clean" => x.old["proof"] \notin proofs',
         \A q \in Request : proofs' \subseteq proofs \/ filing[q].old["proof"] # filing[r].new["proof"],
         \A d \in Document : FoundBy(x, d),
         \A k \in stored :
           overlap = {} /\ (Rowed(k) \/ Pending(filing[r], k)) => Rowed(k)' \/ Pending(x, k)
  PROVE  FilesInv'
<1> USE DocumentFacts
<1>1. /\ D!TypeOK /\ Shapes /\ MineApart /\ OneSlot /\ Fresh /\ Grown /\ Stages /\ OneCreates
      /\ AsFound /\ PhotosGone /\ PhotosLate /\ Accounted /\ D!RowsKeepFiles
      /\ filing \in [Request -> Asked]
  BY DEF FilesInv, D!TypeOK, Asked
<1>2. filing'[r] = x /\ \A q \in Request \ {r} : filing'[q] = filing[q]
  BY <1>1
<1>3. D!TypeOK'
  BY <1>1 DEF D!TypeOK, Asked, D!HandoverProof
<1>4. Shapes' /\ MineApart' /\ OneCreates'
  BY RequestsStep
<1>5. OneSlot' /\ Fresh'
  <2>1. \A d \in Document :
          /\ application'.doc[d] \in {D!None, application.doc[d], filing[r].new[d]}
          /\ profile'.doc[d] \in {D!None, profile.doc[d], filing[r].new[d]}
    OBVIOUS
  <2>2. \A s \in D!Slot :
          /\ x.old[s] \in {D!None, filing[r].old[s]}
          /\ \/ x.new[s] \in {D!None, filing[r].new[s]}
             \/ s \in Document /\ x.new[s] = application.doc[s]
    OBVIOUS
  <2>3. QED
    BY <2>1, <2>2, SlotsStep
<1>6. WritesOwn(r, x)
  BY DEF WritesOwn, FoundBy, Shown
<1>7. AsFound'
  BY <1>6, FoundStep
<1>8. Grown' /\ Stages'
  BY <1>1, <1>2 DEF Grown, Stages, StageOf
<1>9. PhotosGone' /\ PhotosLate'
  <2>1. PhotosGone'
    BY <1>1, <1>2 DEF PhotosGone
  <2>2. PhotosLate'
    BY <1>1, <1>2 DEF PhotosLate, Loading
  <2>3. QED
    BY <2>1, <2>2
<1>10. Accounted'
  BY AccountedStep
<1>11. D!RowsKeepFiles'
  BY <1>1 DEF D!RowsKeepFiles
<1>12. QED
  BY <1>3, <1>4, <1>5, <1>7, <1>8, <1>9, <1>10, <1>11 DEF FilesInv

(* An uploaded photo gets its row.                                            *)
LEMMA WriteProofFiles ==
  ASSUME FilesInv, NEW r \in Request, D!WriteProof(r)
  PROVE  FilesInv'
<1> USE DocumentFacts
<1>1. D!TypeOK /\ D!RowsKeepFiles
  BY DEF FilesInv
<1>2. /\ filing[r].step = "upload" /\ filing[r].files = {} /\ filing[r].op = "add"
      /\ UNCHANGED <<role, application, profile, lastFarm, verified, handover, stored, lastKey,
                     failures, overlap>>
      /\ proofs' = proofs \cup {filing[r].new["proof"]} /\ filing' = D!Done(r)
  BY DEF D!WriteProof, D!Loaded, D!bucket, D!farms
<1>3. /\ filing[r] \in Asked /\ ShapeOf(filing[r])
      /\ \A s \in D!Slot : filing[r].new[s] # D!None =>
           FreshAt(r, s) /\ filing[r].new[s] \in stored
  BY <1>2, LoadedFacts
<1>4. PICK x \in Asked : x = D!Idle
  OBVIOUS
<1>5. filing' = [filing EXCEPT ![r] = x]
  BY <1>2, <1>4 DEF D!Done
<1>6. /\ x.op = "none" /\ x.step = "idle" /\ x.files = {} /\ x.new = D!NoKeys
      /\ x.old = D!NoKeys
  BY <1>4 DEF D!Idle
<1>7. ShapeOf(x) /\ StageOf(x) /\ MineOf(x) \subseteq MineOf(filing[r]) /\ ~Loading(x)
  BY <1>4, <1>6 DEF ShapeOf, SentTo, MineOf, D!Entire, Loading, StageOf
<1>8. \A d \in Document : FoundBy(x, d)
  BY <1>6 DEF FoundBy
<1>9. D!Held(filing[r].new) = {"proof"}
  BY <1>2, <1>3 DEF ShapeOf, SentTo
<1>10. /\ filing[r].new["proof"] # D!None /\ FreshAt(r, "proof")
       /\ filing[r].new["proof"] \in stored
       /\ \A s \in D!Slot : filing[r].new[s] # D!None => s = "proof"
  BY <1>3, <1>9 DEF D!Held
<1>11. /\ proofs' \subseteq D!Key /\ proofs' \subseteq stored
       /\ \A q \in Request : filing[q].old["proof"] # filing[r].new["proof"]
  BY <1>1, <1>2, <1>10 DEF D!TypeOK, D!RowsKeepFiles, FreshAt
<1>12. ASSUME NEW k \in stored, Rowed(k) \/ Pending(filing[r], k)
       PROVE  Rowed(k)'
  <2>1. k # D!None
    BY <1>1 DEF D!TypeOK
  <2>2. QED
    BY <1>2, <1>10, <1>12, <2>1 DEF Rowed, Pending
<1>13. /\ \A s \in D!Slot :
            x.old[s] \in {D!None, filing[r].old[s]} /\ x.new[s] \in {D!None, filing[r].new[s]}
       /\ x.op \in {filing[r].op, "none"} /\ x.step # "clean"
       /\ proofs' \subseteq proofs \cup {filing[r].new["proof"]}
  BY <1>2, <1>6
<1>14. /\ \A q \in Request :
            proofs' \subseteq proofs \/ filing[q].old["proof"] # filing[r].new["proof"]
       /\ \A k \in stored :
            overlap = {} /\ (Rowed(k) \/ Pending(filing[r], k)) => Rowed(k)' \/ Pending(x, k)
  BY <1>11, <1>12
<1>15. QED
  BY <1>2, <1>5, <1>7, <1>8, <1>11, <1>13, <1>14, PhotoFiles

(* A photo loses its row, once.                                               *)
LEMMA DeleteProofFiles ==
  ASSUME FilesInv, NEW r \in Request, D!DeleteProof(r)
  PROVE  FilesInv'
<1> USE DocumentFacts
<1>1. /\ D!TypeOK /\ D!RowsKeepFiles
      /\ filing \in [Request -> Asked]
  BY DEF FilesInv, D!TypeOK, Asked
<1>2. /\ filing[r].step = "upload" /\ filing[r].files = {} /\ filing[r].op = "remove"
      /\ UNCHANGED <<role, application, profile, lastFarm, verified, handover, stored, lastKey,
                     failures, overlap>>
      /\ proofs' = proofs \ {filing[r].old["proof"]}
  BY DEF D!DeleteProof, D!Loaded, D!bucket, D!farms
<1>3. filing[r] \in Asked /\ ShapeOf(filing[r]) /\ StageOf(filing[r])
  BY <1>2, LoadedFacts
<1>4. \A s \in D!Slot : filing[r].new[s] = D!None
  BY <1>2, <1>3 DEF ShapeOf, SentTo, D!Held
<1>5. \A k \in D!Key : ~Pending(filing[r], k)
  BY <1>2, <1>4 DEF Pending
<1>6. CASE filing[r].old["proof"] \notin proofs
  <2>1. /\ filing' = D!Done(r) /\ UNCHANGED <<D!rows, D!bucket, overlap>>
        /\ failures' \in 0..MaxFaults /\ failures' = failures
    BY <1>1, <1>2, <1>6 DEF D!DeleteProof, D!rows, D!farms, D!bucket, D!TypeOK
  <2>2. QED
    BY <1>5, <2>1, DoneFiles
<1>7. CASE filing[r].old["proof"] \in proofs
  <2>1. PICK x \in Asked : x = [filing[r] EXCEPT !.step = "clean"]
    BY <1>3 DEF Asked
  <2>2. filing' = [filing EXCEPT ![r] = x]
    BY <1>1, <1>7, <2>1 DEF D!DeleteProof, D!To, Asked
  <2>3. /\ x.step = "clean" /\ x.op = filing[r].op /\ x.old = filing[r].old /\ x.files = {}
        /\ x.farm = filing[r].farm /\ x.new = filing[r].new
    BY <1>2, <1>3, <2>1 DEF Asked
  <2>4. ShapeOf(x) /\ StageOf(x) /\ ~Loading(x)
    BY <1>2, <1>3, <2>3 DEF ShapeOf, SentTo, StageOf, Loading
  <2>5. MineOf(x) \subseteq MineOf(filing[r])
    BY <1>2, <2>3 DEF MineOf
  <2>6. \A d \in Document : FoundBy(x, d)
    <3>1. \A d \in Document : x.old[d] = D!None
      BY <1>2, <1>3, <2>3 DEF ShapeOf, D!Held
    <3>2. QED
      BY <1>2, <2>3, <3>1 DEF FoundBy
  <2>7. ASSUME NEW k \in stored, Rowed(k) \/ Pending(filing[r], k)
        PROVE  Rowed(k)' \/ Pending(x, k)
    <3>1. k \in D!Key
      BY <1>1 DEF D!TypeOK
    <3>2. k = filing[r].old["proof"] => Pending(x, k)
      BY <2>3 DEF Pending
    <3>3. QED
      BY <1>2, <1>5, <2>7, <3>1, <3>2 DEF Rowed
  <2>8. /\ \A s \in D!Slot :
             x.old[s] \in {D!None, filing[r].old[s]} /\ x.new[s] \in {D!None, filing[r].new[s]}
        /\ x.op \in {filing[r].op, "none"} /\ x.old["proof"] \notin proofs'
        /\ proofs' \subseteq proofs /\ proofs' \subseteq D!Key /\ proofs' \subseteq stored
        /\ proofs' \subseteq proofs \cup {filing[r].new["proof"]}
    BY <1>1, <1>2, <2>3 DEF D!TypeOK, D!RowsKeepFiles
  <2>9. QED
    BY <1>2, <2>2, <2>4, <2>5, <2>6, <2>7, <2>8, PhotoFiles
<1>8. QED
  BY <1>6, <1>7

(* One file has gone up: its key is new to every row and request.             *)
LEMMA UploadFiles ==
  ASSUME FilesInv, NEW r \in Request, NEW s \in D!Slot, D!Upload(r, s)
  PROVE  FilesInv'
<1> USE DocumentFacts
<1>1. /\ D!TypeOK /\ Shapes /\ MineApart /\ OneSlot /\ Fresh /\ Grown /\ Stages /\ OneCreates
      /\ AsFound /\ PhotosGone /\ PhotosLate /\ Accounted /\ D!RowsKeepFiles
      /\ filing \in [Request -> Asked]
  BY DEF FilesInv, D!TypeOK, Asked
<1>2. /\ filing[r].step = "upload" /\ s \in filing[r].files
      /\ UNCHANGED <<role, application, profile, lastFarm, verified, handover, proofs, overlap>>
  BY DEF D!Upload, D!rows, D!farms
<1>3. filing[r] \in Asked /\ ShapeOf(filing[r]) /\ StageOf(filing[r])
  BY <1>1 DEF Shapes, Stages
<1>4. CASE /\ failures < MaxFaults /\ failures' = failures + 1
           /\ filing' = [filing EXCEPT ![r].step = "undo", ![r].files = {}]
           /\ UNCHANGED D!bucket
  <2>1. filing' = [filing EXCEPT ![r] = [filing[r] EXCEPT !.step = "undo", !.files = {}]]
    BY <1>1, <1>4
  <2>2. UNCHANGED <<D!rows, D!bucket, overlap>> /\ failures' \in 0..MaxFaults /\ failures' # 0
    BY <1>1, <1>2, <1>4 DEF D!rows, D!farms, D!TypeOK
  <2>3. filing[r].op \notin {"drop", "remove"}
    BY <1>2, <1>3 DEF ShapeOf, SentTo
  <2>4. QED
    BY <1>2, <2>1, <2>2, <2>3, UndoFiles
<1>5. CASE /\ lastKey < MaxKey /\ lastKey' = lastKey + 1 /\ stored' = stored \cup {lastKey + 1}
           /\ filing' = [filing EXCEPT ![r].files = @ \ {s}, ![r].new[s] = lastKey + 1]
           /\ UNCHANGED failures
  <2>1. PICK x \in Asked :
          x = [filing[r] EXCEPT !.files = @ \ {s}, !.new[s] = lastKey + 1]
    <3>1. lastKey + 1 \in D!Key
      BY <1>1, <1>5 DEF D!TypeOK, D!Key
    <3>2. QED
      BY <1>3, <3>1 DEF Asked, D!Keys
  <2>2. filing' = [filing EXCEPT ![r] = x]
    BY <1>1, <1>5, <2>1
  <2>3. /\ lastKey + 1 \in D!Key /\ lastKey + 1 # D!None /\ lastKey' \in 0..MaxKey
        /\ lastKey \in Nat
    BY <1>1, <1>5 DEF D!TypeOK, D!Key, D!None
  <2>4. /\ x.step = "upload" /\ x.op = filing[r].op /\ x.old = filing[r].old
        /\ x.files = filing[r].files \ {s} /\ x.farm = filing[r].farm
        /\ x.new = [filing[r].new EXCEPT ![s] = lastKey + 1]
        /\ \A t \in D!Slot : x.new[t] = IF t = s THEN lastKey + 1 ELSE filing[r].new[t]
    BY <1>2, <1>3, <2>1 DEF Asked, D!Keys
  <2>5. filing'[r] = x /\ \A q \in Request \ {r} : filing'[q] = filing[q]
    BY <1>1, <2>2
  <2>6. D!TypeOK'
    <3>1. filing' \in [Request -> Asked]
      BY <1>1, <2>2
    <3>2. stored' \subseteq D!Key /\ failures' \in 0..MaxFaults
      BY <1>1, <1>5, <2>3 DEF D!TypeOK
    <3>3. QED
      BY <1>1, <1>2, <2>3, <3>1, <3>2 DEF D!TypeOK, Asked
  <2>7. D!Held(x.new) = D!Held(filing[r].new) \cup {s}
    BY <2>3, <2>4 DEF D!Held
  <2>8. SentTo(x) = SentTo(filing[r]) /\ MineOf(x) = MineOf(filing[r])
    BY <1>2, <2>4, <2>7 DEF SentTo, MineOf
  <2>9. s \notin D!Held(filing[r].new) /\ filing[r].new[s] = D!None
    BY <1>2, <1>3 DEF ShapeOf, D!Held
  <2>10. ShapeOf(x)
    BY <1>2, <1>3, <2>4, <2>7, <2>8 DEF ShapeOf
  <2>11. Shapes' /\ MineApart' /\ OneCreates'
    BY <1>2, <2>2, <2>4, <2>8, <2>10, RequestsStep
  <2>12. \A t \in D!Slot : ~InSlot(t, lastKey + 1)
    BY <1>1, <2>3 DEF OneSlot
  <2>13. ASSUME NEW t \in D!Slot, NEW k \in D!Key, InSlot(t, k)'
         PROVE  InSlot(t, k) \/ (t = s /\ k = lastKey + 1)
    <3>1. CASE \E q \in Request : filing'[q].new[t] = k \/ filing'[q].old[t] = k
      <4>1. PICK q \in Request : filing'[q].new[t] = k \/ filing'[q].old[t] = k
        BY <3>1
      <4>2. CASE q = r
        <5>1. \/ filing[r].new[t] = k \/ filing[r].old[t] = k
              \/ t = s /\ k = lastKey + 1
          <6>1. x.new[t] = k \/ filing[r].old[t] = k
            BY <2>4, <2>5, <4>1, <4>2
          <6>2. x.new[t] = IF t = s THEN lastKey + 1 ELSE filing[r].new[t]
            BY <2>4
          <6>3. QED
            BY <6>1, <6>2
        <5>2. QED
          BY <5>1 DEF InSlot
      <4>3. CASE q # r
        BY <2>5, <4>1, <4>3 DEF InSlot
      <4>4. QED
        BY <4>2, <4>3
    <3>2. QED
      BY <1>2, <2>13, <3>1 DEF InSlot
  <2>14. OneSlot'
    <3>1. \A k \in D!Key : k \in Nat
      BY DEF D!Key
    <3>2. \A k \in stored : k \in Nat
      BY <1>1, <3>1 DEF D!TypeOK
    <3>3. \A k \in D!Key, t, u \in D!Slot : InSlot(t, k)' /\ InSlot(u, k)' => t = u
      BY <1>1, <2>12, <2>13 DEF OneSlot
    <3>4. \A k \in D!Key, t \in D!Slot : InSlot(t, k)' => k <= lastKey'
      BY <1>1, <1>5, <2>3, <2>13, <3>1 DEF OneSlot
    <3>5. \A k \in stored' : k <= lastKey'
      BY <1>1, <1>5, <2>3, <3>2 DEF OneSlot
    <3>6. QED
      BY <3>3, <3>4, <3>5 DEF OneSlot
  <2>15. Fresh'
    <3> SUFFICES ASSUME NEW q \in Request, NEW t \in D!Slot, Loading(filing'[q]),
                        filing'[q].new[t] # D!None
                 PROVE  FreshAt(q, t)'
      BY DEF Fresh
    <3>1. CASE q = r /\ t = s
      <4>1. filing'[q].new[t] = lastKey + 1
        BY <2>4, <2>5, <3>1
      <4>2. s \in Document => application.doc[s] # lastKey + 1 /\ profile.doc[s] # lastKey + 1
        BY <2>12 DEF InSlot
      <4>3. lastKey + 1 \notin proofs
        BY <2>12 DEF InSlot
      <4>4. \A p \in Request : filing[p].old[s] # lastKey + 1 /\ filing[p].new[s] # lastKey + 1
        BY <2>12 DEF InSlot
      <4>5. \A p \in Request : filing'[p].old[s] # lastKey + 1
                               /\ (p # q => filing'[p].new[s] # lastKey + 1)
        BY <2>4, <2>5, <3>1, <4>4
      <4>6. /\ s \in Document => application'.doc[s] # lastKey + 1 /\ profile'.doc[s] # lastKey + 1
            /\ lastKey + 1 \notin proofs' /\ lastKey + 1 \in stored'
        BY <1>2, <1>5, <4>2, <4>3
      <4>7. QED
        BY <3>1, <4>1, <4>5, <4>6 DEF FreshAt
    <3>2. CASE ~(q = r /\ t = s)
      <4>1. filing'[q].new[t] = filing[q].new[t] /\ filing'[q].step = filing[q].step
        BY <1>2, <2>4, <2>5, <3>2
      <4>2. FreshAt(q, t) /\ filing[q].new[t] # lastKey + 1
        <5>1. FreshAt(q, t)
          BY <1>1, <4>1 DEF Fresh, Loading
        <5>2. filing[q].new[t] # lastKey + 1
          BY <2>12 DEF InSlot
        <5>3. QED
          BY <5>1, <5>2
      <4>3. \A p \in Request : filing'[p].old[t] # filing[q].new[t]
                               /\ (p # q => filing'[p].new[t] # filing[q].new[t])
        <5> SUFFICES ASSUME NEW p \in Request
                     PROVE  filing'[p].old[t] # filing[q].new[t]
                            /\ (p # q => filing'[p].new[t] # filing[q].new[t])
          OBVIOUS
        <5>1. filing[p].old[t] # filing[q].new[t]
              /\ (p # q => filing[p].new[t] # filing[q].new[t])
          BY <4>2 DEF FreshAt
        <5>2. filing'[p].old[t] = filing[p].old[t]
              /\ filing'[p].new[t] \in {filing[p].new[t], lastKey + 1}
          BY <2>4, <2>5
        <5>3. QED
          BY <4>2, <5>1, <5>2
      <4>4. /\ t \in Document => application'.doc[t] # filing[q].new[t]
                                 /\ profile'.doc[t] # filing[q].new[t]
            /\ filing[q].new[t] \notin proofs'
            /\ filing[q].step = "upload" => filing[q].new[t] \in stored'
        BY <1>2, <1>5, <4>2 DEF FreshAt
      <4>5. QED
        BY <4>1, <4>3, <4>4 DEF FreshAt
    <3>3. QED
      BY <3>1, <3>2
  <2>16. Grown'
    BY <1>1, <1>2 DEF Grown
  <2>17. Stages'
    BY <1>1, <1>2, <2>4, <2>5 DEF Stages, StageOf
  <2>18. AsFound'
    <3>1. \A d \in Document \ overlap : FoundBy(filing[r], d)
      BY <1>1 DEF AsFound
    <3>2. \A d \in Document \ overlap : FoundBy(x, d)'
      BY <1>2, <2>4, <2>8, <3>1 DEF FoundBy
    <3>3. WritesOwn(r, x)
      BY <1>2, <3>2 DEF WritesOwn, Shown
    <3>4. QED
      BY <1>2, <2>2, <3>3, FoundStep
  <2>19. PhotosGone' /\ PhotosLate'
    BY <1>1, <1>2, <2>4, <2>5 DEF PhotosGone, PhotosLate
  <2>20. Accounted'
    <3> SUFFICES ASSUME failures' = 0, overlap' = {}, NEW k \in stored'
                 PROVE  Rowed(k)' \/ \E q \in Request : Pending(filing'[q], k)
      BY DEF Accounted, Pending, Loading
    <3>1. CASE k = lastKey + 1
      <4>1. Pending(x, k)
        BY <2>4, <3>1 DEF Pending, Loading
      <4>2. QED
        BY <2>5, <4>1
    <3>2. CASE k \in stored
      <4>1. k # D!None
        BY <1>1, <3>2 DEF D!TypeOK
      <4>2. Pending(filing[r], k) => Pending(x, k)
        BY <1>2, <2>4, <2>9, <4>1 DEF Pending, Loading
      <4>3. Rowed(k) \/ \E q \in Request : Pending(filing[q], k)
        BY <1>1, <1>2, <1>5, <3>2 DEF Accounted
      <4>4. Rowed(k) => Rowed(k)'
        BY <1>2 DEF Rowed
      <4>5. QED
        BY <2>5, <4>2, <4>3, <4>4
    <3>3. QED
      BY <1>5, <3>1, <3>2
  <2>21. D!RowsKeepFiles'
    BY <1>1, <1>2, <1>5 DEF D!RowsKeepFiles
  <2>22. QED
    BY <2>6, <2>11, <2>14, <2>15, <2>16, <2>17, <2>18, <2>19, <2>20, <2>21 DEF FilesInv
<1>6. QED
  BY <1>4, <1>5 DEF D!Upload, D!Fault, D!CanFail

(* What is deleted has no row: it was replaced, or never got one.             *)
LEMMA CleanFiles ==
  ASSUME FilesInv, NEW r \in Request, D!Clean(r)
  PROVE  FilesInv'
<1> USE DocumentFacts
<1>1. /\ D!TypeOK /\ Shapes /\ MineApart /\ OneSlot /\ Fresh /\ Grown /\ Stages /\ OneCreates
      /\ AsFound /\ PhotosGone /\ PhotosLate /\ Accounted /\ D!RowsKeepFiles
      /\ filing \in [Request -> Asked]
  BY DEF FilesInv, D!TypeOK, Asked
<1>2. /\ filing[r].step \in {"clean", "undo"}
      /\ UNCHANGED <<role, application, profile, lastFarm, verified, handover, proofs, lastKey,
                     overlap>>
      /\ \/ stored' = stored \ D!Drops(r) /\ failures' = failures
         \/ stored' = stored /\ failures < MaxFaults /\ failures' = failures + 1
  BY DEF D!Clean, D!rows, D!farms, D!Fault, D!CanFail
<1>3. /\ filing[r] \in Asked /\ ShapeOf(filing[r]) /\ StageOf(filing[r])
      /\ filing[r].files = {}
  BY <1>1, <1>2 DEF Shapes, Stages, ShapeOf
<1>4. /\ failures' \in 0..MaxFaults /\ stored' \subseteq stored
      /\ failures' = 0 => failures = 0 /\ stored' = stored \ D!Drops(r)
      /\ \A k \in stored : k \notin D!Drops(r) => k \in stored'
  BY <1>1, <1>2 DEF D!TypeOK
<1>5. PICK x \in Asked :
        /\ filing' = [filing EXCEPT ![r] = x]
        /\ \/ x = D!Idle
           \/ /\ filing[r].step = "clean" /\ filing[r].op = "complete"
              /\ x = [filing[r] EXCEPT !.step = "claim"]
  <2>1. CASE filing[r].step = "clean" /\ filing[r].op = "complete"
    <3>1. PICK x \in Asked : x = [filing[r] EXCEPT !.step = "claim"]
      BY <1>3 DEF Asked
    <3>2. filing' = [filing EXCEPT ![r] = x]
      BY <1>1, <2>1, <3>1 DEF D!Clean, D!To, Asked
    <3>3. QED
      BY <2>1, <3>1, <3>2
  <2>2. CASE ~(filing[r].step = "clean" /\ filing[r].op = "complete")
    <3>1. filing' = [filing EXCEPT ![r] = D!Idle]
      BY <2>2 DEF D!Clean, D!Done
    <3>2. QED
      BY <3>1
  <2>3. QED
    BY <2>1, <2>2
<1>6. \/ /\ x.op = "none" /\ x.step = "idle" /\ x.new = D!NoKeys /\ x.old = D!NoKeys
         /\ x.files = {} /\ x = D!Idle
      \/ /\ filing[r].step = "clean" /\ filing[r].op = "complete" /\ x.op = "complete"
         /\ x.step = "claim" /\ x.files = {} /\ x.new = filing[r].new /\ x.old = filing[r].old
  BY <1>3, <1>5 DEF Asked, D!Idle
<1>7. ShapeOf(x) /\ StageOf(x) /\ ~Loading(x)
  BY <1>3, <1>6 DEF ShapeOf, SentTo, StageOf, Loading
<1>8. MineOf(x) \subseteq MineOf(filing[r])
  BY <1>6 DEF MineOf, D!Entire
<1>9. filing'[r] = x /\ \A q \in Request \ {r} : filing'[q] = filing[q]
  BY <1>1, <1>5
<1>10. D!TypeOK'
  BY <1>1, <1>2, <1>4, <1>5 DEF D!TypeOK, Asked
<1>11. Shapes' /\ MineApart' /\ OneCreates'
  BY <1>2, <1>5, <1>6, <1>7, <1>8, RequestsStep
<1>12. \A k \in D!Drops(r) :
         \E t \in D!Slot :
           /\ k # D!None
           /\ \/ filing[r].step = "undo" /\ k = filing[r].new[t]
              \/ filing[r].step = "clean" /\ k = filing[r].old[t]
  BY <1>2 DEF D!Drops, D!NamedBy
<1>13. ASSUME NEW k \in stored, k \in D!Drops(r)
       PROVE  /\ k \notin proofs
              /\ \A d \in Document \ overlap : Shown(d) # k
              /\ \A q \in Request \ {r}, s \in D!Slot :
                   Loading(filing[q]) /\ filing[q].new[s] # D!None => filing[q].new[s] # k
  <2>1. PICK t \in D!Slot :
          /\ k # D!None
          /\ \/ filing[r].step = "undo" /\ k = filing[r].new[t]
             \/ filing[r].step = "clean" /\ k = filing[r].old[t]
    BY <1>12, <1>13
  <2>2. k \in D!Key
    BY <1>1 DEF D!TypeOK
  <2>3. InSlot(t, k)
    BY <2>1 DEF InSlot
  <2>4. \A s \in D!Slot : InSlot(s, k) => s = t
    BY <1>1, <2>2, <2>3 DEF OneSlot
  <2>5. filing[r].step = "undo" => FreshAt(r, t)
    BY <1>1, <2>1 DEF Fresh, Loading
  <2>6. k \notin proofs
    <3>1. CASE filing[r].step = "undo"
      BY <2>1, <2>5, <3>1 DEF FreshAt
    <3>2. CASE filing[r].step = "clean"
      <4>1. k \in proofs => t = "proof"
        BY <2>4 DEF InSlot
      <4>2. QED
        BY <1>1, <2>1, <3>2, <4>1 DEF PhotosGone
    <3>3. QED
      BY <1>2, <3>1, <3>2
  <2>7. ASSUME NEW d \in Document \ overlap, Shown(d) = k
        PROVE  FALSE
    <3>1. application.doc[d] = k \/ profile.doc[d] = k
      BY <2>7 DEF Shown
    <3>2. d = t
      BY <2>4, <3>1 DEF InSlot
    <3>3. CASE filing[r].step = "undo"
      BY <2>1, <2>5, <3>1, <3>2, <3>3 DEF FreshAt
    <3>4. CASE filing[r].step = "clean"
      BY <1>1, <2>1, <2>7, <3>2, <3>4 DEF AsFound, FoundBy
    <3>5. QED
      BY <1>2, <3>3, <3>4
  <2>8. ASSUME NEW q \in Request \ {r}, NEW s \in D!Slot, Loading(filing[q]),
               filing[q].new[s] = k
        PROVE  FALSE
    <3>1. s = t
      BY <2>4, <2>8 DEF InSlot
    <3>2. FreshAt(q, s)
      BY <1>1, <2>1, <2>8 DEF Fresh
    <3>3. QED
      BY <2>1, <2>8, <3>1, <3>2 DEF FreshAt
  <2>9. QED
    BY <2>6, <2>7, <2>8
<1>14. OneSlot' /\ Fresh'
  <2>1. \A q \in Request \ {r}, s \in D!Slot :
          filing[q].step = "upload" /\ filing[q].new[s] # D!None /\ filing[q].new[s] \in stored =>
            filing[q].new[s] \in stored'
    BY <1>4, <1>13 DEF Loading
  <2>2. \A d \in Document :
          /\ application'.doc[d] \in {D!None, application.doc[d], filing[r].new[d]}
          /\ profile'.doc[d] \in {D!None, profile.doc[d], filing[r].new[d]}
    BY <1>2
  <2>3. \A s \in D!Slot :
          /\ x.old[s] \in {D!None, filing[r].old[s]}
          /\ \/ x.new[s] \in {D!None, filing[r].new[s]}
             \/ s \in Document /\ x.new[s] = application.doc[s]
    BY <1>6
  <2>4. proofs' \subseteq proofs \cup {filing[r].new["proof"]}
    BY <1>2
  <2>5. QED
    BY <1>2, <1>4, <1>5, <1>7, <2>1, <2>2, <2>3, <2>4, SlotsStep
<1>15. Grown' /\ Stages'
  BY <1>1, <1>2, <1>7, <1>9 DEF Grown, Stages, StageOf
<1>16. AsFound'
  <2>1. \A d \in Document \ overlap : FoundBy(filing[r], d)
    BY <1>1 DEF AsFound
  <2>2. \A d \in Document \ overlap : FoundBy(x, d)'
    BY <1>2, <1>6, <1>8, <2>1 DEF FoundBy
  <2>3. WritesOwn(r, x)
    BY <1>2, <2>2 DEF WritesOwn, Shown
  <2>4. QED
    BY <1>2, <1>5, <2>3, FoundStep
<1>17. PhotosGone' /\ PhotosLate'
  BY <1>1, <1>2, <1>6, <1>9 DEF PhotosGone, PhotosLate
<1>18. Accounted'
  <2>1. ASSUME NEW k \in stored', failures' = 0, Rowed(k) \/ Pending(filing[r], k)
        PROVE  Rowed(k)'
    <3>1. k # D!None /\ k \notin D!Drops(r)
      BY <1>1, <1>4, <2>1 DEF D!TypeOK
    <3>2. ~Pending(filing[r], k)
      BY <1>2, <3>1 DEF Pending, Loading, D!Drops, D!NamedBy
    <3>3. QED
      BY <1>2, <2>1, <3>2 DEF Rowed
  <2>2. QED
    BY <1>2, <1>4, <1>5, <2>1, AccountedStep
<1>19. D!RowsKeepFiles'
  BY <1>1, <1>2, <1>4, <1>13 DEF D!RowsKeepFiles, Shown
<1>20. QED
  BY <1>10, <1>11, <1>14, <1>15, <1>16, <1>17, <1>18, <1>19 DEF FilesInv

(* A round verifies the farm, or the goods are handed over.                   *)
LEMMA AroundFiles ==
  ASSUME FilesInv, D!Verify \/ D!HandOver
  PROVE  FilesInv'
<1> USE DocumentFacts
<1>1. /\ D!TypeOK /\ Shapes /\ MineApart /\ OneSlot /\ Fresh /\ Grown /\ Stages /\ OneCreates
      /\ AsFound /\ PhotosGone /\ PhotosLate /\ Accounted /\ D!RowsKeepFiles
      /\ filing \in [Request -> Asked]
  BY DEF FilesInv, D!TypeOK, Asked
<1>2. /\ UNCHANGED <<role, application, profile, lastFarm, proofs, stored, lastKey, filing,
                     failures>>
      /\ verified' \in BOOLEAN /\ handover' \in D!HandoverStatus
      /\ overlap' \in {overlap, overlap \cup {"proof"}}
      /\ \/ handover' = handover
         \/ (\E r \in Request : "proof" \in D!Handles(r)) => "proof" \in overlap'
  BY <1>1 DEF D!Verify, D!HandOver, D!farms, D!bucket, D!TypeOK, D!HandoverStatus
<1>3. overlap \subseteq overlap' /\ overlap' \subseteq D!Slot
  BY <1>1, <1>2 DEF D!TypeOK
<1>4. D!TypeOK'
  BY <1>1, <1>2, <1>3 DEF D!TypeOK
<1>5. Shapes' /\ OneSlot' /\ Fresh' /\ Grown' /\ Stages' /\ OneCreates' /\ PhotosGone'
  <2>1. Shapes' /\ Grown' /\ Stages' /\ OneCreates' /\ PhotosGone'
    BY <1>1, <1>2 DEF Shapes, Grown, Stages, StageOf, OneCreates, PhotosGone
  <2>2. OneSlot'
    <3>1. \A s, k : InSlot(s, k)' <=> InSlot(s, k)
      BY <1>2 DEF InSlot
    <3>2. stored' = stored /\ lastKey' = lastKey
      BY <1>2
    <3>3. QED
      BY <1>1, <3>1, <3>2 DEF OneSlot
  <2>3. Fresh'
    BY <1>1, <1>2 DEF Fresh, FreshAt
  <2>4. QED
    BY <2>1, <2>2, <2>3
<1>6. MineApart'
  <2> SUFFICES ASSUME NEW p \in Request, NEW q \in Request, p # q
               PROVE  MineOf(filing[p]) \cap MineOf(filing[q]) \subseteq overlap'
    BY <1>2 DEF MineApart, MineOf
  <2>1. MineOf(filing[p]) \cap MineOf(filing[q]) \subseteq overlap
    BY <1>1 DEF MineApart
  <2>2. QED
    BY <1>3, <2>1
<1>7. AsFound'
  <2>1. \A r \in Request, d \in Document : FoundBy(filing[r], d) => FoundBy(filing[r], d)'
    BY <1>2 DEF FoundBy, Shown
  <2>2. QED
    BY <1>1, <1>2, <1>3, <2>1 DEF AsFound
<1>8. PhotosLate'
  <2>1. CASE handover' = handover
    BY <1>1, <1>2, <1>3, <2>1 DEF PhotosLate
  <2>2. CASE (\E r \in Request : "proof" \in D!Handles(r)) => "proof" \in overlap'
    <3> SUFFICES ASSUME NEW r \in Request, filing[r].op \in {"add", "remove"},
                        filing[r].step = "upload"
                 PROVE  "proof" \in D!Handles(r)
      BY <1>2, <2>2 DEF PhotosLate
    <3>1. ShapeOf(filing[r])
      BY <1>1 DEF Shapes
    <3>2. QED
      BY <3>1 DEF ShapeOf, SentTo, D!Handles
  <2>3. QED
    BY <1>2, <2>1, <2>2
<1>9. Accounted'
  <2>1. \A k : Rowed(k)' <=> Rowed(k)
    BY <1>2 DEF Rowed
  <2>2. overlap' = {} => overlap = {}
    BY <1>3
  <2>3. \A r \in Request, k \in stored : Pending(filing'[r], k) <=> Pending(filing[r], k)
    BY <1>2
  <2>4. QED
    BY <1>1, <1>2, <2>1, <2>2, <2>3 DEF Accounted
<1>10. D!RowsKeepFiles'
  BY <1>1, <1>2, <1>3 DEF D!RowsKeepFiles
<1>11. QED
  BY <1>4, <1>5, <1>6, <1>7, <1>8, <1>9, <1>10 DEF FilesInv

(* A failed write.                                                            *)
LEMMA WriteFailsFiles ==
  ASSUME FilesInv, NEW r \in Request, D!WriteFails(r)
  PROVE  FilesInv'
<1>1. /\ D!TypeOK /\ filing[r] \in Asked /\ filing \in [Request -> Asked]
  BY DEF FilesInv, D!TypeOK, Asked
<1>2. /\ filing[r].step = "upload" /\ filing[r].files = {}
      /\ UNCHANGED <<D!rows, D!bucket, overlap>>
      /\ failures' \in 0..MaxFaults /\ failures' # 0
  BY <1>1, DocumentFacts DEF D!WriteFails, D!Fault, D!CanFail, D!TypeOK
<1>3. CASE filing[r].op \in {"remove", "drop"}
  BY <1>2, <1>3, DoneFiles DEF D!WriteFails
<1>4. CASE filing[r].op \notin {"remove", "drop"}
  <2>1. filing' = [filing EXCEPT ![r] = [filing[r] EXCEPT !.step = "undo", !.files = {}]]
    BY <1>1, <1>2, <1>4, ToUndo DEF D!WriteFails
  <2>2. QED
    BY <1>2, <1>4, <2>1, UndoFiles
<1>5. QED
  BY <1>3, <1>4

(* The process dies under a request.                                          *)
LEMMA CrashFiles ==
  ASSUME FilesInv, NEW r \in Request, D!Crash(r)
  PROVE  FilesInv'
<1>1. D!TypeOK
  BY DEF FilesInv
<1>2. /\ UNCHANGED <<D!rows, D!bucket, overlap>> /\ filing' = D!Done(r)
      /\ failures' \in 0..MaxFaults /\ failures' # 0
  BY <1>1, DocumentFacts DEF D!Crash, D!Fault, D!CanFail, D!TypeOK
<1>3. QED
  BY <1>2, DoneFiles

(* Nothing is uploaded at first.                                              *)
LEMMA FilesInit == D!Init => FilesInv
<1> SUFFICES ASSUME D!Init
             PROVE  FilesInv
  OBVIOUS
<1> USE DocumentFacts
<1>1. /\ role \in D!Role /\ application.status \in {"DRAFT", "NONE"}
      /\ application = [status |-> application.status, doc |-> D!NoDocuments]
      /\ profile = [exists |-> FALSE, farm |-> D!None, doc |-> D!NoDocuments] /\ lastFarm = 0
      /\ verified = FALSE /\ handover = "PENDING" /\ proofs = {} /\ stored = {} /\ lastKey = 0
      /\ filing = [r \in Request |-> D!Idle] /\ failures = 0 /\ overlap = {}
  BY DEF D!Init
<1>2. \A r \in Request :
        /\ filing[r] = D!Idle /\ filing[r].op = "none" /\ filing[r].step = "idle"
        /\ filing[r].files = {} /\ filing[r].new = D!NoKeys /\ filing[r].old = D!NoKeys
  BY <1>1 DEF D!Idle
<1>3. D!TypeOK
  <2>1. 0 \in 0..MaxFarm /\ 0 \in 0..MaxKey /\ 0 \in 0..MaxFaults /\ D!None = 0
    BY DEF D!None
  <2>2. application \in D!Application /\ profile \in D!Farmer
    BY <1>1, <2>1 DEF D!Application, D!ApplicationStatus, D!Farmer
  <2>3. filing \in [Request -> Asked]
    BY <1>1
  <2>4. QED
    BY <1>1, <2>1, <2>2, <2>3 DEF D!TypeOK, Asked, D!HandoverStatus
<1>4. \A r \in Request : SentTo(filing[r]) = {} /\ MineOf(filing[r]) = {}
  BY <1>2 DEF SentTo, MineOf, D!Entire
<1>5. Shapes /\ MineApart /\ OneCreates
  BY <1>2, <1>4 DEF Shapes, ShapeOf, MineApart, OneCreates
<1>6. application.doc = D!NoDocuments /\ profile.doc = D!NoDocuments
  BY <1>1
<1>7. \A s \in D!Slot, k \in D!Key : ~InSlot(s, k)
  BY <1>1, <1>2, <1>6 DEF InSlot
<1>8. OneSlot /\ Fresh
  BY <1>1, <1>2, <1>7 DEF OneSlot, Fresh, Loading
<1>9. Grown /\ Stages
  BY <1>1, <1>2, <1>6 DEF Grown, Stages, StageOf, Papers
<1>10. AsFound /\ PhotosGone /\ PhotosLate /\ Accounted
  BY <1>1, <1>2 DEF AsFound, FoundBy, PhotosGone, PhotosLate, Accounted
<1>11. D!RowsKeepFiles
  BY <1>1, <1>6 DEF D!RowsKeepFiles
<1>12. QED
  BY <1>3, <1>5, <1>8, <1>9, <1>10, <1>11 DEF FilesInv

(* Every step keeps the invariant.                                            *)
LEMMA FilesNext == FilesInv /\ [D!Next]_(D!vars) => FilesInv'
<1> SUFFICES ASSUME FilesInv, [D!Next]_(D!vars)
             PROVE  FilesInv'
  OBVIOUS
<1>1. CASE D!Verify \/ D!HandOver
  BY <1>1, AroundFiles
<1>2. ASSUME NEW r \in Request,
             \/ \E op \in {"save", "complete"}, files \in SUBSET Document : D!Save(r, op, files)
             \/ D!Register(r) \/ D!RemoveFarm(r) \/ D!UploadIdDocument(r)
             \/ \E files \in SUBSET Document : D!CreateFarm(r, files) \/ D!Replace(r, files)
             \/ D!AddProof(r) \/ \E k \in D!Key : D!RemoveProof(r, k)
      PROVE  FilesInv'
  BY <1>2, FilesBegin
<1>3. ASSUME NEW r \in Request, NEW s \in D!Slot, D!Upload(r, s)
      PROVE  FilesInv'
  BY <1>3, UploadFiles
<1>4. ASSUME NEW r \in Request,
             \/ D!WriteApplication(r) \/ D!WriteRegistered(r) \/ D!WriteFarm(r)
             \/ D!WriteProfile(r) \/ D!DeleteFarm(r)
      PROVE  FilesInv'
  BY <1>4, WriteApplicationFiles, WriteRegisteredFiles, WriteFarmFiles, WriteProfileFiles,
     DeleteFarmFiles
<1>5. ASSUME NEW r \in Request,
             \/ D!WriteProof(r) \/ D!DeleteProof(r) \/ D!WriteFails(r) \/ D!Clean(r)
             \/ D!Claim(r) \/ D!Crash(r)
      PROVE  FilesInv'
  BY <1>5, WriteProofFiles, DeleteProofFiles, WriteFailsFiles, CleanFiles, ClaimFiles, CrashFiles
<1>6. CASE UNCHANGED D!vars
  <2>1. /\ UNCHANGED <<role, application, profile, lastFarm, verified, handover, proofs, stored,
                       lastKey, filing, failures, overlap>>
    BY <1>6 DEF D!vars
  <2>2. QED
    BY <2>1 DEF FilesInv, D!TypeOK, Shapes, MineApart, OneSlot, InSlot, Fresh, FreshAt, Grown, Stages,
       StageOf, OneCreates, AsFound, FoundBy, Shown, PhotosGone, PhotosLate, Accounted, Rowed,
       D!RowsKeepFiles
<1>7. QED
  BY <1>1, <1>2, <1>3, <1>4, <1>5, <1>6 DEF D!Next

(* Rows and objects match while the invariant holds.                          *)
LEMMA FilesImplyMatch == FilesInv => D!FilesMatchRows
<1> SUFFICES ASSUME FilesInv
             PROVE  D!FilesMatchRows
  OBVIOUS
<1>1. D!RowsKeepFiles /\ Accounted
  BY DEF FilesInv
<1>2. D!NothingUnreferenced
  <2> SUFFICES ASSUME \A r \in Request : filing[r] = D!Idle, failures = 0, overlap = {},
                      NEW k \in stored
               PROVE  Rowed(k)
    BY DEF D!NothingUnreferenced, Rowed
  <2>1. \A r \in Request : ~Pending(filing[r], k)
    BY DEF Pending, Loading, D!Idle
  <2>2. QED
    BY <1>1, <2>1 DEF Accounted
<1>3. QED
  BY <1>1, <1>2 DEF D!FilesMatchRows

(* What writes rows: the rest leaves them alone.                              *)
WritesDocuments(r) ==
  \/ D!WriteApplication(r) \/ D!WriteRegistered(r) \/ D!WriteFarm(r) \/ D!WriteProfile(r)
  \/ D!DeleteFarm(r) \/ D!Claim(r)
RowsKept == UNCHANGED <<application, profile, proofs>>

LEMMA RowsWritten ==
  ASSUME D!Next
  PROVE  \/ RowsKept
         \/ proofs' = proofs /\ \E r \in Request : WritesDocuments(r)
         \/ /\ UNCHANGED <<application, profile>>
            /\ \E r \in Request : D!WriteProof(r) \/ D!DeleteProof(r)
<1> USE DEF RowsKept
<1>1. D!Verify \/ D!HandOver => RowsKept
  BY DEF D!Verify, D!HandOver, D!farms, D!bucket
<1>2. ASSUME NEW r, NEW op, NEW files, NEW old, D!Begin(r, op, files, old)
      PROVE  RowsKept
  BY <1>2 DEF D!Begin, D!rows, D!farms
<1>3. ASSUME NEW r \in Request,
             \/ \E op \in {"save", "complete"}, files \in SUBSET Document : D!Save(r, op, files)
             \/ D!Register(r) \/ D!RemoveFarm(r) \/ D!UploadIdDocument(r)
             \/ \E files \in SUBSET Document : D!CreateFarm(r, files) \/ D!Replace(r, files)
             \/ D!AddProof(r) \/ \E k \in D!Key : D!RemoveProof(r, k)
      PROVE  RowsKept
  <2> HIDE DEF RowsKept
  <2>1. ASSUME NEW op, NEW files, D!Save(r, op, files) PROVE RowsKept
    BY <1>2, <2>1 DEF D!Save
  <2>2. ASSUME NEW files, D!CreateFarm(r, files) \/ D!Replace(r, files) PROVE RowsKept
    BY <1>2, <2>2 DEF D!CreateFarm, D!Replace
  <2>3. D!Register(r) \/ D!RemoveFarm(r) \/ D!UploadIdDocument(r) => RowsKept
    BY <1>2 DEF D!Register, D!RemoveFarm, D!UploadIdDocument
  <2>4. D!AddProof(r) \/ (\E k \in D!Key : D!RemoveProof(r, k)) => RowsKept
    BY <1>2 DEF D!AddProof, D!RemoveProof
  <2>5. QED
    BY <1>3, <2>1, <2>2, <2>3, <2>4
<1>4. ASSUME NEW r \in Request, NEW s \in D!Slot, D!Upload(r, s)
      PROVE  RowsKept
  BY <1>4 DEF D!Upload, D!rows, D!farms
<1>5. ASSUME NEW r \in Request, D!WriteFails(r) \/ D!Clean(r) \/ D!Crash(r)
      PROVE  RowsKept
  BY <1>5 DEF D!WriteFails, D!Clean, D!Crash, D!rows, D!farms
<1>6. ASSUME NEW r \in Request, WritesDocuments(r)
      PROVE  proofs' = proofs
  <2>1. D!WriteApplication(r) \/ D!WriteRegistered(r) \/ D!WriteFarm(r) => proofs' = proofs
    BY DEF D!WriteApplication, D!WriteRegistered, D!WriteFarm
  <2>2. D!WriteProfile(r) \/ D!DeleteFarm(r) => proofs' = proofs
    BY DEF D!WriteProfile, D!DeleteFarm
  <2>3. D!Claim(r) => proofs' = proofs
    BY DEF D!Claim
  <2>4. QED
    BY <1>6, <2>1, <2>2, <2>3 DEF WritesDocuments
<1>7. ASSUME NEW r \in Request, D!WriteProof(r) \/ D!DeleteProof(r)
      PROVE  UNCHANGED <<application, profile>>
  BY <1>7 DEF D!WriteProof, D!DeleteProof, D!farms
<1> HIDE DEF RowsKept
<1>8. QED
  BY <1>1, <1>3, <1>4, <1>5, <1>6, <1>7 DEF D!Next, WritesDocuments

(* Only a request that began before the hand-over touches the photos after.   *)
LEMMA ProofsStep ==
  FilesInv /\ [D!Next]_(D!vars) =>
    [handover = "HANDED_OVER" /\ proofs' # proofs => "proof" \in overlap]_(D!vars)
<1> SUFFICES ASSUME FilesInv, [D!Next]_(D!vars), handover = "HANDED_OVER", proofs' # proofs
             PROVE  "proof" \in overlap
  OBVIOUS
<1>1. PICK r \in Request : D!WriteProof(r) \/ D!DeleteProof(r)
  BY RowsWritten DEF RowsKept, D!vars
<1>2. filing[r].op \in {"add", "remove"} /\ filing[r].step = "upload"
  BY <1>1 DEF D!WriteProof, D!DeleteProof, D!Loaded
<1>3. QED
  BY <1>2 DEF FilesInv, PhotosLate

(* Only two requests at once lose a saved document.                           *)
LEMMA SavedStep ==
  FilesInv /\ [D!Next]_(D!vars) =>
    [\A d \in Document :
       /\ application.status = "COMPLETED" /\ application'.doc[d] # application.doc[d] =>
            d \in overlap
       /\ profile'.exists /\ ~profile.exists /\ d \in D!Required
            /\ profile'.doc[d] # application.doc[d] => d \in overlap]_(D!vars)
<1> SUFFICES ASSUME FilesInv, D!Next, NEW d \in Document, d \notin overlap
             PROVE  /\ application.status = "COMPLETED" => application'.doc[d] = application.doc[d]
                    /\ profile'.exists /\ ~profile.exists /\ d \in D!Required =>
                         profile'.doc[d] = application.doc[d]
  OBVIOUS
<1> USE DocumentFacts
<1>1. /\ D!TypeOK /\ Shapes /\ Grown /\ Stages /\ AsFound /\ filing \in [Request -> Asked]
  BY DEF FilesInv, D!TypeOK, Asked
<1>2. application.doc \in [Document -> D!Key \cup {D!None}]
      /\ profile.doc \in [Document -> D!Key \cup {D!None}]
  BY <1>1 DEF D!TypeOK, D!Application, D!Farmer
<1>3. ASSUME NEW r \in Request, D!WriteApplication(r), application.status = "COMPLETED"
      PROVE  application'.doc[d] = application.doc[d]
  <2>1. filing[r].step = "upload" /\ filing[r].files = {} /\ filing[r].op \in {"save", "complete"}
        /\ application' = [application EXCEPT !.doc = D!With(application.doc, filing[r].new)]
    BY <1>3 DEF D!WriteApplication, D!Loaded
  <2>2. filing[r].new[d] = D!None
    BY <1>3, <2>1, LoadedFacts DEF FoundBy
  <2>3. filing[r].new \in D!Keys
    BY <1>1 DEF Asked
  <2>4. application'.doc = D!With(application.doc, filing[r].new)
    BY <1>1, <2>1 DEF D!TypeOK, D!Application
  <2>5. QED
    BY <1>2, <2>2, <2>3, <2>4, WithValue
<1>4. ASSUME NEW r \in Request, D!WriteRegistered(r), profile'.exists, ~profile.exists
      PROVE  profile'.doc[d] = application.doc[d]
  <2>1. /\ filing[r].step = "upload" /\ filing[r].files = {} /\ filing[r].op = "register"
        /\ \/ profile' = [exists |-> TRUE, farm |-> lastFarm + 1,
                          doc |-> D!With(profile.doc, filing[r].new)]
           \/ profile' = profile
    BY <1>4 DEF D!WriteRegistered, D!Loaded, D!InsertFarm, D!farms
  <2>2. profile'.doc = D!With(profile.doc, filing[r].new)
    BY <1>4, <2>1
  <2>3. filing[r].new \in D!Keys /\ filing[r].new[d] = D!None
    BY <1>1, <2>1 DEF Asked, Shapes, ShapeOf, SentTo, D!Held
  <2>4. profile.doc[d] = D!None /\ application.doc[d] = D!None
    BY <1>1, <1>4, <2>1 DEF Grown, Stages, StageOf
  <2>5. QED
    BY <1>2, <2>2, <2>3, <2>4, WithValue
<1>5. ASSUME NEW r \in Request, D!Claim(r), profile'.exists, ~profile.exists, d \in D!Required
      PROVE  profile'.doc[d] = application.doc[d]
  <2>1. filing[r].step = "claim" /\ filing[r].op = "complete" /\ filing[r].new \in D!Keys
    BY <1>1, <1>5 DEF D!Claim, Shapes, ShapeOf, Asked
  <2>2. filing[r].new[d] = application.doc[d]
    BY <1>1, <2>1 DEF AsFound, FoundBy
  <2>3. CASE D!CreateFarmer(r)
    <3>1. filing[r].new[d] # D!None
      BY <1>5, <2>3 DEF D!CreateFarmer, D!Claimed
    <3>2. profile'.doc = D!With(profile.doc, filing[r].new)
      BY <2>3 DEF D!CreateFarmer, D!InsertFarm
    <3>3. QED
      BY <1>2, <2>1, <2>2, <3>1, <3>2, WithValue
  <2>4. CASE D!CreateAgent(r)
    <3>1. profile' = [profile EXCEPT !.exists = TRUE, !.doc["id"] = filing[r].new["id"]]
      BY <2>4 DEF D!CreateAgent
    <3>2. d = "id"
      BY <1>5, <2>4 DEF D!CreateAgent, D!Required
    <3>3. profile \in D!Farmer
      BY <1>1 DEF D!TypeOK
    <3>4. profile'.doc["id"] = filing[r].new["id"]
      BY <3>1, <3>3 DEF D!Farmer
    <3>5. QED
      BY <2>2, <3>2, <3>4
  <2>5. CASE D!Refused(r)
    BY <1>5, <2>5 DEF D!Refused, D!farms
  <2>6. QED
    BY <1>5, <2>3, <2>4, <2>5 DEF D!Claim
<1>6. ASSUME NEW r \in Request, D!WriteFarm(r) \/ D!WriteProfile(r) \/ D!DeleteFarm(r)
      PROVE  profile.exists /\ application' = application
  <2>1. filing[r].op \in {"create", "identity", "replace", "drop"}
    BY <1>6 DEF D!WriteFarm, D!WriteProfile, D!DeleteFarm, D!Loaded
  <2>2. QED
    BY <1>1, <1>6, <2>1 DEF Stages, StageOf, D!WriteFarm, D!WriteProfile, D!DeleteFarm
<1>7. ASSUME NEW r \in Request, D!WriteRegistered(r)
      PROVE  application' = application
  BY <1>7 DEF D!WriteRegistered
<1>8. ASSUME NEW r \in Request, D!WriteApplication(r)
      PROVE  profile' = profile
  BY <1>8 DEF D!WriteApplication, D!farms
<1>9. ASSUME NEW r \in Request, D!Claim(r), application.status = "COMPLETED"
      PROVE  application'.doc = application.doc
  BY <1>9 DEF D!Claim, D!CreateFarmer, D!CreateAgent, D!Claimed, D!Refused
<1>10. \/ application' = application /\ profile' = profile
       \/ \E r \in Request :
            \/ D!WriteApplication(r) \/ D!WriteRegistered(r) \/ D!WriteFarm(r)
            \/ D!WriteProfile(r) \/ D!DeleteFarm(r) \/ D!Claim(r)
  BY RowsWritten DEF RowsKept, WritesDocuments
<1>11. QED
  BY <1>3, <1>4, <1>5, <1>6, <1>7, <1>8, <1>9, <1>10

(* The invariant of the documents, the photos and the requests under way.    *)
THEOREM FilesInvariance == D!Spec => []FilesInv
<1>1. QED
  BY FilesInit, FilesNext, PTL DEF D!Spec

(* A completed application is not edited, and the profile it becomes has the *)
(* documents it was completed with, whatever fails, unless two requests      *)
(* handled one of them at once.                                              *)
THEOREM SpecCompletedAsSaved == D!Spec => D!CompletedAsSaved
<1>1. QED
  BY FilesInvariance, SavedStep, PTL DEF D!Spec, D!CompletedAsSaved

-----------------------------------------------------------------------------
(* The five together: whatever the part that moves, each is as if alone.    *)

(* Each part's initial states and steps, seen from the composition.          *)
LEMMA EachPart ==
  /\ InitApart => Init /\ Src!Init /\ F!Init /\ T!Init /\ D!Init
  /\ [NextApart]_apart => /\ [Next]_vars /\ [Src!Next]_(Src!vars)
                          /\ [F!Next]_(F!vars) /\ [T!Next]_(T!vars)
                          /\ [D!Next]_(D!vars)
<1>1. /\ InitApart => Init /\ Src!Init /\ F!Init /\ T!Init /\ D!Init
      /\ [NextApart]_apart =>
           /\ Next \/ UNCHANGED vars
           /\ Src!Next \/ UNCHANGED ofSourcing
           /\ F!Next \/ UNCHANGED ofRefunds
           /\ T!Next \/ UNCHANGED ofThreads
           /\ D!Next \/ UNCHANGED ofDocuments
  BY DEF InitApart, NextApart, Still, apart
<1>2. /\ UNCHANGED ofSourcing => UNCHANGED Src!vars
      /\ UNCHANGED ofRefunds => UNCHANGED F!vars
      /\ UNCHANGED ofThreads => UNCHANGED T!vars
      /\ UNCHANGED ofDocuments => UNCHANGED D!vars
  BY DEF ofSourcing, ofRefunds, ofThreads, ofDocuments, Src!vars, Src!rows, Src!jobs,
     Src!escalation, F!vars, F!server, T!vars, D!vars
<1>3. QED
  BY <1>1, <1>2

(* A behaviour of the composition is one of each component.                  *)
THEOREM ApartImplements == OneApart => Spec /\ Src!Spec /\ F!Spec /\ T!Spec /\ D!Spec
<1>1. QED
  BY EachPart, PTL DEF OneApart, Spec, Src!Spec, F!Spec, T!Spec, D!Spec

(* What the buyer gets back never exceeds what was charged, for any amounts, *)
(* any number of orders and of refunds, failed ones among them.              *)
THEOREM ApartWithinCharged == OneApart => []WithinCharged
<1>1. F!Init => RefundsInv /\ AmountsNatural /\ F!WithinCharged
  BY RefundsInit, AmountsInit
<1>2. /\ RefundsInv /\ AmountsNatural /\ F!WithinCharged
      /\ [F!Next]_(F!vars)
      => RefundsInv' /\ AmountsNatural' /\ F!WithinCharged'
  BY RefundsNext, AmountsNext
<1>3. F!WithinCharged => WithinCharged
  BY DEF WithinCharged
<1>4. QED
  BY <1>1, <1>2, <1>3, ApartImplements, PTL DEF F!Spec

(* A refund that is the only one of its payment ends as Paystack ended it,   *)
(* for any timing of answers, events, duplicates and crashes.                *)
THEOREM ApartLoneRefundTrue == OneApart => []LoneRefundTrue
<1>1. F!LoneRefundTrue => LoneRefundTrue
  BY DEF LoneRefundTrue
<1>2. QED
  BY <1>1, ApartImplements, SpecLoneRefundTrue, PTL

(* A sourcing request is never bought twice and its stored status tells      *)
(* whether it has a live checkout, for any checkouts and admins.             *)
THEOREM ApartBoughtOnce == OneApart => []BoughtOnce
<1>1. QED
  BY ApartImplements, SpecBoughtOnce, PTL DEF BoughtOnce

(* Neither a late release nor the closing of the request ends an order the   *)
(* buyer has paid for, for every set of checkouts and orders.                *)
THEOREM ApartPaidOrdersSurvive == OneApart => PaidOrdersSurvive
<1>1. QED
  BY ApartImplements, SpecPaidOrdersSurvive, PTL DEF PaidOrdersSurvive

(* The invariant of the threads and of the sends under way.                  *)
THEOREM ThreadsInvariance == T!Spec => []ThreadsInv
<1>1. QED
  BY ThreadsInit, ThreadsNext, PTL DEF T!Spec

(* A client that pages forward from its newest message and back from its     *)
(* oldest one misses nothing between but messages saved after a newer one,   *)
(* for any page size and any number of messages and of clients.              *)
THEOREM ApartMissNeedsOverlap == OneApart => []MissNeedsOverlap
<1>1. ThreadsInv => MissNeedsOverlap
  BY DEF ThreadsInv, MissNeedsOverlap
<1>2. QED
  BY <1>1, ApartImplements, ThreadsInvariance, PTL

(* A closed order's thread gets no message: the order's row is shared by the *)
(* sends until they commit.                                                  *)
THEOREM ApartSilentOnceClosed == OneApart => SilentOnceClosed
<1>1. ThreadsInv /\ [T!Next]_(T!vars) =>
        [\A o \in Talked : deal[o] = "CLOSED" => T!Saved(o)' = T!Saved(o)]_(T!vars)
  BY SilentStep DEF T!vars
<1>2. T!Spec => T!SilentOnceClosed
  BY <1>1, ThreadsInvariance, PTL DEF T!Spec, T!SilentOnceClosed
<1>3. T!SilentOnceClosed => SilentOnceClosed
  BY DEF SilentOnceClosed
<1>4. QED
  BY <1>2, <1>3, ApartImplements, PTL

(* A thread keeps the agent it was opened with, and only that agent and the  *)
(* buyer have written in it.                                                 *)
THEOREM SpecThreadsKeepTheirPeople == T!Spec => []T!ThreadsKeepTheirPeople
<1>1. ThreadsInv => T!ThreadsKeepTheirPeople
  BY DEF ThreadsInv
<1>2. QED
  BY <1>1, ThreadsInvariance, PTL

(* A row never names an object that is gone, and no object is left without a *)
(* row unless a call failed or two requests handled a document at once, for  *)
(* any number of requests, objects, farms and failures.                      *)
THEOREM ApartFilesMatchRows == OneApart => []FilesMatchRows
<1>1. FilesInv => FilesMatchRows
  BY FilesImplyMatch DEF FilesMatchRows
<1>2. QED
  BY <1>1, ApartImplements, FilesInvariance, PTL

(* The photos of a handover change no more once the goods are handed over,   *)
(* but for a request that was under way.                                     *)
THEOREM ApartProofsFrozen == OneApart => ProofsFrozen
<1>1. D!Spec => D!ProofsFrozen
  BY FilesInvariance, ProofsStep, PTL DEF D!Spec, D!ProofsFrozen
<1>2. D!ProofsFrozen => ProofsFrozen
  BY DEF ProofsFrozen
<1>3. QED
  BY <1>1, <1>2, ApartImplements, PTL
=============================================================================
