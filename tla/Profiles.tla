------------------------------- MODULE Profiles -------------------------------
(* What a buyer and an agent save of themselves: the buyer's kind, the places *)
(* (a state and one of its LGAs) of both, the cluster named after the agent's *)
(* LGA, and the buyer's address book.  A PATCH sends some fields only and is   *)
(* completed from the row.  Those of the buyer and of the agent read the row   *)
(* first and write it later, with nothing held in between; those of the        *)
(* address book run under an advisory lock.  The three share no state, and     *)
(* each has its own next-state relation.                                       *)
EXTENDS Naturals, FiniteSetsExt

CONSTANTS
  Request,      \* requests under way
  State, Lga,
  StateOf,      \* the state each LGA lies in
  Field,        \* COMPANY_FIELDS
  MaxAddresses, \* MAX_ADDRESSES
  MaxId,        \* bound: addresses made one after the other
  None          \* a column that is null, a field that is not sent

VARIABLES
  buyer,        \* [place, kind, company: the company fields that are filled]
  agent,        \* [place, cluster: the LGA it is named after, verified]
  book,         \* the buyer's addresses by id, later ids newer; None: no such row
  call          \* what each request has read and is to write

vars == <<buyer, agent, book, call>>

Place == [state : State \cup {None}, lga : Lga \cup {None}]
Nowhere == [state |-> None, lga |-> None]
Kind == {"PERSON", "COMPANY"}
Id == 1..MaxId
BuyerRow == [place : Place, kind : Kind, company : SUBSET Field]
Address == [place : Place, default : BOOLEAN]
AgentRow == [place : Place, cluster : Lga \cup {None}, verified : BOOLEAN]

(* None is nothing a row may hold. *)
ProfilesAssumption ==
  /\ MaxAddresses \in Nat /\ MaxId \in Nat
  /\ StateOf \in [Lga -> State]
  /\ None \notin State /\ None \notin Lga /\ None \notin Kind /\ None \notin Address

Idle == [do |-> "none"]
Call ==
  {Idle}
  \cup [do : {"buyer"}, place : Place, kind : Kind \cup {None}, company : SUBSET Field]
  \cup [do : {"agent"}, place : Place, saw : AgentRow]
  \cup [do : {"create"}, place : Place, first : BOOLEAN]
  \cup [do : {"update"}, id : Id, sent : Place, default : BOOLEAN]
  \cup [do : {"remove"}, id : Id, default : BOOLEAN]

TypeOK ==
  /\ buyer \in BuyerRow
  /\ agent \in AgentRow
  /\ book \in [Id -> Address \cup {None}]
  /\ call \in [Request -> Call]

Init ==
  /\ buyer = [place |-> Nowhere, kind |-> "PERSON", company |-> {}]
  /\ agent = [place |-> Nowhere, cluster |-> None, verified |-> FALSE]
  /\ book = [i \in Id |-> None]
  /\ call = [r \in Request |-> Idle]

-----------------------------------------------------------------------------
(* requireLga: the LGA lies in the state. *)
Valid(place) == place.lga \in Lga /\ place.state = StateOf[place.lga]

Sent(value, stored) == IF value = None THEN stored ELSE value
Merged(sent, place) ==
  [state |-> Sent(sent.state, place.state), lga |-> Sent(sent.lga, place.lga)]

(* What a PATCH writes of the place: nothing, or the pair it has checked. *)
Checked(sent, place) ==
  IF sent = Nowhere THEN {Nowhere} ELSE {p \in {Merged(sent, place)} : Valid(p)}

Starts(r, what) == call[r] = Idle /\ call' = [call EXCEPT ![r] = what]
Ends(r) == call' = [call EXCEPT ![r] = Idle]

-----------------------------------------------------------------------------
(* BuyerService.updateMine                                                    *)

(* buyerKindError: a person has no company field, a company has them all.     *)
CompanyOf(kind) == IF kind = "COMPANY" THEN Field ELSE {}

(* nextBuyerKind: what a company sends is completed from the row.             *)
NextKind(kind, sent) ==
  LET next == Sent(kind, buyer.kind)
      fields == IF next = "COMPANY" THEN sent \cup buyer.company ELSE sent
  IN IF kind = None /\ sent = {} THEN {[kind |-> None, company |-> {}]}
     ELSE {k \in {[kind |-> next, company |-> fields]} : k.company = CompanyOf(k.kind)}

BuyerRead(r) ==
  /\ \E sent \in Place, kind \in Kind \cup {None}, fields \in SUBSET Field :
       \E place \in Checked(sent, buyer.place), next \in NextKind(kind, fields) :
         Starts(r, [do |-> "buyer", place |-> place, kind |-> next.kind, company |-> next.company])
  /\ UNCHANGED <<buyer, agent, book>>
BuyerWrite(r) ==
  /\ call[r].do = "buyer"
  /\ buyer' = [place |-> IF call[r].place = Nowhere THEN buyer.place ELSE call[r].place,
               kind |-> Sent(call[r].kind, buyer.kind),
               company |-> IF call[r].kind = None THEN buyer.company ELSE call[r].company]
  /\ Ends(r)
  /\ UNCHANGED <<agent, book>>

BuyerNext == \E r \in Request : BuyerRead(r) \/ BuyerWrite(r)

-----------------------------------------------------------------------------
(* AgentService.updateMine.  The LGA of a verified agent is kept: "moving a   *)
(* verified agent would strand every farm already in it".                     *)
MayMoveVerified(lga) == TRUE
MayMove(lga) == ~agent.verified \/ lga = agent.place.lga

AgentRead(r) ==
  /\ \E sent \in Place \ {Nowhere} :
       \E place \in Checked(sent, agent.place) :
         MayMove(place.lga) /\ Starts(r, [do |-> "agent", place |-> place, saw |-> agent])
  /\ UNCHANGED <<buyer, agent, book>>
(* The agent and its cluster, in one transaction. *)
AgentWrite(r) ==
  /\ call[r].do = "agent"
  /\ agent' = [agent EXCEPT !.place = call[r].place, !.cluster = call[r].place.lga]
  /\ Ends(r)
  /\ UNCHANGED <<buyer, book>>

(* External: an admin verifies the agent, or takes it back. *)
Verify ==
  /\ agent' = [agent EXCEPT !.verified = ~@]
  /\ UNCHANGED <<buyer, book, call>>

AgentNext == Verify \/ \E r \in Request : AgentRead(r) \/ AgentWrite(r)

-----------------------------------------------------------------------------
(* AddressService                                                             *)

Saved == {i \in Id : book[i] # None}
Newest(ids) == IF ids = {} THEN 0 ELSE Max(ids)
Default == {i \in Saved : book[i].default}

(* lockAddresses, which a transaction holds until it ends.                    *)
UnlockedAlways == TRUE
Unlocked == \A r \in Request : call[r].do \in {"none", "buyer", "agent"}

(* Under the lock each reads what it is to decide by, *)
CreateRead(r, place) ==
  /\ Cardinality(Saved) < MaxAddresses /\ Valid(place)
  /\ Newest(Saved) < MaxId
  /\ Starts(r, [do |-> "create", place |-> place, first |-> Saved = {}])
UpdateRead(r, id, sent, default) ==
  /\ id \in Saved /\ Checked(sent, book[id].place) # {}
  /\ Starts(r, [do |-> "update", id |-> id, sent |-> sent, default |-> default])
RemoveRead(r, id) ==
  /\ id \in Saved
  /\ Starts(r, [do |-> "remove", id |-> id, default |-> book[id].default])

AddressRead(r) ==
  /\ Unlocked
  /\ \E place \in Place, id \in Id, default \in BOOLEAN :
       CreateRead(r, place) \/ UpdateRead(r, id, place, default) \/ RemoveRead(r, id)
  /\ UNCHANGED <<buyer, agent, book>>

(* then writes. *)
CreateWrite(r) ==
  /\ call[r].do = "create"
  /\ book' = [book EXCEPT ![Newest(Saved) + 1] = [place |-> call[r].place, default |-> call[r].first]]
(* The other default is cleared first. *)
UpdateWrite(r) ==
  /\ call[r].do = "update" /\ call[r].id \in Saved
  /\ book' = [i \in Id |->
       IF i \notin Saved THEN None
       ELSE IF i = call[r].id
       THEN [place |-> Merged(call[r].sent, book[i].place),
             default |-> book[i].default \/ call[r].default]
       ELSE [book[i] EXCEPT !.default = @ /\ ~call[r].default]]
(* The newest of the rest takes the default over. *)
RemoveWrite(r) ==
  /\ call[r].do = "remove" /\ call[r].id \in Saved
  /\ book' = [i \in Id |->
       IF i \notin Saved \ {call[r].id} THEN None
       ELSE [book[i] EXCEPT
               !.default = @ \/ (call[r].default /\ i = Newest(Saved \ {call[r].id}))]]

(* Address_buyerId_default_key *)
OneDefault == \A i, j \in Saved : book[i].default /\ book[j].default => i = j

AddressWrite(r) ==
  /\ CreateWrite(r) \/ UpdateWrite(r) \/ RemoveWrite(r)
  /\ OneDefault'
  /\ Ends(r)
  /\ UNCHANGED <<buyer, agent>>
AddressAborts(r) ==
  /\ call[r].do \in {"create", "update", "remove"}
  /\ Ends(r)
  /\ UNCHANGED <<buyer, agent, book>>

AddressNext == \E r \in Request : AddressRead(r) \/ AddressWrite(r) \/ AddressAborts(r)

Next == BuyerNext \/ AgentNext \/ AddressNext

Spec == Init /\ [][Next]_vars

-----------------------------------------------------------------------------
(* Whatever requests run side by side: a state is stored with an LGA of its   *)
(* own ("assignment matches on the LGA alone and a mismatched state would go  *)
(* unnoticed"); a person has no company field and a company all of them; the  *)
(* cluster is named after its agent's LGA; and an address book of one or more *)
(* has exactly one default and never outgrows its limit ("two default         *)
(* switches can't both clear and set, and two creates can't both slip past    *)
(* the cap").                                                                 *)
ProfilesWhole ==
  /\ \A place \in {buyer.place, agent.place} : place = Nowhere \/ Valid(place)
  /\ buyer.company = CompanyOf(buyer.kind)
  /\ agent.cluster = agent.place.lga
  /\ \A i \in Saved : Valid(book[i].place)
  /\ Saved # {} => Cardinality(Default) = 1
  /\ Cardinality(Saved) <= MaxAddresses

(* "LGA cannot change after verification": it does only at the hand of a      *)
(* request that read the agent before it was verified, or before such a       *)
(* request moved it, and then puts back what it read.                         *)
LgaHeld ==
  [][agent.verified /\ agent'.place.lga # agent.place.lga =>
       \E r \in Request :
         /\ call[r].do = "agent" /\ call'[r] = Idle
         /\ ~call[r].saw.verified \/ call[r].saw.place.lga # agent.place.lga]_vars
=============================================================================
