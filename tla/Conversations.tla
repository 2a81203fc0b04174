---------------------------- MODULE Conversations ----------------------------
(* Threads between a buyer and the agent of an order                        *)
(* (src/src/conversation): opening one, sending with a key the client may   *)
(* send again, paging forward from the last message seen, marking as read,  *)
(* and the order that closes meanwhile.  A message's text, the audit event  *)
(* and the socket event, which may be lost, are left out.                   *)
EXTENDS Integers, FiniteSets

CONSTANTS
  Order,
  Buyer,         \* the user who placed every order of the instance
  Agent,         \* users with the agent's role
  Reader,        \* users whose reading is followed
  ClientId,      \* clientMessageId of a user's messages
  Rank,          \* order of the messages' ids, which breaks ties of time
  Request,       \* requests under way at once
  PageSize,      \* messages of one page
  MaxTime,       \* bound on the clock
  Nothing

User == {Buyer} \cup Agent
Message == User \X ClientId

ConversationsAssumption ==
  /\ Buyer \notin Agent
  /\ Nothing \notin User /\ Reader \subseteq User
  /\ MaxTime \in Nat \ {0} /\ PageSize \in Nat \ {0}
  /\ Rank \in [Message -> Nat]
  /\ \A m, n \in Message : Rank[m] = Rank[n] => m = n

VARIABLES
  clock,     \* the time, in the grain of createdAt
  order,     \* the status of each order, as far as its thread depends on it
  assigned,  \* the agent who takes, or would take, each order over
  thread,    \* Conversation of each order
  message,   \* Message under the sender's key
  request,   \* sends and opens under way
  seen,      \* the messages each user's client has fetched, by order
  overtaken  \* messages saved after one that is newer

vars == <<clock, order, assigned, thread, message, request, seen, overtaken>>

NoThread == [agent |-> Nothing, last |-> 0, buyerRead |-> 0, agentRead |-> 0]
NoMessage == [state |-> "none", of |-> Nothing, at |-> 0]
NoRequest == [step |-> "idle", of |-> Nothing, by |-> Nothing, id |-> Nothing]

Time == 0..MaxTime
TypeOK ==
  /\ clock \in Time
  /\ order \in [Order -> {"AWAITING_PAYMENT", "OPEN", "CLOSED"}]
  /\ assigned \in [Order -> Agent \cup {Nothing}]
  /\ thread \in [Order -> [agent : Agent \cup {Nothing}, last : Time,
                           buyerRead : Time, agentRead : Time]]
  /\ message \in [Message -> [state : {"none", "inserted", "saved"},
                              of : Order \cup {Nothing}, at : Time]]
  /\ request \in [Request -> [step : {"idle", "open", "send", "inserted", "updated"},
                              of : Order \cup {Nothing}, by : User \cup {Nothing},
                              id : (Message \cup Agent) \cup {Nothing}]]
  /\ seen \in [Reader -> [Order -> SUBSET Message]]
  /\ overtaken \in SUBSET Message

Init ==
  /\ clock = 1
  /\ order = [o \in Order |-> "AWAITING_PAYMENT"]
  /\ assigned = [o \in Order |-> Nothing]
  /\ thread = [o \in Order |-> NoThread]
  /\ message = [m \in Message |-> NoMessage]
  /\ request = [r \in Request |-> NoRequest]
  /\ seen = [u \in Reader |-> [o \in Order |-> {}]]
  /\ overtaken = {}

Opened(o) == thread[o].agent # Nothing
Participant(u, o) == Opened(o) /\ u \in {Buyer, thread[o].agent}
Saved(o) == {m \in Message : message[m].state = "saved" /\ message[m].of = o}

(* orderBy createdAt, then id. *)
Older(m, n) == \/ message[m].at < message[n].at
               \/ message[m].at = message[n].at /\ Rank[m] < Rank[n]

-----------------------------------------------------------------------------
(* Time, the order and its agent *)
Tick ==
  /\ clock < MaxTime
  /\ clock' = clock + 1
  /\ UNCHANGED <<order, assigned, thread, message, request, seen, overtaken>>

Pay(o) ==
  /\ order[o] = "AWAITING_PAYMENT"
  /\ order' = [order EXCEPT ![o] = "OPEN"]
  /\ UNCHANGED <<clock, assigned, thread, message, request, seen, overtaken>>

(* The handover's agent, or else that of the farm's cluster, if any. *)
Assign(o) ==
  /\ \E a \in Agent \cup {Nothing} : assigned' = [assigned EXCEPT ![o] = a]
  /\ UNCHANGED <<clock, order, thread, message, request, seen, overtaken>>

(* A send holds the order FOR SHARE: closing the order waits for it. *)
Shared(o) == \E r \in Request : request[r].step \in {"inserted", "updated"} /\ request[r].of = o
ClosableAlways(o) == order[o] # "CLOSED"
Closable(o) == order[o] # "CLOSED" /\ ~Shared(o)

Close(o) ==
  /\ Closable(o)
  /\ order' = [order EXCEPT ![o] = "CLOSED"]
  /\ UNCHANGED <<clock, assigned, thread, message, request, seen, overtaken>>

-----------------------------------------------------------------------------
(* open: what it reads, *)
OpenRead(r, u, o) ==
  /\ request[r] = NoRequest /\ ~Opened(o)
  /\ order[o] = "OPEN" /\ assigned[o] # Nothing
  /\ u \in {Buyer, assigned[o]}
  /\ request' = [request EXCEPT
       ![r] = [step |-> "open", of |-> o, by |-> u, id |-> assigned[o]]]
  /\ UNCHANGED <<clock, order, assigned, thread, message, seen, overtaken>>

(* and the thread it creates, unless the other side was faster. *)
OpenCreate(r) ==
  LET o == request[r].of
  IN /\ request[r].step = "open"
     /\ thread' = IF Opened(o) THEN thread ELSE [thread EXCEPT ![o].agent = request[r].id]
     /\ request' = [request EXCEPT ![r] = NoRequest]
     /\ UNCHANGED <<clock, order, assigned, message, seen, overtaken>>

-----------------------------------------------------------------------------
(* replay: the earlier message with the key, whatever conversation it is in. *)
Replay(m) == message[m].state = "saved"

(* send: no earlier message with the key is found, *)
SendRead(r, u, o, c) ==
  /\ request[r] = NoRequest /\ Participant(u, o)
  /\ ~Replay(<<u, c>>)
  /\ request' = [request EXCEPT
       ![r] = [step |-> "send", of |-> o, by |-> u, id |-> <<u, c>>]]
  /\ UNCHANGED <<clock, order, assigned, thread, message, seen, overtaken>>

(* the order is locked and open, and the message is inserted; another        *)
(* transaction that inserted the same key is waited for,                     *)
SendInsert(r) ==
  LET m == request[r].id  o == request[r].of
  IN /\ request[r].step = "send" /\ order[o] # "CLOSED"
     /\ message[m].state = "none"
     /\ message' = [message EXCEPT ![m] = [state |-> "inserted", of |-> o, at |-> clock]]
     /\ request' = [request EXCEPT ![r].step = "inserted"]
     /\ UNCHANGED <<clock, order, assigned, thread, seen, overtaken>>

(* its time becomes the thread's, whose row is then locked, *)
RowFree(o) == ~\E r \in Request : request[r].step = "updated" /\ request[r].of = o
SendUpdate(r) ==
  LET m == request[r].id  o == request[r].of
  IN /\ request[r].step = "inserted" /\ RowFree(o)
     /\ request' = [request EXCEPT ![r].step = "updated"]
     /\ UNCHANGED <<clock, order, assigned, thread, message, seen, overtaken>>

LastAt(o, m) == message[m].at

(* and the transaction commits. *)
SendCommit(r) ==
  LET m == request[r].id  o == request[r].of
  IN /\ request[r].step = "updated"
     /\ message' = [message EXCEPT ![m].state = "saved"]
     /\ thread' = [thread EXCEPT ![o].last = LastAt(o, m)]
     /\ overtaken' = IF \E n \in Saved(o) : Older(m, n) THEN overtaken \cup {m} ELSE overtaken
     /\ request' = [request EXCEPT ![r] = NoRequest]
     /\ UNCHANGED <<clock, order, assigned, seen>>

(* The order is closed, or a first send of the key has come before: the      *)
(* request ends without a new message.                                       *)
SendEnds(r) ==
  /\ request[r].step = "send"
  /\ \/ order[request[r].of] = "CLOSED"
     \/ Replay(request[r].id)
  /\ request' = [request EXCEPT ![r] = NoRequest]
  /\ UNCHANGED <<clock, order, assigned, thread, message, seen, overtaken>>

(* The transaction fails and is rolled back, or the process dies. *)
Abort(r) ==
  /\ request[r].step # "idle"
  /\ message' = IF request[r].step \in {"inserted", "updated"}
                THEN [message EXCEPT ![request[r].id] = NoMessage] ELSE message
  /\ request' = [request EXCEPT ![r] = NoRequest]
  /\ UNCHANGED <<clock, order, assigned, thread, seen, overtaken>>

-----------------------------------------------------------------------------
(* listMessages: the newest messages at first, then from the client's        *)
(* newest message forward, or from its oldest one back.                      *)
NewestOf(S) == {m \in S : \A n \in S : ~Older(m, n)}
OldestOf(S) == {m \in S : \A n \in S : ~Older(n, m)}
Latest(S) == {m \in S : Cardinality({n \in S : Older(m, n)}) < PageSize}
Earliest(S) == {m \in S : Cardinality({n \in S : Older(n, m)}) < PageSize}

FirstPage(u, o) == Latest(Saved(o))
PageAfterBackwards(u, o) ==
  Latest({m \in Saved(o) : \A n \in NewestOf(seen[u][o]) : Older(n, m)})
PageAfter(u, o) ==
  Earliest({m \in Saved(o) : \A n \in NewestOf(seen[u][o]) : Older(n, m)})
PageBefore(u, o) ==
  Latest({m \in Saved(o) : \A n \in OldestOf(seen[u][o]) : Older(m, n)})

ListMessages(u, o) ==
  /\ Participant(u, o)
  /\ \E page \in IF seen[u][o] = {} THEN {FirstPage(u, o)}
                  ELSE {PageAfter(u, o), PageBefore(u, o)} :
       seen' = [seen EXCEPT ![u][o] = @ \cup page]
  /\ UNCHANGED <<clock, order, assigned, thread, message, request, overtaken>>

MarkRead(u, o) ==
  /\ Participant(u, o) /\ RowFree(o)
  /\ thread' = IF u = Buyer THEN [thread EXCEPT ![o].buyerRead = clock]
                            ELSE [thread EXCEPT ![o].agentRead = clock]
  /\ UNCHANGED <<clock, order, assigned, message, request, seen, overtaken>>

Next ==
  \/ Tick
  \/ \E o \in Order : Pay(o) \/ Assign(o) \/ Close(o)
  \/ \E u \in Reader, o \in Order : ListMessages(u, o) \/ MarkRead(u, o)
  \/ \E r \in Request :
       \/ OpenCreate(r) \/ SendInsert(r) \/ SendUpdate(r) \/ SendCommit(r)
       \/ SendEnds(r) \/ Abort(r)
       \/ \E u \in User, o \in Order : OpenRead(r, u, o) \/ \E c \in ClientId : SendRead(r, u, o, c)

Spec == Init /\ [][Next]_vars

-----------------------------------------------------------------------------
(* "An order closing at this moment waits for this send to commit, or this   *)
(* send sees it closed": a closed order's thread gets no message.            *)
SilentOnceClosed ==
  [][\A o \in Order : order[o] = "CLOSED" => Saved(o)' = Saved(o)]_vars

(* A client that pages forward from its newest message, as after a lost      *)
(* connection, and back from its oldest one has no gap between the two, but  *)
(* for messages saved after a newer one: a message has its time before its   *)
(* transaction commits.                                                      *)
MissNeedsOverlap ==
  \A u \in Reader, o \in Order :
    \A m \in Saved(o) \ (seen[u][o] \cup overtaken) :
      \A n, p \in seen[u][o] : ~(Older(n, m) /\ Older(m, p))

(* A thread keeps the agent it was opened with, wherever its farm goes, and  *)
(* only that agent and the buyer write in it.                                *)
ThreadsKeepTheirPeople ==
  /\ \A o \in Order : \A m \in Saved(o) : m[1] \in {Buyer, thread[o].agent}
  /\ \A o \in Order : Opened(o) => order[o] # "AWAITING_PAYMENT"
=============================================================================
