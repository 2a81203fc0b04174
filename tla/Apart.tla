-------------------------------- MODULE Apart --------------------------------
(* Five components that share no state: a person's account, a sourcing         *)
(* request, the refunds of a payment, the thread of an order and the documents *)
(* of a farm.  The initial state chooses the one that moves, and the others    *)
(* stay at their initial states, so that an exploration has the states of each *)
(* of Parts.                                                                   *)
EXTENDS Accounts

CONSTANT Parts  \* the components that may move

CONSTANTS Checkout, Order, CheckoutOf, Call, Nothing
VARIABLES status, closed, agent, allocated, checkout, order, ordering, paying, admin,
          escalating, escalated
Src == INSTANCE Sourcing
ofSourcing == <<status, closed, agent, allocated, checkout, order, ordering, paying, admin,
                escalating, escalated>>

CONSTANTS Bought, MaxRefunds, MaxResults, Share, Charged, Whole
VARIABLES orphaned, cancelled, refund, of, amount, identified, submitting, results,
          provider
F == INSTANCE Refunds WITH Order <- Bought
ofRefunds == <<orphaned, cancelled, refund, of, amount, identified, submitting, results,
               provider>>

CONSTANTS Talked, Buyer, Agent, Reader, ClientId, Rank, PageSize, MaxTime
VARIABLES clock, deal, assigned, thread, message, asking, seen, overtaken
T == INSTANCE Conversations WITH Order <- Talked, order <- deal, request <- asking
ofThreads == <<clock, deal, assigned, thread, message, asking, seen, overtaken>>

CONSTANTS Document, MaxKey, MaxFarm
VARIABLES role, application, profile, lastFarm, verified, handover, proofs, stored,
          lastKey, filing, failures, overlap
D == INSTANCE Documents WITH request <- filing, faults <- failures
ofDocuments == <<role, application, profile, lastFarm, verified, handover, proofs, stored,
                 lastKey, filing, failures, overlap>>

ASSUME PartsAssumption ==
  /\ Parts \subseteq {"accounts", "sourcing", "refunds", "threads", "documents"}
  /\ Src!SourcingAssumption /\ F!RefundsAssumption /\ T!ConversationsAssumption
  /\ D!DocumentsAssumption

VARIABLE part

apart == <<vars, ofSourcing, ofRefunds, ofThreads, ofDocuments, part>>

InitApart ==
  /\ part \in Parts
  /\ Init /\ Src!Init /\ F!Init /\ T!Init /\ D!Init
  /\ part # "accounts" => person = CHOOSE p \in [kind : Kind, google : BOOLEAN] : TRUE
  /\ part # "refunds" => ~orphaned
  /\ part # "documents" => role = "FARMER" /\ application.status = "DRAFT"

Still(moving) ==
  /\ part = moving
  /\ moving # "accounts" => UNCHANGED vars
  /\ moving # "sourcing" => UNCHANGED ofSourcing
  /\ moving # "refunds" => UNCHANGED ofRefunds
  /\ moving # "threads" => UNCHANGED ofThreads
  /\ moving # "documents" => UNCHANGED ofDocuments

NextApart ==
  /\ UNCHANGED part
  /\ \/ Still("accounts") /\ Next
     \/ Still("sourcing") /\ Src!Next
     \/ Still("refunds") /\ F!Next
     \/ Still("threads") /\ T!Next
     \/ Still("documents") /\ D!Next

OneApart == InitApart /\ [][NextApart]_apart

-----------------------------------------------------------------------------
(* See Sourcing: one live checkout at a time, which the stored status shows.   *)
BoughtOnce == Src!BoughtOnce
(* See Sourcing: only its own cancellation ends a paid order.                  *)
PaidOrdersSurvive == Src!PaidOrdersSurvive
(* See Refunds: what is refunded or on its way never exceeds the charge.       *)
WithinCharged == F!WithinCharged
(* See Refunds: the only refund of a payment ends as it ended at Paystack.     *)
LoneRefundTrue == F!LoneRefundTrue
(* See Conversations: paging misses only messages saved after a newer one.     *)
MissNeedsOverlap == T!MissNeedsOverlap
(* See Conversations: a closed order's thread stays silent.                    *)
SilentOnceClosed == T!SilentOnceClosed
(* See Documents: no row names a missing object, no object is without a row.   *)
FilesMatchRows == D!FilesMatchRows
(* See Documents: what is handed over keeps its proof.                         *)
ProofsFrozen == D!ProofsFrozen
=============================================================================
