------------------------------- MODULE MCApart -------------------------------
(* One exploration of five components:                                          *)
(*   accounts   one applicant, whose farm is approved once; MCAccounts has the *)
(*              rest                                                           *)
(*   sourcing   two checkouts to come, the first of two orders, the second of  *)
(*              one                                                            *)
(*   refunds    a payment of five for two orders, of two and of three          *)
(*   threads    one order, its buyer and agent, two messages each, two         *)
(*              requests at once                                               *)
(*   documents  one application and the farm it becomes, one order             *)
EXTENDS Apart, TLC

CONSTANTS c1, c2, o1, o2, o3, a1, a2, b, r1, r2, v1

TwoAndOne == (o1 :> c1) @@ (o2 :> c1) @@ (o3 :> c2)

Shares == (o1 :> 2) @@ (o2 :> 3)

ByUser == (b :> 0) @@ (a1 :> 1)
Ranked == [m \in {b, a1} \X {1, 2} |-> 2 * m[2] + ByUser[m[1]]]

Requests == Permutations(Request)

(* The handover's photos and the farm's documents share the bucket alone, where *)
(* keys are never drawn twice: each is explored while the other rests.         *)
PapersRest == application.doc = D!NoDocuments /\ ~profile.exists
              /\ \A r \in Request : filing[r].op \in {"none", "add", "remove"}
HandoverRests == handover = "PENDING" /\ proofs = {}
                 /\ \A r \in Request : filing[r].op \notin {"add", "remove"}
OneAtATime == PapersRest \/ HandoverRests
=============================================================================
