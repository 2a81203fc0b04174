--------------------------- MODULE SideBySideProofs --------------------------
(* What holds of the components of SideBySide, for every set of orders,      *)
(* edits, agents, documents, items, requests and rows: the listing, what a   *)
(* round collects, the preparation of an order, the profiles, the            *)
(* reports and the lists, each by an inductive invariant about what is under *)
(* way.                                                                      *)
EXTENDS SideBySide, Sums, Sequences, TLAPS

-----------------------------------------------------------------------------
(* The listing: what an edit will write is in step with its own quantities,  *)
(* and DISABLED if it read DISABLED; an order being confirmed is still       *)
(* PENDING to everybody else.                                                *)
EditSound(e) ==
  editing[e] # Nothing =>
    /\ InStep(editing[e].write)
    /\ editing[e].read.status = "DISABLED" => editing[e].write.status = "DISABLED"

(* A transaction confirming an order has found it PENDING and locked it.   *)
ConfirmSound(o) == confirming[o] # Nothing => order[o] = "PENDING"

Inv ==
  /\ TypeOK
  /\ \A e \in Edit : EditSound(e)
  /\ \A o \in Order : ConfirmSound(o)

(* deriveProduceStatus stays within the statuses, leaves DISABLED alone    *)
(* and has nothing to add to its own answer.                               *)
LEMMA DeriveFacts ==
  ASSUME NEW s \in ProduceStatus, NEW a \in Int, NEW f \in Int
  PROVE  /\ DeriveStatus(s, a, f) \in ProduceStatus
         /\ s = "DISABLED" => DeriveStatus(s, a, f) = "DISABLED"
         /\ DeriveStatus(DeriveStatus(s, a, f), a, f) = DeriveStatus(s, a, f)
BY DEF DeriveStatus, ProduceStatus

(* syncProduceStatus leaves a row of the table, in step with its stock.    *)
LEMMA SyncedFacts ==
  ASSUME NEW row \in Row
  PROVE  /\ Synced(row) \in Row
         /\ InStep(Synced(row))
         /\ row.status = "DISABLED" => Synced(row).status = "DISABLED"
<1>1. /\ row.status \in ProduceStatus
      /\ row.actual \in Int
      /\ row.floating \in Int
  BY DEF Row
<1>2. Synced(row) = [row EXCEPT !.status =
                       DeriveStatus(row.status, row.actual, row.floating)]
  BY DEF Synced
<1>3. Synced(row).status = DeriveStatus(row.status, row.actual, row.floating)
  BY <1>2 DEF Row
<1>4. Synced(row).actual = row.actual /\ Synced(row).floating = row.floating
  BY <1>2 DEF Row
<1>5. DeriveStatus(row.status, row.actual, row.floating) \in ProduceStatus
  BY <1>1, DeriveFacts
<1>6. Synced(row) \in Row
  BY <1>1, <1>2, <1>5 DEF Row
<1>7. QED
  BY <1>1, <1>3, <1>4, <1>6, DeriveFacts DEF InStep

(* A row somebody has read is a row of the table.                          *)
LEMMA ReadIsRow ==
  ASSUME TypeOK
  PROVE  /\ \A o \in Order : confirming[o] # Nothing => confirming[o] \in Row
         /\ \A e \in Edit : editing[e] # Nothing =>
              editing[e].read \in Row /\ editing[e].write \in Row
BY DEF TypeOK

(* Every listing starts with no request under way.                         *)
LEMMA InitInv == Init => Inv
<1> SUFFICES ASSUME Init PROVE Inv
  OBVIOUS
<1>1. PICK q \in 0..MaxActual, s \in ProduceStatus :
        /\ produce = Synced([actual |-> q, floating |-> q, status |-> s])
        /\ supplied = q
  BY DEF Init
<1>2. q \in Int
  BY ShelfAssumption
<1>3. produce \in Row
  <2>1. [actual |-> q, floating |-> q, status |-> s] \in Row
    BY <1>2 DEF Row
  <2>2. QED
    BY <1>1, <2>1, SyncedFacts
<1>4. QED
  BY <1>1, <1>2, <1>3 DEF Init, Inv, TypeOK, OrderStatus, EditSound, ConfirmSound

(* One step per action: what it writes to the listing is a row, and an     *)
(* edit that is begun is sound.                                            *)
LEMMA NextInv == Inv /\ [Next]_vars => Inv'
<1> SUFFICES ASSUME Inv, [Next]_vars PROVE Inv'
  OBVIOUS
<1>t. TypeOK /\ (\A e \in Edit : EditSound(e)) /\ (\A o \in Order : ConfirmSound(o))
  BY DEF Inv
<1>r. /\ produce \in Row
      /\ produce.actual \in Int /\ produce.floating \in Int
      /\ produce.status \in ProduceStatus
  BY <1>t DEF TypeOK, Row
<1>q. \A o \in Order : Qty[o] \in Int
  BY ShelfAssumption
<1>1. ASSUME NEW o \in Order, Place(o) PROVE Inv'
  <2>1. [produce EXCEPT !.floating = produce.floating - Qty[o]] \in Row
    BY <1>r, <1>q DEF Row
  <2>2. produce' = Synced([produce EXCEPT !.floating = produce.floating - Qty[o]])
    BY <1>1 DEF Place
  <2>3. produce' \in Row
    BY <2>1, <2>2, SyncedFacts
  <2>4. QED
    BY <1>1, <1>t, <2>3 DEF Place, Inv, TypeOK, OrderStatus, EditSound, ConfirmSound, InStep
<1>2. ASSUME NEW o \in Order, Pay(o) PROVE Inv'
  BY <1>2, <1>t DEF Pay, Inv, TypeOK, OrderStatus, EditSound, ConfirmSound, InStep
<1>3. ASSUME NEW o \in Order, GiveBack(o) PROVE Inv'
  <2> DEFINE back ==
        [actual |-> IF order[o] \in Uncommitted THEN produce.actual
                                                ELSE produce.actual + Qty[o],
         floating |-> produce.floating + Qty[o],
         status |-> produce.status]
  <2>1. back \in Row
    BY <1>r, <1>q DEF Row
  <2>2. produce' = Synced(back)
    BY <1>3 DEF GiveBack
  <2>3. produce' \in Row
    BY <2>1, <2>2, SyncedFacts
  <2>4. QED
    BY <1>3, <1>t, <2>3 DEF GiveBack, Inv, TypeOK, OrderStatus, EditSound, ConfirmSound, InStep
<1>4. ASSUME NEW o \in Order, ConfirmRead(o) PROVE Inv'
  BY <1>4, <1>t DEF ConfirmRead, Inv, TypeOK, EditSound, ConfirmSound, InStep
<1>5. ASSUME NEW o \in Order, ConfirmWrite(o) PROVE Inv'
  <2>1. confirming[o] \in Row
    BY <1>5, <1>t, ReadIsRow DEF ConfirmWrite
  <2>2. DeriveStatus(confirming[o].status, confirming[o].actual - Qty[o],
                     confirming[o].floating) \in ProduceStatus
    <3>1. /\ confirming[o].status \in ProduceStatus
          /\ confirming[o].actual - Qty[o] \in Int /\ confirming[o].floating \in Int
      BY <2>1, <1>q DEF Row
    <3>2. QED
      BY <3>1, DeriveFacts
  <2>3. produce' \in Row
    BY <1>5, <1>r, <1>q, <2>2 DEF ConfirmWrite, Row
  <2>4. QED
    BY <1>5, <1>t, <2>3 DEF ConfirmWrite, Inv, TypeOK, OrderStatus, EditSound, ConfirmSound, InStep
<1>6. ASSUME NEW o \in Order, ConfirmAborts(o) PROVE Inv'
  BY <1>6, <1>t DEF ConfirmAborts, Inv, TypeOK, EditSound, ConfirmSound, InStep
<1>7. ASSUME NEW e \in Edit, EditRead(e) PROVE Inv'
  <2>1. PICK a \in 0..MaxActual \cup {produce.actual}, asked \in ProduceStatus :
          editing' = [editing EXCEPT ![e] =
            [read |-> produce,
             write |-> [actual |-> a,
                        floating |-> produce.floating + (a - produce.actual),
                        status |-> DeriveStatus(Requested(produce.status, asked), a,
                                     produce.floating + (a - produce.actual))]]]
    BY <1>7 DEF EditRead
  <2> DEFINE f == produce.floating + (a - produce.actual)
             s == DeriveStatus(Requested(produce.status, asked), a, f)
             w == [actual |-> a, floating |-> f, status |-> s]
  <2>2. a \in Int /\ f \in Int
    BY <1>r, ShelfAssumption
  <2>3. Requested(produce.status, asked) \in ProduceStatus
    BY <1>r DEF Requested
  <2>4. /\ s \in ProduceStatus
        /\ DeriveStatus(s, a, f) = s
        /\ produce.status = "DISABLED" => s = "DISABLED"
    <3> HIDE DEF f
    <3>1. produce.status = "DISABLED" => Requested(produce.status, asked) = "DISABLED"
      BY DEF Requested
    <3>2. QED
      BY <2>2, <2>3, <3>1, DeriveFacts
  <2>5. w \in Row /\ InStep(w)
    <3> HIDE DEF f, s
    <3>1. QED
      BY <2>2, <2>4 DEF Row, InStep
  <2>6. /\ editing' = [editing EXCEPT ![e] = [read |-> produce, write |-> w]]
        /\ UNCHANGED <<produce, order, confirming, disabling, supplied>>
    BY <1>7, <2>1 DEF EditRead
  <2>7. TypeOK'
    <3> HIDE DEF w
    <3>1. QED
      BY <2>5, <2>6, <1>t DEF TypeOK
  <2>8. EditSound(e)'
    <3>1. editing'[e] = [read |-> produce, write |-> w]
      BY <2>6, <1>t DEF TypeOK
    <3>2. w.status = s
      OBVIOUS
    <3> HIDE DEF w, s
    <3>3. QED
      BY <2>4, <2>5, <3>1, <3>2 DEF EditSound, ConfirmSound, InStep
  <2>9. ASSUME NEW d \in Edit, d # e PROVE EditSound(d)'
    BY <2>6, <2>9, <1>t DEF EditSound, InStep, TypeOK
  <2>10. \A o \in Order : ConfirmSound(o)'
    BY <2>6, <1>t DEF ConfirmSound
  <2>11. QED
    BY <2>7, <2>8, <2>9, <2>10 DEF Inv
<1>8. ASSUME NEW e \in Edit, EditWrite(e) PROVE Inv'
  <2>1. editing[e].write \in Row /\ editing[e].read \in Row
    BY <1>8, <1>t, ReadIsRow DEF EditWrite
  <2>2. produce' \in Row /\ supplied' \in Int
    BY <1>8, <1>t, <2>1 DEF EditWrite, TypeOK, Row
  <2>3. QED
    BY <1>8, <1>t, <2>2 DEF EditWrite, Inv, TypeOK, EditSound, ConfirmSound, InStep
<1>9. ASSUME NEW e \in Edit, EditDropped(e) PROVE Inv'
  BY <1>9, <1>t DEF EditDropped, Inv, TypeOK, EditSound, ConfirmSound, InStep
<1>10. CASE DisableCheck
  BY <1>10, <1>t DEF DisableCheck, Inv, TypeOK, EditSound, ConfirmSound, InStep
<1>11. CASE DisableWrite
  <2>1. produce' \in Row
    BY <1>11, <1>r DEF DisableWrite, Row, ProduceStatus
  <2>2. QED
    BY <1>11, <1>t, <2>1 DEF DisableWrite, Inv, TypeOK, EditSound, ConfirmSound, InStep
<1>12. CASE UNCHANGED vars
  BY <1>12, <1>t DEF vars, Inv, TypeOK, EditSound, ConfirmSound, InStep
<1>13. QED
  BY <1>1, <1>2, <1>3, <1>4, <1>5, <1>6, <1>7, <1>8, <1>9, <1>10, <1>11, <1>12
  DEF Next

(* The invariant of the edits under way holds of every behaviour.          *)
THEOREM Invariance == Spec => []Inv
<1>1. QED
  BY InitInv, NextInv, PTL DEF Spec

(* Type correctness of the listing and of every row read from it.          *)
THEOREM SpecTypeOK == Spec => []TypeOK
<1>1. Inv => TypeOK
  BY DEF Inv
<1>2. QED
  BY <1>1, Invariance, PTL

-----------------------------------------------------------------------------
(* No action but the write of an edit or of a confirmation that read the   *)
(* listing before the disable takes it out of DISABLED.                    *)
LEMMA StepRespectsDisable ==
  ASSUME Inv, Next, produce.status = "DISABLED", produce'.status # "DISABLED"
  PROVE  \/ \E e \in Edit : editing[e] # Nothing /\ editing[e].read.status # "DISABLED"
         \/ \E o \in Order : confirming[o] # Nothing /\ confirming[o].status # "DISABLED"
<1> DEFINE Goal ==
      \/ \E e \in Edit : editing[e] # Nothing /\ editing[e].read.status # "DISABLED"
      \/ \E o \in Order : confirming[o] # Nothing /\ confirming[o].status # "DISABLED"
<1>t. TypeOK /\ (\A e \in Edit : EditSound(e)) /\ (\A o \in Order : ConfirmSound(o))
  BY DEF Inv
<1>r. /\ produce \in Row /\ produce.actual \in Int /\ produce.floating \in Int
      /\ \A o \in Order : Qty[o] \in Int
  BY <1>t, ShelfAssumption DEF TypeOK, Row
<1>1. ASSUME NEW o \in Order, Place(o) PROVE FALSE
  BY <1>1 DEF Place
<1>2. ASSUME NEW o \in Order, GiveBack(o) PROVE FALSE
  <2> DEFINE back ==
        [actual |-> IF order[o] \in Uncommitted THEN produce.actual
                                                ELSE produce.actual + Qty[o],
         floating |-> produce.floating + Qty[o],
         status |-> produce.status]
  <2>1. back \in Row /\ back.status = "DISABLED"
    BY <1>r DEF Row
  <2>2. produce' = Synced(back)
    BY <1>2 DEF GiveBack
  <2>3. QED
    BY <2>1, <2>2, SyncedFacts
<1>3. ASSUME NEW o \in Order, ConfirmWrite(o) PROVE Goal
  <2>1. confirming[o] # Nothing /\ confirming[o] \in Row
    BY <1>3, <1>t, ReadIsRow DEF ConfirmWrite
  <2>2. produce'.status = DeriveStatus(confirming[o].status,
                            confirming[o].actual - Qty[o], confirming[o].floating)
    BY <1>3 DEF ConfirmWrite
  <2>3. confirming[o].status # "DISABLED"
    BY SMTT(30), <2>1, <2>2, <1>r, DeriveFacts DEF Row
  <2>4. QED
    BY <2>1, <2>3
<1>4. ASSUME NEW e \in Edit, EditWrite(e) PROVE Goal
  BY <1>4, <1>t DEF EditWrite, EditSound
<1>5. CASE DisableWrite
  BY <1>5, <1>r DEF DisableWrite, Row
<1>6. ASSUME UNCHANGED produce PROVE FALSE
  BY <1>6
<1>7. QED
  BY <1>1, <1>2, <1>3, <1>4, <1>5, <1>6
  DEF Next, Pay, ConfirmRead, ConfirmAborts, EditRead, EditDropped, DisableCheck

(* A request that starts after an admin's disable respects it, for every   *)
(* set of orders and edits.                                                *)
THEOREM SpecLateRequestsRespectDisable == Spec => LateRequestsRespectDisable
<1>1. Inv /\ [Next]_vars =>
        [produce.status = "DISABLED" /\ produce'.status # "DISABLED" =>
           \/ \E e \in Edit : editing[e] # Nothing /\ editing[e].read.status # "DISABLED"
           \/ \E o \in Order : confirming[o] # Nothing /\ confirming[o].status # "DISABLED"
        ]_vars
  BY StepRespectsDisable DEF vars
<1>2. QED
  BY <1>1, Invariance, PTL DEF Spec, LateRequestsRespectDisable

(* No action but a confirmation that writes over a changed row leaves the  *)
(* status out of step with the stock.                                      *)
LEMMA StepDrift ==
  ASSUME Inv, Next, InStep(produce), ~InStep(produce)'
  PROVE  \E o \in Order : /\ order[o] = "PENDING"
                          /\ order'[o] = "CONFIRMED"
                          /\ confirming[o] # produce
<1>t. TypeOK /\ (\A e \in Edit : EditSound(e)) /\ (\A o \in Order : ConfirmSound(o))
  BY DEF Inv
<1>r. /\ produce \in Row /\ produce.actual \in Int /\ produce.floating \in Int
      /\ produce.status \in ProduceStatus
      /\ \A o \in Order : Qty[o] \in Int
  BY <1>t, ShelfAssumption DEF TypeOK, Row
<1>1. ASSUME NEW o \in Order, Place(o) PROVE FALSE
  <2>1. [produce EXCEPT !.floating = produce.floating - Qty[o]] \in Row
    BY <1>r DEF Row
  <2>2. InStep(produce')
    BY <1>1, <2>1, SyncedFacts DEF Place
  <2>3. QED
    BY <2>2 DEF InStep
<1>2. ASSUME NEW o \in Order, GiveBack(o) PROVE FALSE
  <2> DEFINE back ==
        [actual |-> IF order[o] \in Uncommitted THEN produce.actual
                                                ELSE produce.actual + Qty[o],
         floating |-> produce.floating + Qty[o],
         status |-> produce.status]
  <2>1. back \in Row
    BY <1>r DEF Row
  <2>2. produce' = Synced(back)
    BY <1>2 DEF GiveBack
  <2>3. InStep(produce')
    BY <2>1, <2>2, SyncedFacts
  <2>4. QED
    BY <2>3 DEF InStep
<1>3. ASSUME NEW o \in Order, ConfirmWrite(o)
      PROVE  /\ order[o] = "PENDING"
             /\ order'[o] = "CONFIRMED"
             /\ confirming[o] # produce
  <2>1. order[o] = "PENDING" /\ order'[o] = "CONFIRMED"
    BY <1>3, <1>t DEF ConfirmWrite, ConfirmSound, TypeOK
  <2>2. ASSUME confirming[o] = produce PROVE FALSE
    <3> DEFINE a == produce.actual - Qty[o]
               s == DeriveStatus(produce.status, a, produce.floating)
    <3>1. produce' = [actual |-> a, floating |-> produce.floating, status |-> s]
      BY <1>3, <2>2 DEF ConfirmWrite
    <3>2. a \in Int
      BY <1>r
    <3>3. DeriveStatus(s, a, produce.floating) = s
      <4> HIDE DEF a
      <4>1. QED
        BY <3>2, <1>r, DeriveFacts
    <3>4. QED
      <4> HIDE DEF a, s
      <4>1. QED
        BY <3>1, <3>3 DEF InStep
  <2>3. QED
    BY <2>1, <2>2
<1>4. ASSUME NEW e \in Edit, EditWrite(e) PROVE FALSE
  BY <1>4, <1>t DEF EditWrite, EditSound, InStep
<1>5. CASE DisableWrite
  BY <1>5, <1>r DEF DisableWrite, Row, InStep, DeriveStatus
<1>6. ASSUME UNCHANGED produce PROVE FALSE
  BY <1>6 DEF InStep
<1>7. QED
  BY <1>1, <1>2, <1>3, <1>4, <1>5, <1>6
  DEF Next, Pay, ConfirmRead, ConfirmAborts, EditRead, EditDropped, DisableCheck

(* PUBLISHED and SOLD_OUT part from the stock only where confirm writes    *)
(* over a row changed since it read it, for every set of orders and edits. *)
THEOREM SpecDriftNeedsOverlap == Spec => DriftNeedsOverlap
<1>1. Inv /\ [Next]_vars =>
        [InStep(produce) /\ ~InStep(produce)' =>
           \E o \in Order : /\ order[o] = "PENDING"
                            /\ order'[o] = "CONFIRMED"
                            /\ confirming[o] # produce]_vars
  BY StepDrift DEF vars
<1>2. QED
  BY <1>1, Invariance, PTL DEF Spec, DriftNeedsOverlap

(* What takes a listing out of DISABLED, and what makes its status part    *)
(* from its stock, for any orders and edits of it.                         *)
THEOREM SpecStatusStrays == Spec => StatusStrays
  BY SpecLateRequestsRespectDisable, SpecDriftNeedsOverlap DEF StatusStrays

LEMMA SyncedStock ==
  ASSUME NEW row \in Row
  PROVE  Synced(row).actual = row.actual /\ Synced(row).floating = row.floating
  BY DEF Synced, Row

-----------------------------------------------------------------------------
(* The stock.  Finitely many orders have been placed, and an edit under way  *)
(* changes both quantities alike and leaves none below zero.                 *)
In(S) == {o \in Order : order[o] \in S}
Placed == {o \in Order : order[o] # "NONE"}
EditKeepsStock(e) ==
  editing[e] # Nothing =>
    /\ editing[e].write.floating - editing[e].write.actual
         = editing[e].read.floating - editing[e].read.actual
    /\ editing[e].write.floating >= 0
StockInv ==
  /\ IsFiniteSet(Placed)
  /\ \A e \in Edit : EditKeepsStock(e)
  /\ StockAccounted

LEMMA UnitsAreSum ==
  ASSUME NEW S
  PROVE  /\ UnitsIn(S) = Sum(Qty, In(S))
         /\ UnitsIn(S)' = Sum(Qty, In(S)')
  BY DEF UnitsIn, In, Sum, MapThenSumSet, MapThenFoldSet

LEMMA UnitsInt ==
  ASSUME IsFiniteSet(Placed), NEW S, "NONE" \notin S
  PROVE  /\ IsFiniteSet(In(S)) /\ UnitsIn(S) \in Nat
         /\ \A o \in Order : Qty[o] \in Nat
<1>1. In(S) \subseteq Placed
  BY DEF In, Placed
<1>2. IsFiniteSet(In(S))
  BY <1>1, FS_Subset
<1>3. \A o \in Order : Qty[o] \in Nat
  BY ShelfAssumption
<1>4. \A o \in In(S) : Qty[o] \in Nat
  BY <1>3 DEF In
<1>5. QED
  BY <1>2, <1>3, <1>4, SumNatural, UnitsAreSum

(* An order that moves takes its units from one set of statuses to another.  *)
LEMMA UnitsMove ==
  ASSUME TypeOK, IsFiniteSet(Placed), NEW S, "NONE" \notin S, NEW o \in Order, NEW to,
         order' = [order EXCEPT ![o] = to]
  PROVE  /\ (to \in S <=> order[o] \in S) => UnitsIn(S)' = UnitsIn(S)
         /\ to \in S /\ order[o] \notin S => UnitsIn(S)' = UnitsIn(S) + Qty[o]
         /\ to \notin S /\ order[o] \in S => UnitsIn(S)' = UnitsIn(S) - Qty[o]
<1>1. /\ IsFiniteSet(In(S)) /\ UnitsIn(S) \in Nat /\ \A p \in Order : Qty[p] \in Nat
  BY UnitsInt
<1>2. order'[o] = to /\ \A p \in Order : p # o => order'[p] = order[p]
  BY DEF TypeOK
<1>r. In(S) \subseteq Order /\ \A p \in In(S) : Qty[p] \in Int
  BY <1>1 DEF In
<1>3. CASE order[o] \in S /\ to \in S
  <2>1. In(S)' = In(S)
    BY <1>2, <1>3 DEF In
  <2>2. QED
    BY <1>1, <1>3, <2>1, UnitsAreSum
<1>4. CASE order[o] \notin S /\ to \notin S
  <2>1. In(S)' = In(S)
    BY <1>2, <1>4 DEF In
  <2>2. QED
    BY <1>1, <1>4, <2>1, UnitsAreSum
<1>5. CASE order[o] \notin S /\ to \in S
  <2>1. In(S)' = In(S) \cup {o} /\ o \notin In(S)
    BY <1>2, <1>5 DEF In
  <2>0. \A y \in In(S) \cup {o} : Qty[y] \in Int
    BY <1>1, <1>r
  <2>2. Sum(Qty, In(S) \cup {o}) = Qty[o] + Sum(Qty, In(S))
    BY <1>1, <2>0, <2>1, SumAdd
  <2>3. UnitsIn(S)' = Qty[o] + UnitsIn(S)
    BY <2>1, <2>2, UnitsAreSum
  <2>4. QED
    BY <1>1, <1>5, <2>3
<1>6. CASE order[o] \in S /\ to \notin S
  <2>1. In(S)' = In(S) \ {o} /\ o \in In(S)
    BY <1>2, <1>6 DEF In
  <2>2. Sum(Qty, In(S)) = Qty[o] + Sum(Qty, In(S) \ {o})
    BY <1>1, <1>r, <2>1, SumRemove
  <2>3. UnitsIn(S) = Qty[o] + UnitsIn(S)'
    BY <2>1, <2>2, UnitsAreSum
  <2>4. Sum(Qty, In(S) \ {o}) \in Int
    BY <1>1, <1>r, FS_RemoveElement, SumType
  <2>5. UnitsIn(S)' \in Int
    BY <2>1, <2>4, UnitsAreSum
  <2>6. QED
    BY <1>1, <1>6, <2>3, <2>5
<1>7. QED
  BY <1>3, <1>4, <1>5, <1>6

(* With what orders hold unchanged.                                          *)
LEMMA UnitsStay ==
  ASSUME UNCHANGED order
  PROVE  \A S : UnitsIn(S)' = UnitsIn(S)
<1>1. ASSUME NEW S PROVE UnitsIn(S)' = UnitsIn(S)
  <2>1. In(S)' = In(S)
    BY DEF In
  <2>2. QED
    BY <2>1, UnitsAreSum
<1>2. QED
  BY <1>1

LEMMA PlacedGrows ==
  ASSUME TypeOK, IsFiniteSet(Placed), NEW o \in Order, NEW to, order' = [order EXCEPT ![o] = to]
  PROVE  IsFiniteSet(Placed')
<1>1. Placed' \subseteq Placed \cup {o}
  BY DEF Placed, TypeOK
<1>2. IsFiniteSet(Placed \cup {o})
  BY FS_AddElement
<1>3. QED
  BY <1>1, <1>2, FS_Subset

LEMMA StockInit == Init => StockInv
<1> SUFFICES ASSUME Init PROVE StockInv
  OBVIOUS
<1>1. Placed = {} /\ \A S : "NONE" \notin S => In(S) = {}
  BY DEF Init, Placed, In
<1>2. \A S : "NONE" \notin S => UnitsIn(S) = 0
  BY <1>1, UnitsAreSum, SumEmpty
<1>3. PICK q \in 0..MaxActual, s \in ProduceStatus :
        produce = Synced([actual |-> q, floating |-> q, status |-> s]) /\ supplied = q
  BY DEF Init
<1>4. [actual |-> q, floating |-> q, status |-> s] \in Row /\ q \in Nat
  BY ShelfAssumption DEF Row
<1>5. produce.actual = q /\ produce.floating = q
  BY <1>3, <1>4, SyncedStock
<1>6. UnitsIn({"CONFIRMED"}) = 0 /\ UnitsIn(Uncommitted \cup {"CONFIRMED"}) = 0
  BY <1>2 DEF Uncommitted
<1>7. StockAccounted
  BY <1>3, <1>4, <1>5, <1>6 DEF StockAccounted
<1>8. QED
  BY <1>1, <1>7, FS_EmptySet DEF Init, StockInv, EditKeepsStock

LEMMA StockNext == Inv /\ StockInv /\ [Next]_vars => StockInv'
<1> SUFFICES ASSUME Inv, StockInv, [Next]_vars PROVE StockInv'
  OBVIOUS
<1> DEFINE C == {"CONFIRMED"}
           A == Uncommitted \cup {"CONFIRMED"}
<1>t. TypeOK /\ (\A o \in Order : ConfirmSound(o)) /\ IsFiniteSet(Placed)
  BY DEF Inv, StockInv
<1>s. /\ "NONE" \notin C /\ "NONE" \notin A
      /\ C \subseteq A
      /\ "CONFIRMED" \in C /\ "CONFIRMED" \in A
      /\ "PENDING" \notin C /\ "PENDING" \in A
      /\ "AWAITING_PAYMENT" \notin C /\ "AWAITING_PAYMENT" \in A
      /\ "CANCELLED" \notin A /\ "CANCELLED" \notin C
      /\ \A st \in OrderStatus : st \in A => st \in Uncommitted \/ st \in C
  BY DEF Uncommitted
<1>p. UnitsIn(C) \in Nat /\ UnitsIn(A) \in Nat /\ \A o \in Order : Qty[o] \in Nat
  BY <1>s, <1>t, UnitsInt
<1>r. produce \in Row /\ produce.actual \in Int /\ produce.floating \in Int /\ supplied \in Int
  BY <1>t DEF TypeOK, Row
<1>a. /\ produce.actual = supplied - UnitsIn(C)
      /\ produce.floating = supplied - UnitsIn(A)
      /\ 0 <= produce.floating /\ produce.floating <= produce.actual
  BY DEF StockInv, StockAccounted
<1>m. ASSUME NEW o \in Order, NEW to, order' = [order EXCEPT ![o] = to]
      PROVE  /\ IsFiniteSet(Placed')
             /\ (to \in C <=> order[o] \in C) => UnitsIn(C)' = UnitsIn(C)
             /\ to \in C /\ order[o] \notin C => UnitsIn(C)' = UnitsIn(C) + Qty[o]
             /\ to \notin C /\ order[o] \in C => UnitsIn(C)' = UnitsIn(C) - Qty[o]
             /\ (to \in A <=> order[o] \in A) => UnitsIn(A)' = UnitsIn(A)
             /\ to \in A /\ order[o] \notin A => UnitsIn(A)' = UnitsIn(A) + Qty[o]
             /\ to \notin A /\ order[o] \in A => UnitsIn(A)' = UnitsIn(A) - Qty[o]
  BY <1>m, <1>s, <1>t, UnitsMove, PlacedGrows
<1>e. ASSUME UNCHANGED editing PROVE \A e \in Edit : EditKeepsStock(e)'
  BY <1>e DEF StockInv, EditKeepsStock
<1>k. ASSUME UNCHANGED order PROVE IsFiniteSet(Placed') /\ UnitsIn(C)' = UnitsIn(C) /\ UnitsIn(A)' = UnitsIn(A)
  <2>1. Placed' = Placed
    BY <1>k DEF Placed
  <2>2. QED
    BY <1>k, <1>t, <2>1, UnitsStay
<1>g. ASSUME /\ produce'.actual = supplied' - UnitsIn(C)'
             /\ produce'.floating = supplied' - UnitsIn(A)'
             /\ 0 <= produce'.floating /\ produce'.floating <= produce'.actual
      PROVE  StockAccounted'
  BY <1>g DEF StockAccounted, Uncommitted
<1> HIDE DEF C, A
<1>1. ASSUME NEW o \in Order, Place(o) PROVE StockInv'
  <2>1. /\ order[o] = "NONE" /\ produce.floating >= Qty[o]
        /\ produce' = Synced([produce EXCEPT !.floating = produce.floating - Qty[o]])
        /\ order' = [order EXCEPT ![o] = "AWAITING_PAYMENT"]
        /\ UNCHANGED <<editing, supplied>>
    BY <1>1 DEF Place
  <2>2. [produce EXCEPT !.floating = produce.floating - Qty[o]] \in Row
    BY <1>r, <1>p DEF Row
  <2>3. produce'.actual = produce.actual /\ produce'.floating = produce.floating - Qty[o]
    BY <2>1, <2>2, SyncedStock, <1>r DEF Row
  <2>4. UnitsIn(C)' = UnitsIn(C) /\ UnitsIn(A)' = UnitsIn(A) + Qty[o]
    BY <2>1, <1>m, <1>s, <1>p
  <2>5. Qty[o] \in Nat
    BY <1>p
  <2>6. StockAccounted'
    BY <1>a, <1>g, <1>p, <1>r, <2>1, <2>3, <2>4, <2>5
  <2>7. QED
    BY <1>e, <1>m, <2>1, <2>6 DEF StockInv
<1>2. ASSUME NEW o \in Order, Pay(o) PROVE StockInv'
  <2>1. /\ order[o] = "AWAITING_PAYMENT" /\ order' = [order EXCEPT ![o] = "PENDING"]
        /\ UNCHANGED <<produce, editing, supplied>>
    BY <1>2 DEF Pay
  <2>2. UnitsIn(C)' = UnitsIn(C) /\ UnitsIn(A)' = UnitsIn(A)
    BY <2>1, <1>m, <1>s, <1>p
  <2>3. StockAccounted'
    BY <1>a, <1>g, <2>1, <2>2
  <2>4. QED
    BY <1>e, <1>m, <2>1, <2>3 DEF StockInv
<1>3. ASSUME NEW o \in Order, GiveBack(o) PROVE StockInv'
  <2> DEFINE back ==
        [actual |-> IF order[o] \in Uncommitted THEN produce.actual
                                                ELSE produce.actual + Qty[o],
         floating |-> produce.floating + Qty[o],
         status |-> produce.status]
  <2>0. Qty[o] \in Nat
    BY <1>p
  <2>1. /\ order[o] \in Uncommitted \/ order[o] = "CONFIRMED"
        /\ produce' = Synced(back)
        /\ order' = [order EXCEPT ![o] = "CANCELLED"]
        /\ UNCHANGED <<editing, supplied>>
    BY <1>3 DEF GiveBack, Uncommitted
  <2>2. back \in Row
    BY <1>r, <2>0 DEF Row
  <2>3. produce'.actual = back.actual /\ produce'.floating = back.floating
    BY <2>1, <2>2, SyncedStock
  <2>4. UnitsIn(A)' = UnitsIn(A) - Qty[o]
    BY <2>0, <2>1, <1>m, <1>s, <1>p DEF Uncommitted
  <2>5. CASE order[o] \in Uncommitted
    <3>1. UnitsIn(C)' = UnitsIn(C)
      BY <2>0, <2>1, <2>5, <1>m, <1>s, <1>p DEF Uncommitted
    <3>2. produce'.actual = produce.actual /\ produce'.floating = produce.floating + Qty[o]
      BY <2>3, <2>5
    <3>3. order'[o] = "CANCELLED"
      BY <2>1, <1>t DEF TypeOK
    <3>4. UnitsIn(C)' <= UnitsIn(A)'
      <4>1. IsFiniteSet(Placed') /\ In(C)' \subseteq In(A)'
        BY <2>1, <1>m, <1>s DEF In
      <4>2. In(A)' \subseteq Placed'
        BY <1>s DEF In, Placed
      <4>3. IsFiniteSet(In(A)')
        BY <4>1, <4>2, FS_Subset
      <4>4. \A p \in In(A)' : Qty[p] \in Nat
        BY <1>p DEF In
      <4>5. Sum(Qty, In(C)') <= Sum(Qty, In(A)')
        BY <4>1, <4>3, <4>4, SumSubset
      <4>6. QED
        BY <4>5, UnitsAreSum
    <3>5. StockAccounted'
      BY <1>a, <1>g, <1>p, <1>r, <2>0, <2>1, <2>4, <3>1, <3>2, <3>4
    <3>6. QED
      BY <1>e, <1>m, <2>1, <3>5 DEF StockInv
  <2>6. CASE order[o] = "CONFIRMED"
    <3>1. UnitsIn(C)' = UnitsIn(C) - Qty[o]
      BY <2>0, <2>1, <2>6, <1>m, <1>s, <1>p
    <3>2. produce'.actual = produce.actual + Qty[o] /\ produce'.floating = produce.floating + Qty[o]
      BY <2>3, <2>6 DEF Uncommitted
    <3>3. StockAccounted'
      BY <1>a, <1>g, <1>p, <1>r, <2>0, <2>1, <2>4, <3>1, <3>2
    <3>4. QED
      BY <1>e, <1>m, <2>1, <3>3 DEF StockInv
  <2>7. QED
    BY <2>1, <2>5, <2>6
<1>5. ASSUME NEW o \in Order, ConfirmWrite(o) PROVE StockInv'
  <2>0. Qty[o] \in Nat
    BY <1>p
  <2>1. /\ order[o] = "PENDING"
        /\ produce'.actual = produce.actual - Qty[o] /\ produce'.floating = produce.floating
        /\ order' = [order EXCEPT ![o] = "CONFIRMED"]
        /\ UNCHANGED <<editing, supplied>>
    BY <1>5, <1>t DEF ConfirmWrite, ConfirmSound
  <2>2. UnitsIn(C)' = UnitsIn(C) + Qty[o] /\ UnitsIn(A)' = UnitsIn(A)
    BY <2>0, <2>1, <1>m, <1>s, <1>p
  <2>3. UnitsIn(C)' <= UnitsIn(A)'
    <3>1. IsFiniteSet(Placed') /\ In(C)' \subseteq In(A)'
      BY <2>1, <1>m, <1>s DEF In
    <3>2. In(A)' \subseteq Placed'
      BY <1>s DEF In, Placed
    <3>3. IsFiniteSet(In(A)')
      BY <3>1, <3>2, FS_Subset
    <3>4. \A p \in In(A)' : Qty[p] \in Nat
      BY <1>p DEF In
    <3>5. Sum(Qty, In(C)') <= Sum(Qty, In(A)')
      BY <3>1, <3>3, <3>4, SumSubset
    <3>6. QED
      BY <3>5, UnitsAreSum
  <2>4. StockAccounted'
    BY <1>a, <1>g, <1>p, <1>r, <2>0, <2>1, <2>2, <2>3
  <2>5. QED
    BY <1>e, <1>m, <2>1, <2>4 DEF StockInv
<1>7. ASSUME NEW e \in Edit, EditRead(e) PROVE StockInv'
  <2>1. PICK a \in 0..MaxActual \cup {produce.actual} : \E s :
          /\ produce.floating + (a - produce.actual) >= 0
          /\ editing' = [editing EXCEPT ![e] =
               [read |-> produce,
                write |-> [actual |-> a, floating |-> produce.floating + (a - produce.actual),
                           status |-> s]]]
    BY <1>7 DEF EditRead
  <2>s. PICK s :
          editing' = [editing EXCEPT ![e] =
               [read |-> produce,
                write |-> [actual |-> a, floating |-> produce.floating + (a - produce.actual),
                           status |-> s]]]
    BY <2>1
  <2>2. a \in Int
    BY <1>r, ShelfAssumption
  <2>3. EditKeepsStock(e)'
    <3>1. editing'[e] = [read |-> produce,
                         write |-> [actual |-> a, floating |-> produce.floating + (a - produce.actual),
                                    status |-> s]]
      BY <2>s, <1>t DEF TypeOK
    <3>2. QED
      BY <2>1, <2>2, <3>1, <1>r DEF EditKeepsStock
  <2>4. \A d \in Edit : d # e => editing'[d] = editing[d]
    BY <2>s, <1>t DEF TypeOK
  <2>5. \A d \in Edit : EditKeepsStock(d)'
    BY <2>3, <2>4 DEF StockInv, EditKeepsStock
  <2>6. UNCHANGED <<order, produce, supplied>>
    BY <1>7 DEF EditRead
  <2>7. StockAccounted'
    BY <1>a, <1>g, <1>k, <2>6
  <2>8. QED
    BY <1>k, <2>5, <2>6, <2>7 DEF StockInv
<1>8. ASSUME NEW e \in Edit, EditWrite(e) PROVE StockInv'
  <2>1. /\ produce.actual = editing[e].read.actual /\ produce.floating = editing[e].read.floating
        /\ produce' = editing[e].write
        /\ supplied' = supplied + editing[e].write.actual - editing[e].read.actual
        /\ editing[e] # Nothing /\ editing' = [editing EXCEPT ![e] = Nothing]
        /\ UNCHANGED order
    BY <1>8 DEF EditWrite, UnchangedStock
  <2>2. editing[e].write.actual \in Int /\ editing[e].write.floating \in Int
    BY <2>1, <1>t DEF TypeOK, Row
  <2>3. /\ editing[e].write.floating - editing[e].write.actual
             = editing[e].read.floating - editing[e].read.actual
        /\ editing[e].write.floating >= 0
    BY <2>1 DEF StockInv, EditKeepsStock
  <2>4. UnitsIn(C)' = UnitsIn(C) /\ UnitsIn(A)' = UnitsIn(A) /\ IsFiniteSet(Placed')
    BY <2>1, <1>k
  <2>5. StockAccounted'
    BY <1>a, <1>g, <1>p, <1>r, <2>1, <2>2, <2>3, <2>4
  <2>6. \A d \in Edit : EditKeepsStock(d)'
    BY <2>1, <1>t DEF StockInv, EditKeepsStock, TypeOK
  <2>7. QED
    BY <2>4, <2>5, <2>6 DEF StockInv
<1>9. ASSUME NEW e \in Edit, EditDropped(e) PROVE StockInv'
  <2>1. editing' = [editing EXCEPT ![e] = Nothing] /\ UNCHANGED <<order, produce, supplied>>
    BY <1>9 DEF EditDropped
  <2>2. \A d \in Edit : EditKeepsStock(d)'
    BY <2>1, <1>t DEF StockInv, EditKeepsStock, TypeOK
  <2>3. StockAccounted'
    BY <1>a, <1>g, <1>k, <2>1
  <2>4. QED
    BY <1>k, <2>1, <2>2, <2>3 DEF StockInv
<1>10. ASSUME UNCHANGED <<order, editing, supplied>>,
              produce'.actual = produce.actual, produce'.floating = produce.floating
       PROVE  StockInv'
  BY <1>10, <1>a, <1>e, <1>g, <1>k DEF StockInv
<1>11. CASE DisableWrite
  <2>1. produce'.actual = produce.actual /\ produce'.floating = produce.floating
    BY <1>11, <1>r DEF DisableWrite, Row
  <2>2. QED
    BY <1>10, <1>11, <2>1 DEF DisableWrite
<1>12. QED
  BY <1>1, <1>2, <1>3, <1>5, <1>7, <1>8, <1>9, <1>10, <1>11
  DEF Next, vars, ConfirmRead, ConfirmAborts, DisableCheck

-----------------------------------------------------------------------------
(* Preparation *)

Writing(r, ops) == doing[r].step = "written" /\ doing[r].do \in ops

(* What a transaction has found before its write stays so until it commits,  *)
(* or the other row was written meanwhile.                                   *)
PreparationInv ==
  /\ W!TypeOK
  /\ \A r \in Request : Writing(r, {"ready"}) => stage = "PREPARING" /\ (ticks = Item \/ crossed)
  /\ \A r \in Request : Writing(r, {"tick"}) => stage = "PREPARING" \/ crossed
  /\ \A r, q \in Request : Writing(r, {"ready", "cancel"}) /\ Writing(q, {"tick"}) => crossed
  /\ \A r, q \in Request : Writing(r, {"ready", "cancel"}) /\ Writing(q, {"ready", "cancel"}) => r = q

LEMMA PreparationInit == W!Init => PreparationInv
<1> SUFFICES ASSUME W!Init PROVE PreparationInv
  OBVIOUS
<1>1. W!TypeOK
  BY DEF W!Init, W!TypeOK, W!Doing, W!OrderChecklist
<1>2. \A r \in Request : \A ops : ~Writing(r, ops)
  BY DEF W!Init, W!Idle, Writing
<1>3. QED
  BY <1>1, <1>2 DEF PreparationInv

(* A request that takes its next step, the others staying as they are.       *)
LEMMA PreparationType == W!TypeOK /\ [W!Next]_(W!vars) => W!TypeOK'
<1> SUFFICES ASSUME W!TypeOK, [W!Next]_(W!vars) PROVE W!TypeOK'
  OBVIOUS
<1>i. W!Idle \in W!Doing
  BY DEF W!Doing
<1>1. CASE W!Prepare
  BY <1>1 DEF W!Prepare, W!TypeOK
<1>2. ASSUME NEW r \in Request, W!TickRead(r) PROVE W!TypeOK'
  <2>1. PICK on \in W!OrderChecklist, off \in W!OrderChecklist :
          W!Begin(r, [do |-> "tick", step |-> "read", on |-> on, off |-> off])
    BY <1>2 DEF W!TickRead
  <2>2. [do |-> "tick", step |-> "read", on |-> on, off |-> off] \in W!Doing
    BY DEF W!Doing, W!Step
  <2>3. QED
    BY <2>1, <2>2 DEF W!TypeOK, W!Begin
<1>3. ASSUME NEW r \in Request, W!ReadyRead(r) PROVE W!TypeOK'
  <2>1. [do |-> "ready", step |-> "read"] \in W!Doing
    BY DEF W!Doing, W!Step
  <2>2. QED
    BY <1>3, <2>1 DEF W!TypeOK, W!ReadyRead, W!Begin
<1>4. ASSUME NEW r \in Request, W!CancelRead(r) PROVE W!TypeOK'
  <2>1. [do |-> "cancel", step |-> "read", saw |-> stage] \in W!Doing
    BY <1>4 DEF W!Doing, W!Step, W!CancelRead
  <2>2. QED
    BY <1>4, <2>1 DEF W!TypeOK, W!CancelRead, W!Begin
<1>5. ASSUME NEW r \in Request, NEW holds, NEW crosses \in BOOLEAN, W!Write(r, holds, crosses), doing[r] # W!Idle
      PROVE  W!TypeOK'
  <2>1. [doing[r] EXCEPT !.step = "written"] \in W!Doing
    <3>1. doing[r] \in W!Doing
      BY DEF W!TypeOK
    <3>2. CASE doing[r] \in [do : {"tick"}, step : W!Step, on : W!OrderChecklist, off : W!OrderChecklist]
      BY <3>2 DEF W!Doing, W!Step
    <3>3. CASE doing[r] \in [do : {"ready"}, step : W!Step]
      BY <3>3 DEF W!Doing, W!Step
    <3>4. CASE doing[r] \in [do : {"cancel"}, step : W!Step, saw : W!SellerCancellable]
      BY <3>4 DEF W!Doing, W!Step
    <3>5. QED
      BY <1>5, <3>1, <3>2, <3>3, <3>4 DEF W!Doing
  <2>2. \/ doing' = [doing EXCEPT ![r] = [doing[r] EXCEPT !.step = "written"]]
        \/ doing' = [doing EXCEPT ![r] = W!Idle]
    BY <1>5 DEF W!Write, W!Ends, W!TypeOK
  <2>3. doing' \in [Request -> W!Doing]
    BY <2>1, <2>2, <1>i DEF W!TypeOK
  <2>4. crossed' \in BOOLEAN /\ UNCHANGED <<stage, ticks>>
    BY <1>5 DEF W!Write, W!TypeOK
  <2>5. QED
    BY <2>3, <2>4 DEF W!TypeOK
<1>6. ASSUME NEW r \in Request, W!TickWrite(r) \/ W!ReadyWrite(r) \/ W!CancelWrite(r)
      PROVE  W!TypeOK'
  <2>1. doing[r] # W!Idle
    BY <1>6 DEF W!TickWrite, W!ReadyWrite, W!CancelWrite, W!Is, W!Idle
  <2>2. W!OrderHeld \in BOOLEAN /\ W!ChecklistHeld \in BOOLEAN
    BY DEF W!OrderHeld, W!ChecklistHeld, W!Held
  <2>3. QED
    BY <1>5, <1>6, <2>1, <2>2 DEF W!TickWrite, W!ReadyWrite, W!CancelWrite
<1>7. ASSUME NEW r \in Request, W!Ends(r), UNCHANGED crossed,
             stage' \in {stage, "READY", "CANCELLED"}, ticks' \in W!OrderChecklist
      PROVE  W!TypeOK'
  BY <1>7, <1>i DEF W!Ends, W!TypeOK
<1>8. ASSUME NEW r \in Request, W!TickCommit(r) PROVE W!TypeOK'
  <2>1. doing[r] \in [do : {"tick"}, step : W!Step, on : W!OrderChecklist, off : W!OrderChecklist]
    BY <1>8 DEF W!TickCommit, W!Is, W!TypeOK, W!Doing, W!Idle
  <2>2. ticks' \in W!OrderChecklist
    BY <1>8, <2>1 DEF W!TickCommit, W!TypeOK, W!OrderChecklist
  <2>3. QED
    BY <1>7, <1>8, <2>2 DEF W!TickCommit
<1>9. ASSUME NEW r \in Request, W!ReadyCommit(r) \/ W!CancelCommit(r) \/ W!Abort(r)
      PROVE  W!TypeOK'
  BY <1>7, <1>9 DEF W!ReadyCommit, W!CancelCommit, W!Abort, W!TypeOK
<1>10. CASE UNCHANGED W!vars
  BY <1>10 DEF W!vars, W!TypeOK
<1>11. QED
  BY <1>1, <1>2, <1>3, <1>4, <1>6, <1>8, <1>9, <1>10 DEF W!Next, W!Refused

LEMMA PreparationNext == PreparationInv /\ [W!Next]_(W!vars) => PreparationInv'
<1> SUFFICES ASSUME PreparationInv, [W!Next]_(W!vars) PROVE PreparationInv'
  OBVIOUS
<1>t. W!TypeOK /\ W!TypeOK'
  BY PreparationType DEF PreparationInv
<1>1. CASE W!Prepare
  BY <1>1, <1>t DEF W!Prepare, W!OrderHeld, W!Held, PreparationInv, Writing
<1>2. ASSUME NEW r \in Request, NEW new, doing' = [doing EXCEPT ![r] = new], new.step # "written",
             crossed' = crossed,
             ~Writing(r, {"ready", "cancel"}) => stage' = stage,
             ~Writing(r, {"tick"}) => ticks' = ticks
      PROVE  PreparationInv'
  <2>1. /\ \A ops : ~Writing(r, ops)'
        /\ \A q \in Request : \A ops : q # r => (Writing(q, ops)' <=> Writing(q, ops))
    BY <1>2, <1>t DEF Writing, W!TypeOK
  <2>2. ASSUME NEW q \in Request, Writing(q, {"ready"})'
        PROVE  stage' = "PREPARING" /\ (ticks' = Item \/ crossed')
    <3>1. q # r /\ Writing(q, {"ready"}) /\ Writing(q, {"ready", "cancel"})
      BY <2>1, <2>2 DEF Writing
    <3>2. stage = "PREPARING" /\ (ticks = Item \/ crossed)
      BY <3>1 DEF PreparationInv
    <3>3. stage' = stage
      BY <1>2, <3>1 DEF PreparationInv
    <3>4. ticks' = ticks \/ crossed
      BY <1>2, <3>1 DEF PreparationInv
    <3>5. QED
      BY <1>2, <3>2, <3>3, <3>4
  <2>3. ASSUME NEW q \in Request, Writing(q, {"tick"})' PROVE stage' = "PREPARING" \/ crossed'
    <3>1. q # r /\ Writing(q, {"tick"})
      BY <2>1, <2>3
    <3>2. stage' = stage \/ crossed
      BY <1>2, <3>1 DEF PreparationInv
    <3>3. QED
      BY <1>2, <3>1, <3>2 DEF PreparationInv
  <2>4. /\ \A p, q \in Request : Writing(p, {"ready", "cancel"})' /\ Writing(q, {"tick"})' => crossed'
        /\ \A p, q \in Request :
             Writing(p, {"ready", "cancel"})' /\ Writing(q, {"ready", "cancel"})' => p = q
    BY <1>2, <2>1 DEF PreparationInv
  <2>5. QED
    BY <1>t, <2>2, <2>3, <2>4 DEF PreparationInv
<1>3. ASSUME NEW r \in Request, W!TickRead(r) \/ W!ReadyRead(r) \/ W!CancelRead(r)
      PROVE  PreparationInv'
  <2>1. PICK new : W!Begin(r, new) /\ new.step = "read"
    <3>1. ASSUME NEW on, NEW off,
                 W!Begin(r, [do |-> "tick", step |-> "read", on |-> on, off |-> off])
          PROVE  \E new : W!Begin(r, new) /\ new.step = "read"
      <4> DEFINE what == [do |-> "tick", step |-> "read", on |-> on, off |-> off]
      <4>1. W!Begin(r, what) /\ what.step = "read"
        BY <3>1
      <4> HIDE DEF what
      <4>2. QED
        BY <4>1
    <3>2. ASSUME W!Begin(r, [do |-> "ready", step |-> "read"])
          PROVE  \E new : W!Begin(r, new) /\ new.step = "read"
      <4> DEFINE what == [do |-> "ready", step |-> "read"]
      <4>1. W!Begin(r, what) /\ what.step = "read"
        BY <3>2
      <4> HIDE DEF what
      <4>2. QED
        BY <4>1
    <3>3. ASSUME W!Begin(r, [do |-> "cancel", step |-> "read", saw |-> stage])
          PROVE  \E new : W!Begin(r, new) /\ new.step = "read"
      <4> DEFINE what == [do |-> "cancel", step |-> "read", saw |-> stage]
      <4>1. W!Begin(r, what) /\ what.step = "read"
        BY <3>3
      <4> HIDE DEF what
      <4>2. QED
        BY <4>1
    <3>4. QED
      BY <1>3, <3>1, <3>2, <3>3 DEF W!TickRead, W!ReadyRead, W!CancelRead
  <2>2. QED
    BY <1>2, <2>1 DEF W!Begin
<1>4. ASSUME NEW r \in Request, W!TickCommit(r) PROVE PreparationInv'
  <2>1. doing' = [doing EXCEPT ![r] = W!Idle] /\ UNCHANGED <<stage, crossed>> /\ Writing(r, {"tick"})
    BY <1>4 DEF W!TickCommit, W!Is, W!Ends, Writing
  <2>2. W!Idle.step # "written"
    BY DEF W!Idle
  <2>3. QED
    BY <1>2, <2>1, <2>2
<1>5. ASSUME NEW r \in Request, W!ReadyCommit(r) \/ W!CancelCommit(r) PROVE PreparationInv'
  <2>1. doing' = [doing EXCEPT ![r] = W!Idle] /\ UNCHANGED <<ticks, crossed>>
        /\ Writing(r, {"ready", "cancel"})
    BY <1>5 DEF W!ReadyCommit, W!CancelCommit, W!Is, W!Ends, Writing
  <2>2. W!Idle.step # "written"
    BY DEF W!Idle
  <2>3. QED
    BY <1>2, <2>1, <2>2
<1>6. ASSUME NEW r \in Request, W!Abort(r) PROVE PreparationInv'
  <2>1. doing' = [doing EXCEPT ![r] = W!Idle] /\ UNCHANGED <<stage, ticks, crossed>>
    BY <1>6 DEF W!Abort, W!Ends
  <2>2. W!Idle.step # "written"
    BY DEF W!Idle
  <2>3. QED
    BY <1>2, <2>1, <2>2
<1>7. ASSUME NEW r \in Request, NEW holds, NEW crosses \in BOOLEAN, W!Write(r, holds, crosses),
             \/ /\ doing[r].do = "tick"
                /\ holds => stage = "PREPARING"
                /\ crosses <=> W!OrderHeld
             \/ /\ doing[r].do = "ready"
                /\ holds => stage = "PREPARING" /\ ticks = Item
                /\ crosses <=> W!ChecklistHeld
                /\ ~W!OrderHeld
             \/ /\ doing[r].do = "cancel"
                /\ crosses <=> W!ChecklistHeld
                /\ ~W!OrderHeld
      PROVE  PreparationInv'
  <2>1. CASE ~holds
    <3>1. doing' = [doing EXCEPT ![r] = W!Idle] /\ UNCHANGED <<stage, ticks, crossed>>
      BY <1>7, <2>1 DEF W!Write, W!Ends
    <3>2. W!Idle.step # "written"
      BY DEF W!Idle
    <3>3. QED
      BY <1>2, <3>1, <3>2
  <2>2. CASE holds
    <3>1. /\ crossed' = (crossed \/ crosses) /\ UNCHANGED <<stage, ticks>>
          /\ doing' = [doing EXCEPT ![r].step = "written"]
      BY <1>7, <2>2 DEF W!Write
    <3>2. /\ \A q \in Request : \A ops : q # r => (Writing(q, ops)' <=> Writing(q, ops))
          /\ \A ops : Writing(r, ops)' => doing[r].do \in ops
      BY <3>1, <1>t DEF Writing, W!TypeOK
    <3>3. /\ W!OrderHeld <=> \E q \in Request : Writing(q, {"ready", "cancel"})
          /\ W!ChecklistHeld <=> \E q \in Request : Writing(q, {"tick"})
      BY DEF W!OrderHeld, W!ChecklistHeld, W!Held, Writing
    <3>4. /\ Writing(r, {"ready"})' => doing[r].do = "ready"
          /\ Writing(r, {"tick"})' => doing[r].do = "tick"
          /\ Writing(r, {"ready", "cancel"})' => doing[r].do \in {"ready", "cancel"}
      BY <3>2
    <3>5. ASSUME NEW q \in Request, Writing(q, {"ready"})'
          PROVE  stage' = "PREPARING" /\ (ticks' = Item \/ crossed')
      BY <1>7, <2>2, <3>1, <3>2, <3>4, <3>5 DEF PreparationInv
    <3>6. ASSUME NEW q \in Request, Writing(q, {"tick"})' PROVE stage' = "PREPARING" \/ crossed'
      BY <1>7, <2>2, <3>1, <3>2, <3>4, <3>6 DEF PreparationInv
    <3>7. ASSUME NEW p \in Request, NEW q \in Request,
                 Writing(p, {"ready", "cancel"})', Writing(q, {"tick"})'
          PROVE  crossed'
      <4>1. CASE p # r /\ q # r
        BY <3>1, <3>2, <3>7, <4>1 DEF PreparationInv
      <4>2. CASE p = r /\ q # r
        BY <1>7, <3>1, <3>2, <3>3, <3>4, <3>7, <4>2
      <4>3. CASE p # r /\ q = r
        BY <1>7, <3>1, <3>2, <3>3, <3>4, <3>7, <4>3
      <4>4. CASE p = r /\ q = r
        BY <3>4, <3>7, <4>4
      <4>5. QED
        BY <4>1, <4>2, <4>3, <4>4
    <3>8. ASSUME NEW p \in Request, NEW q \in Request, p # q,
                 Writing(p, {"ready", "cancel"})', Writing(q, {"ready", "cancel"})'
          PROVE  FALSE
      <4>1. CASE p # r /\ q # r
        BY <3>2, <3>8, <4>1 DEF PreparationInv
      <4>2. CASE p = r \/ q = r
        BY <1>7, <3>2, <3>3, <3>4, <3>8, <4>2
      <4>3. QED
        BY <4>1, <4>2
    <3>9. QED
      BY <1>t, <3>5, <3>6, <3>7, <3>8 DEF PreparationInv
  <2>3. QED
    BY <2>1, <2>2
<1>8. ASSUME NEW r \in Request, W!TickWrite(r) \/ W!ReadyWrite(r) \/ W!CancelWrite(r)
      PROVE  PreparationInv'
  <2>1. W!OrderHeld \in BOOLEAN /\ W!ChecklistHeld \in BOOLEAN
    BY DEF W!OrderHeld, W!ChecklistHeld, W!Held
  <2>2. CASE W!TickWrite(r)
    BY <2>1, <2>2, <1>7 DEF W!TickWrite, W!Is, W!TickGuard
  <2>3. CASE W!ReadyWrite(r)
    BY <2>1, <2>3, <1>7 DEF W!ReadyWrite, W!Is, W!ReadyGuard, W!Complete
  <2>4. CASE W!CancelWrite(r)
    BY <2>1, <2>4, <1>7 DEF W!CancelWrite, W!Is
  <2>5. QED
    BY <1>8, <2>2, <2>3, <2>4
<1>9. CASE UNCHANGED W!vars
  BY <1>9, <1>t DEF W!vars, PreparationInv, Writing
<1>10. QED
  BY <1>1, <1>3, <1>4, <1>5, <1>6, <1>8, <1>9 DEF W!Next, W!Refused

LEMMA StepReadyAsTicked ==
  ASSUME PreparationInv, W!Next
  PROVE  /\ stage' = "READY" /\ stage # "READY" => ticks = Item \/ crossed
         /\ ticks' # ticks => stage = "PREPARING" \/ crossed
<1>1. ASSUME NEW r \in Request, W!TickCommit(r)
      PROVE  UNCHANGED stage /\ (stage = "PREPARING" \/ crossed)
  BY <1>1 DEF W!TickCommit, W!Is, PreparationInv, Writing
<1>2. ASSUME NEW r \in Request, W!ReadyCommit(r)
      PROVE  UNCHANGED ticks /\ (ticks = Item \/ crossed)
  BY <1>2 DEF W!ReadyCommit, W!Is, PreparationInv, Writing
<1>3. CASE UNCHANGED ticks /\ (UNCHANGED stage \/ stage' # "READY")
  BY <1>3
<1>4. QED
  BY <1>1, <1>2, <1>3
  DEF W!Next, W!Prepare, W!Refused, W!vars, W!TickRead, W!TickWrite, W!ReadyRead, W!ReadyWrite,
      W!CancelRead, W!CancelWrite, W!CancelCommit, W!Abort, W!Begin, W!Write

-----------------------------------------------------------------------------
(* Evidence *)

(* Writes of the agent that set a field of the round; only Update touches    *)
(* evidenceStatus, and only the gaps of the part they write change.          *)
Drafts(a, piece, row) ==
  /\ piece \in E!Part
  /\ E!Draft(a, piece, row)
  /\ row.agent = round.agent /\ row.documents = round.documents
  /\ row.evidence = round.evidence \/ E!Update(a)
  /\ row.notes = round.notes \/ piece = "notes"
  /\ \A p \in E!Part : p # piece /\ E!Gap(row, p) => E!Gap(round, p)

LEMMA DraftRows ==
  ASSUME E!TypeOK, NEW a \in Agent,
         \/ E!SaveLocation(a) \/ E!Update(a)
         \/ \E k \in Check : E!SaveCheck(a, k) \/ E!AddPhoto(a, k) \/ E!RemoveEvidence(a, k)
  PROVE  \E piece \in E!Part, row \in E!Row : Drafts(a, piece, row)
<1>r. round \in E!Row
  BY DEF E!TypeOK
<1>p. "notes" \in E!Part /\ Check \subseteq E!Part
  BY DEF E!Part
<1>1. CASE E!SaveLocation(a)
  <2>1. PICK notes \in BOOLEAN : E!Draft(a, "notes", [round EXCEPT !.notes = notes])
    BY <1>1 DEF E!SaveLocation
  <2> DEFINE row == [round EXCEPT !.notes = notes]
  <2>2. /\ row \in E!Row /\ row.agent = round.agent /\ row.documents = round.documents
        /\ row.evidence = round.evidence /\ row.checks = round.checks /\ row.photos = round.photos
    BY <1>r DEF E!Row
  <2>3. E!Draft(a, "notes", row)
    BY <2>1
  <2> HIDE DEF row
  <2>4. \A p \in E!Part : p # "notes" /\ E!Gap(row, p) => E!Gap(round, p)
    BY <2>2 DEF E!Gap, E!CheckGap
  <2>5. Drafts(a, "notes", row)
    BY <1>p, <2>2, <2>3, <2>4 DEF Drafts
  <2>6. QED
    BY <1>p, <2>2, <2>5
<1>2. CASE E!Update(a)
  <2>1. PICK notes \in BOOLEAN, chosen \in E!EvidenceStatus :
          E!Draft(a, "notes", [round EXCEPT !.notes = notes, !.evidence = chosen])
    BY <1>2 DEF E!Update
  <2> DEFINE row == [round EXCEPT !.notes = notes, !.evidence = chosen]
  <2>2. /\ row \in E!Row /\ row.agent = round.agent /\ row.documents = round.documents
        /\ row.checks = round.checks /\ row.photos = round.photos
    BY <1>r DEF E!Row
  <2>3. E!Draft(a, "notes", row)
    BY <2>1
  <2> HIDE DEF row
  <2>4. \A p \in E!Part : p # "notes" /\ E!Gap(row, p) => E!Gap(round, p)
    BY <2>2 DEF E!Gap, E!CheckGap
  <2>5. Drafts(a, "notes", row)
    BY <1>2, <1>p, <2>2, <2>3, <2>4 DEF Drafts
  <2>6. QED
    BY <1>p, <2>2, <2>5
<1>3. ASSUME NEW k \in Check, E!SaveCheck(a, k)
      PROVE  \E piece \in E!Part, row \in E!Row : Drafts(a, piece, row)
  <2>1. PICK worth \in E!Worths(k) : E!Draft(a, k, [round EXCEPT !.checks[k] = worth])
    BY <1>3 DEF E!SaveCheck
  <2> DEFINE row == [round EXCEPT !.checks[k] = worth]
  <2>2. worth \in {"SETTLED", "EXPLAINED", "OPEN"}
    BY DEF E!Worths, E!Worth
  <2>3. /\ row \in E!Row /\ row.agent = round.agent /\ row.documents = round.documents
        /\ row.notes = round.notes /\ row.evidence = round.evidence
        /\ row.photos = round.photos /\ \A p \in Check : p # k => row.checks[p] = round.checks[p]
    BY <1>r, <2>2 DEF E!Row
  <2>4. E!Draft(a, k, row)
    BY <2>1
  <2> HIDE DEF row
  <2>5. \A p \in E!Part : p # k /\ E!Gap(row, p) => E!Gap(round, p)
    BY <2>3 DEF E!Gap, E!CheckGap
  <2>6. Drafts(a, k, row)
    BY <1>p, <2>3, <2>4, <2>5 DEF Drafts
  <2>7. QED
    BY <1>p, <2>3, <2>6
<1>4. ASSUME NEW k \in Check, E!AddPhoto(a, k) \/ E!RemoveEvidence(a, k)
      PROVE  \E piece \in E!Part, row \in E!Row : Drafts(a, piece, row)
  <2>1. PICK photos \in SUBSET Check :
          /\ E!Draft(a, k, [round EXCEPT !.photos = photos])
          /\ \A p \in Check : p # k => (p \in photos <=> p \in round.photos)
    <3>1. /\ round.photos \in SUBSET Check
          /\ round.photos \cup {k} \in SUBSET Check /\ round.photos \ {k} \in SUBSET Check
      BY <1>r DEF E!Row
    <3>2. \/ E!Draft(a, k, [round EXCEPT !.photos = round.photos \cup {k}])
          \/ E!Draft(a, k, [round EXCEPT !.photos = round.photos])
          \/ E!Draft(a, k, [round EXCEPT !.photos = round.photos \ {k}])
      BY <1>4 DEF E!AddPhoto, E!RemoveEvidence
    <3>3. QED
      BY <3>1, <3>2
  <2> DEFINE row == [round EXCEPT !.photos = photos]
  <2>2. /\ row \in E!Row /\ row.agent = round.agent /\ row.documents = round.documents
        /\ row.notes = round.notes /\ row.evidence = round.evidence
        /\ row.checks = round.checks /\ row.photos = photos
    BY <1>r DEF E!Row
  <2>3. E!Draft(a, k, row)
    BY <2>1
  <2> HIDE DEF row
  <2>4. \A p \in E!Part : p # k /\ E!Gap(row, p) => E!Gap(round, p)
    BY <2>1, <2>2 DEF E!Gap, E!CheckGap
  <2>5. Drafts(a, k, row)
    BY <1>p, <2>2, <2>3, <2>4 DEF Drafts
  <2>6. QED
    BY <1>p, <2>2, <2>5
<1>5. QED
  BY <1>1, <1>2, <1>3, <1>4

(* The status a transaction computes stays within the statuses.              *)
LEMMA RefreshedFacts ==
  ASSUME E!TypeOK, NEW papers, NEW documents
  PROVE  /\ E!Refreshed(papers, documents) \in E!EvidenceStatus
         /\ round.evidence \in Choice => E!Refreshed(papers, documents) = round.evidence
         /\ round.status \in E!Tracked =>
              \/ E!Refreshed(papers, documents) \in Choice
              \/ /\ E!Refreshed(papers, documents) \in {"INCOMPLETE", "MISSING_DOCS"}
                 /\ E!Refreshed(papers, documents) = "INCOMPLETE"
                      <=> E!DocumentsComplete(papers, documents)
<1>1. round.evidence \in E!EvidenceStatus
  BY DEF E!TypeOK, E!Row
<1>2. QED
  BY <1>1 DEF E!Refreshed, E!NextStatus, E!EvidenceStatus

(* A round that starts over.                                                 *)
LEMMA StartedOver ==
  ASSUME NEW holders \in SUBSET (SUBSET Agent), NEW late \in SUBSET Check,
         NEW photos \in SUBSET Check, E!TypeOK, E!StartOver(holders, late, photos)
  PROVE  /\ adding = E!Idle
         /\ turn' = turn + 1 /\ turn' \in 0..MaxTurns
         /\ round' \in E!Row
         /\ round'.agent = {} <=> round'.status = "UNASSIGNED"
         /\ round'.evidence = "MISSING_DOCS" /\ round'.documents = {}
         /\ UNCHANGED <<paper, adding, replacing, identity, asking, approving>>
<1> DEFINE checks == [k \in Check |-> IF k \in late THEN round.checks[k] ELSE "OPEN"]
<1>1. PICK holder \in holders :
        round' = [E!GivenTo(E!Cleared, holder) EXCEPT !.checks = checks, !.photos = photos]
  BY DEF E!StartOver, E!ResetRound
<1>2. E!Cleared \in E!Row
  BY DEF E!Cleared, E!Row, E!Status, E!EvidenceStatus
<1>3. checks \in [Check -> {"SETTLED", "EXPLAINED", "OPEN"}]
  BY DEF E!TypeOK, E!Row
<1> HIDE DEF checks
<1>4. PICK given \in E!Row : given = E!GivenTo(E!Cleared, holder)
  BY <1>2 DEF E!GivenTo, E!Row, E!Status
<1>5. /\ given.agent = {} <=> given.status = "UNASSIGNED"
      /\ given.evidence = "MISSING_DOCS" /\ given.documents = {}
  BY <1>2, <1>4 DEF E!GivenTo, E!Row, E!Cleared
<1>6. round' = [given EXCEPT !.checks = checks, !.photos = photos]
  BY <1>1, <1>4
<1>7. /\ round' \in E!Row /\ round'.agent = given.agent /\ round'.status = given.status
      /\ round'.evidence = given.evidence /\ round'.documents = given.documents
  BY <1>3, <1>6 DEF E!Row
<1>8. QED
  BY <1>5, <1>7, EvidenceAssumption DEF E!StartOver, E!calls, E!RowFree, E!EvidenceAssumption, E!TypeOK

LEMMA HoldersAreAgents ==
  \A A \in SUBSET Agent : E!OneOf(A) \in SUBSET (SUBSET Agent)
  BY DEF E!OneOf

LEMMA StartsOver ==
  ASSUME E!TypeOK, (\E a \in Agent : E!Decline(a)) \/ E!Relocate
  PROVE  \E holders \in SUBSET (SUBSET Agent), late, photos \in SUBSET Check :
           E!StartOver(holders, late, photos)
<1>1. round.photos \subseteq Check
  BY DEF E!TypeOK, E!Row
<1>2. QED
  BY <1>1, HoldersAreAgents DEF E!Decline, E!Relocate

(* What is read before it is used stays true enough: the round is held while *)
(* a document is added, a refresh keeps a choice it has seen, and while the  *)
(* round is the same the documents an approval found are there, and the gaps *)
(* among what it found are those opened since.                               *)
AddSound == adding.on =>
  /\ round.status \in E!Open
  /\ round.evidence \in Choice => adding.next = round.evidence
AskSound == asking.on => asking.saw \in E!Open
ApprovalSound ==
  \A a \in Agent : approving[a].on =>
    /\ approving[a].turn <= turn
    /\ approving[a].turn = turn =>
         /\ round.documents = Document
         /\ round.notes \/ "notes" \in approving[a].opened
         /\ approving[a].ready => paper = E!Paper /\ E!Gaps(round) \subseteq approving[a].opened

EvidenceInv ==
  /\ E!TypeOK
  /\ round.agent = {} <=> round.status = "UNASSIGNED"
  /\ AddSound
  /\ replacing.on /\ replacing.saw \in Choice => replacing.next = replacing.saw
  /\ identity.on /\ identity.saw \in Choice => identity.next = identity.saw
  /\ identity.on /\ identity.saw # "UNREAD" => identity.next \in E!EvidenceStatus
  /\ AskSound
  /\ ApprovalSound

LEMMA EvidenceInit == E!Init => EvidenceInv
<1> SUFFICES ASSUME E!Init PROVE EvidenceInv
  OBVIOUS
<1>1. E!Cleared \in E!Row
  BY DEF E!Cleared, E!Row, E!Status, E!EvidenceStatus
<1>2. E!TypeOK
  BY <1>1, EvidenceAssumption DEF E!Init, E!TypeOK, E!EvidenceAssumption
<1>3. QED
  BY <1>2 DEF E!Init, EvidenceInv, AddSound, AskSound, ApprovalSound, E!Idle, E!Cleared

(* Papers and documents only grow in a round, and drafts alone write the     *)
(* rest of the list.                                                         *)
Grows ==
  /\ turn' = turn
  /\ paper \subseteq paper' /\ round.documents \subseteq round'.documents
  /\ round'.notes = round.notes /\ round'.checks = round.checks /\ round'.photos = round.photos

Approving == [on : {TRUE}, turn : 0..MaxTurns, ready : BOOLEAN, opened : SUBSET E!Part]

LEMMA ApprovingTyped ==
  ASSUME E!TypeOK, NEW a \in Agent, approving[a].on
  PROVE  approving[a] \in Approving /\ approving[a].turn \in Nat /\ turn \in Nat
<1>1. approving[a] \in {E!Idle} \cup Approving /\ turn \in 0..MaxTurns
  BY DEF E!TypeOK, Approving
<1>2. approving[a] # E!Idle
  BY DEF E!Idle
<1>3. approving[a] \in Approving
  BY <1>1, <1>2
<1>4. approving[a].turn \in 0..MaxTurns
  BY <1>3 DEF Approving
<1>5. QED
  BY <1>1, <1>3, <1>4, EvidenceAssumption DEF E!EvidenceAssumption

LEMMA ApprovalsKept ==
  ASSUME E!TypeOK, E!TypeOK', ApprovalSound, UNCHANGED approving,
         Grows \/ turn' = turn + 1
  PROVE  ApprovalSound'
<1>1. \A a \in Agent : approving[a].on => approving[a].turn \in Nat /\ turn \in Nat
  BY ApprovingTyped
<1>2. CASE Grows
  <2>1. /\ round'.documents \subseteq Document /\ paper' \subseteq E!Paper
    BY DEF E!TypeOK, E!Row
  <2>2. E!Gaps(round') = E!Gaps(round)
    BY <1>2 DEF Grows, E!Gaps, E!Gap, E!CheckGap
  <2>3. ASSUME NEW a \in Agent, approving[a].on
        PROVE  /\ approving[a].turn <= turn'
               /\ approving[a].turn = turn' =>
                    /\ round'.documents = Document
                    /\ round'.notes \/ "notes" \in approving[a].opened
                    /\ approving[a].ready =>
                         paper' = E!Paper /\ E!Gaps(round') \subseteq approving[a].opened
    BY <1>2, <2>1, <2>2, <2>3 DEF ApprovalSound, Grows
  <2>4. QED
    BY <2>3 DEF ApprovalSound
<1>3. CASE turn' = turn + 1
  BY <1>1, <1>3 DEF ApprovalSound
<1>4. QED
  BY <1>2, <1>3

(* A draft opens or closes a gap in the part it writes, and recalls it.      *)
LEMMA ApprovalsDrafted ==
  ASSUME E!TypeOK, ApprovalSound, NEW a \in Agent, NEW piece, NEW row \in E!Row,
         Drafts(a, piece, row)
  PROVE  /\ ApprovalSound'
         /\ approving' \in [Agent -> {E!Idle} \cup Approving]
<1>1. /\ round' = [row EXCEPT !.status = "IN_PROGRESS"] /\ UNCHANGED <<paper, turn>>
      /\ approving' = E!Opening(piece, row) /\ piece \in E!Part
  BY DEF Drafts, E!Draft
<1>2. /\ round'.documents = round.documents /\ round'.notes = row.notes
      /\ round'.checks = row.checks /\ round'.photos = row.photos
  BY <1>1 DEF Drafts, E!Row
<1>3. E!Gaps(round') = E!Gaps(row)
  BY <1>2 DEF E!Gaps, E!Gap, E!CheckGap
<1>4. ASSUME NEW b \in Agent, approving[b].on
      PROVE  /\ approving'[b] \in Approving
             /\ approving'[b].turn = approving[b].turn /\ approving'[b].ready = approving[b].ready
             /\ approving'[b].opened =
                  (approving[b].opened \ {piece}) \cup ({piece} \cap E!Gaps(row))
  <2>1. approving'[b] = [approving[b] EXCEPT !.opened =
                           (approving[b].opened \ {piece}) \cup ({piece} \cap E!Gaps(row))]
    BY <1>1, <1>4 DEF E!Opening
  <2>2. approving[b] \in Approving
    BY <1>4, ApprovingTyped
  <2>3. (approving[b].opened \ {piece}) \cup ({piece} \cap E!Gaps(row)) \in SUBSET E!Part
    BY <1>1, <2>2 DEF Approving
  <2>4. QED
    BY <2>1, <2>2, <2>3 DEF Approving
<1>5. ASSUME NEW b \in Agent, ~approving[b].on
      PROVE  approving'[b] = approving[b] /\ approving[b] \in {E!Idle} \cup Approving
  BY <1>1, <1>5 DEF E!Opening, E!TypeOK, Approving
<1>6. approving' \in [Agent -> {E!Idle} \cup Approving]
  <2>1. \A b \in Agent : approving'[b] \in {E!Idle} \cup Approving
    BY <1>4, <1>5
  <2>2. approving' = [b \in Agent |-> approving'[b]]
    BY <1>1 DEF E!Opening
  <2>3. QED
    BY <2>1, <2>2
<1>7. ASSUME NEW b \in Agent, approving'[b].on
      PROVE  /\ approving'[b].turn <= turn'
             /\ approving'[b].turn = turn' =>
                  /\ round'.documents = Document
                  /\ round'.notes \/ "notes" \in approving'[b].opened
                  /\ approving'[b].ready =>
                       paper' = E!Paper /\ E!Gaps(round') \subseteq approving'[b].opened
  <2>1. approving[b].on
    BY <1>5, <1>7
  <2>2. /\ approving[b].turn <= turn
        /\ approving[b].turn = turn =>
             /\ round.documents = Document
             /\ round.notes \/ "notes" \in approving[b].opened
             /\ approving[b].ready => paper = E!Paper /\ E!Gaps(round) \subseteq approving[b].opened
    BY <2>1 DEF ApprovalSound
  <2>3. "notes" \in E!Part /\ (~row.notes => "notes" \in E!Gaps(row))
    BY DEF E!Gaps, E!Gap, E!Part
  <2>4. \A p \in E!Gaps(row) : p = piece \/ p \in E!Gaps(round)
    BY DEF Drafts, E!Gaps
  <2>5. row.notes = round.notes \/ piece = "notes"
    BY DEF Drafts
  <2>6. QED
    BY <1>1, <1>2, <1>3, <1>4, <2>1, <2>2, <2>3, <2>4, <2>5
<1>8. QED
  BY <1>6, <1>7 DEF ApprovalSound

LEMMA EvidenceNext == EvidenceInv /\ [E!Next]_(E!vars) => EvidenceInv'
<1> SUFFICES ASSUME EvidenceInv, [E!Next]_(E!vars) PROVE EvidenceInv'
  OBVIOUS
<1>t. /\ E!TypeOK /\ AddSound /\ AskSound /\ ApprovalSound
      /\ round.agent = {} <=> round.status = "UNASSIGNED"
      /\ replacing.on /\ replacing.saw \in Choice => replacing.next = replacing.saw
      /\ identity.on /\ identity.saw \in Choice => identity.next = identity.saw
      /\ identity.on /\ identity.saw # "UNREAD" => identity.next \in E!EvidenceStatus
  BY DEF EvidenceInv
<1>r. round \in E!Row /\ paper \subseteq E!Paper
  BY <1>t DEF E!TypeOK
<1>k. UNCHANGED <<paper, round, turn, approving>> /\ E!TypeOK' => ApprovalSound'
  BY <1>t, ApprovalsKept DEF Grows
<1>1. ASSUME NEW a \in Agent,
             \/ E!SaveLocation(a) \/ E!Update(a)
             \/ \E k \in Check : E!SaveCheck(a, k) \/ E!AddPhoto(a, k) \/ E!RemoveEvidence(a, k)
      PROVE  EvidenceInv'
  <2>1. PICK piece \in E!Part, row \in E!Row : Drafts(a, piece, row)
    BY <1>1, <1>t, DraftRows
  <2>2. /\ round' = [row EXCEPT !.status = "IN_PROGRESS"] /\ adding = E!Idle /\ a \in round.agent
        /\ UNCHANGED <<paper, turn, adding, replacing, identity, asking>>
    BY <2>1 DEF Drafts, E!Draft, E!RowFree, E!Holds
  <2>3. /\ round' \in E!Row /\ round'.agent = row.agent /\ round'.status = "IN_PROGRESS"
    BY <2>2 DEF E!Row, E!Status
  <2>4. ApprovalSound' /\ approving' \in [Agent -> {E!Idle} \cup Approving]
    BY <1>t, <2>1, ApprovalsDrafted
  <2>5. E!TypeOK'
    BY <1>t, <2>2, <2>3, <2>4 DEF E!TypeOK, Approving
  <2>6. round'.agent = round.agent /\ round'.agent # {}
    BY <2>1, <2>2, <2>3 DEF Drafts
  <2>7. QED
    BY <1>t, <2>2, <2>3, <2>4, <2>5, <2>6 DEF EvidenceInv, AddSound, AskSound, E!Idle
<1>2. ASSUME NEW a \in Agent, NEW d \in Document, E!AddRead(a, d) PROVE EvidenceInv'
  <2>1. /\ round.status \in E!Open /\ UNCHANGED <<paper, round, turn, replacing, identity, asking, approving>>
        /\ adding' = [on |-> TRUE, document |-> d,
                      next |-> E!Refreshed(paper, round.documents \cup {d})]
    BY <1>2 DEF E!AddRead, E!Holds, E!rows
  <2>2. /\ E!Refreshed(paper, round.documents \cup {d}) \in E!EvidenceStatus
        /\ round.evidence \in Choice =>
             E!Refreshed(paper, round.documents \cup {d}) = round.evidence
    BY <1>t, RefreshedFacts
  <2>3. E!TypeOK' /\ AddSound'
    BY <1>t, <2>1, <2>2 DEF E!TypeOK, AddSound
  <2>4. QED
    BY <1>t, <1>k, <2>1, <2>3 DEF EvidenceInv, AskSound
<1>3. CASE E!AddCommit
  <2>a. adding.on /\ adding \in {E!Idle} \cup [on : {TRUE}, document : Document, next : E!EvidenceStatus]
    BY <1>3, <1>t DEF E!AddCommit, E!TypeOK
  <2>b. adding # E!Idle /\ round.status \in E!Open
    BY <2>a, <1>t DEF E!Idle, AddSound
  <2>1. /\ adding \in [on : {TRUE}, document : Document, next : E!EvidenceStatus]
        /\ round.status \in E!Open
    BY <2>a, <2>b
  <2>2. /\ round' = [round EXCEPT !.status = "IN_PROGRESS", !.evidence = adding.next,
                                  !.documents = round.documents \cup {adding.document}]
        /\ adding' = E!Idle
        /\ UNCHANGED <<paper, turn, replacing, identity, asking, approving>>
    BY <1>3 DEF E!AddCommit
  <2>3. /\ round' \in E!Row /\ round'.status = "IN_PROGRESS" /\ round'.agent = round.agent
        /\ round'.documents = round.documents \cup {adding.document}
        /\ round'.notes = round.notes /\ round'.checks = round.checks /\ round'.photos = round.photos
    BY <1>r, <2>1, <2>2 DEF E!Row, E!Status
  <2>4. E!TypeOK'
    BY <1>t, <2>2, <2>3 DEF E!TypeOK
  <2>5. Grows
    BY <2>2, <2>3 DEF Grows
  <2>6. round'.agent # {}
    BY <1>t, <2>1, <2>3 DEF E!Open
  <2>7. QED
    BY <1>t, <2>2, <2>3, <2>4, <2>5, <2>6, ApprovalsKept DEF EvidenceInv, AddSound, AskSound, E!Idle
<1>4. CASE E!AddAborts
  <2>1. E!TypeOK'
    BY <1>4, <1>t DEF E!AddAborts, E!TypeOK, E!rows
  <2>2. QED
    BY <1>4, <1>t, <1>k, <2>1 DEF E!AddAborts, E!rows, EvidenceInv, AddSound, AskSound, E!Idle
<1>5. ASSUME NEW new \in SUBSET E!Paper,
             E!ReplaceDocuments(new) \/ \E a \in Agent : E!UploadDocuments(a, new)
      PROVE  EvidenceInv'
  <2>1. /\ UNCHANGED <<paper, round, turn, adding, identity, asking, approving>>
        /\ replacing' = [on |-> TRUE, paper |-> new, saw |-> round.evidence,
                         next |-> E!Refreshed(paper \cup new, round.documents)]
    BY <1>5 DEF E!ReplaceDocuments, E!UploadDocuments, E!ReplaceRead, E!rows
  <2>2. /\ E!Refreshed(paper \cup new, round.documents) \in E!EvidenceStatus
        /\ round.evidence \in E!EvidenceStatus
        /\ round.evidence \in Choice =>
             E!Refreshed(paper \cup new, round.documents) = round.evidence
    BY <1>t, <1>r, RefreshedFacts DEF E!Row
  <2>3. E!TypeOK'
    BY <1>t, <2>1, <2>2 DEF E!TypeOK
  <2>4. QED
    BY <1>t, <1>k, <2>1, <2>2, <2>3 DEF EvidenceInv, AddSound, AskSound
<1>w. ASSUME NEW next \in E!EvidenceStatus, NEW saw,
             round' = E!Written(saw, next), next # saw => adding = E!Idle,
             paper \subseteq paper', paper' \subseteq E!Paper,
             UNCHANGED <<turn, adding, asking, approving>>
      PROVE  /\ round' \in E!Row /\ Grows
             /\ round'.agent = {} <=> round'.status = "UNASSIGNED"
             /\ AddSound'
             /\ AskSound'
  <2>1. /\ round' \in E!Row /\ round'.agent = round.agent /\ round'.status = round.status
        /\ round'.documents = round.documents /\ round'.notes = round.notes
        /\ round'.checks = round.checks /\ round'.photos = round.photos
    BY <1>w, <1>r DEF E!Row, E!Written
  <2>2. AddSound'
    BY <1>w, <1>t, <2>1 DEF AddSound, E!Written, E!Idle
  <2>3. QED
    BY <1>w, <1>t, <2>1, <2>2 DEF Grows, AskSound
<1>6. CASE E!ReplaceCommit
  <2> DEFINE Replacing == [on : {TRUE}, paper : SUBSET E!Paper, saw : E!EvidenceStatus,
                           next : E!EvidenceStatus]
  <2>a. replacing.on /\ replacing \in {E!Idle} \cup Replacing
    BY <1>6, <1>t DEF E!ReplaceCommit, E!TypeOK
  <2>b. replacing # E!Idle
    BY <2>a DEF E!Idle
  <2>1. replacing \in Replacing
    BY <2>a, <2>b
  <2>2. /\ replacing.next # replacing.saw => adding = E!Idle
        /\ paper' = paper \cup replacing.paper /\ round' = E!Written(replacing.saw, replacing.next)
        /\ replacing' = E!Idle /\ UNCHANGED <<turn, adding, identity, asking, approving>>
    BY <1>6 DEF E!ReplaceCommit, E!RowFree
  <2>3. paper \subseteq paper' /\ paper' \subseteq E!Paper /\ replacing.next \in E!EvidenceStatus
    BY <1>r, <2>1, <2>2
  <2>4. /\ round' \in E!Row /\ Grows
        /\ round'.agent = {} <=> round'.status = "UNASSIGNED"
        /\ AddSound' /\ AskSound'
    BY <1>w, <2>2, <2>3
  <2>5. E!TypeOK'
    BY <1>t, <2>2, <2>3, <2>4 DEF E!TypeOK
  <2>6. QED
    BY <1>t, <2>2, <2>4, <2>5, ApprovalsKept DEF EvidenceInv, E!Idle
<1>7. CASE E!ReplaceAborts
  <2>1. E!TypeOK'
    BY <1>7, <1>t DEF E!ReplaceAborts, E!TypeOK, E!rows
  <2>2. QED
    BY <1>7, <1>t, <1>k, <2>1 DEF E!ReplaceAborts, E!rows, EvidenceInv, AddSound, AskSound, E!Idle
<1>8. CASE E!IdentityWrite
  <2>1. /\ paper' = paper \cup {"FARMER_ID"} /\ UNCHANGED <<round, turn, adding, replacing, asking, approving>>
        /\ identity' = [on |-> TRUE, saw |-> "UNREAD", next |-> "UNREAD"]
    BY <1>8 DEF E!IdentityWrite
  <2>2. E!TypeOK'
    BY <1>t, <2>1 DEF E!TypeOK, E!Paper
  <2>3. Grows
    BY <2>1 DEF Grows
  <2>4. QED
    BY <1>t, <2>1, <2>2, <2>3, ApprovalsKept, EvidenceAssumption
    DEF EvidenceInv, AddSound, AskSound, E!EvidenceAssumption
<1>9. CASE E!IdentityRead
  <2>1. /\ UNCHANGED <<paper, round, turn, adding, replacing, asking, approving>>
        /\ identity' = [on |-> TRUE, saw |-> round.evidence, next |-> E!Refreshed(paper, round.documents)]
    BY <1>9 DEF E!IdentityRead, E!rows
  <2>2. /\ E!Refreshed(paper, round.documents) \in E!EvidenceStatus
        /\ round.evidence \in E!EvidenceStatus
        /\ round.evidence \in Choice => E!Refreshed(paper, round.documents) = round.evidence
    BY <1>t, <1>r, RefreshedFacts DEF E!Row
  <2>3. E!TypeOK'
    BY <1>t, <2>1, <2>2 DEF E!TypeOK
  <2>4. QED
    BY <1>t, <1>k, <2>1, <2>2, <2>3 DEF EvidenceInv, AddSound, AskSound
<1>10. CASE E!IdentityRefresh
  <2>1. /\ identity.on /\ identity.saw # "UNREAD"
        /\ identity.next # identity.saw => adding = E!Idle
        /\ round' = E!Written(identity.saw, identity.next) /\ identity' = E!Idle
        /\ UNCHANGED <<paper, turn, adding, replacing, asking, approving>>
    BY <1>10 DEF E!IdentityRefresh, E!RowFree
  <2>2. identity.next \in E!EvidenceStatus
    BY <1>t, <2>1
  <2>3. paper' \subseteq E!Paper
    BY <1>r, <2>1
  <2>4. /\ round' \in E!Row /\ Grows
        /\ round'.agent = {} <=> round'.status = "UNASSIGNED"
        /\ AddSound' /\ AskSound'
    BY <1>w, <2>1, <2>2, <2>3
  <2>5. E!TypeOK'
    BY <1>t, <2>1, <2>3, <2>4 DEF E!TypeOK
  <2>6. QED
    BY <1>t, <2>1, <2>4, <2>5, ApprovalsKept DEF EvidenceInv, E!Idle
<1>11. CASE E!IdentityDies
  <2>1. E!TypeOK'
    BY <1>11, <1>t DEF E!IdentityDies, E!TypeOK, E!rows
  <2>2. QED
    BY <1>11, <1>t, <1>k, <2>1 DEF E!IdentityDies, E!rows, EvidenceInv, AddSound, AskSound, E!Idle
<1>12. CASE E!AskRead
  <2>1. /\ UNCHANGED <<paper, round, turn, adding, replacing, identity, approving>>
        /\ asking' = [on |-> TRUE, saw |-> round.status] /\ E!MayAsk
    BY <1>12 DEF E!AskRead, E!rows
  <2>2. round.status \in E!Open
    BY <1>t, <1>r, <2>1 DEF E!MayAsk, E!Decided, E!Row, E!Status, E!Open
  <2>3. E!TypeOK' /\ AskSound'
    BY <1>t, <2>1, <2>2 DEF E!TypeOK, AskSound, E!Open, E!Status
  <2>4. QED
    BY <1>t, <1>k, <2>1, <2>3 DEF EvidenceInv, AddSound
<1>13. CASE E!AskWrite
  <2>1. /\ round' = [round EXCEPT !.evidence = "AWAITING_DOCS"] /\ adding = E!Idle
        /\ asking' = E!Idle /\ UNCHANGED <<paper, turn, adding, replacing, identity, approving>>
    BY <1>13 DEF E!AskWrite, E!RowFree
  <2>2. /\ round' \in E!Row /\ round'.agent = round.agent /\ round'.status = round.status
        /\ round'.documents = round.documents /\ round'.notes = round.notes
        /\ round'.checks = round.checks /\ round'.photos = round.photos
    BY <1>r, <2>1, EvidenceAssumption DEF E!Row, E!EvidenceStatus, E!EvidenceAssumption
  <2>3. E!TypeOK' /\ Grows
    BY <1>t, <2>1, <2>2 DEF E!TypeOK, Grows
  <2>4. QED
    BY <1>t, <2>1, <2>2, <2>3, ApprovalsKept DEF EvidenceInv, AddSound, AskSound, E!Idle
<1>14. ASSUME NEW a \in Agent, E!ApproveRead(a) PROVE EvidenceInv'
  <2> DEFINE began == [on |-> TRUE, turn |-> turn, ready |-> FALSE, opened |-> {}]
  <2>1. /\ approving' = [approving EXCEPT ![a] = began]
        /\ UNCHANGED <<paper, round, turn, adding, replacing, identity, asking>>
        /\ round.notes /\ round.documents = Document
    BY <1>14 DEF E!ApproveRead, E!rows, E!RowComplete
  <2>2. turn \in 0..MaxTurns /\ turn \in Nat
    BY <1>t, EvidenceAssumption DEF E!TypeOK, E!EvidenceAssumption
  <2>3. /\ began \in Approving /\ began.turn = turn /\ began.on /\ ~began.ready
    BY <2>2 DEF Approving
  <2> HIDE DEF began
  <2>4. E!TypeOK'
    BY <1>t, <2>1, <2>3 DEF E!TypeOK, Approving
  <2>5. approving'[a] = began /\ \A b \in Agent : b # a => approving'[b] = approving[b]
    BY <1>t, <2>1 DEF E!TypeOK
  <2>6. E!Gaps(round') = E!Gaps(round)
    BY <2>1
  <2>7. ApprovalSound'
    BY <1>t, <2>1, <2>2, <2>3, <2>5, <2>6 DEF ApprovalSound
  <2>8. QED
    BY <1>t, <2>1, <2>4, <2>7 DEF EvidenceInv, AddSound, AskSound
<1>21. ASSUME NEW a \in Agent, E!ApproveInclude(a) PROVE EvidenceInv'
  <2>1. /\ UNCHANGED <<paper, round, turn, adding, replacing, identity, asking>>
        /\ approving[a].on
    BY <1>21 DEF E!ApproveInclude, E!rows
  <2>2. approving[a] \in Approving
    BY <1>t, <2>1, ApprovingTyped
  <2>3. E!Gaps(round') = E!Gaps(round)
    BY <2>1
  <2>4. PICK next \in {E!Idle} \cup Approving :
          /\ approving' = [approving EXCEPT ![a] = next]
          /\ next # E!Idle => /\ next.turn = approving[a].turn /\ next.opened = approving[a].opened
                              /\ E!RestComplete
    <3>1. CASE E!RestComplete
      <4> DEFINE all == [approving[a] EXCEPT !.ready = TRUE]
      <4>1. approving' = [approving EXCEPT ![a] = all]
        BY <1>21, <3>1 DEF E!ApproveInclude
      <4>2. /\ all \in Approving
            /\ all.turn = approving[a].turn /\ all.opened = approving[a].opened
        BY <2>2 DEF Approving
      <4> HIDE DEF all
      <4>3. QED
        BY <3>1, <4>1, <4>2
    <3>2. CASE ~E!RestComplete
      BY <1>21, <3>2 DEF E!ApproveInclude
    <3>3. QED
      BY <3>1, <3>2
  <2>5. E!TypeOK'
    BY <1>t, <2>1, <2>4 DEF E!TypeOK, Approving
  <2>6. approving'[a] = next /\ \A b \in Agent : b # a => approving'[b] = approving[b]
    BY <1>t, <2>4 DEF E!TypeOK
  <2>7. ASSUME E!RestComplete, round.notes \/ "notes" \in approving[a].opened
        PROVE  paper = E!Paper /\ E!Gaps(round) \subseteq approving[a].opened
    BY <2>7 DEF E!RestComplete, E!Gaps, E!Gap
  <2>8. ApprovalSound'
    BY <1>t, <2>1, <2>3, <2>4, <2>6, <2>7 DEF ApprovalSound, E!Idle
  <2>9. QED
    BY <1>t, <2>1, <2>5, <2>8 DEF EvidenceInv, AddSound, AskSound
<1>15. ASSUME NEW a \in Agent, E!ApproveCommit(a) \/ E!Reject(a) PROVE EvidenceInv'
  <2>1. /\ adding = E!Idle /\ UNCHANGED <<paper, turn, adding, replacing, identity, asking>>
        /\ approving' \in {approving, [approving EXCEPT ![a] = E!Idle]}
        /\ \/ round' = round
           \/ /\ a \in round.agent
              /\ \E st \in E!Decided : round' = [round EXCEPT !.status = st]
    BY <1>15 DEF E!ApproveCommit, E!Reject, E!RowFree, E!Holds, E!calls, E!Decided
  <2>2. /\ round' \in E!Row /\ round'.agent = round.agent
        /\ round'.agent = {} <=> round'.status = "UNASSIGNED"
        /\ round'.documents = round.documents /\ round'.notes = round.notes
        /\ round'.checks = round.checks /\ round'.photos = round.photos
    BY <1>r, <1>t, <2>1 DEF E!Row, E!Status, E!Decided
  <2>3. E!TypeOK'
    BY <1>t, <2>1, <2>2 DEF E!TypeOK
  <2>4. \A b \in Agent : approving'[b] \in {approving[b], E!Idle}
    BY <1>t, <2>1 DEF E!TypeOK
  <2>5. E!Gaps(round') = E!Gaps(round)
    BY <2>2 DEF E!Gaps, E!Gap, E!CheckGap
  <2>6. ApprovalSound'
    BY <1>t, <2>1, <2>2, <2>4, <2>5 DEF ApprovalSound, E!Idle
  <2>7. QED
    BY <1>t, <2>1, <2>2, <2>3, <2>6 DEF EvidenceInv, AddSound, AskSound, E!Idle
<1>17. ASSUME (\E a \in Agent : E!Decline(a)) \/ E!Relocate PROVE EvidenceInv'
  <2>1. PICK holders \in SUBSET (SUBSET Agent), late \in SUBSET Check, photos \in SUBSET Check :
          E!StartOver(holders, late, photos)
    BY <1>17, <1>t, StartsOver
  <2>2. /\ adding = E!Idle /\ turn' = turn + 1 /\ turn' \in 0..MaxTurns
        /\ round' \in E!Row
        /\ round'.agent = {} <=> round'.status = "UNASSIGNED"
        /\ UNCHANGED <<paper, adding, replacing, identity, asking, approving>>
    BY <2>1, <1>t, StartedOver
  <2>3. E!TypeOK'
    BY <1>t, <2>2 DEF E!TypeOK
  <2>4. QED
    BY <1>t, <2>2, <2>3, ApprovalsKept DEF EvidenceInv, AddSound, AskSound, E!Idle
<1>18. CASE E!AssignWaiting
  <2>1. PICK a \in Agent : round' = E!GivenTo(round, {a})
    BY <1>18 DEF E!AssignWaiting
  <2>2. /\ adding = E!Idle
        /\ UNCHANGED <<paper, turn, adding, replacing, identity, asking, approving>>
    BY <1>18 DEF E!AssignWaiting, E!RowFree, E!calls
  <2>3. /\ round' \in E!Row /\ round'.agent = {a} /\ round'.status = "ASSIGNED"
        /\ round'.documents = round.documents /\ round'.notes = round.notes
        /\ round'.checks = round.checks /\ round'.photos = round.photos
    BY <1>r, <2>1 DEF E!GivenTo, E!Row, E!Status
  <2>4. E!TypeOK' /\ Grows
    BY <1>t, <2>2, <2>3 DEF E!TypeOK, Grows
  <2>5. QED
    BY <1>t, <2>2, <2>3, <2>4, ApprovalsKept DEF EvidenceInv, AddSound, AskSound, E!Idle
<1>19. CASE UNCHANGED E!vars
  <2>1. E!TypeOK'
    BY <1>19, <1>t DEF E!vars, E!rows, E!calls, E!TypeOK
  <2>2. QED
    BY <1>19, <1>t, <1>k, <2>1 DEF E!vars, E!rows, E!calls, EvidenceInv, AddSound, AskSound
<1>20. QED
  BY <1>1, <1>2, <1>3, <1>4, <1>5, <1>6, <1>7, <1>8, <1>9, <1>10, <1>11, <1>12, <1>13, <1>14, <1>15,
     <1>17, <1>18, <1>19, <1>21 DEF E!Next

(* Told depends on the round's status, choice and documents, and the papers. *)
LEMMA ToldStays ==
  ASSUME E!Told, paper' = paper, round'.documents = round.documents,
         round'.evidence = round.evidence,
         round'.status \in E!Tracked => round.status \in E!Tracked
  PROVE  E!Told'
  BY DEF E!Told, E!DocumentsComplete

(* A refresh that read what still holds tells the truth.                     *)
LEMMA FreshIsTold ==
  ASSUME E!TypeOK, NEW papers, NEW documents,
         paper' = papers, round'.documents = documents,
         round'.evidence = E!Refreshed(papers, documents),
         round'.status \in E!Tracked => round.status \in E!Tracked
  PROVE  E!Told'
  BY RefreshedFacts DEF E!Told, E!DocumentsComplete

LEMMA StepStatusFollows ==
  ASSUME EvidenceInv, E!Next, E!Told, ~E!Told'
  PROVE  \/ \E a \in Agent : E!Update(a)
         \/ E!IdentityWrite
         \/ E!AddCommit /\ E!AddStale
         \/ E!ReplaceCommit /\ E!ReplaceStale
         \/ E!IdentityRefresh /\ E!IdentityStale
<1>t. E!TypeOK /\ AddSound /\ round \in E!Row
  BY DEF EvidenceInv, E!TypeOK
<1>1. ASSUME NEW a \in Agent,
             \/ E!SaveLocation(a) \/ E!Update(a)
             \/ \E k \in Check : E!SaveCheck(a, k) \/ E!AddPhoto(a, k) \/ E!RemoveEvidence(a, k)
      PROVE  E!Update(a)
  <2>1. PICK piece \in E!Part, row \in E!Row : Drafts(a, piece, row)
    BY <1>1, <1>t, DraftRows
  <2>2. /\ round' = [row EXCEPT !.status = "IN_PROGRESS"] /\ round.status \in E!Open
        /\ UNCHANGED paper
    BY <2>1 DEF Drafts, E!Draft, E!Holds
  <2>3. /\ round'.documents = round.documents /\ round'.evidence = row.evidence
    BY <2>1, <2>2 DEF E!Row, Drafts
  <2>4. round.status \in E!Tracked
    BY <2>2 DEF E!Open, E!Tracked
  <2>5. CASE row.evidence = round.evidence
    BY <2>2, <2>3, <2>4, <2>5, ToldStays
  <2>6. QED
    BY <2>1, <2>5 DEF Drafts
<1>2. CASE UNCHANGED E!rows
  BY <1>2, ToldStays DEF E!rows
<1>3. ASSUME E!AddCommit, ~E!AddStale PROVE FALSE
  <2>1. /\ round'.documents = round.documents \cup {adding.document}
        /\ round'.evidence = adding.next /\ paper' = paper
    BY <1>3, <1>t DEF E!AddCommit, E!Row
  <2>2. round.status \in E!Tracked
    BY <1>3, <1>t DEF E!AddCommit, AddSound, E!Open, E!Tracked
  <2>3. QED
    BY <1>3, <1>t, <2>1, <2>2, FreshIsTold DEF E!AddStale
<1>w. ASSUME NEW papers, NEW saw, NEW next,
             round' = E!Written(saw, next), paper' = papers, saw = round.evidence,
             next = E!Refreshed(papers, round.documents)
      PROVE  FALSE
  <2>1. /\ round'.documents = round.documents /\ round'.status = round.status
        /\ round'.evidence = next
    BY <1>w, <1>t DEF E!Written, E!Row
  <2>2. QED
    BY <1>w, <1>t, <2>1, FreshIsTold
<1>4. ASSUME E!ReplaceCommit, ~E!ReplaceStale PROVE FALSE
  BY <1>4, <1>w DEF E!ReplaceCommit, E!ReplaceStale
<1>5. ASSUME E!IdentityRefresh, ~E!IdentityStale PROVE FALSE
  BY <1>5, <1>w DEF E!IdentityRefresh, E!IdentityStale
<1>6. CASE E!AskWrite
  <2>1. round'.evidence \in Choice
    BY <1>6, <1>t, EvidenceAssumption DEF E!AskWrite, E!Row, E!EvidenceAssumption
  <2>2. QED
    BY <2>1 DEF E!Told
<1>7. ASSUME NEW a \in Agent, E!ApproveCommit(a) \/ E!Reject(a) PROVE FALSE
  <2>1. \/ round' = round
        \/ \E st \in E!Decided : round' = [round EXCEPT !.status = st]
    BY <1>7 DEF E!ApproveCommit, E!Reject, E!Decided
  <2>2. /\ round'.documents = round.documents /\ round'.evidence = round.evidence
        /\ round'.status = round.status \/ round'.status \in E!Decided
    BY <2>1, <1>t DEF E!Row
  <2>3. round'.status \in E!Tracked => round.status \in E!Tracked
    BY <2>2 DEF E!Tracked, E!Decided
  <2>4. QED
    BY <1>7, <2>2, <2>3, ToldStays DEF E!ApproveCommit, E!Reject
<1>8. ASSUME (\E a \in Agent : E!Decline(a)) \/ E!Relocate PROVE FALSE
  <2>1. round'.evidence = "MISSING_DOCS" /\ round'.documents = {}
    BY <1>8, <1>t, StartsOver, StartedOver
  <2>2. QED
    BY <2>1, EvidenceAssumption DEF E!Told, E!DocumentsComplete, E!EvidenceAssumption
<1>9. CASE E!AssignWaiting
  <2>1. PICK a \in Agent : round' = E!GivenTo(round, {a})
    BY <1>9 DEF E!AssignWaiting
  <2>2. /\ round'.documents = round.documents /\ round'.evidence = round.evidence
        /\ round.status \in E!Tracked /\ paper' = paper
    BY <1>9, <1>t, <2>1 DEF E!GivenTo, E!Row, E!AssignWaiting, E!Tracked
  <2>3. QED
    BY <2>2, ToldStays
<1>10. QED
  BY <1>1, <1>2, <1>3, <1>4, <1>5, <1>6, <1>7, <1>8, <1>9
  DEF E!Next, E!AddRead, E!ApproveRead, E!ApproveInclude, E!AddAborts, E!ReplaceDocuments, E!UploadDocuments,
      E!ReplaceRead, E!ReplaceAborts, E!IdentityRead, E!IdentityDies, E!AskRead

LEMMA StepChoicesStay ==
  ASSUME EvidenceInv, E!Next, round.evidence \in Choice, round'.evidence \notin Choice,
         turn' = turn
  PROVE  \/ \E a \in Agent : E!Update(a)
         \/ E!IdentityRefresh /\ identity.saw # round.evidence
         \/ E!ReplaceCommit /\ replacing.saw # round.evidence
<1>t. /\ E!TypeOK /\ AddSound /\ round \in E!Row
      /\ replacing.on /\ replacing.saw \in Choice => replacing.next = replacing.saw
      /\ identity.on /\ identity.saw \in Choice => identity.next = identity.saw
  BY DEF EvidenceInv, E!TypeOK
<1>1. ASSUME NEW a \in Agent,
             \/ E!SaveLocation(a) \/ E!Update(a)
             \/ \E k \in Check : E!SaveCheck(a, k) \/ E!AddPhoto(a, k) \/ E!RemoveEvidence(a, k)
      PROVE  E!Update(a)
  <2>1. PICK piece \in E!Part, row \in E!Row : Drafts(a, piece, row)
    BY <1>1, <1>t, DraftRows
  <2>2. round' = [row EXCEPT !.status = "IN_PROGRESS"]
    BY <2>1 DEF Drafts, E!Draft
  <2>3. round'.evidence = row.evidence
    BY <2>1, <2>2 DEF E!Row, Drafts
  <2>4. QED
    BY <2>1, <2>3 DEF Drafts
<1>2. CASE round' = round
  BY <1>2
<1>3. ASSUME E!AddCommit PROVE FALSE
  <2>1. round'.evidence = adding.next
    BY <1>3, <1>t DEF E!AddCommit, E!Row
  <2>2. QED
    BY <1>3, <1>t, <2>1 DEF E!AddCommit, AddSound
<1>4. ASSUME E!ReplaceCommit, replacing.saw = round.evidence PROVE FALSE
  BY <1>4, <1>t, <1>2 DEF E!ReplaceCommit, E!Written
<1>5. ASSUME E!IdentityRefresh, identity.saw = round.evidence PROVE FALSE
  BY <1>5, <1>t, <1>2 DEF E!IdentityRefresh, E!Written
<1>6. ASSUME E!AskWrite PROVE FALSE
  BY <1>6, <1>t, EvidenceAssumption DEF E!AskWrite, E!Row, E!EvidenceAssumption
<1>7. ASSUME NEW a \in Agent, E!ApproveCommit(a) \/ E!Reject(a) PROVE FALSE
  <2>1. \/ round' = round
        \/ \E st \in E!Decided : round' = [round EXCEPT !.status = st]
    BY <1>7 DEF E!ApproveCommit, E!Reject, E!Decided
  <2>2. QED
    BY <2>1, <1>t DEF E!Row
<1>8. ASSUME (\E a \in Agent : E!Decline(a)) \/ E!Relocate PROVE FALSE
  <2>1. turn' = turn + 1 /\ turn \in Nat
    <3>2. turn' = turn + 1
      BY <1>8, <1>t, StartsOver, StartedOver
    <3>3. QED
      BY <3>2, <1>t, EvidenceAssumption DEF E!TypeOK, E!EvidenceAssumption
  <2>2. QED
    BY <2>1
<1>9. ASSUME E!AssignWaiting PROVE FALSE
  BY <1>9, <1>t DEF E!GivenTo, E!Row, E!AssignWaiting
<1>10. QED
  BY <1>1, <1>2, <1>3, <1>4, <1>5, <1>6, <1>7, <1>8, <1>9
  DEF E!Next, E!AddRead, E!ApproveRead, E!ApproveInclude, E!AddAborts, E!ReplaceDocuments, E!UploadDocuments,
      E!ReplaceRead, E!ReplaceAborts, E!IdentityRead, E!IdentityDies, E!AskRead, E!IdentityWrite,
      E!rows

LEMMA StepAsked ==
  ASSUME EvidenceInv, E!AskWrite PROVE E!MayAsk \/ asking.saw # round.status
  BY DEF EvidenceInv, AskSound, E!AskWrite, E!MayAsk, E!Open, E!Decided

(* An approval that ends in an approved round had read the whole list.       *)
LEMMA StepApproves ==
  ASSUME EvidenceInv, E!Next, NEW a \in Agent,
         round.status # "APPROVED", round'.status = "APPROVED", approving[a].on, ~approving'[a].on
  PROVE  approving[a].ready
<1>t. E!TypeOK /\ round \in E!Row /\ DOMAIN approving = Agent
  BY DEF EvidenceInv, E!TypeOK
<1>1. CASE UNCHANGED round \/ UNCHANGED approving
  BY <1>1
<1>2. ASSUME NEW b \in Agent, E!ApproveCommit(b) PROVE approving[a].ready
  <2>1. b = a
    BY <1>2, <1>t DEF E!ApproveCommit
  <2>2. QED
    BY <1>2, <2>1 DEF E!ApproveCommit
<1>3. ASSUME NEW b \in Agent,
             \/ E!SaveLocation(b) \/ E!Update(b)
             \/ \E k \in Check : E!SaveCheck(b, k) \/ E!AddPhoto(b, k) \/ E!RemoveEvidence(b, k)
      PROVE  FALSE
  <2>1. PICK piece \in E!Part, row \in E!Row : Drafts(b, piece, row)
    BY <1>3, <1>t, DraftRows
  <2>2. round' = [row EXCEPT !.status = "IN_PROGRESS"]
    BY <2>1 DEF Drafts, E!Draft
  <2>3. QED
    BY <2>2 DEF E!Row
<1>4. QED
  BY <1>1, <1>2, <1>3
  DEF E!Next, E!AddRead, E!ApproveRead, E!ApproveInclude, E!AddCommit, E!AddAborts, E!ReplaceDocuments,
      E!UploadDocuments, E!ReplaceRead, E!ReplaceCommit, E!ReplaceAborts, E!IdentityWrite,
      E!IdentityRead, E!IdentityRefresh, E!IdentityDies, E!AskRead, E!AskWrite, E!Reject, E!Decline,
      E!Relocate, E!StartOver, E!AssignWaiting, E!rows, E!calls

-----------------------------------------------------------------------------
(* Each component by itself                                                  *)

LEMMA EachPart ==
  /\ InitTogether => Init /\ E!Init /\ W!Init
  /\ [NextTogether]_together => [Next]_vars /\ [E!Next]_(E!vars) /\ [W!Next]_(W!vars)
  BY DEF InitTogether, NextTogether, together, ofEvidence, ofPreparation, vars,
         E!vars, E!rows, E!calls, W!vars

(* A behaviour of the composition is one of the shelf, of the evidence of a  *)
(* round and of the preparation of an order.                                 *)
LEMMA FirstParts == OneOfThem => Spec /\ E!Spec /\ W!Spec
<1>1. QED
  BY EachPart, PTL DEF OneOfThem, Spec, E!Spec, W!Spec

(* The stock of a listing accounts for every order placed on it, for any     *)
(* orders and edits.                                                         *)
THEOREM TogetherStockAccounted == OneOfThem => []StockAccounted
<1>1. Spec => [](Inv /\ StockInv)
  BY InitInv, NextInv, StockInit, StockNext, PTL DEF Spec
<1>2. StockInv => StockAccounted
  BY DEF StockInv
<1>3. QED
  BY <1>1, <1>2, FirstParts, PTL

(* What takes a listing out of DISABLED, and what makes its status part      *)
(* from its stock.                                                           *)
THEOREM TogetherStatusStrays == OneOfThem => StatusStrays
<1>1. QED
  BY FirstParts, SpecStatusStrays

(* The invariant of the preparation of an order.                             *)
THEOREM PreparationInvariance == W!Spec => []PreparationInv
<1>1. QED
  BY PreparationInit, PreparationNext, PTL DEF W!Spec

(* An order is READY as it was ticked, for any items and requests.           *)
THEOREM TogetherReadyAsTicked == OneOfThem => ReadyAsTicked
<1>1. PreparationInv /\ [W!Next]_(W!vars) =>
        [/\ stage' = "READY" /\ stage # "READY" => ticks = Item \/ crossed
         /\ ticks' # ticks => stage = "PREPARING" \/ crossed]_(W!vars)
  BY StepReadyAsTicked
<1>2. W!Spec => W!ReadyAsTicked
  BY <1>1, PreparationInvariance, PTL DEF W!Spec, W!ReadyAsTicked
<1>3. W!ReadyAsTicked => ReadyAsTicked
  BY DEF ReadyAsTicked
<1>4. QED
  BY <1>2, <1>3, FirstParts, PTL

(* The invariant of the evidence of a round.                                 *)
THEOREM EvidenceInvariance == E!Spec => []EvidenceInv
<1>1. QED
  BY EvidenceInit, EvidenceNext, PTL DEF E!Spec

(* An approved round had its documents, and no gap but what the agent's own  *)
(* drafts opened meanwhile, for any agents, checks and rounds.               *)
THEOREM TogetherApprovedWhole == OneOfThem => ApprovedWhole
<1>1. EvidenceInv /\ [E!Next]_(E!vars) =>
        [\A a \in Agent :
           round.status # "APPROVED" /\ round'.status = "APPROVED" /\ approving[a].on
             /\ ~approving'[a].on /\ approving[a].turn = turn
           => /\ E!DocumentsComplete(paper, round.documents)
              /\ E!Gaps(round) \subseteq approving[a].opened]_(E!vars)
  <2> SUFFICES ASSUME EvidenceInv, E!Next, NEW a \in Agent,
                      round.status # "APPROVED", round'.status = "APPROVED", approving[a].on,
                      ~approving'[a].on, approving[a].turn = turn
               PROVE  /\ E!DocumentsComplete(paper, round.documents)
                      /\ E!Gaps(round) \subseteq approving[a].opened
    BY DEF E!vars, E!rows
  <2>1. approving[a].ready
    BY StepApproves
  <2>2. QED
    BY <2>1 DEF EvidenceInv, ApprovalSound, E!DocumentsComplete
<1>2. E!Spec => E!ApprovedWhole
  BY <1>1, EvidenceInvariance, PTL DEF E!Spec, E!ApprovedWhole
<1>3. E!ApprovedWhole => ApprovedWhole
  BY DEF ApprovedWhole
<1>4. QED
  BY <1>2, <1>3, FirstParts, PTL

(* Which overlaps make evidenceStatus part from the documents, undo a choice *)
(* or ask a decided round, for any agents, documents and checks.             *)
THEOREM TogetherEvidenceKept == OneOfThem => EvidenceKept
<1>1. EvidenceInv /\ [E!Next]_(E!vars) =>
        [E!Told /\ ~E!Told' =>
           \/ \E a \in Agent : E!Update(a)
           \/ E!IdentityWrite
           \/ E!AddCommit /\ E!AddStale
           \/ E!ReplaceCommit /\ E!ReplaceStale
           \/ E!IdentityRefresh /\ E!IdentityStale]_(E!vars)
  BY StepStatusFollows
<1>2. EvidenceInv /\ [E!Next]_(E!vars) =>
        [/\ round.evidence \in Choice /\ round'.evidence \notin Choice /\ turn' = turn =>
              \/ \E a \in Agent : E!Update(a)
              \/ E!IdentityRefresh /\ identity.saw # round.evidence
              \/ E!ReplaceCommit /\ replacing.saw # round.evidence
         /\ E!AskWrite => (E!MayAsk \/ asking.saw # round.status)]_(E!vars)
  BY StepChoicesStay, StepAsked
<1>3. E!Spec => E!StatusFollows
  BY <1>1, EvidenceInvariance, PTL DEF E!Spec, E!StatusFollows
<1>4. E!Spec => E!ChoicesStay
  BY <1>2, EvidenceInvariance, PTL DEF E!Spec, E!ChoicesStay
<1>5. E!StatusFollows /\ E!ChoicesStay => EvidenceKept
  BY DEF EvidenceKept, E!EvidenceKept
<1>6. QED
  BY <1>3, <1>4, <1>5, FirstParts, PTL

-----------------------------------------------------------------------------
(* The profiles: a request under way has read what it goes on to write.       *)

(* The calls of each kind. *)
BuyerCall == [do : {"buyer"}, place : P!Place, kind : P!Kind \cup {None}, company : SUBSET Field]
AgentCall == [do : {"agent"}, place : P!Place, saw : P!AgentRow]
CreateCall == [do : {"create"}, place : P!Place, first : BOOLEAN]
UpdateCall == [do : {"update"}, id : P!Id, sent : P!Place, default : BOOLEAN]
RemoveCall == [do : {"remove"}, id : P!Id, default : BOOLEAN]

LEMMA CallKinds ==
  ASSUME NEW c \in P!Call
  PROVE  /\ c.do = "none" => c = P!Idle
         /\ c.do = "buyer" => c \in BuyerCall
         /\ c.do = "agent" => c \in AgentCall
         /\ c.do = "create" => c \in CreateCall
         /\ c.do = "update" => c \in UpdateCall
         /\ c.do = "remove" => c \in RemoveCall
         /\ c.do \in {"none", "buyer", "agent", "create", "update", "remove"}
<1>1. \/ c \in {P!Idle} \/ c \in BuyerCall \/ c \in AgentCall
      \/ c \in CreateCall \/ c \in UpdateCall \/ c \in RemoveCall
  BY DEF P!Call, BuyerCall, AgentCall, CreateCall, UpdateCall, RemoveCall
<1>2. /\ c \in {P!Idle} => c.do = "none"
      /\ c \in BuyerCall => c.do = "buyer"
      /\ c \in AgentCall => c.do = "agent"
      /\ c \in CreateCall => c.do = "create"
      /\ c \in UpdateCall => c.do = "update"
      /\ c \in RemoveCall => c.do = "remove"
  BY DEF P!Idle, BuyerCall, AgentCall, CreateCall, UpdateCall, RemoveCall
<1>3. QED
  BY <1>1, <1>2

LEMMA CallsAre ==
  /\ P!Idle \in P!Call
  /\ BuyerCall \subseteq P!Call /\ AgentCall \subseteq P!Call /\ CreateCall \subseteq P!Call
  /\ UpdateCall \subseteq P!Call /\ RemoveCall \subseteq P!Call
  BY DEF P!Call, BuyerCall, AgentCall, CreateCall, UpdateCall, RemoveCall

(* What a call is to write holds of the row it was completed from, and under *)
(* the lock of the address book that row stays.                              *)
Locks(r) == call[r].do \in {"create", "update", "remove"}
Settled(place) == place = P!Nowhere \/ P!Valid(place)
CallSound(r) ==
  LET c == call[r]
  IN /\ c.do = "buyer" => /\ Settled(c.place)
                          /\ c.kind # None => c.company = P!CompanyOf(c.kind)
     /\ c.do = "agent" => P!Valid(c.place) /\ (c.saw.verified => c.place.lga = c.saw.place.lga)
     /\ c.do = "create" => /\ P!Valid(c.place) /\ (c.first <=> P!Saved = {})
                           /\ P!Newest(P!Saved) < MaxId
                           /\ P!Cardinality(P!Saved) < MaxAddresses
     /\ c.do = "update" => /\ c.id \in P!Saved
                           /\ c.sent = P!Nowhere \/ P!Valid(P!Merged(c.sent, book[c.id].place))
     /\ c.do = "remove" => c.id \in P!Saved /\ (c.default <=> book[c.id].default)

BookWhole ==
  /\ \A i \in P!Saved : P!Valid(book[i].place)
  /\ P!Saved # {} => P!Default # {}
  /\ P!OneDefault
  /\ P!Cardinality(P!Saved) <= MaxAddresses

PeopleWhole ==
  /\ Settled(buyer.place) /\ Settled(agent.place)
  /\ buyer.company = P!CompanyOf(buyer.kind)
  /\ agent.cluster = agent.place.lga

ProfilesInv ==
  /\ P!TypeOK
  /\ PeopleWhole
  /\ BookWhole
  /\ \A r \in Request : CallSound(r)
  /\ \A r, q \in Request : Locks(r) /\ Locks(q) => r = q

LEMMA PlaceFacts ==
  /\ P!Nowhere \in P!Place /\ ~P!Valid(P!Nowhere)
  /\ P!Nowhere.lga = None
  BY ProfilesAssumption DEF P!ProfilesAssumption, P!Nowhere, P!Place, P!Valid

LEMMA MergedFacts ==
  ASSUME NEW sent \in P!Place, NEW place \in P!Place
  PROVE  /\ P!Merged(sent, place) \in P!Place
         /\ sent = P!Nowhere => P!Merged(sent, place) = place
         /\ P!Checked(sent, place) \in SUBSET P!Place
         /\ \A p \in P!Checked(sent, place) :
              IF sent = P!Nowhere THEN p = P!Nowhere ELSE P!Valid(p) /\ p = P!Merged(sent, place)
<1>1. P!Merged(sent, place) \in P!Place
  BY DEF P!Merged, P!Sent, P!Place
<1>2. sent = P!Nowhere => P!Merged(sent, place) = place
  BY DEF P!Merged, P!Sent, P!Place, P!Nowhere
<1>3. QED
  BY <1>1, <1>2, PlaceFacts DEF P!Checked

LEMMA SavedFinite ==
  ASSUME P!TypeOK
  PROVE  /\ IsFiniteSet(P!Saved) /\ P!Cardinality(P!Saved) \in Nat
         /\ P!Cardinality(P!Saved) = Cardinality(P!Saved)
         /\ P!Saved \in SUBSET P!Id /\ P!Id \in SUBSET (Nat \ {0})
<1>1. P!Saved \in SUBSET P!Id /\ P!Id \in SUBSET (Nat \ {0}) /\ MaxId \in Nat
  BY ProfilesAssumption DEF P!Saved, P!Id, P!ProfilesAssumption
<1>2. IsFiniteSet(P!Id)
  BY <1>1, FS_Interval DEF P!Id
<1>3. P!Cardinality(P!Saved) = Cardinality(P!Saved)
  BY DEF P!Cardinality, Cardinality
<1>4. QED
  BY <1>1, <1>2, <1>3, FS_Subset, FS_CardinalityType

(* The newest of some ids is one of them, and there is none above it. *)
LEMMA NewestFacts ==
  ASSUME NEW S \in SUBSET P!Id
  PROVE  /\ P!Newest(S) \in Nat
         /\ S # {} => P!Newest(S) \in S
         /\ \A i \in S : i <= P!Newest(S)
<1>0. P!Id \in SUBSET (Nat \ {0}) /\ MaxId \in Nat
  BY ProfilesAssumption DEF P!Id, P!ProfilesAssumption
<1>1. CASE S = {}
  BY <1>1 DEF P!Newest
<1>2. CASE S # {}
  <2> DEFINE Below == {n \in Nat : \E i \in S : i + n = MaxId}
  <2>1. Below # {}
    <3>1. PICK i \in S : TRUE
      BY <1>2
    <3>2. i \in Nat /\ i <= MaxId
      BY <1>0 DEF P!Id
    <3>3. MaxId - i \in Nat /\ i + (MaxId - i) = MaxId
      BY <3>2, <1>0
    <3>4. QED
      BY <3>3
  <2>2. PICK n \in Below : \A m \in Below : ~(<<m, n>> \in OpToRel(<, Nat))
    BY <2>1, NatLessThanWellFounded, WFMin
  <2>3. PICK i \in S : i + n = MaxId /\ n \in Nat
    OBVIOUS
  <2>4. ASSUME NEW j \in S PROVE i >= j
    <3>1. j \in Nat /\ j <= MaxId /\ i \in Nat
      BY <1>0 DEF P!Id
    <3>2. MaxId - j \in Below
      <4>1. MaxId - j \in Nat /\ j + (MaxId - j) = MaxId
        BY <3>1, <1>0
      <4>2. QED
        BY <4>1
    <3>3. ~(MaxId - j < n)
      <4>1. ~(<<MaxId - j, n>> \in OpToRel(<, Nat))
        BY <2>2, <3>2
      <4>2. MaxId - j \in Nat
        BY <3>1, <1>0
      <4>3. QED
        BY <2>3, <4>1, <4>2 DEF OpToRel
    <3>4. QED
      BY <1>0, <2>3, <3>1, <3>3
  <2>5. P!Max(S) \in S /\ \A j \in S : P!Max(S) >= j
    BY <2>4 DEF P!Max
  <2>6. QED
    BY <1>0, <1>2, <2>5 DEF P!Newest
<1>3. QED
  BY <1>1, <1>2

LEMMA ProfilesInit == P!Init => ProfilesInv
<1> SUFFICES ASSUME P!Init PROVE ProfilesInv
  OBVIOUS
<1>1. P!TypeOK
  BY PlaceFacts, CallsAre
  DEF P!Init, P!TypeOK, P!BuyerRow, P!AgentRow, P!Kind
<1>2. PeopleWhole
  BY PlaceFacts DEF P!Init, PeopleWhole, Settled, P!CompanyOf
<1>3. P!Saved = {}
  BY DEF P!Init, P!Saved
<1>4. BookWhole
  <2>1. Cardinality(P!Saved) = 0
    BY <1>3, FS_EmptySet
  <2>2. P!Cardinality(P!Saved) = 0
    BY <2>1, <1>1, SavedFinite
  <2>3. QED
    BY <1>3, <2>2, ProfilesAssumption DEF BookWhole, P!OneDefault, P!ProfilesAssumption
<1>5. \A r \in Request : call[r].do = "none"
  BY DEF P!Init, P!Idle
<1>6. QED
  BY <1>1, <1>2, <1>4, <1>5 DEF ProfilesInv, CallSound, Locks

(* What a call is to write stays right while the address book stays.         *)
LEMMA CallsStay ==
  ASSUME NEW r \in Request, CallSound(r), call'[r] = call[r],
         UNCHANGED book \/ ~Locks(r)
  PROVE  CallSound(r)'
<1>1. (call[r].do = "buyer" \/ call[r].do = "agent") => CallSound(r)'
  BY DEF CallSound, Settled, P!Valid, P!Nowhere, P!CompanyOf
<1>2. CASE UNCHANGED book
  BY <1>2 DEF CallSound, Settled, P!Valid, P!Nowhere, P!CompanyOf, P!Saved, P!Merged, P!Sent,
              P!Newest
<1>3. CASE ~Locks(r)
  BY <1>1, <1>3 DEF CallSound, Locks
<1>4. QED
  BY <1>2, <1>3

(* A step of one request, while the others and the address book stay. *)
LEMMA OneCall ==
  ASSUME ProfilesInv, NEW r \in Request, NEW c \in P!Call, call' = [call EXCEPT ![r] = c],
         UNCHANGED book, P!TypeOK', PeopleWhole',
         c.do \notin {"create", "update", "remove"}, CallSound(r)'
  PROVE  ProfilesInv'
<1>1. call \in [Request -> P!Call] /\ call'[r] = c /\ \A q \in Request : q # r => call'[q] = call[q]
  BY DEF ProfilesInv, P!TypeOK
<1>2. \A q \in Request : CallSound(q)'
  <2>1. ASSUME NEW q \in Request, q # r PROVE CallSound(q)'
    <3>1. CallSound(q) /\ call'[q] = call[q]
      BY <1>1, <2>1 DEF ProfilesInv
    <3>2. QED
      BY <3>1, CallsStay
  <2>2. QED
    BY <2>1
<1>3. \A q \in Request : Locks(q)' => Locks(q)
  BY <1>1 DEF Locks
<1>4. BookWhole'
  BY DEF ProfilesInv, BookWhole, P!Saved, P!Default, P!OneDefault, P!Valid
<1>5. QED
  BY <1>2, <1>3, <1>4 DEF ProfilesInv

LEMMA IdleFacts == P!Idle \in P!Call /\ P!Idle.do = "none"
  BY CallsAre DEF P!Idle

LEMMA KindFacts ==
  ASSUME P!TypeOK, NEW kind \in P!Kind \cup {None}, NEW fields \in SUBSET Field,
         NEW next \in P!NextKind(kind, fields)
  PROVE  /\ next.kind \in P!Kind \cup {None} /\ next.company \in SUBSET Field
         /\ next.kind # None => next.company = P!CompanyOf(next.kind)
<1>1. buyer.kind \in P!Kind /\ buyer.company \in SUBSET Field
  BY DEF P!TypeOK, P!BuyerRow
<1>2. P!Sent(kind, buyer.kind) \in P!Kind
  BY <1>1 DEF P!Sent
<1>3. QED
  BY <1>1, <1>2 DEF P!NextKind

LEMMA BuyerReads ==
  ASSUME ProfilesInv, NEW r \in Request, P!BuyerRead(r)
  PROVE  ProfilesInv'
<1>t. P!TypeOK /\ buyer.place \in P!Place /\ call \in [Request -> P!Call]
  BY DEF ProfilesInv, P!TypeOK, P!BuyerRow
<1>1. PICK sent \in P!Place, kind \in P!Kind \cup {None}, fields \in SUBSET Field :
        \E place \in P!Checked(sent, buyer.place), next \in P!NextKind(kind, fields) :
          P!Starts(r, [do |-> "buyer", place |-> place, kind |-> next.kind, company |-> next.company])
  BY DEF P!BuyerRead
<1>2. PICK place \in P!Checked(sent, buyer.place), next \in P!NextKind(kind, fields) :
        P!Starts(r, [do |-> "buyer", place |-> place, kind |-> next.kind, company |-> next.company])
  BY <1>1
<1> DEFINE c == [do |-> "buyer", place |-> place, kind |-> next.kind, company |-> next.company]
<1>3. place \in P!Place /\ Settled(place)
  BY <1>t, MergedFacts DEF Settled
<1>4. next.kind \in P!Kind \cup {None} /\ next.company \in SUBSET Field
      /\ (next.kind # None => next.company = P!CompanyOf(next.kind))
  BY <1>t, KindFacts
<1>5. c \in P!Call
  <2>1. c \in BuyerCall
    BY <1>3, <1>4 DEF BuyerCall
  <2>2. QED
    BY <2>1, CallsAre
<1>6. call' = [call EXCEPT ![r] = c] /\ UNCHANGED <<buyer, agent, book>>
  BY <1>2 DEF P!Starts, P!BuyerRead
<1>7. CallSound(r)'
  <2>1. call'[r] = c
    BY <1>6, <1>t
  <2>2. c.do = "buyer" /\ c.place = place /\ c.kind = next.kind /\ c.company = next.company
    OBVIOUS
  <2>3. Settled(c.place)' /\ (c.kind # None => c.company = P!CompanyOf(c.kind))
    BY <1>3, <1>4, <2>2
  <2> HIDE DEF c
  <2>4. QED
    BY <2>1, <2>2, <2>3 DEF CallSound, P!CompanyOf, Settled, P!Valid, P!Nowhere
<1>8. P!TypeOK' /\ PeopleWhole'
  <2>1. P!TypeOK'
    BY <1>t, <1>5, <1>6 DEF P!TypeOK
  <2>2. PeopleWhole'
    BY <1>6 DEF ProfilesInv, PeopleWhole, Settled, P!Valid, P!CompanyOf, P!Nowhere
  <2>3. QED
    BY <2>1, <2>2
<1>9. c.do \notin {"create", "update", "remove"}
  OBVIOUS
<1> HIDE DEF c
<1>10. QED
  BY <1>5, <1>6, <1>7, <1>8, <1>9, OneCall

LEMMA BuyerWrites ==
  ASSUME ProfilesInv, NEW r \in Request, P!BuyerWrite(r)
  PROVE  ProfilesInv'
<1>t. P!TypeOK /\ buyer \in P!BuyerRow /\ call \in [Request -> P!Call] /\ PeopleWhole /\ CallSound(r)
  BY DEF ProfilesInv, P!TypeOK
<1>1. call[r] \in BuyerCall
  BY <1>t, CallKinds DEF P!BuyerWrite
<1> DEFINE c == call[r]
           place == IF c.place = P!Nowhere THEN buyer.place ELSE c.place
           kind == P!Sent(c.kind, buyer.kind)
           company == IF c.kind = None THEN buyer.company ELSE c.company
<1>2. place \in P!Place /\ Settled(place)
  BY <1>t, <1>1 DEF P!BuyerRow, BuyerCall, CallSound, PeopleWhole, Settled, P!BuyerWrite
<1>3. kind \in P!Kind /\ company \in SUBSET Field /\ company = P!CompanyOf(kind)
  BY <1>t, <1>1, ProfilesAssumption
  DEF P!BuyerRow, BuyerCall, CallSound, PeopleWhole, P!BuyerWrite, P!Sent, P!ProfilesAssumption
<1>4. buyer' = [place |-> place, kind |-> kind, company |-> company]
      /\ call' = [call EXCEPT ![r] = P!Idle] /\ UNCHANGED <<agent, book>>
  BY DEF P!BuyerWrite, P!Ends
<1> HIDE DEF place, kind, company
<1>5. buyer' \in P!BuyerRow /\ buyer'.place = place /\ buyer'.kind = kind /\ buyer'.company = company
  BY <1>2, <1>3, <1>4 DEF P!BuyerRow
<1>6. P!TypeOK'
  BY <1>t, <1>4, <1>5, IdleFacts DEF P!TypeOK
<1>7. PeopleWhole'
  <2>1. Settled(buyer'.place) /\ Settled(agent'.place)
    BY <1>2, <1>4, <1>5, <1>t DEF PeopleWhole
  <2>2. Settled(buyer.place)' /\ Settled(agent.place)'
    BY <2>1 DEF Settled, P!Valid, P!Nowhere
  <2>3. buyer'.company = P!CompanyOf(buyer'.kind) /\ agent'.cluster = agent'.place.lga
    BY <1>3, <1>4, <1>5, <1>t DEF PeopleWhole
  <2>4. QED
    BY <2>2, <2>3 DEF PeopleWhole, P!CompanyOf
<1>8. call'[r] = P!Idle
  BY <1>4, <1>t
<1>9. CallSound(r)'
  BY <1>8, IdleFacts DEF CallSound
<1>10. QED
  BY <1>4, <1>6, <1>7, <1>9, IdleFacts, OneCall

LEMMA AgentReads ==
  ASSUME ProfilesInv, NEW r \in Request, P!AgentRead(r)
  PROVE  ProfilesInv'
<1>t. P!TypeOK /\ agent \in P!AgentRow /\ agent.place \in P!Place /\ call \in [Request -> P!Call]
  BY DEF ProfilesInv, P!TypeOK, P!AgentRow
<1>1. PICK sent \in P!Place \ {P!Nowhere} :
        \E place \in P!Checked(sent, agent.place) :
          P!MayMove(place.lga) /\ P!Starts(r, [do |-> "agent", place |-> place, saw |-> agent])
  BY DEF P!AgentRead
<1>2. PICK place \in P!Checked(sent, agent.place) :
        P!MayMove(place.lga) /\ P!Starts(r, [do |-> "agent", place |-> place, saw |-> agent])
  BY <1>1
<1> DEFINE c == [do |-> "agent", place |-> place, saw |-> agent]
<1>3. place \in P!Place /\ P!Valid(place)
  BY <1>t, <1>1, MergedFacts
<1>5. c \in P!Call
  <2>1. c \in AgentCall
    BY <1>t, <1>3 DEF AgentCall
  <2>2. QED
    BY <2>1, CallsAre
<1>6. call' = [call EXCEPT ![r] = c] /\ UNCHANGED <<buyer, agent, book>>
  BY <1>2 DEF P!Starts, P!AgentRead
<1>7. CallSound(r)'
  <2>1. call'[r] = c
    BY <1>6, <1>t
  <2>2. c.do = "agent" /\ c.place = place /\ c.saw = agent
    OBVIOUS
  <2>3. P!Valid(c.place) /\ (c.saw.verified => c.place.lga = c.saw.place.lga)
    BY <1>2, <1>3, <2>2 DEF P!MayMove
  <2> HIDE DEF c
  <2>4. QED
    BY <2>1, <2>2, <2>3 DEF CallSound, P!Valid
<1>8. P!TypeOK' /\ PeopleWhole'
  <2>1. P!TypeOK'
    BY <1>t, <1>5, <1>6 DEF P!TypeOK
  <2>2. PeopleWhole'
    BY <1>6 DEF ProfilesInv, PeopleWhole, Settled, P!Valid, P!CompanyOf, P!Nowhere
  <2>3. QED
    BY <2>1, <2>2
<1>9. c.do \notin {"create", "update", "remove"}
  OBVIOUS
<1> HIDE DEF c
<1>10. QED
  BY <1>5, <1>6, <1>7, <1>8, <1>9, OneCall

LEMMA AgentWrites ==
  ASSUME ProfilesInv, NEW r \in Request, P!AgentWrite(r)
  PROVE  ProfilesInv'
<1>t. P!TypeOK /\ agent \in P!AgentRow /\ call \in [Request -> P!Call] /\ PeopleWhole /\ CallSound(r)
  BY DEF ProfilesInv, P!TypeOK
<1>1. call[r] \in AgentCall /\ call[r].do = "agent"
  BY <1>t, CallKinds DEF P!AgentWrite
<1>2. PICK place \in P!Place : place = call[r].place
  BY <1>1 DEF AgentCall
<1>3. P!Valid(place) /\ place.lga \in Lga
  BY <1>t, <1>1, <1>2 DEF CallSound, P!Valid
<1>4. agent' = [agent EXCEPT !.place = place, !.cluster = place.lga]
      /\ call' = [call EXCEPT ![r] = P!Idle] /\ UNCHANGED <<buyer, book>>
  BY <1>2 DEF P!AgentWrite, P!Ends
<1>5. agent' \in P!AgentRow /\ agent'.place = place /\ agent'.cluster = place.lga
  BY <1>t, <1>3, <1>4 DEF P!AgentRow
<1>6. P!TypeOK'
  BY <1>t, <1>4, <1>5, IdleFacts DEF P!TypeOK
<1>7. PeopleWhole'
  <2>1. Settled(buyer'.place) /\ Settled(agent'.place)
    BY <1>3, <1>4, <1>5, <1>t DEF PeopleWhole, Settled
  <2>2. Settled(buyer.place)' /\ Settled(agent.place)'
    BY <2>1 DEF Settled, P!Valid, P!Nowhere
  <2>3. buyer'.company = P!CompanyOf(buyer'.kind) /\ agent'.cluster = agent'.place.lga
    BY <1>4, <1>5, <1>t DEF PeopleWhole
  <2>4. QED
    BY <2>2, <2>3 DEF PeopleWhole, P!CompanyOf
<1>8. call'[r] = P!Idle
  BY <1>4, <1>t
<1>9. CallSound(r)'
  BY <1>8, IdleFacts DEF CallSound
<1>10. QED
  BY <1>4, <1>6, <1>7, <1>9, IdleFacts, OneCall

LEMMA Verifies == ASSUME ProfilesInv, P!Verify PROVE ProfilesInv'
<1>t. P!TypeOK /\ agent \in P!AgentRow /\ PeopleWhole
  BY DEF ProfilesInv, P!TypeOK
<1>1. agent' = [agent EXCEPT !.verified = ~@] /\ UNCHANGED <<buyer, book, call>>
  BY DEF P!Verify
<1>2. agent' \in P!AgentRow /\ agent'.place = agent.place /\ agent'.cluster = agent.cluster
  BY <1>t, <1>1 DEF P!AgentRow
<1>3. P!TypeOK'
  BY <1>t, <1>1, <1>2 DEF P!TypeOK
<1>4. PeopleWhole'
  BY <1>t, <1>1, <1>2 DEF PeopleWhole, Settled, P!Valid, P!CompanyOf, P!Nowhere
<1>5. \A r \in Request : CallSound(r)'
  <2>1. ASSUME NEW r \in Request PROVE CallSound(r)'
    <3>1. CallSound(r) /\ call'[r] = call[r] /\ UNCHANGED book
      BY <1>1 DEF ProfilesInv
    <3>2. QED
      BY <3>1, CallsStay
  <2>2. QED
    BY <2>1
<1>6. BookWhole'
  BY <1>1 DEF ProfilesInv, BookWhole, P!Saved, P!Default, P!OneDefault, P!Valid
<1>7. QED
  BY <1>1, <1>3, <1>4, <1>5, <1>6 DEF ProfilesInv, Locks

(* A step of the request that holds the lock, or takes it. *)
LEMMA LockedCall ==
  ASSUME ProfilesInv, NEW r \in Request, NEW c \in P!Call, call' = [call EXCEPT ![r] = c],
         \A q \in Request : q # r => ~Locks(q),
         P!TypeOK', UNCHANGED <<buyer, agent>>, BookWhole', CallSound(r)'
  PROVE  ProfilesInv'
<1>1. call \in [Request -> P!Call] /\ call'[r] = c /\ \A q \in Request : q # r => call'[q] = call[q]
  BY DEF ProfilesInv, P!TypeOK
<1>2. \A q \in Request : CallSound(q)'
  <2>1. ASSUME NEW q \in Request, q # r PROVE CallSound(q)'
    <3>1. CallSound(q) /\ call'[q] = call[q] /\ ~Locks(q)
      BY <1>1, <2>1 DEF ProfilesInv
    <3>2. QED
      BY <3>1, CallsStay
  <2>2. QED
    BY <2>1
<1>3. \A q \in Request : q # r => ~Locks(q)'
  BY <1>1 DEF Locks
<1>4. PeopleWhole'
  BY DEF ProfilesInv, PeopleWhole, Settled, P!Valid, P!CompanyOf, P!Nowhere
<1>5. \A p, q \in Request : Locks(p)' /\ Locks(q)' => p = q
  BY <1>3
<1>6. QED
  BY <1>2, <1>4, <1>5 DEF ProfilesInv

LEMMA AddressReads ==
  ASSUME ProfilesInv, NEW r \in Request, P!AddressRead(r)
  PROVE  ProfilesInv'
<1>t. P!TypeOK /\ call \in [Request -> P!Call] /\ book \in [P!Id -> P!Address \cup {None}]
      /\ BookWhole
  BY DEF ProfilesInv, P!TypeOK
<1>1. UNCHANGED <<buyer, agent, book>> /\ \A q \in Request : ~Locks(q)
  BY DEF P!AddressRead, P!Unlocked, Locks
<1>2. BookWhole'
  BY <1>t, <1>1 DEF BookWhole, P!Saved, P!Default, P!OneDefault, P!Valid
<1>3. \A i \in P!Saved : book[i] \in P!Address
  BY <1>t DEF P!Saved
<1>4. ASSUME NEW c \in P!Call, P!Starts(r, c), CallSound(r)' PROVE ProfilesInv'
  <2>1. call' = [call EXCEPT ![r] = c]
    BY <1>4 DEF P!Starts
  <2>2. P!TypeOK'
    BY <1>t, <1>1, <2>1 DEF P!TypeOK
  <2>3. QED
    BY <1>1, <1>2, <1>4, <2>1, <2>2, LockedCall
<1>5. ASSUME NEW place \in P!Place, P!CreateRead(r, place) PROVE ProfilesInv'
  <2>1. PICK c \in CreateCall : c = [do |-> "create", place |-> place, first |-> P!Saved = {}]
    <3>1. PICK first \in BOOLEAN : first = (P!Saved = {})
      OBVIOUS
    <3>2. [do |-> "create", place |-> place, first |-> first] \in CreateCall
      BY DEF CreateCall
    <3>3. QED
      BY <3>1, <3>2
  <2>2. P!Starts(r, c) /\ call'[r] = c
    BY <1>5, <1>t, <2>1 DEF P!CreateRead, P!Starts
  <2>3. c.do = "create" /\ c.place = place /\ (c.first <=> P!Saved = {})
    BY <2>1
  <2>4. CallSound(r)'
    BY <1>1, <1>5, <2>2, <2>3 DEF CallSound, P!CreateRead, P!Saved, P!Newest, P!Valid
  <2>5. QED
    BY <1>4, <2>2, <2>4, CallsAre
<1>6. ASSUME NEW id \in P!Id, NEW sent \in P!Place, NEW default \in BOOLEAN,
             P!UpdateRead(r, id, sent, default)
      PROVE  ProfilesInv'
  <2>1. PICK c \in UpdateCall : c = [do |-> "update", id |-> id, sent |-> sent, default |-> default]
    BY DEF UpdateCall
  <2>2. P!Starts(r, c) /\ call'[r] = c
    BY <1>6, <1>t, <2>1 DEF P!UpdateRead, P!Starts
  <2>3. c.do = "update" /\ c.id = id /\ c.sent = sent
    BY <2>1
  <2>4. id \in P!Saved /\ book[id].place \in P!Place
    BY <1>3, <1>6 DEF P!UpdateRead, P!Address
  <2>5. sent = P!Nowhere \/ P!Valid(P!Merged(sent, book[id].place))
    <3>1. PICK p \in P!Checked(sent, book[id].place) : TRUE
      BY <1>6 DEF P!UpdateRead
    <3>2. QED
      BY <2>4, <3>1, MergedFacts
  <2>6. CallSound(r)'
    BY <1>1, <2>2, <2>3, <2>4, <2>5
    DEF CallSound, P!Saved, P!Valid, P!Merged, P!Sent, Settled, P!Nowhere
  <2>7. QED
    BY <1>4, <2>2, <2>6, CallsAre
<1>7. ASSUME NEW id \in P!Id, P!RemoveRead(r, id) PROVE ProfilesInv'
  <2>1. id \in P!Saved /\ book[id].default \in BOOLEAN
    BY <1>3, <1>7 DEF P!RemoveRead, P!Address
  <2>2. PICK c \in RemoveCall : c = [do |-> "remove", id |-> id, default |-> book[id].default]
    BY <2>1 DEF RemoveCall
  <2>3. P!Starts(r, c) /\ call'[r] = c
    BY <1>7, <1>t, <2>2 DEF P!RemoveRead, P!Starts
  <2>4. c.do = "remove" /\ c.id = id /\ c.default = book[id].default
    BY <2>2
  <2>5. CallSound(r)'
    BY <1>1, <2>1, <2>3, <2>4 DEF CallSound, P!Saved
  <2>6. QED
    BY <1>4, <2>3, <2>5, CallsAre
<1>8. QED
  BY <1>5, <1>6, <1>7 DEF P!AddressRead

(* The three writes: what becomes of the book. *)
LEMMA CreateWrites ==
  ASSUME ProfilesInv, NEW r \in Request, P!CreateWrite(r), P!OneDefault'
  PROVE  book' \in [P!Id -> P!Address \cup {None}] /\ BookWhole'
<1>t. /\ P!TypeOK /\ call[r] \in P!Call /\ book \in [P!Id -> P!Address \cup {None}]
      /\ BookWhole /\ CallSound(r)
  BY DEF ProfilesInv, P!TypeOK
<1>1. call[r] \in CreateCall /\ call[r].do = "create"
  BY <1>t, CallKinds DEF P!CreateWrite
<1> DEFINE new == P!Newest(P!Saved) + 1
           row == [place |-> call[r].place, default |-> call[r].first]
<1>2. row \in P!Address /\ row # None /\ row.place = call[r].place /\ row.default = call[r].first
  BY <1>1, ProfilesAssumption DEF CreateCall, P!Address, P!ProfilesAssumption
<1>3. new \in P!Id /\ new \notin P!Saved
  <2>1. P!Newest(P!Saved) \in Nat /\ \A i \in P!Saved : i <= P!Newest(P!Saved)
    BY <1>t, SavedFinite, NewestFacts
  <2>2. P!Newest(P!Saved) < MaxId /\ MaxId \in Nat
    BY <1>t, <1>1, ProfilesAssumption DEF CallSound, P!ProfilesAssumption
  <2>3. new \in P!Id
    BY <2>1, <2>2 DEF P!Id
  <2>4. new \notin P!Saved
    BY <2>1
  <2>5. QED
    BY <2>3, <2>4
<1>4. book' = [book EXCEPT ![new] = row]
  BY DEF P!CreateWrite
<1> HIDE DEF new, row
<1>5. book'[new] = row /\ \A i \in P!Id : i # new => book'[i] = book[i]
  BY <1>t, <1>3, <1>4
<1>6. P!Saved' = P!Saved \cup {new}
  BY <1>2, <1>3, <1>5 DEF P!Saved
<1>7. \A i \in P!Saved' : P!Valid(book'[i].place)
  BY <1>t, <1>1, <1>2, <1>3, <1>5, <1>6 DEF BookWhole, CallSound, P!Saved
<1>8. P!Default' # {}
  <2>1. CASE P!Saved = {}
    <3>1. row.default
      BY <1>t, <1>1, <1>2, <2>1 DEF CallSound
    <3>2. QED
      BY <1>5, <1>6, <3>1 DEF P!Default
  <2>2. CASE P!Saved # {}
    <3>1. PICK i \in P!Saved : book[i].default
      BY <1>t, <2>2 DEF BookWhole, P!Default
    <3>2. i \in P!Id /\ i # new
      BY <1>3, <3>1 DEF P!Saved
    <3>3. i \in P!Saved' /\ book'[i].default
      BY <1>5, <1>6, <3>1, <3>2
    <3>4. QED
      BY <3>3 DEF P!Default
  <2>3. QED
    BY <2>1, <2>2
<1>9. P!Cardinality(P!Saved)' <= MaxAddresses
  <2>1. Cardinality(P!Saved) < MaxAddresses
    BY <1>t, <1>1, SavedFinite DEF CallSound
  <2>2. IsFiniteSet(P!Saved) /\ Cardinality(P!Saved) \in Nat
    BY <1>t, SavedFinite
  <2>3. Cardinality(P!Saved \cup {new}) = Cardinality(P!Saved) + 1
    BY <1>3, <2>2, FS_AddElement
  <2>4. P!Cardinality(P!Saved') = Cardinality(P!Saved')
    BY DEF P!Cardinality, Cardinality
  <2>5. Cardinality(P!Saved') = Cardinality(P!Saved) + 1
    BY <1>6, <2>3
  <2>6. MaxAddresses \in Nat
    BY ProfilesAssumption DEF P!ProfilesAssumption
  <2>7. QED
    BY <2>1, <2>2, <2>4, <2>5, <2>6
<1>10. QED
  BY <1>t, <1>2, <1>3, <1>4, <1>7, <1>8, <1>9 DEF BookWhole, P!Valid

LEMMA UpdateWrites ==
  ASSUME ProfilesInv, NEW r \in Request, P!UpdateWrite(r), P!OneDefault'
  PROVE  book' \in [P!Id -> P!Address \cup {None}] /\ BookWhole'
<1>t. /\ P!TypeOK /\ call[r] \in P!Call /\ book \in [P!Id -> P!Address \cup {None}]
      /\ BookWhole /\ CallSound(r)
  BY DEF ProfilesInv, P!TypeOK
<1>1. call[r] \in UpdateCall /\ call[r].do = "update"
  BY <1>t, CallKinds DEF P!UpdateWrite
<1>2. PICK id \in P!Saved, sent \in P!Place, default \in BOOLEAN :
        call[r].id = id /\ call[r].sent = sent /\ call[r].default = default
  BY <1>1 DEF UpdateCall, P!UpdateWrite
<1>3. ASSUME NEW i \in P!Saved PROVE book[i] \in P!Address /\ i \in P!Id
  BY <1>t DEF P!Saved
<1>4. book' = [i \in P!Id |->
       IF i \notin P!Saved THEN None
       ELSE IF i = id
       THEN [place |-> P!Merged(sent, book[i].place), default |-> book[i].default \/ default]
       ELSE [book[i] EXCEPT !.default = book[i].default /\ ~default]]
  BY <1>2 DEF P!UpdateWrite
<1>5. ASSUME NEW i \in P!Saved
      PROVE  /\ book'[i] \in P!Address /\ book'[i] # None
             /\ book'[i].place = IF i = id THEN P!Merged(sent, book[i].place) ELSE book[i].place
             /\ i = id => (book'[i].default <=> book[i].default \/ default)
             /\ i # id => (book'[i].default <=> book[i].default /\ ~default)
  <2>1. book[i].place \in P!Place /\ book[i].default \in BOOLEAN
    BY <1>3 DEF P!Address
  <2>2. P!Merged(sent, book[i].place) \in P!Place
    BY <2>1, MergedFacts
  <2>3. CASE i = id
    <3>1. book'[i] = [place |-> P!Merged(sent, book[i].place), default |-> book[i].default \/ default]
      BY <1>3, <1>4, <2>3
    <3>2. PICK b \in BOOLEAN : b = (book[i].default \/ default)
      OBVIOUS
    <3>3. book'[i] = [place |-> P!Merged(sent, book[i].place), default |-> b]
      BY <3>1, <3>2
    <3>4. book'[i] \in P!Address
      BY <2>2, <3>3 DEF P!Address
    <3>5. book'[i].place = P!Merged(sent, book[i].place) /\ book'[i].default = b
      BY <3>3
    <3>6. book'[i] # None
      BY <3>4, ProfilesAssumption DEF P!ProfilesAssumption
    <3>7. QED
      BY <2>3, <3>2, <3>4, <3>5, <3>6
  <2>4. CASE i # id
    <3>1. book'[i] = [book[i] EXCEPT !.default = book[i].default /\ ~default]
      BY <1>3, <1>4, <2>4
    <3>2. PICK b \in BOOLEAN : b = (book[i].default /\ ~default)
      OBVIOUS
    <3>3. book'[i] = [book[i] EXCEPT !.default = b]
      BY <3>1, <3>2
    <3>4. book'[i] \in P!Address /\ book'[i].place = book[i].place /\ book'[i].default = b
      BY <1>3, <3>3 DEF P!Address
    <3>5. QED
      BY <2>4, <3>2, <3>4, ProfilesAssumption DEF P!ProfilesAssumption
  <2>5. QED
    BY <2>3, <2>4
<1>6. ASSUME NEW i \in P!Id, i \notin P!Saved PROVE book'[i] = None
  BY <1>4, <1>6
<1>7. book' \in [P!Id -> P!Address \cup {None}]
  <2>1. \A i \in P!Id : book'[i] \in P!Address \cup {None}
    BY <1>5, <1>6
  <2>2. QED
    BY <1>4, <2>1
<1>8. P!Saved' = P!Saved
  BY <1>5, <1>6 DEF P!Saved
<1>9. ASSUME NEW i \in P!Saved PROVE P!Valid(book'[i].place)
  <2>1. P!Valid(book[i].place) /\ book[i].place \in P!Place
    BY <1>t, <1>3 DEF BookWhole, P!Address
  <2>2. i = id => P!Valid(P!Merged(sent, book[i].place))
    BY <1>t, <1>1, <1>2, <2>1, MergedFacts, PlaceFacts DEF CallSound, Settled
  <2>3. QED
    BY <1>5, <2>1, <2>2
<1>10. P!Default' # {}
  <2>1. \A i \in P!Saved : book'[i].default => i \in P!Default'
    BY <1>8 DEF P!Default
  <2>2. CASE default
    BY <1>5, <2>1, <2>2
  <2>3. CASE ~default
    <3>1. PICK i \in P!Saved : book[i].default
      BY <1>t, <1>2 DEF BookWhole, P!Default
    <3>2. QED
      BY <1>5, <2>1, <2>3, <3>1
  <2>4. QED
    BY <2>2, <2>3
<1>11. P!Cardinality(P!Saved)' <= MaxAddresses
  BY <1>t, <1>8 DEF BookWhole
<1>12. QED
  BY <1>7, <1>8, <1>9, <1>10, <1>11 DEF BookWhole, P!Valid

LEMMA RemoveWrites ==
  ASSUME ProfilesInv, NEW r \in Request, P!RemoveWrite(r), P!OneDefault'
  PROVE  book' \in [P!Id -> P!Address \cup {None}] /\ BookWhole'
<1>t. /\ P!TypeOK /\ call[r] \in P!Call /\ book \in [P!Id -> P!Address \cup {None}]
      /\ BookWhole /\ CallSound(r)
  BY DEF ProfilesInv, P!TypeOK
<1>1. call[r] \in RemoveCall /\ call[r].do = "remove"
  BY <1>t, CallKinds DEF P!RemoveWrite
<1>2. PICK id \in P!Saved, default \in BOOLEAN : call[r].id = id /\ call[r].default = default
  BY <1>1 DEF RemoveCall, P!RemoveWrite
<1> DEFINE rest == P!Saved \ {id}
           heir == P!Newest(rest)
<1>3. ASSUME NEW i \in P!Saved PROVE book[i] \in P!Address /\ i \in P!Id
  BY <1>t DEF P!Saved
<1>4. book' = [i \in P!Id |->
       IF i \notin rest THEN None
       ELSE [book[i] EXCEPT !.default = book[i].default \/ (default /\ i = heir)]]
  BY <1>2 DEF P!RemoveWrite
<1>5. rest \in SUBSET P!Id /\ rest \subseteq P!Saved
  BY <1>3
<1>6. rest # {} => heir \in rest
  BY <1>5, NewestFacts
<1> HIDE DEF heir
<1>7. ASSUME NEW i \in rest
      PROVE  /\ book'[i] \in P!Address /\ book'[i] # None
             /\ book'[i].place = book[i].place
             /\ book'[i].default <=> book[i].default \/ (default /\ i = heir)
  <2>1. book'[i] = [book[i] EXCEPT !.default = book[i].default \/ (default /\ i = heir)]
    BY <1>4, <1>5
  <2>2. PICK b \in BOOLEAN : b = (book[i].default \/ (default /\ i = heir))
    OBVIOUS
  <2>3. book'[i] = [book[i] EXCEPT !.default = b]
    BY <2>1, <2>2
  <2>4. book'[i] \in P!Address /\ book'[i].place = book[i].place /\ book'[i].default = b
    BY <1>3, <2>3 DEF P!Address
  <2>5. QED
    BY <2>2, <2>4, ProfilesAssumption DEF P!ProfilesAssumption
<1>8. ASSUME NEW i \in P!Id, i \notin rest PROVE book'[i] = None
  BY <1>4, <1>8
<1>9. book' \in [P!Id -> P!Address \cup {None}]
  <2>1. \A i \in P!Id : book'[i] \in P!Address \cup {None}
    BY <1>7, <1>8
  <2>2. QED
    BY <1>4, <2>1
<1>10. P!Saved' = rest
  BY <1>5, <1>7, <1>8 DEF P!Saved
<1>11. \A i \in rest : P!Valid(book'[i].place)
  BY <1>t, <1>7 DEF BookWhole
<1>12. rest # {} => P!Default' # {}
  <2> SUFFICES ASSUME rest # {} PROVE P!Default' # {}
    OBVIOUS
  <2>1. \A i \in rest : book'[i].default => i \in P!Default'
    BY <1>10 DEF P!Default
  <2>2. CASE default
    BY <1>6, <1>7, <2>1, <2>2
  <2>3. CASE ~default
    <3>1. PICK i \in P!Saved : book[i].default
      BY <1>t, <1>2 DEF BookWhole, P!Default
    <3>2. i # id
      BY <1>t, <1>1, <1>2, <2>3, <3>1 DEF CallSound
    <3>3. QED
      BY <1>7, <2>1, <3>1, <3>2
  <2>4. QED
    BY <2>2, <2>3
<1>13. P!Cardinality(P!Saved)' <= MaxAddresses
  <2> HIDE DEF rest
  <2>1. IsFiniteSet(P!Saved) /\ Cardinality(P!Saved) \in Nat /\ Cardinality(P!Saved) <= MaxAddresses
    BY <1>t, SavedFinite DEF BookWhole
  <2>2. Cardinality(rest) <= Cardinality(P!Saved) /\ Cardinality(rest) \in Nat
    BY <1>5, <2>1, FS_Subset, FS_CardinalityType
  <2>3. P!Cardinality(P!Saved') = Cardinality(rest)
    BY <1>10 DEF P!Cardinality, Cardinality
  <2>4. MaxAddresses \in Nat
    BY ProfilesAssumption DEF P!ProfilesAssumption
  <2>5. QED
    BY <2>1, <2>2, <2>3, <2>4
<1>14. QED
  BY <1>9, <1>10, <1>11, <1>12, <1>13 DEF BookWhole, P!Valid

LEMMA AddressEnds ==
  ASSUME ProfilesInv, NEW r \in Request, P!AddressWrite(r) \/ P!AddressAborts(r)
  PROVE  ProfilesInv'
<1>t. P!TypeOK /\ call \in [Request -> P!Call] /\ BookWhole
  BY DEF ProfilesInv, P!TypeOK
<1>1. /\ call' = [call EXCEPT ![r] = P!Idle]
      /\ UNCHANGED <<buyer, agent>>
      /\ Locks(r)
  BY DEF P!AddressWrite, P!AddressAborts, P!Ends, P!CreateWrite, P!UpdateWrite, P!RemoveWrite, Locks
<1>2. \A q \in Request : q # r => ~Locks(q)
  BY <1>1 DEF ProfilesInv
<1>3. book' \in [P!Id -> P!Address \cup {None}] /\ BookWhole'
  <2>1. CASE P!AddressWrite(r)
    BY <2>1, CreateWrites, UpdateWrites, RemoveWrites DEF P!AddressWrite
  <2>2. CASE P!AddressAborts(r)
    BY <2>2, <1>t DEF P!AddressAborts, P!TypeOK, BookWhole, P!Saved, P!Default, P!OneDefault, P!Valid
  <2>3. QED
    BY <2>1, <2>2
<1>4. P!TypeOK'
  BY <1>t, <1>1, <1>3, IdleFacts DEF P!TypeOK
<1>5. call'[r] = P!Idle
  BY <1>1, <1>t
<1>6. CallSound(r)'
  BY <1>5, IdleFacts DEF CallSound
<1>7. QED
  BY <1>1, <1>2, <1>3, <1>4, <1>6, IdleFacts, LockedCall

LEMMA ProfilesNext == ProfilesInv /\ [P!Next]_(P!vars) => ProfilesInv'
<1> SUFFICES ASSUME ProfilesInv, [P!Next]_(P!vars) PROVE ProfilesInv'
  OBVIOUS
<1>1. CASE P!BuyerNext
  BY <1>1, BuyerReads, BuyerWrites DEF P!BuyerNext
<1>2. CASE P!AgentNext
  BY <1>2, AgentReads, AgentWrites, Verifies DEF P!AgentNext
<1>3. CASE P!AddressNext
  BY <1>3, AddressReads, AddressEnds DEF P!AddressNext
<1>4. CASE UNCHANGED P!vars
  <2>1. UNCHANGED <<buyer, agent, book, call>>
    BY <1>4 DEF P!vars
  <2>2. \A r \in Request : CallSound(r)'
    <3>1. ASSUME NEW r \in Request PROVE CallSound(r)'
      <4>1. CallSound(r) /\ call'[r] = call[r]
        BY <2>1 DEF ProfilesInv
      <4>2. QED
        BY <2>1, <4>1, CallsStay
    <3>2. QED
      BY <3>1
  <2>3. P!TypeOK' /\ PeopleWhole' /\ BookWhole'
    BY <2>1 DEF ProfilesInv, P!TypeOK, PeopleWhole, BookWhole, P!Saved, P!Default, P!OneDefault,
                P!Valid, Settled, P!Nowhere, P!CompanyOf
  <2>4. QED
    BY <2>1, <2>2, <2>3 DEF ProfilesInv, Locks
<1>5. QED
  BY <1>1, <1>2, <1>3, <1>4 DEF P!Next

LEMMA StepLgaHeld ==
  ASSUME ProfilesInv, P!Next, agent.verified, agent'.place.lga # agent.place.lga
  PROVE  \E r \in Request :
           /\ call[r].do = "agent" /\ call'[r] = P!Idle
           /\ ~call[r].saw.verified \/ call[r].saw.place.lga # agent.place.lga
<1>t. P!TypeOK /\ agent \in P!AgentRow /\ call \in [Request -> P!Call]
  BY DEF ProfilesInv, P!TypeOK
<1>1. agent' # agent
  OBVIOUS
<1>2. P!AgentNext
  BY <1>1 DEF P!Next, P!BuyerNext, P!BuyerRead, P!BuyerWrite, P!AddressNext, P!AddressRead,
              P!AddressWrite, P!AddressAborts
<1>3. ~P!Verify
  BY <1>t DEF P!Verify, P!AgentRow
<1>4. PICK r \in Request : P!AgentWrite(r)
  BY <1>1, <1>2, <1>3 DEF P!AgentNext, P!AgentRead
<1>5. call[r].do = "agent" /\ call'[r] = P!Idle /\ agent'.place = call[r].place
  BY <1>4, <1>t DEF P!AgentWrite, P!Ends, P!AgentRow
<1>6. call[r].saw.verified => call[r].place.lga = call[r].saw.place.lga
  BY <1>5 DEF ProfilesInv, CallSound
<1>7. QED
  BY <1>5, <1>6

LEMMA InvWhole == ProfilesInv => P!ProfilesWhole
<1> SUFFICES ASSUME ProfilesInv PROVE P!ProfilesWhole
  OBVIOUS
<1>1. P!Saved # {} => P!Cardinality(P!Default) = 1
  <2> SUFFICES ASSUME P!Saved # {} PROVE P!Cardinality(P!Default) = 1
    OBVIOUS
  <2>1. PICK i \in P!Default : TRUE
    BY DEF ProfilesInv, BookWhole
  <2>2. P!Default = {i}
    BY <2>1 DEF ProfilesInv, BookWhole, P!OneDefault, P!Default
  <2>3. Cardinality(P!Default) = 1
    BY <2>2, FS_Singleton
  <2>4. P!Cardinality(P!Default) = Cardinality(P!Default)
    BY DEF P!Cardinality, Cardinality
  <2>5. QED
    BY <2>3, <2>4
<1>2. QED
  BY <1>1 DEF ProfilesInv, PeopleWhole, BookWhole, Settled, P!ProfilesWhole

(* The invariant of the profiles.                                            *)
THEOREM ProfilesInvariance == P!Spec => []ProfilesInv
<1>1. QED
  BY ProfilesInit, ProfilesNext, PTL DEF P!Spec

LEMMA ProfilesPart == OneOfThem => P!Spec
<1>1. InitTogether => P!Init
  BY DEF InitTogether
<1>2. [NextTogether]_together => [P!Next]_(P!vars)
  BY DEF NextTogether, together, ofProfiles, P!vars, P!Next
<1>3. QED
  BY <1>1, <1>2, PTL DEF OneOfThem, P!Spec

(* Pairs, company fields, cluster name and address book stay whole, for any  *)
(* requests, places and fields.                                              *)
THEOREM TogetherProfilesWhole == OneOfThem => []ProfilesWhole
<1>1. P!ProfilesWhole => ProfilesWhole
  BY DEF ProfilesWhole
<1>2. QED
  BY <1>1, InvWhole, ProfilesInvariance, ProfilesPart, PTL

(* A verified agent's LGA changes by a stale request only.                   *)
THEOREM TogetherLgaHeld == OneOfThem => LgaHeld
<1>1. ProfilesInv /\ [P!Next]_(P!vars) =>
        [agent.verified /\ agent'.place.lga # agent.place.lga =>
           \E r \in Request :
             /\ call[r].do = "agent" /\ call'[r] = P!Idle
             /\ ~call[r].saw.verified \/ call[r].saw.place.lga # agent.place.lga]_(P!vars)
  BY StepLgaHeld
<1>2. P!Spec => P!LgaHeld
  BY <1>1, ProfilesInvariance, PTL DEF P!Spec, P!LgaHeld
<1>3. P!LgaHeld => LgaHeld
  BY DEF LgaHeld
<1>4. QED
  BY <1>2, <1>3, ProfilesPart, PTL

-----------------------------------------------------------------------------
(* The reports: what a page has read is what its table held, or was changed.  *)

(* The statements of a page, as a set. *)
Of(r) == CASE r = "farms" -> {"statuses", "total"}
           [] r = "listings" -> {"total", "statuses", "recent"}
           [] r = "orders" -> {"earned", "active"}
           [] r = "sales" -> {"sold", "completed", "recent"}
           [] r = "request" -> {"request", "checkouts"}

LEMMA StatementsOf ==
  ASSUME NEW r \in R!Report
  PROVE  /\ \A i \in DOMAIN R!Statements(r) : R!Statements(r)[i] \in Of(r)
         /\ \A s \in Of(r) : \E i \in DOMAIN R!Statements(r) : R!Statements(r)[i] = s
         /\ Of(r) \subseteq R!Statement
<1>1. \A i \in DOMAIN R!Statements(r) : R!Statements(r)[i] \in Of(r)
  BY DEF R!Statements, Of, R!Report
<1>2. \A s \in Of(r) : \E i \in DOMAIN R!Statements(r) : R!Statements(r)[i] = s
  <2>2. CASE r = "farms"
    <3>1. R!Statements(r) = <<"statuses", "total">> /\ Of(r) = {"statuses", "total"}
      BY <2>2 DEF R!Statements, Of
    <3>2. QED
      BY <3>1
  <2>3. CASE r = "listings"
    <3>1. R!Statements(r) = <<"total", "statuses", "recent">> /\ Of(r) = {"total", "statuses", "recent"}
      BY <2>3 DEF R!Statements, Of
    <3>2. QED
      BY <3>1
  <2>4. CASE r = "orders"
    <3>1. R!Statements(r) = <<"earned", "active">> /\ Of(r) = {"earned", "active"}
      BY <2>4 DEF R!Statements, Of
    <3>2. QED
      BY <3>1
  <2>5. CASE r = "sales"
    <3>1. R!Statements(r) = <<"sold", "completed", "recent">> /\ Of(r) = {"sold", "completed", "recent"}
      BY <2>5 DEF R!Statements, Of
    <3>2. QED
      BY <3>1
  <2>6. CASE r = "request"
    <3>1. R!Statements(r) = <<"request", "checkouts">> /\ Of(r) = {"request", "checkouts"}
      BY <2>6 DEF R!Statements, Of
    <3>2. QED
      BY <3>1
  <2>7. QED
    BY <2>2, <2>3, <2>4, <2>5, <2>6 DEF R!Report
<1>3. \A i \in DOMAIN R!Statements(r) : R!Statements(r)[i] \in R!Statement
  BY DEF R!Statement
<1>4. Of(r) \subseteq R!Statement
  BY <1>2, <1>3
<1>5. QED
  BY <1>1, <1>2, <1>4

(* What has been seen of an unchanged table is the table; what was earned    *)
(* when the orders' page first looked stays earned.                          *)
FiguresInv ==
  /\ R!TypeOK
  /\ \A s \in R!Statement : seen[s] # R!Unseen => report \in R!Report /\ s \in Of(report)
  /\ report # "none" => \A i \in R!Row : table[i] \in R!StatusOf(report)
  /\ ~changed => \A s \in R!Statement : seen[s] # R!Unseen => seen[s] = table
  /\ report # "orders" => earned = {}
  /\ \A i \in earned : table[i] = "FULFILLED"
  /\ report = "orders" =>
       /\ seen["active"] # R!Unseen => seen["earned"] # R!Unseen
       /\ seen["earned"] # R!Unseen =>
            \A i \in R!Row : /\ i \in earned => seen["earned"][i] = "FULFILLED"
                             /\ seen["earned"][i] = "FULFILLED" => table[i] = "FULFILLED"
       /\ seen["active"] # R!Unseen =>
            \A i \in R!Row : seen["earned"][i] = "FULFILLED" => seen["active"][i] = "FULFILLED"

LEMMA StatementNames ==
  /\ {"earned", "active", "statuses", "total", "recent", "sold", "completed", "request", "checkouts"}
       \subseteq R!Statement
  /\ "NONE" \in R!AnyStatus
<1>1. \A r \in R!Report : Of(r) \subseteq R!Statement
  BY StatementsOf
<1>2. /\ Of("orders") = {"earned", "active"} /\ Of("farms") = {"statuses", "total"}
      /\ Of("sales") = {"sold", "completed", "recent"} /\ Of("request") = {"request", "checkouts"}
  BY DEF Of
<1>3. {"orders", "farms", "sales", "request"} \subseteq R!Report
  BY DEF R!Report
<1>4. "NONE" \in R!AnyStatus
  <2>1. "NONE" \in R!StatusOf("farms")
    BY DEF R!StatusOf, R!FarmStatus
  <2>2. QED
    BY <1>3, <2>1 DEF R!AnyStatus
<1>5. QED
  BY <1>1, <1>2, <1>3, <1>4

LEMMA Blank ==
  /\ [i \in R!Row |-> "NONE"] \in [R!Row -> R!AnyStatus]
  /\ [s \in R!Statement |-> R!Unseen] \in [R!Statement -> [R!Row -> R!AnyStatus] \cup {R!Unseen}]
  /\ 0 \in 0..MaxChange
<1>1. [i \in R!Row |-> "NONE"] \in [R!Row -> R!AnyStatus]
  BY StatementNames
<1>2. R!Unseen \in [R!Row -> R!AnyStatus] \cup {R!Unseen}
  OBVIOUS
<1>3. 0 \in 0..MaxChange
  BY ReportsAssumption DEF R!ReportsAssumption
<1>4. QED
  BY <1>1, <1>2, <1>3

LEMMA FiguresInit == R!Init => FiguresInv
<1> SUFFICES ASSUME R!Init PROVE FiguresInv
  OBVIOUS
<1>1. R!TypeOK
  BY Blank DEF R!Init, R!TypeOK
<1>2. \A s \in R!Statement : seen[s] = R!Unseen
  BY DEF R!Init
<1>3. report = "none" /\ earned = {}
  BY DEF R!Init
<1>4. QED
  BY <1>1, <1>2, <1>3 DEF FiguresInv

LEMMA ChangeKeeps ==
  ASSUME FiguresInv, NEW i \in R!Row, NEW to \in R!AnyStatus, R!Change(i, to)
  PROVE  FiguresInv'
<1>t. /\ R!TypeOK /\ table \in [R!Row -> R!AnyStatus] /\ report \in R!Report /\ earned \subseteq R!Row
      /\ seen \in [R!Statement -> [R!Row -> R!AnyStatus] \cup {R!Unseen}]
  BY DEF FiguresInv, R!TypeOK, R!Change
<1>1. /\ table' = [table EXCEPT ![i] = to] /\ changed' = TRUE /\ moved' = moved + 1 /\ moved < MaxChange
      /\ UNCHANGED <<report, seen, earned>>
      /\ <<table[i], to>> \in R!Moves(report)
  BY DEF R!Change
<1>2. moved' \in 0..MaxChange
  BY <1>1, <1>t, ReportsAssumption DEF R!TypeOK, R!ReportsAssumption
<1>3. R!TypeOK'
  BY <1>1, <1>2, <1>t DEF R!TypeOK
<1>4. report = "orders" => \A j \in R!Row : table[j] = "FULFILLED" => table'[j] = "FULFILLED"
  <2> SUFFICES ASSUME report = "orders" PROVE table[i] # "FULFILLED"
    BY <1>1, <1>t
  <2>1. <<table[i], to>> \in R!OrderMoves
    BY <1>1 DEF R!Moves
  <2>2. table[i] \in {"NONE", "AWAITING_PAYMENT", "PENDING", "CONFIRMED", "SHIPPED"}
    BY <2>1 DEF R!OrderMoves
  <2>3. QED
    BY <2>2
<1>5. \A j \in earned : table'[j] = "FULFILLED"
  BY <1>4, <1>t DEF FiguresInv
<1>6. \A j \in R!Row : table'[j] \in R!StatusOf(report)
  <2>1. to \in R!StatusOf(report)
    BY <1>1, <1>t
    DEF R!Moves, R!StatusOf, R!Report, R!FarmMoves, R!ListingMoves, R!OrderMoves, R!RequestMoves,
        R!FarmStatus, R!ListingStatus, R!OrderStatus, R!RequestStatus
  <2>2. report # "none"
    BY DEF R!Change
  <2>3. QED
    BY <1>1, <1>t, <2>1, <2>2 DEF FiguresInv
<1>7. QED
  BY <1>1, <1>3, <1>4, <1>5, <1>6 DEF FiguresInv, R!Unseen

LEMMA OpenKeeps == ASSUME FiguresInv, R!Open PROVE FiguresInv'
<1>1. PICK r \in R!Report, t \in [R!Row -> R!AnyStatus] :
        report' = r /\ table' = t /\ \A i \in R!Row : t[i] \in R!StatusOf(r)
  BY DEF R!Open
<1>2. report = "none" /\ UNCHANGED <<seen, earned, changed, moved>>
  BY DEF R!Open
<1>3. \A s \in R!Statement : seen[s] = R!Unseen
  BY <1>2 DEF FiguresInv, R!Report
<1>4. R!TypeOK'
  BY <1>1, <1>2 DEF FiguresInv, R!TypeOK
<1>5. earned = {}
  BY <1>2 DEF FiguresInv
<1>6. seen'["earned"] = R!Unseen /\ seen'["active"] = R!Unseen
  BY <1>2, <1>3, StatementNames
<1>7. QED
  BY <1>1, <1>2, <1>3, <1>4, <1>5, <1>6 DEF FiguresInv, R!Unseen

LEMMA AllSeenOf ==
  ASSUME R!TypeOK, R!AllSeen
  PROVE  report \in R!Report /\ \A s \in Of(report) : seen[s] # R!Unseen
<1>1. report \in R!Report
  BY DEF R!TypeOK, R!AllSeen
<1>2. \A i \in DOMAIN R!Statements(report) : seen[R!Statements(report)[i]] # R!Unseen
  BY DEF R!AllSeen
<1>3. QED
  BY <1>1, <1>2, StatementsOf

LEMMA AgainKeeps == ASSUME FiguresInv, R!Reload \/ R!Close PROVE FiguresInv'
<1>1. R!TypeOK /\ report \in R!Report /\ \A s \in Of(report) : seen[s] # R!Unseen
  BY AllSeenOf DEF R!Reload, R!Close, FiguresInv
<1>2. seen' = [s \in R!Statement |-> R!Unseen]
  BY DEF R!Reload, R!Close
<1>3. \A s \in R!Statement : seen'[s] = R!Unseen
  BY <1>2
<1>4. CASE R!Reload
  <2>1. report' = report /\ table' = table /\ changed' = changed /\ moved' = moved
        /\ earned' = IF report = "orders" THEN R!Earned ELSE {}
    BY <1>4 DEF R!Reload
  <2>2. earned' \subseteq R!Row
    BY <2>1 DEF R!Earned, R!Having
  <2>3. R!TypeOK'
    BY <1>1, <1>2, <2>1, <2>2 DEF R!TypeOK
  <2>4. report = "orders" => \A i \in R!Earned : table[i] = "FULFILLED"
    <3>1. report = "orders" => seen["earned"] # R!Unseen
      BY <1>1 DEF Of
    <3>2. QED
      BY <3>1 DEF FiguresInv, R!Earned, R!Having
  <2>5. \A i \in earned' : table'[i] = "FULFILLED"
    BY <2>1, <2>4
  <2>6. seen'["earned"] = R!Unseen /\ seen'["active"] = R!Unseen
    BY <1>3, StatementNames
  <2>7. QED
    BY <1>3, <2>1, <2>3, <2>5, <2>6 DEF FiguresInv, R!Unseen
<1>5. CASE R!Close
  <2>1. report' = "none" /\ table' = [i \in R!Row |-> "NONE"] /\ earned' = {} /\ changed' = FALSE
        /\ moved' = 0
    BY <1>5 DEF R!Close
  <2>2. R!TypeOK'
    BY <1>2, <2>1, Blank DEF R!TypeOK
  <2>3. QED
    BY <1>3, <2>1, <2>2 DEF FiguresInv, R!Unseen
<1>6. QED
  BY <1>4, <1>5

LEMMA ReadKeeps == ASSUME FiguresInv, NEW i \in 1..3, R!Read(i) PROVE FiguresInv'
<1>t. /\ R!TypeOK /\ table \in [R!Row -> R!AnyStatus] /\ report \in R!Report
      /\ seen \in [R!Statement -> [R!Row -> R!AnyStatus] \cup {R!Unseen}]
  BY DEF FiguresInv, R!TypeOK, R!Read
<1> DEFINE S == R!Statements(report)
<1>1. /\ i \in DOMAIN S /\ seen[S[i]] = R!Unseen
      /\ report \notin R!Parallel => \A j \in 1..(i - 1) : seen[S[j]] # R!Unseen
      /\ changed' = (changed /\ \E j \in DOMAIN S : seen[S[j]] # R!Unseen)
      /\ seen' = [seen EXCEPT ![S[i]] = table]
      /\ UNCHANGED <<report, table, earned, moved>>
  BY DEF R!Read
<1>2. PICK s \in Of(report) : s = S[i]
  BY <1>t, <1>1, StatementsOf
<1>3. s \in R!Statement
  BY <1>t, <1>2, StatementsOf
<1>4. /\ seen[s] = R!Unseen /\ seen'[s] = table
      /\ \A q \in R!Statement : q # s => seen'[q] = seen[q]
      /\ report = "orders" /\ s = "active" => seen["earned"] # R!Unseen
  <2>1. seen[s] = R!Unseen /\ seen' = [seen EXCEPT ![s] = table]
    BY <1>1, <1>2
  <2>2. ASSUME report = "orders", s = "active" PROVE seen["earned"] # R!Unseen
    <3>1. S = <<"earned", "active">>
      BY <2>2 DEF R!Statements
    <3>2. i = 2
      BY <1>1, <1>2, <2>2, <3>1
    <3>3. report \notin R!Parallel
      BY <2>2 DEF R!Parallel
    <3>4. 1 \in 1..(i - 1)
      BY <3>2
    <3>5. seen[S[1]] # R!Unseen
      BY <1>1, <3>3, <3>4
    <3>6. QED
      BY <3>1, <3>5
  <2>3. QED
    BY <1>3, <1>t, <2>1, <2>2
<1>5. R!TypeOK'
  <2>1. seen' \in [R!Statement -> [R!Row -> R!AnyStatus] \cup {R!Unseen}]
    BY <1>t, <1>1
  <2>2. changed' \in BOOLEAN
    <3>1. PICK b \in BOOLEAN : b = (changed /\ \E j \in DOMAIN S : seen[S[j]] # R!Unseen)
      OBVIOUS
    <3>2. QED
      BY <1>1, <3>1
  <2>3. QED
    BY <1>t, <1>1, <2>1, <2>2 DEF R!TypeOK
<1>6. ~changed' => \A q \in R!Statement : seen'[q] # R!Unseen => seen'[q] = table
  <2> SUFFICES ASSUME ~changed', NEW q \in R!Statement, seen'[q] # R!Unseen, q # s
               PROVE  seen'[q] = table
    BY <1>4
  <2>1. seen[q] # R!Unseen
    BY <1>4
  <2>2. q \in Of(report)
    BY <2>1 DEF FiguresInv
  <2>3. \E j \in DOMAIN S : S[j] = q
    BY <1>t, <2>2, StatementsOf
  <2>4. ~changed
    BY <1>1, <2>1, <2>3
  <2>5. QED
    BY <1>4, <2>1, <2>4 DEF FiguresInv
<1>7. \A q \in R!Statement : seen'[q] # R!Unseen => report \in R!Report /\ q \in Of(report)
  BY <1>2, <1>4, <1>t DEF FiguresInv
<1>8. ASSUME report = "orders"
      PROVE  /\ seen'["active"] # R!Unseen => seen'["earned"] # R!Unseen
             /\ seen'["earned"] # R!Unseen =>
                  \A r \in R!Row : /\ r \in earned => seen'["earned"][r] = "FULFILLED"
                                   /\ seen'["earned"][r] = "FULFILLED" => table[r] = "FULFILLED"
             /\ seen'["active"] # R!Unseen =>
                  \A r \in R!Row : seen'["earned"][r] = "FULFILLED" => seen'["active"][r] = "FULFILLED"
  <2>1. \A r \in earned : table[r] = "FULFILLED"
    BY DEF FiguresInv
  <2>2. s = "earned" \/ s = "active"
    BY <1>8 DEF Of
  <2>3. "earned" \in R!Statement /\ "active" \in R!Statement
    BY StatementNames
  <2>4. CASE s = "earned"
    <3>1. seen'["earned"] = table /\ seen'["active"] = seen["active"] /\ seen["earned"] = R!Unseen
      BY <1>4, <2>3, <2>4
    <3>2. seen["active"] = R!Unseen
      BY <1>8, <3>1 DEF FiguresInv
    <3>3. table # R!Unseen \/ seen'["earned"] = R!Unseen
      BY <3>1
    <3>4. QED
      BY <2>1, <3>1, <3>2
  <2>5. CASE s = "active"
    <3>1. seen'["active"] = table /\ seen'["earned"] = seen["earned"] /\ seen["earned"] # R!Unseen
      BY <1>4, <1>8, <2>3, <2>5
    <3>2. \A r \in R!Row : /\ r \in earned => seen["earned"][r] = "FULFILLED"
                           /\ seen["earned"][r] = "FULFILLED" => table[r] = "FULFILLED"
      BY <1>8, <3>1 DEF FiguresInv
    <3>3. QED
      BY <3>1, <3>2
  <2>6. QED
    BY <2>2, <2>4, <2>5
<1>9. QED
  <2>1. R!Unseen' = R!Unseen
    BY DEF R!Unseen
  <2>2. earned' = earned /\ report' = report /\ table' = table
    BY <1>1
  <2>3. (report # "orders" => earned = {}) /\ \A r \in earned : table[r] = "FULFILLED"
    BY DEF FiguresInv
  <2>4. QED
    BY <1>5, <1>6, <1>7, <1>8, <2>1, <2>2, <2>3 DEF FiguresInv

LEMMA FiguresNext == FiguresInv /\ [R!Next]_(R!vars) => FiguresInv'
<1> SUFFICES ASSUME FiguresInv, [R!Next]_(R!vars) PROVE FiguresInv'
  OBVIOUS
<1>1. CASE UNCHANGED R!vars
  BY <1>1 DEF R!vars, FiguresInv, R!TypeOK, R!Unseen
<1>2. QED
  BY <1>1, ChangeKeeps, ReadKeeps, OpenKeeps, AgainKeeps DEF R!Next

(* Counting the rows of a page. *)
LEMMA Counts ==
  ASSUME FiguresInv, NEW s, NEW statuses
  PROVE  /\ R!Number(s, statuses) = Cardinality(R!Having(s, statuses))
         /\ IsFiniteSet(R!Having(s, statuses)) /\ R!Number(s, statuses) \in Nat
<1>1. R!Number(s, statuses) = Cardinality(R!Having(s, statuses))
  BY DEF R!Number, R!Cardinality, Cardinality
<1>2. IsFiniteSet(R!Row)
  BY ReportsAssumption, FS_Interval DEF R!Row, R!ReportsAssumption
<1>3. IsFiniteSet(R!Having(s, statuses))
  BY <1>2, FS_Subset DEF R!Having
<1>4. QED
  BY <1>1, <1>3, FS_CardinalityType

(* A share of no more than all, in percent. *)
LEMMA Percent ==
  ASSUME NEW n \in Nat, NEW d \in Nat, d # 0, n <= d
  PROVE  R!Rounded(100 * n, d) <= 100
<1> DEFINE m == 2 * (100 * n) + d
           e == 2 * d
           q == m \div e
<1>1. m \in Nat /\ e \in Nat /\ e > 0 /\ m < 101 * e
  OBVIOUS
<1> HIDE DEF m, e
<1>2. q \in Int /\ e * q <= m
  BY <1>1
<1>3. ASSUME q >= 101 PROVE FALSE
  <2>1. e * q >= e * 101
    BY <1>1, <1>2, <1>3
  <2>2. QED
    BY <1>1, <1>2, <2>1
<1>4. q <= 100
  BY <1>2, <1>3
<1>5. QED
  BY <1>4 DEF R!Rounded, m, e

LEMMA ThreeOfAll ==
  ASSUME FiguresInv, NEW s, NEW t, NEW all, NEW A, NEW B, NEW C,
         A \cap B = {}, A \cap C = {}, B \cap C = {},
         (R!Having(s, A) \cup R!Having(s, B)) \cup R!Having(s, C) \subseteq R!Having(t, all)
  PROVE  R!Number(s, A) + R!Number(s, B) + R!Number(s, C) <= R!Number(t, all)
<1> DEFINE P1 == R!Having(s, A)
           P2 == R!Having(s, B)
           P3 == R!Having(s, C)
           Q == R!Having(t, all)
<1>1. P1 \cap P2 = {} /\ (P1 \cup P2) \cap P3 = {}
  BY DEF R!Having
<1>2. IsFiniteSet(P1) /\ IsFiniteSet(P2) /\ IsFiniteSet(P3) /\ IsFiniteSet(Q)
  BY Counts
<1>3. /\ R!Number(s, A) = Cardinality(P1) /\ R!Number(s, B) = Cardinality(P2)
      /\ R!Number(s, C) = Cardinality(P3) /\ R!Number(t, all) = Cardinality(Q)
  BY Counts
<1>4. (P1 \cup P2) \cup P3 \subseteq Q
  OBVIOUS
<1> HIDE DEF P1, P2, P3, Q
<1>5. IsFiniteSet(P1 \cup P2) /\ Cardinality(P1 \cup P2) = Cardinality(P1) + Cardinality(P2) - Cardinality(P1 \cap P2)
  BY <1>2, FS_Union
<1>6. Cardinality((P1 \cup P2) \cup P3)
        = Cardinality(P1 \cup P2) + Cardinality(P3) - Cardinality((P1 \cup P2) \cap P3)
  BY <1>2, <1>5, FS_Union
<1>7. Cardinality(P1 \cap P2) = 0 /\ Cardinality((P1 \cup P2) \cap P3) = 0
  BY <1>1, FS_EmptySet
<1>8. Cardinality((P1 \cup P2) \cup P3) <= Cardinality(Q)
  BY <1>2, <1>4, FS_Subset
<1>9. /\ Cardinality(P1) \in Nat /\ Cardinality(P2) \in Nat /\ Cardinality(P3) \in Nat
      /\ Cardinality(Q) \in Nat
  BY <1>2, FS_CardinalityType
<1>10. QED
  BY <1>3, <1>5, <1>6, <1>7, <1>8, <1>9

LEMMA PartOfAll ==
  ASSUME FiguresInv, NEW s, NEW t, NEW all, NEW A, R!Having(s, A) \subseteq R!Having(t, all)
  PROVE  R!Number(s, A) <= R!Number(t, all)
  BY Counts, FS_Subset

LEMMA InvFigures == FiguresInv => R!FiguresAgree
<1> SUFFICES ASSUME FiguresInv, R!AllSeen
             PROVE  /\ \/ changed
                       \/ /\ report = "farms" => R!FarmsAgree
                          /\ report = "listings" => R!ListingsAgree
                          /\ report = "sales" => R!SalesAgree
                          /\ report = "request" => R!RequestAgrees
                    /\ report = "orders" => R!Earned \cap R!Active = {} /\ earned \subseteq R!Earned
  BY DEF R!FiguresAgree
<1>1. /\ R!TypeOK /\ report \in R!Report /\ \A s \in Of(report) : seen[s] # R!Unseen
      /\ Of(report) \subseteq R!Statement
  BY AllSeenOf, StatementsOf DEF FiguresInv
<1>2. ~changed => \A s \in Of(report) : seen[s] = table
  BY <1>1 DEF FiguresInv
<1>3. ASSUME ~changed, report = "farms" PROVE R!FarmsAgree
  <2>1. seen["statuses"] = table /\ seen["total"] = table
    BY <1>2, <1>3 DEF Of
  <2>2. {"VERIFIED", "PENDING", "SUSPENDED"} \subseteq R!There("farms")
    BY DEF R!There, R!StatusOf, R!FarmStatus
  <2>3. (R!Having("statuses", {"VERIFIED"}) \cup R!Having("statuses", {"PENDING"}))
          \cup R!Having("statuses", {"SUSPENDED"}) \subseteq R!Having("total", R!There("farms"))
    BY <2>1, <2>2 DEF R!Having
  <2>4. R!ByStatus <= R!TotalFarms
    <3>1. R!Number("statuses", {"VERIFIED"}) + R!Number("statuses", {"PENDING"})
            + R!Number("statuses", {"SUSPENDED"}) <= R!Number("total", R!There("farms"))
      BY <2>3, ThreeOfAll
    <3>2. QED
      BY <3>1 DEF R!ByStatus, R!TotalFarms, R!VerifiedFarms
  <2>5. R!VerifiedFarms <= R!TotalFarms /\ R!VerifiedFarms \in Nat /\ R!TotalFarms \in Nat
    BY <2>3, PartOfAll, Counts DEF R!VerifiedFarms, R!TotalFarms
  <2>6. R!VerificationRate <= 100
    BY <2>5, Percent DEF R!VerificationRate
  <2>7. QED
    BY <2>4, <2>6 DEF R!FarmsAgree
<1>4. ASSUME ~changed, report = "listings" PROVE R!ListingsAgree
  <2>1. seen["statuses"] = table /\ seen["total"] = table /\ seen["recent"] = table
    BY <1>2, <1>4 DEF Of
  <2>2. \A i \in R!Row : table[i] \in R!ListingStatus
    BY <1>4 DEF FiguresInv, R!StatusOf
  <2> DEFINE P1 == R!Having("statuses", {"PUBLISHED", "SOLD_OUT"})
             P2 == R!Having("statuses", {"DRAFT", "DISABLED"})
             Q == R!Having("total", R!There("listings"))
  <2>3. P1 \cap P2 = {} /\ P1 \cup P2 = Q
    BY <2>1, <2>2 DEF R!Having, R!There, R!StatusOf, R!ListingStatus
  <2>4. /\ IsFiniteSet(P1) /\ IsFiniteSet(P2)
        /\ R!ActiveListings = Cardinality(P1) /\ R!InactiveListings = Cardinality(P2)
        /\ R!Number("total", R!There("listings")) = Cardinality(Q)
    BY Counts DEF R!ActiveListings, R!InactiveListings
  <2>5. R!Number("recent", R!There("listings")) <= R!Number("total", R!There("listings"))
    <3>1. R!Having("recent", R!There("listings")) \subseteq R!Having("total", R!There("listings"))
      BY <2>1 DEF R!Having
    <3>2. QED
      BY <3>1, PartOfAll
  <2> HIDE DEF P1, P2, Q
  <2>6. Cardinality(P1 \cup P2) = Cardinality(P1) + Cardinality(P2) - Cardinality(P1 \cap P2)
    BY <2>4, FS_Union
  <2>7. Cardinality(P1 \cap P2) = 0 /\ Cardinality(P1 \cup P2) = Cardinality(Q)
    BY <2>3, FS_EmptySet
  <2>8. Cardinality(P1) \in Nat /\ Cardinality(P2) \in Nat
    BY <2>4, FS_CardinalityType
  <2>9. QED
    BY <2>4, <2>5, <2>6, <2>7, <2>8 DEF R!ListingsAgree
<1>5. ASSUME ~changed, report = "sales" PROVE R!SalesAgree
  <2>1. seen["sold"] = table /\ seen["completed"] = table /\ seen["recent"] = table
    BY <1>2, <1>5 DEF Of
  <2>2. "FULFILLED" \in R!Sale
    BY DEF R!Sale, R!There, R!StatusOf, R!OrderStatus
  <2>3. /\ R!Having("completed", {"FULFILLED"}) \subseteq R!Having("sold", R!Sale)
        /\ R!Having("recent", R!Sale) = R!Having("sold", R!Sale)
    BY <2>1, <2>2 DEF R!Having
  <2>4. QED
    BY <2>3, PartOfAll DEF R!SalesAgree
<1>6. ASSUME ~changed, report = "request" PROVE R!RequestAgrees
  <2>1. seen["checkouts"] = table /\ seen["request"] = table
    BY <1>2, <1>6 DEF Of
  <2>2. QED
    BY <2>1 DEF R!RequestAgrees, R!Having
<1>7. ASSUME report = "orders"
      PROVE  R!Earned \cap R!Active = {} /\ earned \subseteq R!Earned
  <2>1. seen["earned"] # R!Unseen /\ seen["active"] # R!Unseen
    BY <1>1, <1>7 DEF Of
  <2>2. \A i \in R!Row : /\ i \in earned => seen["earned"][i] = "FULFILLED"
                         /\ seen["earned"][i] = "FULFILLED" => seen["active"][i] = "FULFILLED"
    BY <1>7, <2>1 DEF FiguresInv
  <2>3. earned \subseteq R!Row
    BY <1>1 DEF R!TypeOK
  <2>4. QED
    BY <2>2, <2>3 DEF R!Earned, R!Active, R!Having
<1>8. QED
  BY <1>3, <1>4, <1>5, <1>6, <1>7

LEMMA ReportsPart == OneOfThem => R!Spec
<1>1. InitTogether => R!Init
  BY DEF InitTogether
<1>2. [NextTogether]_together => [R!Next]_(R!vars)
  BY DEF NextTogether, together, ofReports, R!vars
<1>3. QED
  BY <1>1, <1>2, PTL DEF OneOfThem, R!Spec

(* The figures of a page add up unless the table changed while it was        *)
(* loaded, and those of the orders' page always, for any number of rows.     *)
THEOREM TogetherFiguresAgree == OneOfThem => []FiguresAgree
<1>1. R!FiguresAgree => FiguresAgree
  BY DEF FiguresAgree
<1>2. R!Spec => []FiguresInv
  BY FiguresInit, FiguresNext, PTL DEF R!Spec
<1>3. QED
  BY <1>1, <1>2, InvFigures, ReportsPart, PTL

-----------------------------------------------------------------------------
(* The lists.  A row that stays, and whose place the sort decides, has as     *)
(* many rows ahead of it as are listed before it; it was on a page if and     *)
(* only if they are fewer than were read so far, but for rows that came in    *)
(* front of it or left the front of it.                                       *)
Kept == {r \in steady : ~L!Tied(r)}
Ahead(r) == {s \in L!Listed(key) : L!Before(key, s, r)}
Pos(r) == Cardinality(Ahead(r))

(* r was on read pages of those with the first upto rows. *)
Met(r, read, upto) ==
  /\ r \notin dropped /\ read = 0 => upto <= Pos(r)
  /\ r \notin raised => read <= 1 /\ (read = 1 => Pos(r) < upto)
OnPage(r, rows) == IF r \in L!ToSet(rows) THEN 1 ELSE 0
Upto == IF data = L!Waiting THEN L!Skip ELSE L!Skip + perPage
Reading(r) ==
  /\ Met(r, got[r] + OnPage(r, data), Upto)
  /\ total # -1 /\ r \notin raised => Pos(r) < total

ListsInv ==
  /\ L!TypeOK
  /\ steady \subseteq L!Listed(key) /\ L!Level(key) \subseteq level
  /\ page # 0 => \A r \in Kept : Reading(r)
  /\ total # -1 => list.counts = "either" /\ page # 0
  /\ ended => page = 0
  /\ L!PagesComplete

LEMMA ListedFinite ==
  \A k : /\ IsFiniteSet(L!Listed(k)) /\ Cardinality(L!Listed(k)) \in 0..MaxRow
         /\ \A S : S \subseteq L!Listed(k) => IsFiniteSet(S) /\ Cardinality(S) \in Nat
<1>1. MaxRow \in Nat /\ IsFiniteSet(1..MaxRow) /\ Cardinality(1..MaxRow) = MaxRow
  BY ListsAssumption, FS_Interval DEF L!ListsAssumption
<1>2. ASSUME NEW S, S \subseteq 1..MaxRow
      PROVE  IsFiniteSet(S) /\ Cardinality(S) \in Nat /\ Cardinality(S) <= MaxRow
  BY <1>1, <1>2, FS_Subset, FS_CardinalityType
<1>3. ASSUME NEW k PROVE L!Listed(k) \subseteq 1..MaxRow
  BY DEF L!Listed, L!Row
<1>4. QED
  BY <1>1, <1>2, <1>3

(* Who changes places with r is in front of it before or after.              *)
LEMMA AheadMoves ==
  ASSUME L!TypeOK, steady \subseteq L!Listed(key), NEW x \in L!Row, NEW v \in 0..MaxKey,
         L!Change(x, v), NEW r \in steady'
  PROVE  /\ r \in steady /\ r # x
         /\ r \notin raised' => Ahead(r)' \subseteq Ahead(r)
         /\ r \notin dropped' => Ahead(r) \subseteq Ahead(r)'
<1> DEFINE k == [key EXCEPT ![x] = v]
<1>1. /\ key' = k /\ list' = list /\ steady' = steady \ {x}
      /\ raised' = raised \cup
           ({s \in L!Listed(k) \ {x} : k[x] # 0 /\ L!Before(k, x, s)} \
              {s \in L!Listed(key) \ {x} : key[x] # 0 /\ L!Before(key, x, s)})
      /\ dropped' = dropped \cup
           ({s \in L!Listed(key) \ {x} : key[x] # 0 /\ L!Before(key, x, s)} \
              {s \in L!Listed(k) \ {x} : k[x] # 0 /\ L!Before(k, x, s)})
  BY DEF L!Change, L!table
<1>2. r \in steady /\ r # x /\ r \in L!Listed(key)
  BY <1>1
<1>3. key \in [L!Row -> 0..MaxKey]
  BY DEF L!TypeOK
<1>4. /\ \A s \in L!Row : s # x => k[s] = key[s]
      /\ r \in L!Row /\ k[r] = key[r] /\ key[r] # 0
  BY <1>2, <1>3 DEF L!Listed
<1> HIDE DEF k
<1>5. Ahead(r)' = {s \in L!Listed(k) : L!Before(k, s, r)}
  BY <1>1 DEF Ahead, L!Listed, L!Before
<1>6. \A s \in L!Row : s # x => (s \in Ahead(r)' <=> s \in Ahead(r))
  BY <1>4, <1>5 DEF Ahead, L!Listed, L!Before
<1>7. Ahead(r) \subseteq L!Row /\ Ahead(r)' \subseteq L!Row
  BY <1>5 DEF Ahead, L!Listed
<1>8. r \in L!Listed(k) \ {x} /\ r \in L!Listed(key) \ {x}
  BY <1>2, <1>4 DEF L!Listed
<1>9. ASSUME r \notin raised', x \in Ahead(r)' PROVE x \in Ahead(r)
  <2>1. k[x] # 0 /\ L!Before(k, x, r)
    BY <1>5, <1>9 DEF L!Listed
  <2>2. key[x] # 0 /\ L!Before(key, x, r)
    BY <1>1, <1>8, <1>9, <2>1
  <2>3. QED
    BY <2>2 DEF Ahead, L!Listed
<1>10. ASSUME r \notin dropped', x \in Ahead(r) PROVE x \in Ahead(r)'
  <2>1. key[x] # 0 /\ L!Before(key, x, r)
    BY <1>10 DEF Ahead, L!Listed
  <2>2. k[x] # 0 /\ L!Before(k, x, r)
    BY <1>1, <1>8, <1>10, <2>1
  <2>3. QED
    BY <1>5, <2>2 DEF L!Listed
<1>11. QED
  BY <1>2, <1>6, <1>7, <1>9, <1>10

LEMMA ArrangementParts ==
  ASSUME NEW rows \in L!Arrangements
  PROVE  LET S == L!Listed(key)
             n == Cardinality(S)
         IN  /\ rows \in [1..n -> S] /\ Len(rows) = n
             /\ \A i, j \in 1..n : i # j => rows[i] # rows[j]
             /\ \A i, j \in 1..n : L!Before(key, rows[i], rows[j]) => i < j
<1> DEFINE S == L!Listed(key)
           n == Cardinality(S)
<1>1. L!Cardinality(S) = n /\ n \in Nat
  BY ListedFinite DEF L!Cardinality, Cardinality
<1>2. /\ rows \in L!SetToSeqs(S)
      /\ \A i, j \in DOMAIN rows : L!Before(key, rows[i], rows[j]) => i < j
  BY DEF L!Arrangements
<1> HIDE DEF n, S
<1>3. rows \in [1..n -> S] /\ \A i, j \in 1..n : i # j => rows[i] # rows[j]
  BY <1>1, <1>2 DEF L!SetToSeqs
<1>4. Len(rows) = n
  BY <1>1, <1>3
<1>5. QED
  BY <1>2, <1>3, <1>4 DEF n, S

(* A row that stays is in its place, however the rows are arranged.           *)
LEMMA InPlace ==
  ASSUME L!TypeOK, steady \subseteq L!Listed(key), L!Level(key) \subseteq level,
         NEW rows \in L!Arrangements, NEW r \in Kept
  PROVE  /\ rows \in [1..Cardinality(L!Listed(key)) -> L!Listed(key)]
         /\ \E i \in 1..Cardinality(L!Listed(key)) :
              /\ rows[i] = r /\ Pos(r) = i - 1
              /\ \A j \in 1..Cardinality(L!Listed(key)) : rows[j] = r => j = i
<1> DEFINE S == L!Listed(key)
           n == Cardinality(S)
<1>1. IsFiniteSet(S) /\ n \in Nat /\ IsFiniteSet(1..n) /\ Cardinality(1..n) = n
  BY ListedFinite, FS_Interval
<1>2. /\ rows \in [1..n -> S] /\ \A i, j \in 1..n : i # j => rows[i] # rows[j]
      /\ \A i, j \in 1..n : L!Before(key, rows[i], rows[j]) => i < j
  BY ArrangementParts
<1>3. rows \in Injection(1..n, S)
  BY <1>2 DEF Injection, IsInjective
<1>4. rows \in Surjection(1..n, S)
  BY <1>1, <1>3, FS_Injection
<1>5. PICK i \in 1..n : rows[i] = r
  BY <1>4 DEF Surjection, Kept
<1>6. ASSUME NEW s \in S, s # r PROVE L!Before(key, s, r) \/ L!Before(key, r, s)
  <2>1. r \in S /\ S \subseteq 1..MaxRow /\ key \in [L!Row -> 0..MaxKey] /\ MaxRow \in Nat /\ MaxKey \in Nat
    BY ListsAssumption DEF L!ListsAssumption, L!TypeOK, Kept, L!Listed, L!Row
  <2>2. key[s] \in Int /\ key[r] \in Int /\ s \in Int /\ r \in Int
    BY <2>1 DEF L!Row
  <2>3. list.tie \/ key[s] # key[r]
    BY <1>6, <2>1 DEF Kept, L!Tied, L!Level, L!Row
  <2>4. QED
    BY <1>6, <2>2, <2>3 DEF L!Before
<1>7. ~L!Before(key, r, r)
  <2>1. key[r] \in Int /\ r \in Int
    BY ListsAssumption DEF L!ListsAssumption, L!TypeOK, Kept, L!Listed, L!Row
  <2>2. QED
    BY <2>1 DEF L!Before
<1>8. \A j \in 1..n : L!Before(key, rows[j], r) <=> j < i
  BY <1>2, <1>5, <1>6, <1>7
<1> DEFINE f == [j \in 1..(i - 1) |-> rows[j]]
<1>9. f \in Bijection(1..(i - 1), Ahead(r))
  <2>1. \A j \in 1..(i - 1) : j \in 1..n /\ f[j] \in Ahead(r)
    BY <1>1, <1>2, <1>8 DEF Ahead
  <2>2. f \in [1..(i - 1) -> Ahead(r)]
    BY <2>1
  <2>3. \A a, b \in 1..(i - 1) : f[a] = f[b] => a = b
    BY <1>2, <2>1
  <2>4. ASSUME NEW s \in Ahead(r) PROVE \E j \in 1..(i - 1) : f[j] = s
    <3>1. s \in S /\ L!Before(key, s, r)
      BY DEF Ahead
    <3>2. PICK j \in 1..n : rows[j] = s
      BY <1>4, <3>1 DEF Surjection
    <3>3. j < i
      BY <1>8, <3>1, <3>2
    <3>4. QED
      BY <1>1, <3>2, <3>3
  <2>5. QED
    BY <2>2, <2>3, <2>4 DEF Bijection, Injection, Surjection, IsInjective
<1>10. ExistsBijection(1..(i - 1), Ahead(r))
  BY <1>9 DEF ExistsBijection
<1>11. IsFiniteSet(1..(i - 1)) /\ Cardinality(1..(i - 1)) = i - 1
  <2>1. i \in Nat /\ i >= 1 /\ i - 1 \in Int
    BY <1>1
  <2>2. /\ IsFiniteSet(1..(i - 1))
        /\ Cardinality(1..(i - 1)) = IF 1 > i - 1 THEN 0 ELSE (i - 1) - 1 + 1
    BY <2>1, FS_Interval
  <2>3. QED
    BY <2>1, <2>2
<1>12. Pos(r) = i - 1
  BY <1>10, <1>11, FS_Bijection DEF Pos
<1>13. QED
  BY <1>2, <1>5, <1>12

(* A page has the rows that are in a place of the page.                       *)
LEMMA Sliced ==
  ASSUME L!TypeOK, steady \subseteq L!Listed(key), L!Level(key) \subseteq level, page # 0,
         NEW rows \in L!Arrangements
  PROVE  /\ L!SliceOf(rows) \in Seq(L!Row) /\ L!Skip \in Nat
         /\ Len(rows) = Cardinality(L!Listed(key))
         /\ \A r \in Kept : r \in L!ToSet(L!SliceOf(rows)) <=>
                              L!Skip <= Pos(r) /\ Pos(r) < L!Skip + perPage
<1> DEFINE S == L!Listed(key)
           n == Cardinality(S)
           a == L!Skip
           m == L!Min({a + perPage, n})
           slice == L!SliceOf(rows)
<1>1. n \in Nat /\ page \in Nat \ {0} /\ perPage \in Nat \ {0} /\ S \subseteq L!Row
  <2>1. n \in Nat /\ S \subseteq L!Row
    BY ListedFinite DEF L!Listed
  <2>2. page \in 0..MaxRow + 1 /\ perPage \in 1..MaxSize /\ MaxRow \in Nat /\ MaxSize \in Nat
    BY ListsAssumption DEF L!TypeOK, L!ListsAssumption
  <2>3. QED
    BY <2>1, <2>2
<1>2. a \in Nat
  BY <1>1 DEF L!Skip
<1>3. rows \in [1..n -> S] /\ Len(rows) = n
  BY ArrangementParts
<1> HIDE DEF a
<1>4. m \in Nat /\ m <= n /\ m <= a + perPage /\ m \in {a + perPage, n}
  BY <1>1, <1>2 DEF L!Min
<1>5. slice = SubSeq(rows, a + 1, m)
  BY <1>3 DEF L!SliceOf, a
<1> HIDE DEF m, slice
<1>6. /\ slice \in Seq(S) /\ Len(slice) = (IF a + 1 <= m THEN m - a ELSE 0)
      /\ \A j \in 1..(m - a) : slice[j] = rows[a + j]
  BY <1>1, <1>2, <1>3, <1>4, <1>5
<1>7. ASSUME NEW r \in Kept
      PROVE  r \in L!ToSet(slice) <=> a <= Pos(r) /\ Pos(r) < a + perPage
  <2>1. PICK i \in 1..n : /\ rows[i] = r /\ Pos(r) = i - 1
                          /\ \A j \in 1..n : rows[j] = r => j = i
    BY InPlace
  <2>2. r \in L!ToSet(slice) <=> \E j \in 1..(m - a) : slice[j] = r
    <3>1. 1..Len(slice) = 1..(m - a)
      BY <1>2, <1>4, <1>6
    <3>2. DOMAIN slice = 1..Len(slice)
      BY <1>6
    <3>3. QED
      BY <3>1, <3>2 DEF L!ToSet
  <2>3. r \in L!ToSet(slice) <=> a + 1 <= i /\ i <= m
    <3>1. ASSUME NEW j \in 1..(m - a), slice[j] = r PROVE a + 1 <= i /\ i <= m
      <4>1. a + j \in 1..n /\ rows[a + j] = r /\ j \in Nat /\ j >= 1 /\ j <= m - a
        BY <1>1, <1>2, <1>4, <1>6, <3>1
      <4>2. a + j = i
        BY <2>1, <4>1
      <4>3. QED
        BY <1>2, <1>4, <4>1, <4>2
    <3>2. ASSUME a + 1 <= i, i <= m PROVE i - a \in 1..(m - a) /\ slice[i - a] = r
      BY <1>2, <1>4, <1>6, <2>1, <3>2
    <3>3. QED
      BY <2>2, <3>1, <3>2
  <2>4. QED
    BY <1>1, <1>2, <1>4, <2>1, <2>3
<1>8. slice \in Seq(L!Row)
  BY <1>1, <1>6
<1>9. QED
  BY <1>2, <1>3, <1>7, <1>8 DEF a, slice

(* Of the pages, as many as the count needs.                                  *)
LEMMA PagesEnough ==
  ASSUME NEW count \in Nat, NEW p \in Nat \ {0}, NEW size \in Nat \ {0}
  PROVE  /\ p >= (count + size - 1) \div size => count <= (p - 1) * size + size
         /\ ~(p >= (count + size - 1) \div size) => p < count
<1> DEFINE m == count + size - 1
           q == m \div size
<1>1. m \in Nat /\ size \in Nat /\ size > 0 /\ p >= 1
  OBVIOUS
<1> HIDE DEF m
<1>2. q \in Int /\ size * q <= m /\ m < size * (q + 1)
  BY <1>1
<1> HIDE DEF q
<1>3. ASSUME p >= q PROVE count <= (p - 1) * size + size
  <2>1. size * (q + 1) <= size * (p + 1)
    BY <1>1, <1>2, <1>3
  <2>2. m < size * (p + 1)
    BY <1>1, <1>2, <2>1
  <2>3. size * (p + 1) = (p - 1) * size + size + size
    BY <1>1
  <2>4. (p - 1) * size \in Nat
    BY <1>1
  <2>5. QED
    BY <1>1, <2>2, <2>3, <2>4 DEF m
<1>4. ASSUME ~(p >= q) PROVE p < count
  <2>1. p + 1 <= q
    BY <1>2, <1>4
  <2>2. size * (p + 1) <= size * q
    BY <1>1, <1>2, <2>1
  <2>3. size * (p + 1) <= m
    BY <1>1, <1>2, <2>2
  <2>4. size * p >= p /\ size * (p + 1) = size * p + size /\ size * p \in Nat
    BY <1>1
  <2>5. QED
    BY <1>1, <2>3, <2>4 DEF m
<1>5. QED
  BY <1>3, <1>4 DEF q, m

(* The rest of the reader's step: the page is shown, the next is asked for or *)
(* there is none.                                                             *)
LEMMA ShowStep ==
  ASSUME ListsInv, page # 0, NEW rows \in Seq(L!Row), NEW count \in 0..MaxRow,
         L!Show(rows, count),
         \A r \in Kept : Met(r, got[r] + OnPage(r, rows), L!Skip + perPage),
         \A r \in Kept : r \notin raised \/ list.counts # "either" => Pos(r) < count
  PROVE  ListsInv'
<1>1. L!TypeOK /\ steady \subseteq L!Listed(key) /\ L!Level(key) \subseteq level
  BY DEF ListsInv
<1>2. /\ page \in Nat \ {0} /\ perPage \in Nat \ {0} /\ count \in Nat /\ MaxRow \in Nat
      /\ L!Skip \in Nat
  <2>1. page \in 0..MaxRow + 1 /\ perPage \in 1..MaxSize /\ MaxRow \in Nat /\ MaxSize \in Nat
    BY <1>1, ListsAssumption DEF L!TypeOK, L!ListsAssumption
  <2>2. QED
    BY <2>1 DEF L!Skip
<1>3. /\ got' = L!Seen(rows) /\ data' = L!Waiting /\ total' = -1
      /\ ended' = (page >= L!TotalPages(count))
      /\ page' = (IF page >= L!TotalPages(count) THEN 0 ELSE page + 1)
      /\ UNCHANGED <<list, key, changes, steady, raised, dropped, level, perPage>>
  BY DEF L!Show, L!table
<1>4. /\ Kept' = Kept /\ \A r : (Pos(r)' = Pos(r)) /\ L!Tied(r)' = L!Tied(r)
  BY <1>3 DEF Kept, L!Tied, Pos, Ahead, L!Listed, L!Before
<1>5. /\ page >= L!TotalPages(count) => count <= L!Skip + perPage
      /\ ~(page >= L!TotalPages(count)) => page < count
  BY <1>2, PagesEnough DEF L!TotalPages, L!Skip
<1>6. got \in [L!Row -> 0..2] /\ Kept \subseteq L!Row
  BY <1>1 DEF L!TypeOK, Kept
<1>7. /\ got' \in [L!Row -> 0..2]
      /\ \A r \in L!Row : /\ got'[r] = 0 <=> got[r] + OnPage(r, rows) = 0
                          /\ got'[r] <= got[r] + OnPage(r, rows)
                          /\ got'[r] = 1 => got[r] + OnPage(r, rows) = 1
                          /\ got'[r] = 2 => got[r] + OnPage(r, rows) >= 2
  BY <1>3, <1>6 DEF L!Seen, OnPage
<1>8. L!TypeOK'
  <2>1. page' \in 0..MaxRow + 1
    BY <1>2, <1>3, <1>5
  <2>2. ended' \in BOOLEAN /\ data' = L!Waiting
    BY <1>3
  <2>3. total' \in -1..MaxRow
    BY <1>2, <1>3
  <2>4. QED
    BY <1>1, <1>3, <1>7, <2>1, <2>2, <2>3 DEF L!TypeOK
<1>9. \A r \in L!Row : OnPage(r, L!Waiting) = 0
  BY ListsAssumption DEF OnPage, L!Waiting, L!ToSet, L!Row
<1>10. ASSUME page' # 0, NEW r \in Kept PROVE Reading(r)'
  <2>1. page' = page + 1 /\ L!Skip' = L!Skip + perPage
    <3>1. page' = page + 1
      BY <1>3, <1>10
    <3>2. ((page + 1) - 1) * perPage = (page - 1) * perPage + perPage
      BY <1>2
    <3>3. QED
      BY <1>3, <3>1, <3>2 DEF L!Skip
  <2>2. Upto' = L!Skip + perPage
    BY <1>3, <2>1 DEF Upto, L!Waiting
  <2>3. OnPage(r, data)' = 0
    BY <1>3, <1>6, <1>9 DEF OnPage, L!ToSet
  <2>4. Met(r, got[r] + OnPage(r, rows), L!Skip + perPage) /\ r \in L!Row
    BY <1>6
  <2>5. got'[r] \in Nat /\ got[r] + OnPage(r, rows) \in Nat
    BY <1>6, <1>7, <2>4 DEF OnPage
  <2>6. Met(r, got[r] + OnPage(r, data), Upto)'
    BY <1>3, <1>4, <1>7, <2>2, <2>3, <2>4, <2>5 DEF Met
  <2>7. QED
    BY <1>3, <2>6 DEF Reading
<1>11. L!PagesComplete'
  <2> SUFFICES ASSUME ended', NEW r \in steady', ~L!Tied(r)'
               PROVE  /\ got'[r] = 0 => \/ r \in dropped
                                        \/ list.counts = "either" /\ r \in raised
                      /\ got'[r] = 2 => r \in raised
    BY <1>3 DEF L!PagesComplete
  <2>1. r \in Kept /\ r \in L!Row
    BY <1>3, <1>4, <1>6 DEF Kept
  <2>2. count <= L!Skip + perPage
    BY <1>3, <1>5
  <2>3. Met(r, got[r] + OnPage(r, rows), L!Skip + perPage)
    BY <2>1
  <2>4. Pos(r) \in Nat
    BY ListedFinite DEF Pos, Ahead
  <2>5. ASSUME got'[r] = 0, r \notin dropped PROVE list.counts = "either" /\ r \in raised
    BY <1>2, <1>7, <2>1, <2>2, <2>3, <2>4, <2>5 DEF Met
  <2>6. ASSUME got'[r] = 2 PROVE r \in raised
    <3>1. got[r] + OnPage(r, rows) >= 2 /\ got[r] + OnPage(r, rows) \in Nat
      BY <1>6, <1>7, <2>1, <2>6 DEF OnPage
    <3>2. QED
      BY <2>3, <3>1 DEF Met
  <2>7. QED
    BY <2>5, <2>6
<1>12. steady' \subseteq L!Listed(key)' /\ L!Level(key)' \subseteq level'
  BY <1>1, <1>3 DEF L!Listed, L!Level
<1>13. ended' => page' = 0
  BY <1>3
<1>14. QED
  BY <1>3, <1>4, <1>8, <1>10, <1>11, <1>12, <1>13 DEF ListsInv

(* Who is listed is behind no more rows than are listed beside it.            *)
LEMMA LessThanListed ==
  ASSUME L!TypeOK, steady \subseteq L!Listed(key), NEW r \in Kept
  PROVE  Pos(r) \in Nat /\ Pos(r) < Cardinality(L!Listed(key))
<1> DEFINE S == L!Listed(key)
<1>1. r \in S /\ r \in L!Row /\ key[r] \in Int /\ r \in Int
  BY ListsAssumption DEF Kept, L!Listed, L!Row, L!TypeOK, L!ListsAssumption
<1>2. r \notin Ahead(r) /\ Ahead(r) \subseteq S
  BY <1>1 DEF Ahead, L!Before
<1>3. IsFiniteSet(S) /\ Ahead(r) \subseteq S \ {r}
  BY <1>2, ListedFinite
<1>4. /\ Cardinality(S \ {r}) = Cardinality(S) - 1 /\ IsFiniteSet(S \ {r})
      /\ Cardinality(S) \in Nat
  BY <1>1, <1>3, FS_RemoveElement, ListedFinite
<1>5. Cardinality(Ahead(r)) <= Cardinality(S \ {r}) /\ Cardinality(Ahead(r)) \in Nat
  BY <1>3, <1>4, FS_Subset, FS_CardinalityType
<1>6. QED
  BY <1>4, <1>5 DEF Pos

(* What the rows of a page add to what was read.                              *)
LEMMA FindMeets ==
  ASSUME ListsInv, page # 0, data = L!Waiting, NEW rows \in L!Arrangements, NEW r \in Kept
  PROVE  Met(r, got[r] + OnPage(r, L!SliceOf(rows)), L!Skip + perPage)
<1>1. L!TypeOK /\ steady \subseteq L!Listed(key) /\ L!Level(key) \subseteq level
  BY DEF ListsInv
<1>2. Met(r, got[r] + OnPage(r, data), Upto) /\ Upto = L!Skip
  BY DEF ListsInv, Reading, Upto
<1>3. r \in L!Row /\ got[r] \in 0..2 /\ perPage \in Nat \ {0}
  BY <1>1, ListsAssumption DEF Kept, L!Listed, L!TypeOK, L!ListsAssumption
<1>4. OnPage(r, data) = 0
  BY <1>3, ListsAssumption DEF OnPage, L!Waiting, L!ToSet, L!Row
<1>5. /\ L!Skip \in Nat
      /\ r \in L!ToSet(L!SliceOf(rows)) <=> L!Skip <= Pos(r) /\ Pos(r) < L!Skip + perPage
  BY <1>1, Sliced
<1>6. Pos(r) \in Nat
  BY <1>1, LessThanListed
<1>7. Met(r, got[r], L!Skip)
  BY <1>2, <1>3, <1>4
<1>8. QED
  BY <1>3, <1>5, <1>6, <1>7 DEF Met, OnPage

LEMMA FindStep == ListsInv /\ L!Find => ListsInv'
<1> SUFFICES ASSUME ListsInv, L!Find PROVE ListsInv'
  OBVIOUS
<1>1. /\ L!TypeOK /\ steady \subseteq L!Listed(key) /\ L!Level(key) \subseteq level
      /\ total # -1 => list.counts = "either"
      /\ \A r \in Kept : Reading(r)
  BY DEF ListsInv, L!Find
<1>2. page # 0 /\ data = L!Waiting
  BY DEF L!Find
<1>3. PICK rows \in L!Arrangements :
        IF total # -1 THEN L!Show(L!SliceOf(rows), total)
        ELSE IF list.counts = "with" THEN L!Show(L!SliceOf(rows), Len(rows))
        ELSE /\ data' = L!SliceOf(rows)
             /\ UNCHANGED <<L!table, page, perPage, total, got, ended>>
  BY DEF L!Find
<1>4. /\ L!SliceOf(rows) \in Seq(L!Row) /\ L!Skip \in Nat
      /\ Len(rows) = Cardinality(L!Listed(key)) /\ Len(rows) \in 0..MaxRow
  BY <1>1, <1>2, Sliced, ListedFinite
<1>5. \A r \in Kept : Met(r, got[r] + OnPage(r, L!SliceOf(rows)), L!Skip + perPage)
  BY <1>2, FindMeets
<1>6. \A r \in Kept : Pos(r) \in Nat /\ Pos(r) < Len(rows)
  BY <1>1, <1>4, LessThanListed
<1>7. CASE total # -1
  <2>1. total \in 0..MaxRow
    BY <1>1, <1>7, ListsAssumption DEF L!TypeOK, L!ListsAssumption
  <2>2. \A r \in Kept : r \notin raised \/ list.counts # "either" => Pos(r) < total
    BY <1>1, <1>7 DEF Reading
  <2>3. L!Show(L!SliceOf(rows), total)
    BY <1>3, <1>7
  <2>4. QED
    BY <1>2, <1>4, <1>5, <2>1, <2>2, <2>3, ShowStep
<1>8. CASE total = -1 /\ list.counts = "with"
  <2>1. L!Show(L!SliceOf(rows), Len(rows))
    BY <1>3, <1>8
  <2>2. \A r \in Kept : r \notin raised \/ list.counts # "either" => Pos(r) < Len(rows)
    BY <1>6
  <2>3. QED
    BY <1>2, <1>4, <1>5, <2>1, <2>2, ShowStep
<1>9. CASE total = -1 /\ list.counts # "with"
  <2>1. /\ data' = L!SliceOf(rows)
        /\ UNCHANGED <<list, key, changes, steady, raised, dropped, level,
                       page, perPage, total, got, ended>>
    BY <1>3, <1>9 DEF L!table
  <2>2. /\ Kept' = Kept /\ \A r : (Pos(r)' = Pos(r)) /\ L!Skip' = L!Skip
        /\ L!PagesComplete' = L!PagesComplete
    BY <2>1 DEF Kept, L!Tied, Pos, Ahead, L!Listed, L!Before, L!Skip, L!PagesComplete
  <2>3. data' # L!Waiting
    <3>1. \A i \in 1..Len(data') : data'[i] # 0
      BY <1>4, <2>1, ListsAssumption DEF L!Row, L!ListsAssumption
    <3>2. L!Waiting[1] = 0 /\ Len(L!Waiting) = 1
      BY DEF L!Waiting
    <3>3. QED
      BY <3>1, <3>2
  <2>4. L!Waiting' = L!Waiting
    BY DEF L!Waiting
  <2>5. ASSUME NEW r \in Kept PROVE Reading(r)'
    <3>1. Upto' = L!Skip + perPage
      BY <2>1, <2>2, <2>3, <2>4 DEF Upto
    <3>2. OnPage(r, data)' = OnPage(r, L!SliceOf(rows))
      BY <2>1 DEF OnPage
    <3>3. Met(r, got[r] + OnPage(r, data), Upto)'
      BY <1>5, <2>1, <2>2, <3>1, <3>2 DEF Met
    <3>4. QED
      BY <1>9, <2>1, <3>3 DEF Reading
  <2>6. L!TypeOK'
    BY <1>1, <1>4, <2>1, <2>4 DEF L!TypeOK
  <2>7. L!Listed(key)' = L!Listed(key) /\ L!Level(key)' = L!Level(key)
    BY <2>1 DEF L!Listed, L!Level
  <2>8. QED
    BY <1>9, <2>1, <2>2, <2>5, <2>6, <2>7 DEF ListsInv
<1>10. QED
  BY <1>7, <1>8, <1>9

LEMMA CountStep == ListsInv /\ L!Count => ListsInv'
<1> SUFFICES ASSUME ListsInv, L!Count PROVE ListsInv'
  OBVIOUS
<1>1. /\ L!TypeOK /\ steady \subseteq L!Listed(key) /\ L!Level(key) \subseteq level
      /\ \A r \in Kept : Reading(r)
  BY DEF ListsInv, L!Count
<1> DEFINE n == Cardinality(L!Listed(key))
<1>2. n \in 0..MaxRow /\ L!Cardinality(L!Listed(key)) = n
  BY ListedFinite DEF L!Cardinality, Cardinality
<1>3. \A r \in Kept : Pos(r) \in Nat /\ Pos(r) < n
  BY <1>1, LessThanListed
<1> HIDE DEF n
<1>4. page # 0 /\ total = -1
  BY DEF L!Count
<1>5. CASE data # L!Waiting /\ L!Show(data, n)
  <2>1. data \in Seq(L!Row)
    BY <1>1, <1>5 DEF L!TypeOK
  <2>2. \A r \in Kept : Met(r, got[r] + OnPage(r, data), L!Skip + perPage)
    BY <1>1, <1>5 DEF Reading, Upto
  <2>3. \A r \in Kept : r \notin raised \/ list.counts # "either" => Pos(r) < n
    BY <1>3
  <2>4. QED
    BY <1>2, <1>4, <1>5, <2>1, <2>2, <2>3, ShowStep
<1>6. CASE /\ list.counts = "either" /\ total' = n
           /\ UNCHANGED <<L!table, page, perPage, data, got, ended>>
  <2>1. UNCHANGED <<list, key, changes, steady, raised, dropped, level,
                    page, perPage, data, got, ended>>
    BY <1>6 DEF L!table
  <2>2. /\ Kept' = Kept /\ \A r : (Pos(r)' = Pos(r)) /\ L!Skip' = L!Skip
        /\ L!PagesComplete' = L!PagesComplete
        /\ Upto' = Upto /\ \A r : OnPage(r, data)' = OnPage(r, data)
    BY <2>1 DEF Kept, L!Tied, Pos, Ahead, L!Listed, L!Before, L!Skip, L!PagesComplete,
                Upto, OnPage, L!Waiting
  <2>3. ASSUME NEW r \in Kept PROVE Reading(r)'
    <3>1. Met(r, got[r] + OnPage(r, data), Upto)'
      BY <1>1, <2>1, <2>2 DEF Met, Reading
    <3>2. QED
      BY <1>3, <1>6, <2>2, <3>1 DEF Reading
  <2>4. L!TypeOK'
    BY <1>1, <1>2, <1>6, <2>1, ListsAssumption DEF L!TypeOK, L!Waiting, L!ListsAssumption
  <2>5. L!Listed(key)' = L!Listed(key) /\ L!Level(key)' = L!Level(key)
    BY <2>1 DEF L!Listed, L!Level
  <2>6. QED
    BY <1>4, <1>6, <2>1, <2>2, <2>3, <2>4, <2>5 DEF ListsInv
<1>7. QED
  BY <1>2, <1>5, <1>6 DEF L!Count

LEMMA ChangeStep ==
  ASSUME ListsInv, page # 0, NEW x \in L!Row, NEW v \in 0..MaxKey, L!Change(x, v)
  PROVE  ListsInv'
<1>1. /\ L!TypeOK /\ steady \subseteq L!Listed(key) /\ L!Level(key) \subseteq level
      /\ \A r \in Kept : Reading(r)
  BY DEF ListsInv
<1>2. /\ key' = [key EXCEPT ![x] = v] /\ steady' = steady \ {x}
      /\ changes' = changes + 1 /\ changes < MaxChange
      /\ raised \subseteq raised' /\ dropped \subseteq dropped'
      /\ level' = level \cup L!Level(key')
      /\ UNCHANGED <<list, page, perPage, data, total, got, ended>>
  BY DEF L!Change
<1>3. key' \in [L!Row -> 0..MaxKey] /\ \A r \in L!Row : r # x => key'[r] = key[r]
  BY <1>1, <1>2 DEF L!TypeOK
<1>4. steady' \subseteq L!Listed(key)' /\ L!Level(key)' \subseteq level'
  BY <1>1, <1>2, <1>3 DEF L!Listed, L!Level
<1>5. L!TypeOK'
  <2>1. raised' \subseteq L!Row /\ dropped' \subseteq L!Row
    BY <1>1 DEF L!Change, L!TypeOK, L!Listed
  <2>2. L!Level(key') \subseteq L!Row
    BY DEF L!Level, L!Listed
  <2>3. changes' \in 0..MaxChange
    BY <1>1, <1>2, ListsAssumption DEF L!TypeOK, L!ListsAssumption
  <2>4. QED
    BY <1>1, <1>2, <1>3, <2>1, <2>2, <2>3 DEF L!TypeOK, L!Waiting
<1>6. ASSUME NEW r \in Kept' PROVE Reading(r)'
  <2>1. r \in steady' /\ r \in Kept
    BY <1>2, <1>6 DEF Kept, L!Tied
  <2>2. /\ r \notin raised' => Ahead(r)' \subseteq Ahead(r)
        /\ r \notin dropped' => Ahead(r) \subseteq Ahead(r)'
    BY <1>1, <2>1, AheadMoves
  <2>3. /\ IsFiniteSet(Ahead(r)) /\ IsFiniteSet(Ahead(r)')
        /\ Pos(r) \in Nat /\ Pos(r)' \in Nat
    <3>1. Ahead(r) \subseteq L!Listed(key) /\ Ahead(r)' \subseteq L!Listed(key')
      BY DEF Ahead, L!Listed
    <3>2. QED
      BY <3>1, ListedFinite DEF Pos
  <2>4. /\ r \notin raised' => Pos(r)' <= Pos(r)
        /\ r \notin dropped' => Pos(r) <= Pos(r)'
    BY <2>2, <2>3, FS_Subset DEF Pos
  <2>5. /\ Upto' = Upto /\ OnPage(r, data)' = OnPage(r, data) /\ Upto \in Int
    <3>1. Upto' = Upto /\ OnPage(r, data)' = OnPage(r, data)
      BY <1>2 DEF Upto, OnPage, L!Skip, L!Waiting
    <3>2. page \in Int /\ perPage \in Int
      BY <1>1 DEF L!TypeOK
    <3>3. L!Skip \in Int
      BY <3>2 DEF L!Skip
    <3>4. QED
      BY <3>1, <3>2, <3>3 DEF Upto
  <2>6. Reading(r) /\ got' = got /\ total' = total /\ total \in Int
    BY <1>1, <1>2, <2>1 DEF L!TypeOK
  <2>7. r \notin raised' => r \notin raised
    BY <1>2
  <2>8. r \notin dropped' => r \notin dropped
    BY <1>2
  <2>9. Met(r, got[r] + OnPage(r, data), Upto)'
    BY <2>3, <2>4, <2>5, <2>6, <2>7, <2>8 DEF Met, Reading
  <2>10. QED
    BY <2>3, <2>4, <2>6, <2>7, <2>9 DEF Reading
<1>7. ~ended'
  BY <1>2 DEF ListsInv
<1>8. L!PagesComplete'
  BY <1>7 DEF L!PagesComplete
<1>9. QED
  BY <1>2, <1>4, <1>5, <1>6, <1>7, <1>8 DEF ListsInv

(* A reading begins with nothing read, and ends with nothing kept of it.      *)
LEMMA OpenStep == ListsInv /\ L!Open => ListsInv'
<1> SUFFICES ASSUME ListsInv, L!Open PROVE ListsInv'
  OBVIOUS
<1>1. PICK l \in L!List, k \in [L!Row -> 0..MaxKey], size \in 1..MaxSize :
        /\ list' = l /\ key' = k /\ perPage' = size /\ steady' = L!Listed(k)
        /\ level' = L!Level(k)
  BY DEF L!Open
<1>2. /\ page = 0 /\ page' = 1 /\ data' = L!Waiting /\ total' = -1
      /\ got' = [r \in L!Row |-> 0] /\ ~ended'
      /\ UNCHANGED <<changes, raised, dropped, ended>>
  BY DEF L!Open
<1>3. L!TypeOK
  BY DEF ListsInv
<1>4. L!TypeOK'
  <2>1. L!List \subseteq L!Kind
    BY DEF L!List, L!Kind, L!NewestFirst, L!AdminFarms, L!AdminListings, L!AdminRequests,
           L!EligiblePayouts, L!Payouts, L!Deliveries, L!Farmers, L!AuditTrail, L!Shop,
           L!Orders, L!Requests, L!OwnFarms, L!Chats, L!Inbox, L!ClusterFarms,
           L!ClusterFarmers, L!Rounds, L!Handovers, L!Tasks
  <2>2. page' \in 0..MaxRow + 1 /\ total' \in -1..MaxRow
    BY <1>2, ListsAssumption DEF L!ListsAssumption
  <2>3. L!Listed(k) \subseteq L!Row /\ L!Level(k) \subseteq L!Row
    BY DEF L!Listed, L!Level
  <2>4. got' \in [L!Row -> 0..2]
    BY <1>2
  <2>5. QED
    BY <1>1, <1>2, <1>3, <2>1, <2>2, <2>3, <2>4 DEF L!TypeOK, L!Waiting
<1>5. ASSUME NEW r \in Kept' PROVE Reading(r)'
  <2>1. r \in L!Row
    BY <1>1, <1>5 DEF Kept, L!Listed
  <2>2. Upto' = 0
    <3>1. (1 - 1) * perPage' = 0
      BY <1>1
    <3>2. QED
      BY <1>2, <3>1 DEF Upto, L!Waiting, L!Skip
  <2>3. OnPage(r, data)' = 0
    BY <1>2, <2>1, ListsAssumption DEF OnPage, L!Waiting, L!ToSet, L!Row
  <2>4. Pos(r)' \in Nat
    <3>1. Ahead(r)' \subseteq L!Listed(key')
      BY DEF Ahead, L!Listed
    <3>2. QED
      BY <3>1, ListedFinite DEF Pos
  <2>5. QED
    BY <1>2, <2>1, <2>2, <2>3, <2>4 DEF Reading, Met
<1>6. steady' \subseteq L!Listed(key)' /\ L!Level(key)' \subseteq level'
  BY <1>1 DEF L!Listed, L!Level
<1>7. QED
  BY <1>2, <1>4, <1>5, <1>6 DEF ListsInv, L!PagesComplete

LEMMA NothingListed ==
  /\ [r \in L!Row |-> 0] \in [L!Row -> 0..MaxKey] /\ [r \in L!Row |-> 0] \in [L!Row -> 0..2]
  /\ L!Listed([r \in L!Row |-> 0]) = {} /\ L!Level([r \in L!Row |-> 0]) = {}
  /\ L!Farmers \in L!Kind /\ 1 \in 1..MaxSize /\ 0 \in 0..MaxChange
  BY ListsAssumption
  DEF L!ListsAssumption, L!Listed, L!Level, L!Farmers, L!NewestFirst, L!Kind

LEMMA CloseStep == ListsInv /\ L!Close => ListsInv'
<1> SUFFICES ASSUME ListsInv, L!Close PROVE ListsInv'
  OBVIOUS
<1>1. /\ list' = L!Farmers /\ key' = [r \in L!Row |-> 0] /\ perPage' = 1
      /\ got' = [r \in L!Row |-> 0] /\ ~ended' /\ ended' \in BOOLEAN
      /\ changes' = 0 /\ steady' = {} /\ raised' = {} /\ dropped' = {} /\ level' = {}
      /\ UNCHANGED <<page, data, total>>
  BY DEF L!Close
<1>2. L!TypeOK /\ page = 0 /\ ~(total # -1)
  BY DEF ListsInv, L!Close
<1>3. L!TypeOK'
  BY <1>1, <1>2, NothingListed DEF L!TypeOK, L!Waiting
<1>4. L!Level(key)' = {}
  BY <1>1, NothingListed DEF L!Level, L!Listed
<1>5. QED
  BY <1>1, <1>2, <1>3, <1>4 DEF ListsInv, L!PagesComplete

LEMMA ListsInit == L!Init => ListsInv
<1> SUFFICES ASSUME L!Init PROVE ListsInv
  OBVIOUS
<1>1. L!TypeOK
  <2>1. 0 \in 0..MaxRow + 1 /\ -1 \in -1..MaxRow
    BY ListsAssumption DEF L!ListsAssumption
  <2>2. QED
    BY <2>1, NothingListed DEF L!Init, L!TypeOK
<1>2. L!Level(key) = {}
  BY NothingListed DEF L!Init
<1>3. QED
  BY <1>1, <1>2 DEF L!Init, ListsInv, L!PagesComplete

LEMMA ListsNext == ListsInv /\ [L!Next]_(L!vars) => ListsInv'
<1> SUFFICES ASSUME ListsInv, [L!Next]_(L!vars) PROVE ListsInv'
  OBVIOUS
<1>1. ASSUME NEW r \in L!Row, page # 0, L!Insert(r) \/ L!Leave(r) \/ L!Move(r)
      PROVE  ListsInv'
  <2>1. PICK v \in 0..MaxKey : L!Change(r, v)
    BY <1>1, ListsAssumption DEF L!Insert, L!Leave, L!Move, L!ListsAssumption
  <2>2. QED
    BY <1>1, <2>1, ChangeStep
<1>2. CASE UNCHANGED L!vars
  <2>1. /\ Kept' = Kept /\ Upto' = Upto /\ L!PagesComplete' = L!PagesComplete
        /\ L!TypeOK' = L!TypeOK /\ L!Listed(key)' = L!Listed(key) /\ L!Level(key)' = L!Level(key)
        /\ \A r : Pos(r)' = Pos(r) /\ OnPage(r, data)' = OnPage(r, data)
    BY <1>2 DEF L!vars, Kept, L!Tied, Pos, Ahead, L!Listed, L!Before, L!Skip, L!PagesComplete,
                Upto, OnPage, L!Waiting, L!TypeOK, L!Level
  <2>2. \A r : Reading(r)' = Reading(r)
    BY <1>2, <2>1 DEF L!vars, Reading, Met
  <2>3. QED
    BY <1>2, <2>1, <2>2 DEF ListsInv, L!vars
<1>3. QED
  BY <1>1, <1>2, OpenStep, CloseStep, FindStep, CountStep DEF L!Next

LEMMA ListsInvariance == L!Spec => []ListsInv
  BY ListsInit, ListsNext, PTL DEF L!Spec

LEMMA ListsPart == OneOfThem => L!Spec
<1>1. InitTogether => L!Init
  BY DEF InitTogether
<1>2. [NextTogether]_together => [L!Next]_(L!vars)
  BY DEF NextTogether, together, ofLists, L!vars
<1>3. QED
  BY <1>1, <1>2, PTL DEF OneOfThem, L!Spec

(* When the last page has been read, a row that stayed in its place has been *)
(* seen once, but for what an offset cannot help, for any number of rows,    *)
(* keys, changes and rows of a page.                                         *)
THEOREM TogetherPagesComplete == OneOfThem => []PagesComplete
<1>1. ListsInv => PagesComplete
  BY DEF ListsInv, PagesComplete
<1>2. QED
  BY <1>1, ListsInvariance, ListsPart, PTL

(* A behaviour of the six side by side is a behaviour of each of them.       *)
THEOREM TogetherImplements ==
  OneOfThem => Spec /\ E!Spec /\ W!Spec /\ P!Spec /\ R!Spec /\ L!Spec
<1>1. QED
  BY FirstParts, ProfilesPart, ReportsPart, ListsPart
=============================================================================
