----------------------------- MODULE CartProofs -----------------------------
(* Proofs about carts and placements, for any buyers, listings, transactions *)
(* and merges: the type invariant, that nothing put in a cart is lost, that  *)
(* no transactions wait for each other's rows in a circle, and that what is  *)
(* placed costs what its buyer was shown.                                    *)
EXTENDS Cart, Sums, FiniteSetTheorems, WellFoundedInduction, TLAPS

(* A merge goes on from the cart as it is, nobody else changing it, and its  *)
(* key is still to be used.                                                  *)
MergeHasCart ==
  \A b \in Buyer : Merging(b) =>
    merging[b].found = cart[b] /\ merging[b].key \notin merged[b]

(* A placement of a cart has reserved, or goes on to reserve, each line as   *)
(* the cart has it, and no merge of that cart is under way.                  *)
PlacingHasCart ==
  \A s \in Session : tx[s].kind = "cart" =>
    /\ \A l \in Listing : tx[s].todo[l] + tx[s].held[l] = cart[tx[s].buyer][l]
    /\ ~Merging(tx[s].buyer)

(* A transaction knows its buyer, and two do not place one cart.             *)
OneAtCart ==
  \A s \in Session :
    /\ tx[s].kind # "idle" => tx[s].buyer \in Buyer /\ tx[s].key \in Key
    /\ tx[s].kind = "cart" =>
         \A t \in Session : (tx[t].kind = "cart" /\ tx[t].buyer = tx[s].buyer) => t = s

(* What a transaction still has to lock comes after what it holds.           *)
RowsInOrder ==
  \A s \in Session : \A l, m \in Listing : tx[s].held[l] > 0 /\ tx[s].todo[m] > 0 => l < m

(* A row has one holder at a time, and a placement holds what is there.      *)
HeldInStock ==
  \A s \in Session, l \in Listing :
    /\ tx[s].kind \in {"cart", "now"} => tx[s].held[l] <= listing[l].floating
    /\ tx[s].held[l] > 0 => \A t \in Session : tx[t].held[l] > 0 => t = s

Inv == TypeOK /\ NothingLost /\ MergeHasCart /\ PlacingHasCart /\ OneAtCart /\ RowsInOrder /\ HeldInStock

Kind == {"idle", "cart", "now", "release"}
Transaction == [kind : Kind, buyer : Buyer \cup {Nobody}, key : Key \cup {Nobody},
                todo : Lines, held : Lines, total : Nat, expected : Nat]
Merge == [key : Key \cup {Nobody}, found : Lines, lines : Lines, next : Nat \ {0}]
CheckoutRow == [status : {"NONE", "AWAITING_PAYMENT", "PAID", "CANCELLED"}, lines : Lines, total : Nat]
ProduceRow == [floating : Nat, price : Price, onSale : BOOLEAN]

-----------------------------------------------------------------------------
(* What the records of the model are made of. *)
LEMMA TypeOfIdle == Idle \in Transaction /\ NoMerge \in Merge /\ None \in Lines /\ NoCheckout \in CheckoutRow
  BY DEF Idle, Transaction, Kind, NoMerge, Merge, None, Lines, NoCheckout, CheckoutRow

LEMMA TypeForms ==
  TypeOK <=>
    /\ cart \in [Buyer -> Lines]
    /\ merged \in [Buyer -> SUBSET Key]
    /\ checkout \in [Buyer -> [Key -> CheckoutRow]]
    /\ listing \in [Listing -> ProduceRow]
    /\ tx \in [Session -> Transaction]
    /\ merging \in [Buyer -> Merge]
    /\ kept \in [Buyer -> Lines]
  BY DEF TypeOK, Transaction, Kind, Merge, CheckoutRow, ProduceRow

LEMMA InitInv == Init => Inv
<1> SUFFICES ASSUME Init PROVE Inv
  OBVIOUS
<1>1. TypeOK
  <2>1. listing \in [Listing -> ProduceRow]
    BY CartAssumption DEF Init, ProduceRow
  <2>2. QED
    BY <2>1, TypeOfIdle, TypeForms DEF Init
<1>2. NothingLost
  BY DEF Init, NothingLost
<1>3. MergeHasCart
  BY DEF Init, MergeHasCart, Merging, NoMerge
<1>4. PlacingHasCart /\ OneAtCart
  BY DEF Init, PlacingHasCart, OneAtCart, Idle
<1>5. RowsInOrder
  BY DEF Init, RowsInOrder, Idle, None
<1>6. HeldInStock
  BY DEF Init, HeldInStock, Idle, None
<1>7. QED
  BY <1>1, <1>2, <1>3, <1>4, <1>5, <1>6 DEF Inv

(* A line that can be added is one line more, of a cart that stays a cart. *)
LEMMA TryAddLineType ==
  ASSUME NEW lines \in Lines, NEW l \in Listing, NEW q \in Nat
  PROVE  TryAddLine(lines, l, q) \in Lines
  BY DEF TryAddLine, Lines

-----------------------------------------------------------------------------
(* A buyer's cart is rewritten while no placement works on it, and the merge *)
(* of that buyer, if there was one, has ended.                               *)
LEMMA CartWritten ==
  ASSUME Inv, NEW b \in Buyer, NEW lines \in Lines,
         \A s \in Session : ~(tx[s].kind = "cart" /\ tx[s].buyer = b),
         cart' = [cart EXCEPT ![b] = lines], kept' = cart',
         merged' \in [Buyer -> SUBSET Key], \A c \in Buyer \ {b} : merged'[c] = merged[c],
         merging' \in [Buyer -> Merge],
         \A c \in Buyer : IF c = b THEN merging'[c].key = Nobody ELSE merging'[c] = merging[c],
         UNCHANGED <<checkout, listing, tx>>
  PROVE  Inv'
<1>t. TypeOK
  BY DEF Inv
<1>1. TypeOK'
  BY <1>t DEF TypeOK, Merge
<1>2. NothingLost'
  BY DEF NothingLost
<1>3. MergeHasCart'
  BY <1>t DEF Inv, MergeHasCart, Merging, TypeOK
<1>4. PlacingHasCart'
  <2>1. ASSUME NEW s \in Session, tx[s].kind = "cart"
        PROVE  tx[s].buyer \in Buyer /\ tx[s].buyer # b
    BY <2>1 DEF Inv, OneAtCart
  <2>2. QED
    BY <2>1, <1>t DEF Inv, PlacingHasCart, Merging, TypeOK
<1>5. OneAtCart' /\ RowsInOrder' /\ HeldInStock'
  BY DEF Inv, OneAtCart, RowsInOrder, HeldInStock
<1>6. QED
  BY <1>1, <1>2, <1>3, <1>4, <1>5 DEF Inv

LEMMA AddInv ==
  ASSUME Inv, NEW b \in Buyer, NEW l \in Listing, AddItem(b, l)
  PROVE  Inv'
<1>t. TypeOK /\ kept = cart /\ cart[b] \in Lines
  BY DEF Inv, TypeOK, NothingLost
<1> DEFINE lines == [cart[b] EXCEPT ![l] = @ + 1]
<1>1. lines \in Lines
  BY <1>t DEF Lines
<1>2. cart' = [cart EXCEPT ![b] = lines] /\ kept' = cart'
  BY <1>t DEF AddItem, TryAddLine
<1>3. \A s \in Session : ~(tx[s].kind = "cart" /\ tx[s].buyer = b)
  BY DEF AddItem, CartFree, LockFree
<1>4. merging'[b].key = Nobody /\ merging' = merging
  BY DEF AddItem, CartFree, LockFree, Merging
<1>5. QED
  BY <1>t, <1>1, <1>2, <1>3, <1>4, CartWritten, TypeForms DEF AddItem

LEMMA UpdateInv ==
  ASSUME Inv, NEW b \in Buyer, NEW l \in Listing, NEW q \in Nat, UpdateItem(b, l, q) \/ RemoveItem(b, l)
  PROVE  Inv'
<1>t. TypeOK /\ kept = cart /\ cart[b] \in Lines
  BY DEF Inv, TypeOK, NothingLost
<1>1. PICK n \in {q, 0} : cart' = [cart EXCEPT ![b][l] = n] /\ kept' = [kept EXCEPT ![b][l] = n]
  BY DEF UpdateItem, RemoveItem
<1> DEFINE lines == [cart[b] EXCEPT ![l] = n]
<1>2. lines \in Lines
  BY <1>t DEF Lines
<1>3. cart' = [cart EXCEPT ![b] = lines] /\ kept' = cart'
  BY <1>t, <1>1
<1>4. CartFree(b) /\ UNCHANGED <<merged, checkout, listing, tx, merging>>
  BY DEF UpdateItem, RemoveItem
<1>5. \A s \in Session : ~(tx[s].kind = "cart" /\ tx[s].buyer = b)
  BY <1>4 DEF CartFree, LockFree
<1>6. merging'[b].key = Nobody /\ merging' = merging
  BY <1>4 DEF CartFree, LockFree, Merging
<1>7. QED
  BY <1>t, <1>2, <1>3, <1>4, <1>5, <1>6, CartWritten, TypeForms

LEMMA MergeCommitsInv ==
  ASSUME Inv, NEW b \in Buyer, MergeCommits(b)
  PROVE  Inv'
<1>t. TypeOK /\ kept = cart /\ cart[b] \in Lines /\ merging[b] \in Merge
  BY TypeForms DEF Inv, TypeOK, NothingLost
<1> DEFINE lines == merging[b].lines
<1>1. lines \in Lines
  BY <1>t DEF Merge
<1>2. cart' = [cart EXCEPT ![b] = lines]
  BY DEF MergeCommits
<1>3. merging[b].found = cart[b]
  BY DEF MergeCommits, Inv, MergeHasCart
<1>4. kept' = cart'
  <2>1. merging[b].key \notin merged[b]
    BY DEF MergeCommits, Inv, MergeHasCart
  <2>2. [l \in Listing |-> cart[b][l] + (lines[l] - cart[b][l])] = lines
    BY <1>t, <1>1 DEF Lines
  <2>3. QED
    BY <1>t, <1>2, <1>3, <2>1, <2>2 DEF MergeCommits
<1>5. \A s \in Session : ~(tx[s].kind = "cart" /\ tx[s].buyer = b)
  BY DEF MergeCommits, Inv, PlacingHasCart
<1>6. merged' \in [Buyer -> SUBSET Key] /\ \A c \in Buyer \ {b} : merged'[c] = merged[c]
  BY <1>t DEF MergeCommits, TypeOK, Merge, Merging
<1>7. /\ merging' \in [Buyer -> Merge]
      /\ \A c \in Buyer : IF c = b THEN merging'[c].key = Nobody ELSE merging'[c] = merging[c]
  <2>1. merging \in [Buyer -> Merge] /\ NoMerge \in Merge /\ NoMerge.key = Nobody
    BY <1>t, TypeForms, TypeOfIdle DEF NoMerge
  <2>2. merging' = [merging EXCEPT ![b] = NoMerge]
    BY DEF MergeCommits
  <2>3. QED
    BY <2>1, <2>2
<1>8. UNCHANGED <<checkout, listing, tx>>
  BY DEF MergeCommits
<1>9. QED
  BY <1>1, <1>2, <1>4, <1>5, <1>6, <1>7, <1>8, CartWritten

-----------------------------------------------------------------------------
(* The other steps of a merge. *)
LEMMA MergeInv ==
  ASSUME Inv, NEW b \in Buyer, NEW merge \in Merge,
         merging' = [merging EXCEPT ![b] = merge],
         merge.key # Nobody => /\ merge.found = cart[b] /\ merge.key \notin merged[b]
                               /\ \A s \in Session : ~(tx[s].kind = "cart" /\ tx[s].buyer = b),
         UNCHANGED <<cart, merged, checkout, listing, tx, kept>>
  PROVE  Inv'
<1>t. TypeOK /\ merging \in [Buyer -> Merge]
  BY TypeForms DEF Inv
<1>1. TypeOK'
  BY <1>t DEF TypeOK, Merge
<1>2. NothingLost' /\ OneAtCart' /\ RowsInOrder' /\ HeldInStock'
  BY DEF Inv, NothingLost, OneAtCart, RowsInOrder, HeldInStock
<1>3. MergeHasCart'
  BY <1>t DEF Inv, MergeHasCart, Merging
<1>4. PlacingHasCart'
  BY <1>t DEF Inv, PlacingHasCart, Merging, OneAtCart
<1>5. QED
  BY <1>1, <1>2, <1>3, <1>4 DEF Inv

LEMMA LineAdded ==
  ASSUME NEW merge \in Merge, NEW lines \in Lines
  PROVE  [merge EXCEPT !.lines = lines, !.next = @ + 1] \in Merge
<1>1. merge.next + 1 \in Nat \ {0}
  BY DEF Merge
<1>2. QED
  BY <1>1 DEF Merge

LEMMA MergeStepsInv ==
  ASSUME Inv, NEW b \in Buyer,
         (\E k \in Key : MergeBegins(b, k)) \/ AddLine(b) \/ MergeDies(b)
  PROVE  Inv'
<1>t. TypeOK /\ cart[b] \in Lines /\ merging \in [Buyer -> Merge] /\ merging[b] \in Merge
  BY TypeForms DEF Inv, TypeOK
<1>1. ASSUME NEW k \in Key, MergeBegins(b, k) PROVE Inv'
  <2> DEFINE merge == [key |-> k, found |-> cart[b], lines |-> cart[b], next |-> 1]
  <2>1. merge \in Merge
    BY <1>t DEF Merge
  <2>2. \A s \in Session : ~(tx[s].kind = "cart" /\ tx[s].buyer = b)
    BY <1>1 DEF MergeBegins, CartFree, LockFree
  <2>3. QED
    BY <1>1, <2>1, <2>2, MergeInv DEF MergeBegins, Replays
<1>2. CASE AddLine(b)
  <2> DEFINE device == Device[merging[b].key]
             line == device[merging[b].next]
             merge == [merging[b] EXCEPT !.lines = TryAddLine(merging[b].lines, line[1], line[2]),
                                         !.next = @ + 1]
  <2>1. /\ merging[b].key \in Key /\ merging[b].lines \in Lines
        /\ merging[b].next \in Nat \ {0} /\ merging[b].next <= Len(device)
    BY <1>t, <1>2 DEF AddLine, Merging, Merge
  <2>2. device \in Seq(Listing \X Nat)
    BY <2>1, CartAssumption
  <2>3. line \in Listing \X Nat
    BY <2>1, <2>2
  <2>4. TryAddLine(merging[b].lines, line[1], line[2]) \in Lines
    BY <2>1, <2>3, TryAddLineType
  <2>5. merge \in Merge
    BY <1>t, <2>4, LineAdded
  <2>6. merge.found = merging[b].found /\ merge.key = merging[b].key
    BY <1>t DEF Merge
  <2>7. Merging(b) /\ merging' = [merging EXCEPT ![b] = merge]
        /\ UNCHANGED <<cart, merged, checkout, listing, tx, kept>>
    BY <1>2 DEF AddLine
  <2>8. /\ merge.found = cart[b] /\ merge.key \notin merged[b]
        /\ \A s \in Session : ~(tx[s].kind = "cart" /\ tx[s].buyer = b)
    BY <2>6, <2>7 DEF Inv, MergeHasCart, PlacingHasCart
  <2>9. QED
    BY <2>5, <2>7, <2>8, MergeInv
<1>3. CASE MergeDies(b)
  <2>1. NoMerge \in Merge /\ NoMerge.key = Nobody
    BY TypeOfIdle DEF NoMerge
  <2>2. QED
    BY <1>3, <2>1, MergeInv DEF MergeDies
<1>4. QED
  BY <1>1, <1>2, <1>3

-----------------------------------------------------------------------------
(* A transaction ends and leaves the tables as they were.                    *)
LEMMA EndedInv ==
  ASSUME Inv, NEW s \in Session, tx' = [tx EXCEPT ![s] = Idle],
         UNCHANGED <<cart, merged, checkout, listing, kept, merging>>
  PROVE  Inv'
<1>t. TypeOK /\ tx \in [Session -> Transaction] /\ Idle \in Transaction
  BY TypeForms, TypeOfIdle DEF Inv
<1>i. Idle.kind = "idle" /\ \A l \in Listing : Idle.held[l] = 0
  BY DEF Idle, None
<1>1. TypeOK'
  BY <1>t DEF TypeOK, Transaction, Kind
<1>2. NothingLost' /\ MergeHasCart'
  BY DEF Inv, NothingLost, MergeHasCart, Merging
<1>3. PlacingHasCart' /\ OneAtCart'
  BY <1>t, <1>i DEF Inv, PlacingHasCart, OneAtCart, Merging
<1>4. RowsInOrder' /\ HeldInStock'
  BY <1>t, <1>i DEF Inv, RowsInOrder, HeldInStock
<1>5. QED
  BY <1>1, <1>2, <1>3, <1>4 DEF Inv

LEMMA RefusedInv ==
  ASSUME Inv, NEW s \in Session,
         (\E l \in Listing : RowRefused(s, l)) \/ PlaceRefused(s) \/ Timeout(s)
  PROVE  Inv'
  BY EndedInv DEF RowRefused, PlaceRefused, Timeout

(* A transaction begins with lines to lock and none locked.                  *)
LEMMA BegunInv ==
  ASSUME Inv, NEW s \in Session, NEW begun \in Transaction,
         begun.buyer \in Buyer, begun.key \in Key, \A l \in Listing : begun.held[l] = 0,
         begun.kind = "cart" => LockFree(begun.buyer) /\ begun.todo = cart[begun.buyer],
         tx' = [tx EXCEPT ![s] = begun],
         UNCHANGED <<cart, merged, checkout, listing, kept, merging>>
  PROVE  Inv'
<1>t. TypeOK /\ tx \in [Session -> Transaction]
  BY TypeForms DEF Inv
<1>1. TypeOK'
  BY <1>t DEF TypeOK, Transaction, Kind
<1>2. NothingLost' /\ MergeHasCart'
  BY DEF Inv, NothingLost, MergeHasCart, Merging
<1>3. PlacingHasCart'
  <2>1. begun.kind = "cart" =>
          /\ \A l \in Listing : begun.todo[l] + begun.held[l] = cart[begun.buyer][l]
          /\ ~Merging(begun.buyer)
    BY DEF Transaction, Lines, LockFree
  <2>2. QED
    BY <1>t, <2>1 DEF Inv, PlacingHasCart, Merging
<1>4. OneAtCart'
  BY <1>t DEF Inv, OneAtCart, LockFree
<1>5. RowsInOrder' /\ HeldInStock'
  <2>1. \A l \in Listing : listing[l].floating \in Nat
    BY <1>t DEF TypeOK
  <2>2. QED
    BY <1>t, <2>1 DEF Inv, RowsInOrder, HeldInStock
<1>6. QED
  BY <1>1, <1>2, <1>3, <1>4, <1>5 DEF Inv

LEMMA BeginsInv ==
  ASSUME Inv, NEW s \in Session, NEW b \in Buyer, NEW k \in Key,
         \/ CheckoutBegins(s, b, k) \/ ReleaseBegins(s, b, k)
         \/ \E l \in Listing : BuyNowBegins(s, b, k, l)
  PROVE  Inv'
<1>t. TypeOK /\ cart[b] \in Lines /\ checkout[b][k].lines \in Lines
  BY DEF Inv, TypeOK
<1>1. CASE CheckoutBegins(s, b, k)
  <2>1. PICK expected \in Nat :
          tx' = [tx EXCEPT ![s] = [Idle EXCEPT !.kind = "cart", !.buyer = b, !.key = k,
                                               !.todo = cart[b], !.expected = expected]]
    BY <1>1 DEF CheckoutBegins, ExpectedTotals
  <2> DEFINE begun == [Idle EXCEPT !.kind = "cart", !.buyer = b, !.key = k,
                                   !.todo = cart[b], !.expected = expected]
  <2>2. /\ begun \in Transaction /\ \A l \in Listing : begun.held[l] = 0
        /\ begun.buyer = b /\ begun.key = k /\ begun.todo = cart[b]
    <3>1. begun \in Transaction
      BY <1>t, <2>1, TypeOfIdle DEF Transaction, Kind
    <3>2. begun.buyer = b /\ begun.key = k /\ begun.todo = cart[b]
      BY DEF Idle
    <3>3. \A l \in Listing : begun.held[l] = 0
      BY DEF Idle, None
    <3>4. QED
      BY <3>1, <3>2, <3>3
  <2>3. tx' = [tx EXCEPT ![s] = begun]
    BY <2>1
  <2>4. LockFree(b) /\ UNCHANGED <<cart, merged, checkout, listing, kept, merging>>
    BY <1>1 DEF CheckoutBegins
  <2> HIDE DEF begun
  <2>5. QED
    BY <2>2, <2>3, <2>4, BegunInv
<1>2. CASE ReleaseBegins(s, b, k)
  <2> DEFINE begun == [Idle EXCEPT !.kind = "release", !.buyer = b, !.key = k,
                                   !.todo = checkout[b][k].lines]
  <2>1. begun \in Transaction
    BY <1>t, TypeOfIdle DEF Transaction, Kind
  <2>2. /\ begun.kind = "release" /\ begun.buyer = b /\ begun.key = k
        /\ \A l \in Listing : begun.held[l] = 0
    BY DEF Idle, None
  <2>3. tx' = [tx EXCEPT ![s] = begun]
    BY <1>2 DEF ReleaseBegins
  <2>4. UNCHANGED <<cart, merged, checkout, listing, kept, merging>>
    BY <1>2 DEF ReleaseBegins
  <2> HIDE DEF begun
  <2>5. QED
    BY <2>1, <2>2, <2>3, <2>4, BegunInv
<1>3. ASSUME NEW l \in Listing, BuyNowBegins(s, b, k, l) PROVE Inv'
  <2> DEFINE lines == [None EXCEPT ![l] = 1]
  <2>1. lines \in Lines
    BY DEF None, Lines
  <2>2. PICK expected \in Nat :
          tx' = [tx EXCEPT ![s] = [Idle EXCEPT !.kind = "now", !.buyer = b, !.key = k,
                                               !.todo = lines, !.expected = expected]]
    BY <1>3 DEF BuyNowBegins, ExpectedTotals
  <2> HIDE DEF lines
  <2> DEFINE begun == [Idle EXCEPT !.kind = "now", !.buyer = b, !.key = k,
                                   !.todo = lines, !.expected = expected]
  <2>3. /\ begun \in Transaction /\ \A m \in Listing : begun.held[m] = 0
        /\ begun.kind = "now" /\ begun.buyer = b /\ begun.key = k
    <3>1. begun \in Transaction
      BY <2>1, <2>2, TypeOfIdle DEF Transaction, Kind
    <3>2. begun.kind = "now" /\ begun.buyer = b /\ begun.key = k
      BY DEF Idle
    <3>3. \A m \in Listing : begun.held[m] = 0
      BY DEF Idle, None
    <3>4. QED
      BY <3>1, <3>2, <3>3
  <2>4. tx' = [tx EXCEPT ![s] = begun]
    BY <2>2
  <2>5. UNCHANGED <<cart, merged, checkout, listing, kept, merging>>
    BY <1>3 DEF BuyNowBegins
  <2> HIDE DEF begun
  <2>6. QED
    BY <2>3, <2>4, <2>5, BegunInv
<1>4. QED
  BY <1>1, <1>2, <1>3

(* The next row is locked, priced and, by a placement, found in stock.       *)
LEMMA TakeRowInv ==
  ASSUME Inv, NEW s \in Session, NEW l \in Listing, TakeRow(s, l)
  PROVE  Inv'
<1> DEFINE t == tx[s]
           n == t.todo[l]
           taken == [t EXCEPT !.todo[l] = 0, !.held[l] = n, !.total = @ + n * listing[l].price]
<1>t. TypeOK /\ tx \in [Session -> Transaction] /\ t \in Transaction
  BY TypeForms DEF Inv
<1>1. /\ n \in Nat /\ listing[l].price \in Nat
      /\ \A m \in Listing : listing[m].floating \in Nat
      /\ Listing \subseteq Nat
  BY <1>t, CartAssumption DEF Transaction, Lines, TypeOK
<1>2. t.total + n * listing[l].price \in Nat
  BY <1>t, <1>1 DEF Transaction
<1>3. taken \in Transaction
  BY <1>t, <1>1, <1>2 DEF Transaction, Lines
<1>4. tx' = [tx EXCEPT ![s] = taken] /\ UNCHANGED <<cart, merged, checkout, listing, kept, merging>>
  BY <1>t DEF TakeRow, Transaction
<1>5. /\ taken.kind = t.kind /\ taken.buyer = t.buyer /\ taken.key = t.key
      /\ \A m \in Listing : taken.todo[m] = IF m = l THEN 0 ELSE t.todo[m]
      /\ \A m \in Listing : taken.held[m] = IF m = l THEN n ELSE t.held[m]
  BY <1>t DEF Transaction, Lines
<1>6. /\ n > 0 /\ \A m \in Listing : t.todo[m] > 0 => l <= m
      /\ \A q \in Session : ~(tx[q].held[l] > 0)
      /\ t.kind \in {"cart", "now"} => n <= listing[l].floating
  BY DEF TakeRow, NextRows, LinesOf, RowHeld, Orderable
<1>7. \A m \in Listing : t.todo[m] \in Nat /\ t.held[m] \in Nat
  BY <1>t DEF Transaction, Lines
<1> HIDE DEF taken, n
<1>8. TypeOK'
  BY <1>t, <1>3, <1>4 DEF TypeOK, Transaction, Kind
<1>9. NothingLost' /\ MergeHasCart'
  BY <1>4 DEF Inv, NothingLost, MergeHasCart, Merging
<1>10. PlacingHasCart'
  <2>1. \A m \in Listing : taken.todo[m] + taken.held[m] = t.todo[m] + t.held[m]
    BY <1>1, <1>5, <1>6, <1>7 DEF n
  <2>2. QED
    BY <1>t, <1>4, <1>5, <2>1 DEF Inv, PlacingHasCart, Merging
<1>11. OneAtCart'
  BY <1>t, <1>4, <1>5 DEF Inv, OneAtCart
<1>12. RowsInOrder'
  <2>1. ASSUME NEW p \in Listing, NEW m \in Listing, taken.held[p] > 0, taken.todo[m] > 0
        PROVE  p < m
    <3>1. m # l /\ t.todo[m] > 0
      BY <2>1, <1>5
    <3>2. CASE p = l
      BY <3>1, <3>2, <1>6, <1>1
    <3>3. CASE p # l
      BY <2>1, <3>1, <3>3, <1>5 DEF Inv, RowsInOrder
    <3>4. QED
      BY <3>2, <3>3
  <2>2. QED
    BY <1>t, <1>4, <2>1 DEF Inv, RowsInOrder
<1>13. HeldInStock'
  <2>1. ASSUME NEW q \in Session, NEW m \in Listing, tx'[q].kind \in {"cart", "now"}
        PROVE  tx'[q].held[m] <= listing'[m].floating
    BY <2>1, <1>t, <1>4, <1>5, <1>6 DEF Inv, HeldInStock
  <2>2. ASSUME NEW q \in Session, NEW r \in Session, NEW m \in Listing,
               tx'[q].held[m] > 0, tx'[r].held[m] > 0
        PROVE  r = q
    <3>1. CASE m = l
      BY <2>2, <3>1, <1>t, <1>4, <1>6
    <3>2. CASE m # l
      BY <2>2, <3>2, <1>t, <1>4, <1>5 DEF Inv, HeldInStock
    <3>3. QED
      BY <3>1, <3>2
  <2>3. QED
    BY <2>1, <2>2 DEF HeldInStock
<1>14. QED
  BY <1>8, <1>9, <1>10, <1>11, <1>12, <1>13 DEF Inv

(* A transaction that commits has locked all its lines, and its lines alone  *)
(* change a quantity.                                                        *)
LEMMA PlaceCommitsInv ==
  ASSUME Inv, NEW s \in Session, PlaceCommits(s)
  PROVE  Inv'
<1> DEFINE b == tx[s].buyer
           k == tx[s].key
           lines == tx[s].held
<1>t. TypeOK /\ tx \in [Session -> Transaction] /\ tx[s] \in Transaction /\ kept = cart
  BY TypeForms DEF Inv, NothingLost
<1>b. b \in Buyer /\ k \in Key /\ tx[s].kind \in {"cart", "now"}
  BY DEF PlaceCommits, Inv, OneAtCart
<1>i. Idle \in Transaction /\ None \in Lines /\ Idle.kind = "idle" /\ \A l \in Listing : Idle.held[l] = 0
  BY TypeOfIdle DEF Idle, None
<1>1. /\ lines \in Lines /\ tx[s].total \in Nat
      /\ \A l \in Listing : lines[l] \in Nat /\ lines[l] <= listing[l].floating
      /\ \A l \in Listing : tx[s].todo[l] = 0
  <2>1. lines \in Lines /\ tx[s].todo \in Lines /\ tx[s].total \in Nat
    BY <1>t DEF Transaction
  <2>2. \A l \in Listing : lines[l] <= listing[l].floating
    BY <1>b DEF Inv, HeldInStock
  <2>3. \A l \in Listing : ~(tx[s].todo[l] > 0)
    BY DEF PlaceCommits, AllTaken, LinesOf
  <2>4. QED
    BY <2>1, <2>2, <2>3 DEF Lines
<1>2. tx' = [tx EXCEPT ![s] = Idle] /\ UNCHANGED <<merged, merging>>
  BY DEF PlaceCommits
<1>3. /\ cart' = IF tx[s].kind = "cart" THEN [cart EXCEPT ![b] = None] ELSE cart
      /\ kept' = cart'
  <2>1. CASE tx[s].kind = "cart"
    <3>1. \A l \in Listing : cart[b][l] - lines[l] = 0
      BY <2>1, <1>1, <1>b, <1>t DEF Inv, PlacingHasCart
    <3>2. [l \in Listing |-> cart[b][l] - lines[l]] = None
      BY <3>1 DEF None
    <3>3. QED
      BY <2>1, <3>2, <1>t, <1>b DEF PlaceCommits
  <2>2. CASE tx[s].kind # "cart"
    BY <2>2, <1>t DEF PlaceCommits
  <2>3. QED
    BY <2>1, <2>2
<1>4. \A l \in Listing : listing'[l] = [listing[l] EXCEPT !.floating = @ - lines[l]]
                           /\ listing'[l].floating = listing[l].floating - lines[l]
                           /\ listing'[l].floating \in Nat
  BY <1>t, <1>1 DEF PlaceCommits, TypeOK
<1>5. TypeOK'
  <2>1. cart' \in [Buyer -> Lines] /\ kept' \in [Buyer -> Lines]
    BY <1>t, <1>3, <1>i DEF TypeOK
  <2>2. checkout' \in [Buyer -> [Key -> CheckoutRow]]
    BY <1>t, <1>b, <1>1 DEF PlaceCommits, TypeOK, CheckoutRow
  <2>3. listing' \in [Listing -> ProduceRow]
    <3>1. \A l \in Listing : listing[l] \in ProduceRow
      BY <1>t, TypeForms
    <3>2. \A l \in Listing : listing'[l] \in ProduceRow
      BY <3>1, <1>4 DEF ProduceRow
    <3>3. QED
      BY <3>2 DEF PlaceCommits
  <2>4. QED
    BY <1>t, <1>2, <1>i, <2>1, <2>2, <2>3 DEF TypeOK, CheckoutRow, ProduceRow, Transaction, Kind
<1>6. NothingLost'
  BY <1>3 DEF NothingLost
<1>7. MergeHasCart'
  <2>1. tx[s].kind = "cart" => ~Merging(b)
    BY DEF Inv, PlacingHasCart
  <2>2. QED
    BY <1>2, <1>3, <2>1, <1>t DEF Inv, MergeHasCart, Merging, TypeOK
<1>8. PlacingHasCart'
  <2>1. ASSUME NEW q \in Session, tx'[q].kind = "cart"
        PROVE  /\ tx'[q] = tx[q] /\ tx[q].buyer \in Buyer
               /\ cart'[tx[q].buyer] = cart[tx[q].buyer]
    <3>1. q # s /\ tx'[q] = tx[q] /\ tx[q].buyer \in Buyer
      BY <2>1, <1>t, <1>2, <1>i DEF Inv, OneAtCart
    <3>2. tx[s].kind = "cart" => tx[q].buyer # b
      BY <3>1, <2>1 DEF Inv, OneAtCart
    <3>3. QED
      BY <3>1, <3>2, <1>3, <1>t DEF TypeOK
  <2>2. QED
    BY <2>1, <1>2 DEF Inv, PlacingHasCart, Merging
<1>9. OneAtCart' /\ RowsInOrder'
  BY <1>t, <1>i, <1>2 DEF Inv, OneAtCart, RowsInOrder
<1>10. HeldInStock'
  <2>1. ASSUME NEW q \in Session, NEW l \in Listing, tx'[q].kind \in {"cart", "now"}
        PROVE  tx'[q].held[l] <= listing'[l].floating
    <3>1. q # s /\ tx'[q] = tx[q] /\ tx[q].held[l] \in Nat /\ tx[q].held[l] <= listing[l].floating
      BY <2>1, <1>t, <1>2, <1>i DEF Inv, HeldInStock, Transaction, Lines
    <3>2. CASE tx[q].held[l] > 0
      <4>1. lines[l] = 0
        BY <3>1, <3>2, <1>1 DEF Inv, HeldInStock
      <4>2. QED
        BY <4>1, <3>1, <1>4, <1>t DEF TypeOK
    <3>3. CASE tx[q].held[l] = 0
      <4>1. listing'[l].floating \in Nat
        BY <1>4
      <4>2. QED
        BY <3>1, <3>3, <4>1
    <3>4. QED
      BY <3>1, <3>2, <3>3
  <2>2. QED
    BY <2>1, <1>t, <1>2, <1>i DEF Inv, HeldInStock
<1>11. QED
  BY <1>5, <1>6, <1>7, <1>8, <1>9, <1>10 DEF Inv

LEMMA StatusWritten ==
  ASSUME TypeOK, NEW b \in Buyer, NEW k \in Key, NEW status \in {"PAID", "CANCELLED"}
  PROVE  [checkout EXCEPT ![b][k].status = status] \in [Buyer -> [Key -> CheckoutRow]]
<1>1. checkout \in [Buyer -> [Key -> CheckoutRow]]
  BY TypeForms
<1>2. [checkout[b][k] EXCEPT !.status = status] \in CheckoutRow
  BY <1>1 DEF CheckoutRow
<1>3. QED
  BY <1>1, <1>2

LEMMA ReleaseCommitsInv ==
  ASSUME Inv, NEW s \in Session, ReleaseCommits(s)
  PROVE  Inv'
<1> DEFINE lines == tx[s].held
<1>t. TypeOK /\ tx \in [Session -> Transaction] /\ tx[s] \in Transaction
  BY TypeForms DEF Inv
<1>b. tx[s].buyer \in Buyer /\ tx[s].key \in Key
  BY DEF ReleaseCommits, Inv, OneAtCart
<1>i. Idle \in Transaction /\ Idle.kind = "idle" /\ \A l \in Listing : Idle.held[l] = 0
  BY TypeOfIdle DEF Idle, None
<1>1. \A l \in Listing : lines[l] \in Nat /\ listing[l] \in ProduceRow
  BY <1>t, TypeForms DEF Transaction, Lines
<1>2. tx' = [tx EXCEPT ![s] = Idle] /\ UNCHANGED <<cart, merged, kept, merging>>
  BY DEF ReleaseCommits
<1>3. \A l \in Listing : listing'[l] \in ProduceRow /\ listing[l].floating <= listing'[l].floating
  BY <1>1 DEF ReleaseCommits, ProduceRow
<1>4. TypeOK'
  <2>1. checkout' \in [Buyer -> [Key -> CheckoutRow]]
    BY <1>t, <1>b, StatusWritten DEF ReleaseCommits
  <2>2. listing' \in [Listing -> ProduceRow]
    BY <1>3 DEF ReleaseCommits
  <2>3. QED
    BY <1>t, <1>i, <1>2, <2>1, <2>2 DEF TypeOK, CheckoutRow, ProduceRow, Transaction, Kind
<1>5. NothingLost' /\ MergeHasCart'
  BY <1>2 DEF Inv, NothingLost, MergeHasCart, Merging
<1>6. PlacingHasCart' /\ OneAtCart' /\ RowsInOrder'
  BY <1>t, <1>i, <1>2 DEF Inv, PlacingHasCart, OneAtCart, RowsInOrder, Merging
<1>7. HeldInStock'
  <2>1. ASSUME NEW q \in Session, NEW l \in Listing, tx'[q].kind \in {"cart", "now"}
        PROVE  tx'[q].held[l] <= listing'[l].floating
    <3>1. q # s /\ tx'[q] = tx[q] /\ tx[q].held[l] \in Nat /\ tx[q].held[l] <= listing[l].floating
      BY <2>1, <1>t, <1>2, <1>i DEF Inv, HeldInStock, Transaction, Lines
    <3>2. QED
      BY <3>1, <1>1, <1>3 DEF ProduceRow
  <2>2. QED
    BY <2>1, <1>t, <1>2, <1>i DEF Inv, HeldInStock
<1>8. QED
  BY <1>4, <1>5, <1>6, <1>7 DEF Inv

(* A payment and an edit leave carts, locks and quantities alone. *)
LEMMA OthersInv ==
  ASSUME Inv, (\E b \in Buyer, k \in Key : Paid(b, k)) \/ (\E l \in Listing : EditListing(l))
  PROVE  Inv'
<1>t. TypeOK
  BY DEF Inv
<1>1. UNCHANGED <<cart, merged, tx, kept, merging>>
  BY DEF Paid, EditListing
<1>2. /\ checkout' \in [Buyer -> [Key -> CheckoutRow]]
      /\ listing' \in [Listing -> ProduceRow]
      /\ \A l \in Listing : listing'[l].floating = listing[l].floating
  <2>1. /\ checkout \in [Buyer -> [Key -> CheckoutRow]] /\ listing \in [Listing -> ProduceRow]
    BY <1>t, TypeForms
  <2>2. ASSUME NEW b \in Buyer, NEW k \in Key, Paid(b, k)
        PROVE  checkout' \in [Buyer -> [Key -> CheckoutRow]] /\ listing' = listing
    BY <2>2, <1>t, StatusWritten DEF Paid
  <2>3. ASSUME NEW l \in Listing, EditListing(l)
        PROVE  /\ checkout' = checkout /\ listing' \in [Listing -> ProduceRow]
               /\ \A m \in Listing : listing'[m].floating = listing[m].floating
    <3>1. PICK price \in Price, onSale \in BOOLEAN :
            listing' = [listing EXCEPT ![l].price = price, ![l].onSale = onSale]
      BY <2>3 DEF EditListing
    <3> DEFINE row == [listing[l] EXCEPT !.price = price, !.onSale = onSale]
    <3>2. row \in ProduceRow /\ row.floating = listing[l].floating
      BY <2>1 DEF ProduceRow
    <3>3. listing' = [listing EXCEPT ![l] = row]
      BY <2>1, <3>1 DEF ProduceRow
    <3> HIDE DEF row
    <3>4. QED
      BY <2>1, <2>3, <3>2, <3>3 DEF EditListing
  <2>4. QED
    BY <2>1, <2>2, <2>3
<1>3. TypeOK'
  BY <1>t, <1>1, <1>2, TypeForms DEF TypeOK, CheckoutRow, ProduceRow
<1>4. NothingLost' /\ MergeHasCart' /\ PlacingHasCart' /\ OneAtCart' /\ RowsInOrder'
  BY <1>1 DEF Inv, NothingLost, MergeHasCart, PlacingHasCart, OneAtCart, RowsInOrder, Merging
<1>5. HeldInStock'
  BY <1>1, <1>2 DEF Inv, HeldInStock
<1>6. QED
  BY <1>3, <1>4, <1>5 DEF Inv

LEMMA NextInv == Inv /\ [Next]_vars => Inv'
<1> SUFFICES ASSUME Inv, [Next]_vars PROVE Inv'
  OBVIOUS
<1>1. ASSUME NEW b \in Buyer, NEW l \in Listing,
             AddItem(b, l) \/ RemoveItem(b, l) \/ \E q \in 1..Stock : UpdateItem(b, l, q)
      PROVE  Inv'
  <2>1. 1..Stock \subseteq Nat /\ 0 \in Nat
    BY CartAssumption
  <2>2. QED
    BY <1>1, <2>1, AddInv, UpdateInv
<1>2. ASSUME NEW b \in Buyer, NEW k \in Key, MergeBegins(b, k) \/ Paid(b, k) PROVE Inv'
  BY <1>2, MergeStepsInv, OthersInv
<1>3. ASSUME NEW b \in Buyer, AddLine(b) \/ MergeCommits(b) \/ MergeDies(b) PROVE Inv'
  BY <1>3, MergeStepsInv, MergeCommitsInv
<1>4. ASSUME NEW s \in Session, NEW b \in Buyer, NEW k \in Key,
             \/ CheckoutBegins(s, b, k) \/ ReleaseBegins(s, b, k)
             \/ \E l \in Listing : BuyNowBegins(s, b, k, l)
      PROVE  Inv'
  BY <1>4, BeginsInv
<1>5. ASSUME NEW s \in Session, InTransaction(s) PROVE Inv'
  BY <1>5, TakeRowInv, RefusedInv, PlaceCommitsInv, ReleaseCommitsInv DEF InTransaction
<1>6. ASSUME NEW l \in Listing, EditListing(l) PROVE Inv'
  BY <1>6, OthersInv
<1>7. CASE UNCHANGED vars
  BY <1>7 DEF vars, Inv, TypeOK, NothingLost, MergeHasCart, PlacingHasCart, OneAtCart, RowsInOrder,
              HeldInStock, Merging
<1>8. QED
  BY <1>1, <1>2, <1>3, <1>4, <1>5, <1>6, <1>7 DEF Next

LEMMA Invariance == Spec => []Inv
<1>1. QED
  BY InitInv, NextInv, PTL DEF Spec

-----------------------------------------------------------------------------
(* Carts, checkouts, listings and what is under way are well formed, for any *)
(* number of buyers, listings, transactions and merges.                      *)
THEOREM SpecTypeOK == Spec => []TypeOK
<1>1. Inv => TypeOK
  BY DEF Inv
<1>2. QED
  BY <1>1, Invariance, PTL

(* Whatever is added, merged, placed and bought at once: a cart holds what   *)
(* its buyer put in and neither took out nor ordered.                        *)
THEOREM SpecNothingLost == Spec => []NothingLost
<1>1. Inv => NothingLost
  BY DEF Inv
<1>2. QED
  BY <1>1, Invariance, PTL

(* Of listings one has the greatest id; of any set of them, if finite.       *)
LEMMA LastListing ==
  ASSUME NEW W \in SUBSET Listing, W # {}
  PROVE  \E l \in W : \A m \in W : m <= l
<1> DEFINE Above(l) == {m \in W : m > l}
           T == {Cardinality(Above(l)) : l \in W}
<1>1. W \subseteq Nat /\ IsFiniteSet(W)
  BY CartAssumption, FS_Subset
<1>2. \A l \in W : IsFiniteSet(Above(l)) /\ Cardinality(Above(l)) \in Nat
  BY <1>1, FS_Subset, FS_CardinalityType
<1>3. T \subseteq Nat /\ T # {}
  BY <1>2
<1>4. PICK x \in T : \A y \in T : ~(<<y, x>> \in OpToRel(<, Nat))
  BY <1>3, NatLessThanWellFounded, WFMin
<1>5. PICK l \in W : x = Cardinality(Above(l))
  BY <1>4
<1>6. ASSUME NEW m \in W, m > l PROVE FALSE
  <2>1. Above(m) \subseteq Above(l) /\ m \in Above(l) /\ m \notin Above(m)
    <3>1. \A n \in W : n \in Nat
      BY <1>1
    <3>2. QED
      BY <3>1, <1>6
  <2>2. Cardinality(Above(m)) < Cardinality(Above(l))
    BY <2>1, <1>2, FS_Subset
  <2>3. Cardinality(Above(m)) \in T
    OBVIOUS
  <2>4. QED
    BY <2>2, <2>3, <1>3, <1>4, <1>5 DEF OpToRel
<1>7. QED
  BY <1>1, <1>6

(* In a circle of waiting transactions take the last row waited for: who     *)
(* holds it waits for a later one still.                                     *)
LEMMA NoCircle == Inv => NoCircularWait
<1> SUFFICES ASSUME Inv, NEW S \in SUBSET Session, S # {},
                    \A s \in S : \E t \in S : WaitsFor(s, t)
             PROVE  FALSE
  BY DEF NoCircularWait
<1> DEFINE W == {l \in Listing : \E s \in S : l \in NextRows(tx[s].todo)}
<1>1. W # {}
  BY DEF WaitsFor, NextRows, LinesOf
<1>2. PICK l \in W : \A m \in W : m <= l
  BY <1>1, LastListing
<1>3. PICK s \in S : l \in NextRows(tx[s].todo)
  OBVIOUS
<1>4. PICK t \in S : WaitsFor(s, t)
  OBVIOUS
<1>5. tx[t].held[l] > 0
  <2>1. PICK m \in NextRows(tx[s].todo) : tx[t].held[m] > 0
    BY <1>4 DEF WaitsFor
  <2>2. m = l
    BY <1>3, <2>1, CartAssumption DEF NextRows, LinesOf
  <2>3. QED
    BY <2>1, <2>2
<1>6. PICK m \in NextRows(tx[t].todo) : TRUE
  BY DEF WaitsFor
<1>7. m \in W /\ m \in Listing /\ tx[t].todo[m] > 0
  BY <1>6 DEF NextRows, LinesOf
<1>8. l < m
  BY <1>5, <1>7 DEF Inv, RowsInOrder
<1>9. QED
  BY <1>2, <1>7, <1>8, CartAssumption

(* Placements and releases never wait for each other's rows in a circle, for *)
(* any number of them and of listings.                                       *)
THEOREM SpecNoCircularWait == Spec => []NoCircularWait
<1>1. QED
  BY NoCircle, Invariance, PTL

-----------------------------------------------------------------------------
(* Prices.  What a transaction has added up is what the rows it holds cost:  *)
(* nobody edits a row that is held.                                          *)
Prices == [l \in Listing |-> listing[l].price]
Priced == \A s \in Session : tx[s].total = Total(tx[s].held, Prices)

LEMMA TotalIsSum ==
  ASSUME NEW lines, NEW price
  PROVE  Total(lines, price) = Sum([l \in Listing |-> lines[l] * price[l]], Listing)
  BY DEF Total, Sum, MapThenSumSet, MapThenFoldSet

(* A total depends on what each line costs. *)
LEMMA TotalSame ==
  ASSUME NEW a, NEW b, NEW p, NEW q,
         \A l \in Listing : a[l] * p[l] = b[l] * q[l] /\ a[l] * p[l] \in Int
  PROVE  Total(a, p) = Total(b, q)
<1> DEFINE f == [l \in Listing |-> a[l] * p[l]]
           g == [l \in Listing |-> b[l] * q[l]]
<1>1. \A l \in Listing : f[l] = g[l] /\ f[l] \in Int
  OBVIOUS
<1> HIDE DEF f, g
<1>2. Sum(f, Listing) = Sum(g, Listing)
  BY <1>1, CartAssumption, SumSame
<1>3. QED
  BY <1>2, TotalIsSum DEF f, g

LEMMA TotalNothing ==
  ASSUME NEW a, NEW p, \A l \in Listing : a[l] = 0 /\ p[l] \in Int
  PROVE  Total(a, p) = 0
<1> DEFINE f == [l \in Listing |-> a[l] * p[l]]
<1>1. \A l \in Listing : f[l] = 0
  OBVIOUS
<1> HIDE DEF f
<1>2. Sum(f, Listing) = 0
  BY <1>1, CartAssumption, SumZero
<1>3. QED
  BY <1>2, TotalIsSum DEF f

(* A line more. *)
LEMMA TotalTakes ==
  ASSUME NEW a, NEW b, NEW p, NEW l \in Listing,
         \A m \in Listing : a[m] \in Nat /\ p[m] \in Nat /\ b[m] \in Nat,
         a[l] = 0, \A m \in Listing : m # l => b[m] = a[m]
  PROVE  Total(b, p) = Total(a, p) + b[l] * p[l]
<1> DEFINE f == [m \in Listing |-> a[m] * p[m]]
           g == [m \in Listing |-> b[m] * p[m]]
           R == Listing \ {l}
<1>1. \A m \in Listing : f[m] \in Int /\ g[m] \in Int
  OBVIOUS
<1>2. \A m \in R : f[m] = g[m]
  OBVIOUS
<1>3. f[l] = 0 /\ g[l] = b[l] * p[l]
  OBVIOUS
<1>4. IsFiniteSet(R) /\ IsFiniteSet(Listing) /\ R \subseteq Listing
  BY CartAssumption, FS_Subset
<1> HIDE DEF f, g
<1>5. Sum(f, Listing) = f[l] + Sum(f, R) /\ Sum(g, Listing) = g[l] + Sum(g, R)
  BY <1>1, <1>4, SumRemove
<1>6. Sum(f, R) = Sum(g, R)
  BY <1>1, <1>2, <1>4, SumSame
<1>7. Sum(f, R) \in Int /\ b[l] * p[l] \in Int
  BY <1>1, <1>4, SumType
<1>8. Sum(g, Listing) = Sum(f, Listing) + b[l] * p[l]
  BY <1>3, <1>5, <1>6, <1>7
<1>9. QED
  BY <1>8, TotalIsSum DEF f, g

LEMMA PriceTypes ==
  ASSUME TypeOK
  PROVE  /\ \A l \in Listing : Prices[l] = listing[l].price /\ Prices[l] \in Nat
         /\ \A s \in Session, l \in Listing : tx[s].held[l] \in Nat /\ tx[s].todo[l] \in Nat
<1>1. listing \in [Listing -> ProduceRow] /\ tx \in [Session -> Transaction]
  BY TypeForms
<1>2. \A l \in Listing : Prices[l] = listing[l].price /\ Prices[l] \in Nat
  BY <1>1, CartAssumption DEF Prices, ProduceRow
<1>3. \A s \in Session : tx[s].held \in Lines /\ tx[s].todo \in Lines
  BY <1>1 DEF Transaction
<1>4. \A s \in Session, l \in Listing : tx[s].held[l] \in Nat /\ tx[s].todo[l] \in Nat
  BY <1>3 DEF Lines
<1>5. QED
  BY <1>2, <1>4

LEMMA NothingHeld ==
  ASSUME TypeOK, NEW t, t.held = None, t.total = 0 PROVE t.total = Total(t.held, Prices)
<1>1. \A l \in Listing : t.held[l] = 0 /\ Prices[l] \in Int
  BY PriceTypes DEF None
<1>2. QED
  BY <1>1, TotalNothing

LEMMA InitPriced == Init => Priced
<1> SUFFICES ASSUME Init, NEW s \in Session PROVE tx[s].total = Total(tx[s].held, Prices)
  BY DEF Priced
<1>1. TypeOK
  BY InitInv DEF Inv
<1>2. tx[s].held = None /\ tx[s].total = 0
  BY DEF Init, Idle
<1>3. QED
  BY <1>1, <1>2, NothingHeld

(* While prices stay, or only those of rows nobody holds change, a           *)
(* transaction's total stays right.                                          *)
LEMMA StaysPriced ==
  ASSUME TypeOK, TypeOK', NEW s \in Session, tx'[s] = tx[s], tx[s].total = Total(tx[s].held, Prices),
         \A l \in Listing : listing'[l].price = listing[l].price \/ tx[s].held[l] = 0
  PROVE  tx'[s].total = Total(tx'[s].held, Prices')
<1>1. /\ \A l \in Listing : Prices[l] = listing[l].price /\ Prices[l] \in Nat /\ tx[s].held[l] \in Nat
      /\ \A l \in Listing : Prices'[l] = listing'[l].price /\ Prices'[l] \in Nat
  <2>1. listing' \in [Listing -> ProduceRow]
    BY DEF TypeOK, ProduceRow
  <2>2. QED
    BY <2>1, PriceTypes, CartAssumption DEF Prices, ProduceRow
<1>2. \A l \in Listing : tx[s].held[l] * Prices[l] = tx[s].held[l] * Prices'[l]
                         /\ tx[s].held[l] * Prices[l] \in Int
  BY <1>1
<1>3. Total(tx[s].held, Prices) = Total(tx[s].held, Prices')
  BY <1>2, TotalSame
<1>4. QED
  BY <1>3

(* A transaction begins, or ends, with nothing held. *)
LEMMA FreshPriced ==
  ASSUME TypeOK, TypeOK', Priced, NEW s \in Session, NEW t, tx' = [tx EXCEPT ![s] = t],
         t.held = None, t.total = 0,
         \A l \in Listing : listing'[l].price = listing[l].price
  PROVE  Priced'
<1>1. tx \in [Session -> Transaction]
  BY TypeForms
<1>2. ASSUME NEW q \in Session PROVE tx'[q].total = Total(tx'[q].held, Prices')
  <2>1. CASE q = s
    <3>1. tx'[q] = t
      BY <1>1, <2>1
    <3>2. \A l \in Listing : Prices'[l] \in Nat
      <4>1. listing' \in [Listing -> ProduceRow]
        BY DEF TypeOK, ProduceRow
      <4>2. QED
        BY <4>1, CartAssumption DEF Prices, ProduceRow
    <3>3. \A l \in Listing : t.held[l] = 0 /\ Prices'[l] \in Int
      BY <3>2 DEF None
    <3>4. QED
      BY <3>1, <3>3, TotalNothing
  <2>2. CASE q # s
    <3>1. tx'[q] = tx[q] /\ tx[q].total = Total(tx[q].held, Prices)
      BY <1>1, <2>2 DEF Priced
    <3>2. QED
      BY <3>1, StaysPriced
  <2>3. QED
    BY <2>1, <2>2
<1>3. QED
  BY <1>2 DEF Priced

LEMMA SamePriced ==
  ASSUME TypeOK, TypeOK', Priced, UNCHANGED tx,
         \A l \in Listing : listing'[l].price = listing[l].price \/ ~RowHeld(l)
  PROVE  Priced'
<1>1. ASSUME NEW s \in Session PROVE tx'[s].total = Total(tx'[s].held, Prices')
  <2>1. \A l \in Listing : tx[s].held[l] \in Nat
    BY PriceTypes
  <2>2. \A l \in Listing : listing'[l].price = listing[l].price \/ tx[s].held[l] = 0
    BY <2>1 DEF RowHeld
  <2>3. tx'[s] = tx[s] /\ tx[s].total = Total(tx[s].held, Prices)
    BY DEF Priced
  <2>4. QED
    BY <2>2, <2>3, StaysPriced
<1>2. QED
  BY <1>1 DEF Priced

LEMMA TakePriced ==
  ASSUME TypeOK, TypeOK', Priced, NEW s \in Session, NEW l \in Listing, TakeRow(s, l)
  PROVE  Priced'
<1>1. /\ tx \in [Session -> Transaction] /\ UNCHANGED listing
      /\ \A q \in Session : q # s => tx'[q] = tx[q]
      /\ tx'[s].total = tx[s].total + tx[s].todo[l] * listing[l].price
      /\ \A m \in Listing : tx'[s].held[m] = IF m = l THEN tx[s].todo[l] ELSE tx[s].held[m]
  BY TypeForms DEF TakeRow, Transaction, Lines
<1>2. /\ \A m \in Listing : Prices[m] = listing[m].price /\ Prices[m] \in Nat
      /\ \A m \in Listing : tx[s].held[m] \in Nat /\ tx[s].todo[m] \in Nat
      /\ Prices' = Prices
  BY <1>1, PriceTypes DEF Prices
<1>3. tx[s].held[l] = 0
  BY <1>2 DEF TakeRow, RowHeld
<1>4. Total(tx'[s].held, Prices) = Total(tx[s].held, Prices) + tx'[s].held[l] * Prices[l]
  <2>1. /\ \A m \in Listing : tx[s].held[m] \in Nat /\ Prices[m] \in Nat /\ tx'[s].held[m] \in Nat
        /\ \A m \in Listing : m # l => tx'[s].held[m] = tx[s].held[m]
    BY <1>1, <1>2
  <2> DEFINE a == tx[s].held
             b == tx'[s].held
             p == Prices
  <2>2. /\ \A m \in Listing : a[m] \in Nat /\ p[m] \in Nat /\ b[m] \in Nat
        /\ a[l] = 0 /\ \A m \in Listing : m # l => b[m] = a[m]
    BY <1>3, <2>1
  <2> HIDE DEF a, b, p
  <2>3. Total(b, p) = Total(a, p) + b[l] * p[l]
    BY <2>2, TotalTakes
  <2>4. QED
    BY <2>3 DEF a, b, p
<1>5. tx'[s].total = Total(tx'[s].held, Prices')
  BY <1>1, <1>2, <1>4 DEF Priced
<1>6. ASSUME NEW q \in Session, q # s PROVE tx'[q].total = Total(tx'[q].held, Prices')
  BY <1>1, <1>2, <1>6 DEF Priced
<1>7. QED
  BY <1>5, <1>6 DEF Priced

LEMMA NextPriced == Inv /\ Inv' /\ Priced /\ [Next]_vars => Priced'
<1> SUFFICES ASSUME Inv, Inv', Priced, [Next]_vars PROVE Priced'
  OBVIOUS
<1>t. TypeOK /\ TypeOK' /\ listing \in [Listing -> ProduceRow]
  BY TypeForms DEF Inv
<1>i. Idle.held = None /\ Idle.total = 0
  BY DEF Idle
<1>1. CASE UNCHANGED <<tx, listing>>
  BY <1>1, <1>t, SamePriced
<1>2. ASSUME NEW s \in Session, InTransaction(s) PROVE Priced'
  <2>1. ASSUME tx' = [tx EXCEPT ![s] = Idle], \A l \in Listing : listing'[l].price = listing[l].price
        PROVE  Priced'
    BY <2>1, <1>t, <1>i, FreshPriced
  <2>2. ASSUME PlaceCommits(s) \/ ReleaseCommits(s)
        PROVE  \A l \in Listing : listing'[l].price = listing[l].price
    BY <2>2, <1>t DEF PlaceCommits, ReleaseCommits, ProduceRow
  <2>3. QED
    BY <1>2, <1>t, <2>1, <2>2, TakePriced
    DEF InTransaction, RowRefused, PlaceRefused, Timeout, PlaceCommits, ReleaseCommits
<1>3. ASSUME NEW s \in Session, NEW b \in Buyer, NEW k \in Key,
             \/ CheckoutBegins(s, b, k) \/ ReleaseBegins(s, b, k)
             \/ \E l \in Listing : BuyNowBegins(s, b, k, l)
      PROVE  Priced'
  <2>1. \E t : tx' = [tx EXCEPT ![s] = t] /\ t.held = None /\ t.total = 0
    <3>1. ASSUME CheckoutBegins(s, b, k)
          PROVE  \E t : tx' = [tx EXCEPT ![s] = t] /\ t.held = None /\ t.total = 0
      <4>1. PICK expected \in ExpectedTotals(cart[b]) :
              tx' = [tx EXCEPT ![s] = [Idle EXCEPT !.kind = "cart", !.buyer = b, !.key = k,
                                                   !.todo = cart[b], !.expected = expected]]
        BY <3>1 DEF CheckoutBegins
      <4> DEFINE t == [Idle EXCEPT !.kind = "cart", !.buyer = b, !.key = k,
                                   !.todo = cart[b], !.expected = expected]
      <4>2. t.held = None /\ t.total = 0
        BY DEF Idle
      <4>3. QED
        BY <4>1, <4>2
    <3>2. ASSUME NEW l \in Listing, BuyNowBegins(s, b, k, l)
          PROVE  \E t : tx' = [tx EXCEPT ![s] = t] /\ t.held = None /\ t.total = 0
      <4> DEFINE lines == [None EXCEPT ![l] = 1]
      <4>1. PICK expected \in ExpectedTotals(lines) :
              tx' = [tx EXCEPT ![s] = [Idle EXCEPT !.kind = "now", !.buyer = b, !.key = k,
                                                   !.todo = lines, !.expected = expected]]
        BY <3>2 DEF BuyNowBegins
      <4> HIDE DEF lines
      <4> DEFINE t == [Idle EXCEPT !.kind = "now", !.buyer = b, !.key = k,
                                   !.todo = lines, !.expected = expected]
      <4>2. t.held = None /\ t.total = 0
        BY DEF Idle
      <4>3. QED
        BY <4>1, <4>2
    <3>3. ASSUME ReleaseBegins(s, b, k)
          PROVE  \E t : tx' = [tx EXCEPT ![s] = t] /\ t.held = None /\ t.total = 0
      <4> DEFINE t == [Idle EXCEPT !.kind = "release", !.buyer = b, !.key = k,
                                   !.todo = checkout[b][k].lines]
      <4>1. t.held = None /\ t.total = 0
        BY DEF Idle
      <4>2. tx' = [tx EXCEPT ![s] = t]
        BY <3>3 DEF ReleaseBegins
      <4>3. QED
        BY <4>1, <4>2
    <3>4. QED
      BY <1>3, <3>1, <3>2, <3>3
  <2>2. UNCHANGED listing
    BY <1>3 DEF CheckoutBegins, ReleaseBegins, BuyNowBegins
  <2>3. QED
    BY <1>t, <2>1, <2>2, FreshPriced
<1>4. ASSUME NEW l \in Listing, EditListing(l) PROVE Priced'
  <2>1. \A m \in Listing : listing'[m].price = listing[m].price \/ ~RowHeld(m)
    BY <1>4, <1>t DEF EditListing, Editable
  <2>2. UNCHANGED tx
    BY <1>4 DEF EditListing
  <2>3. QED
    BY <1>t, <2>1, <2>2, SamePriced
<1>5. QED
  BY <1>1, <1>2, <1>3, <1>4
  DEF Next, vars, AddItem, RemoveItem, UpdateItem, MergeBegins, Paid, AddLine, MergeCommits, MergeDies

(* A checkout costs what its buyer was last shown and what its listings cost *)
(* when it is placed, for any listings and prices.                           *)
THEOREM SpecPricedAsAgreed == Spec => PricedAsAgreed
<1> DEFINE AsAgreed ==
      \A s \in Session :
        LET b == tx[s].buyer  k == tx[s].key
            price == [l \in Listing |-> listing'[l].price]
        IN PlaceCommits(s) => /\ checkout'[b][k].total = tx[s].expected
                              /\ checkout'[b][k].total = Total(checkout'[b][k].lines, price)
<1>1. Inv /\ Inv' /\ Priced /\ [Next]_vars => AsAgreed
  <2> SUFFICES ASSUME Inv, Inv', Priced, NEW s \in Session, PlaceCommits(s)
               PROVE  LET b == tx[s].buyer  k == tx[s].key
                          price == [l \in Listing |-> listing'[l].price]
                      IN /\ checkout'[b][k].total = tx[s].expected
                         /\ checkout'[b][k].total = Total(checkout'[b][k].lines, price)
    OBVIOUS
  <2> DEFINE b == tx[s].buyer
             k == tx[s].key
             price == [l \in Listing |-> listing'[l].price]
  <2>t. TypeOK /\ listing \in [Listing -> ProduceRow] /\ checkout \in [Buyer -> [Key -> CheckoutRow]]
    BY TypeForms DEF Inv
  <2>b. b \in Buyer /\ k \in Key
    BY DEF PlaceCommits, Inv, OneAtCart
  <2>1. checkout'[b][k] = [status |-> "AWAITING_PAYMENT", lines |-> tx[s].held, total |-> tx[s].total]
    BY <2>t, <2>b DEF PlaceCommits
  <2>2. checkout'[b][k].total = tx[s].total /\ checkout'[b][k].lines = tx[s].held
    BY <2>1
  <2>3. tx[s].total = tx[s].expected
    BY DEF PlaceCommits, Agreed
  <2>4. \A l \in Listing : price[l] = Prices[l]
    BY <2>t DEF PlaceCommits, ProduceRow, Prices
  <2>5. price = Prices
    BY <2>4 DEF Prices
  <2>6. tx[s].total = Total(tx[s].held, price)
    BY <2>5 DEF Priced
  <2>7. QED
    BY <2>2, <2>3, <2>6
<1>2. Init => Inv /\ Priced
  BY InitInv, InitPriced
<1>3. Inv /\ Priced /\ [Next]_vars => (Inv /\ Priced)'
  BY NextInv, NextPriced
<1>4. Inv /\ Inv' /\ Priced /\ [Next]_vars => [AsAgreed]_vars
  BY <1>1
<1>5. QED
  BY <1>2, <1>3, <1>4, PTL DEF Spec, PricedAsAgreed
=============================================================================
