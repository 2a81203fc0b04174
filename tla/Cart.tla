-------------------------------- MODULE Cart --------------------------------
(* Carts and placements (src/src/cart, OrderService.create): the lines of a *)
(* buyer's cart, the merge of a device's cart, and the transactions that    *)
(* turn a cart or one listing into a checkout, lock by lock, beside those   *)
(* that release a checkout and the sellers who edit the listings.  Delivery *)
(* and service fees are left out of the total: the configuration fixes them.*)
EXTENDS Integers, Sequences, FiniteSetsExt

CONSTANTS
  Buyer,
  Listing,       \* listings, by the order of their ids
  Session,       \* transactions open at once
  Key,           \* idempotency keys
  Device,        \* Device[k]: the lines <<listing, quantity>> a merge with key k sends
  Price,         \* what a unit may cost
  Stock,         \* what each listing has at first
  MaxItems,      \* MAX_CART_ITEMS
  Nobody

ASSUME CartAssumption ==
  /\ Listing \in SUBSET Nat /\ IsFiniteSet(Listing)
  /\ Price \in SUBSET Nat
  /\ Stock \in Nat /\ MaxItems \in Nat
  /\ Device \in [Key -> Seq(Listing \X Nat)]
  /\ Nobody \notin Buyer \cup Key

VARIABLES
  cart,       \* CartItem: the quantity of each line, 0 where there is none
  merged,     \* CartMerge: the keys whose merge is done
  checkout,   \* Checkout by buyer and key
  listing,    \* Produce: floating stock, price, whether the shop sells it
  tx,         \* the transactions under way
  merging,    \* each buyer's merge under way: its key, the lines it has written
  kept        \* what each buyer put in the cart and neither took out nor ordered

vars == <<cart, merged, checkout, listing, tx, merging, kept>>

Lines == [Listing -> Nat]
None == [l \in Listing |-> 0]
LinesOf(lines) == {l \in Listing : lines[l] > 0}
Idle == [kind |-> "idle", buyer |-> Nobody, key |-> Nobody, todo |-> None, held |-> None,
         total |-> 0, expected |-> 0]
NoMerge == [key |-> Nobody, found |-> None, lines |-> None, next |-> 1]
NoCheckout == [status |-> "NONE", lines |-> None, total |-> 0]

TypeOK ==
  /\ cart \in [Buyer -> Lines]
  /\ merged \in [Buyer -> SUBSET Key]
  /\ checkout \in [Buyer -> [Key -> [status : {"NONE", "AWAITING_PAYMENT", "PAID", "CANCELLED"},
                                     lines : Lines, total : Nat]]]
  /\ listing \in [Listing -> [floating : Nat, price : Price, onSale : BOOLEAN]]
  /\ tx \in [Session -> [kind : {"idle", "cart", "now", "release"},
                         buyer : Buyer \cup {Nobody}, key : Key \cup {Nobody},
                         todo : Lines, held : Lines, total : Nat, expected : Nat]]
  /\ merging \in [Buyer -> [key : Key \cup {Nobody}, found : Lines, lines : Lines, next : Nat \ {0}]]
  /\ kept \in [Buyer -> Lines]

Init ==
  /\ cart = [b \in Buyer |-> None]
  /\ merged = [b \in Buyer |-> {}]
  /\ checkout = [b \in Buyer |-> [k \in Key |-> NoCheckout]]
  /\ listing \in [Listing -> [floating : {Stock}, price : Price, onSale : {TRUE}]]
  /\ tx = [s \in Session |-> Idle]
  /\ merging = [b \in Buyer |-> NoMerge]
  /\ kept = [b \in Buyer |-> None]

-----------------------------------------------------------------------------
(* Locks: the buyer's advisory lock, a row from the statement that wrote it *)
(* on, a checkout's advisory lock.                                          *)
Busy(s) == tx[s].kind # "idle"
Merging(b) == merging[b].key # Nobody
LockFree(b) == /\ ~Merging(b)
               /\ \A s \in Session : ~(tx[s].kind \in {"cart", "now"} /\ tx[s].buyer = b)
RowHeld(l) == \E s \in Session : tx[s].held[l] > 0
CheckoutFree(b, k) == \A s \in Session :
                        ~(tx[s].kind = "release" /\ tx[s].buyer = b /\ tx[s].key = k)

(* isOrderable, and the condition of tryReserveProduce's update. *)
Orderable(l, quantity) == listing[l].onSale /\ quantity <= listing[l].floating

-----------------------------------------------------------------------------
(* The cart *)

(* tryAddLine: a line more, or more of a line, unless the cart is full or   *)
(* the listing cannot be ordered in that quantity.                          *)
Fits(lines, l) == lines[l] > 0 \/ Cardinality(LinesOf(lines)) < MaxItems
CanAdd(lines, l, q) == Fits(lines, l) /\ Orderable(l, lines[l] + q)
TryAddLine(lines, l, q) == IF CanAdd(lines, l, q) THEN [lines EXCEPT ![l] = @ + q] ELSE lines

CartFreeAlways(b) == b \in Buyer
CartFree(b) == LockFree(b)

AddItem(b, l) ==
  /\ CartFree(b)
  /\ CanAdd(cart[b], l, 1)
  /\ cart' = [cart EXCEPT ![b] = TryAddLine(@, l, 1)]
  /\ kept' = [kept EXCEPT ![b][l] = @ + 1]
  /\ UNCHANGED <<merged, checkout, listing, tx, merging>>

(* mergeItems: one transaction that adds line after line, each by the listing *)
(* as it then stands; what cannot be added is skipped and reported.  A key    *)
(* whose merge is done is answered from its CartMerge, and changes nothing.   *)
ReplaysNever(b, k) == FALSE
Replays(b, k) == k \in merged[b]

MergeBegins(b, k) ==
  /\ CartFree(b) /\ ~Replays(b, k)
  /\ merging' = [merging EXCEPT ![b] = [key |-> k, found |-> cart[b], lines |-> cart[b], next |-> 1]]
  /\ UNCHANGED <<cart, merged, checkout, listing, tx, kept>>

AddLine(b) ==
  LET line == Device[merging[b].key][merging[b].next]
  IN /\ Merging(b) /\ merging[b].next <= Len(Device[merging[b].key])
     /\ merging' = [merging EXCEPT ![b].lines = TryAddLine(@, line[1], line[2]), ![b].next = @ + 1]
     /\ UNCHANGED <<cart, merged, checkout, listing, tx, kept>>

MergeCommits(b) ==
  LET merge == merging[b]
  IN /\ Merging(b) /\ merge.next > Len(Device[merge.key])
     /\ cart' = [cart EXCEPT ![b] = merge.lines]
     /\ merged' = [merged EXCEPT ![b] = @ \cup {merge.key}]
     /\ kept' = IF merge.key \in merged[b] THEN kept
                ELSE [kept EXCEPT ![b] = [l \in Listing |-> @[l] + (merge.lines[l] - merge.found[l])]]
     /\ merging' = [merging EXCEPT ![b] = NoMerge]
     /\ UNCHANGED <<checkout, listing, tx>>

MergeDies(b) ==
  /\ Merging(b)
  /\ merging' = [merging EXCEPT ![b] = NoMerge]
  /\ UNCHANGED <<cart, merged, checkout, listing, tx, kept>>

UpdateItem(b, l, q) ==
  /\ CartFree(b)
  /\ cart[b][l] > 0 /\ Orderable(l, q)
  /\ cart' = [cart EXCEPT ![b][l] = q]
  /\ kept' = [kept EXCEPT ![b][l] = q]
  /\ UNCHANGED <<merged, checkout, listing, tx, merging>>

RemoveItem(b, l) ==
  /\ CartFree(b)
  /\ cart[b][l] > 0
  /\ cart' = [cart EXCEPT ![b][l] = 0]
  /\ kept' = [kept EXCEPT ![b][l] = 0]
  /\ UNCHANGED <<merged, checkout, listing, tx, merging>>

-----------------------------------------------------------------------------
(* Placing *)

Total(lines, price) ==
  LET cost == [l \in Listing |-> lines[l] * price[l]] IN MapThenSumSet(LAMBDA l : cost[l], Listing)
Quotes(lines) == {Total(lines, price) : price \in [Listing -> Price]}

(* CreateCheckoutDto: a number of at least zero. *)
ExpectedTotals(lines) == Quotes(lines) \cap Nat

(* placeOrders takes the cart's lock, looks for a checkout with its key,    *)
(* reads the cart and refuses lines that cannot be ordered now.  The buyer  *)
(* sends the total of some earlier quote.                                   *)
CheckoutBegins(s, b, k) ==
  /\ ~Busy(s) /\ LockFree(b)
  /\ checkout[b][k].status = "NONE"
  /\ LinesOf(cart[b]) # {}
  /\ \A l \in LinesOf(cart[b]) : Orderable(l, cart[b][l])
  /\ \E expected \in ExpectedTotals(cart[b]) :
       tx' = [tx EXCEPT ![s] = [Idle EXCEPT !.kind = "cart", !.buyer = b, !.key = k,
                                            !.todo = cart[b], !.expected = expected]]
  /\ UNCHANGED <<cart, merged, checkout, listing, kept, merging>>

(* buyNow: one line, the cart left alone, the same lock and the same keys.  *)
BuyNowBegins(s, b, k, l) ==
  LET lines == [None EXCEPT ![l] = 1]
  IN /\ ~Busy(s) /\ LockFree(b)
     /\ checkout[b][k].status = "NONE"
     /\ \E expected \in ExpectedTotals(lines) :
          tx' = [tx EXCEPT ![s] = [Idle EXCEPT !.kind = "now", !.buyer = b, !.key = k,
                                               !.todo = lines, !.expected = expected]]
     /\ UNCHANGED <<cart, merged, checkout, listing, kept, merging>>

(* cancel and the expiry release an unpaid checkout under its own lock. *)
ReleaseBegins(s, b, k) ==
  /\ ~Busy(s) /\ CheckoutFree(b, k)
  /\ checkout[b][k].status = "AWAITING_PAYMENT"
  /\ tx' = [tx EXCEPT ![s] = [Idle EXCEPT !.kind = "release", !.buyer = b, !.key = k,
                                          !.todo = checkout[b][k].lines]]
  /\ UNCHANGED <<cart, merged, checkout, listing, kept, merging>>

(* Rows are taken in the order of the listings' ids. *)
NextRowsAny(lines) == LinesOf(lines)
NextRows(lines) == {l \in LinesOf(lines) : \A m \in LinesOf(lines) : l <= m}

(* tryReserveProduce, or releaseStock's update: waits for the row.  The line *)
(* is priced by the row as it then stands.                                   *)
TakeRow(s, l) ==
  /\ Busy(s) /\ l \in NextRows(tx[s].todo) /\ ~RowHeld(l)
  /\ tx[s].kind # "release" => Orderable(l, tx[s].todo[l])
  /\ tx' = [tx EXCEPT ![s].todo[l] = 0, ![s].held[l] = tx[s].todo[l],
                         ![s].total = @ + tx[s].todo[l] * listing[l].price]
  /\ UNCHANGED <<cart, merged, checkout, listing, kept, merging>>

(* Refused: the stock went between the check and the update. *)
RowRefused(s, l) ==
  /\ tx[s].kind \in {"cart", "now"} /\ l \in NextRows(tx[s].todo) /\ ~RowHeld(l)
  /\ ~Orderable(l, tx[s].todo[l])
  /\ tx' = [tx EXCEPT ![s] = Idle]
  /\ UNCHANGED <<cart, merged, checkout, listing, kept, merging>>

AllTaken(s) == Busy(s) /\ LinesOf(tx[s].todo) = {}

(* createCheckout compares the total of the lines with the one the buyer    *)
(* was shown, and the transaction commits; a cart is then emptied.          *)
Agreed(s) == tx[s].total = tx[s].expected

PlaceCommits(s) ==
  LET b == tx[s].buyer  k == tx[s].key  lines == tx[s].held
  IN /\ tx[s].kind \in {"cart", "now"} /\ AllTaken(s) /\ Agreed(s)
     /\ checkout' = [checkout EXCEPT
          ![b][k] = [status |-> "AWAITING_PAYMENT", lines |-> lines, total |-> tx[s].total]]
     /\ listing' = [l \in Listing |-> [listing[l] EXCEPT !.floating = @ - lines[l]]]
     /\ IF tx[s].kind = "cart"
        THEN /\ cart' = [cart EXCEPT ![b] = None]
             /\ kept' = [kept EXCEPT ![b] = [l \in Listing |-> @[l] - lines[l]]]
        ELSE UNCHANGED <<cart, kept>>
     /\ tx' = [tx EXCEPT ![s] = Idle]
     /\ UNCHANGED <<merged, merging>>

(* "Prices in your cart have changed". *)
PlaceRefused(s) ==
  /\ tx[s].kind \in {"cart", "now"} /\ AllTaken(s) /\ ~Agreed(s)
  /\ tx' = [tx EXCEPT ![s] = Idle]
  /\ UNCHANGED <<cart, merged, checkout, listing, kept, merging>>

ReleaseCommits(s) ==
  LET b == tx[s].buyer  k == tx[s].key  lines == tx[s].held
  IN /\ tx[s].kind = "release" /\ AllTaken(s)
     /\ checkout' = [checkout EXCEPT ![b][k].status = "CANCELLED"]
     /\ listing' = [l \in Listing |-> [listing[l] EXCEPT !.floating = @ + lines[l]]]
     /\ tx' = [tx EXCEPT ![s] = Idle]
     /\ UNCHANGED <<cart, merged, kept, merging>>

(* The transaction runs out of time, or its process dies: rolled back. *)
Timeout(s) ==
  /\ Busy(s)
  /\ tx' = [tx EXCEPT ![s] = Idle]
  /\ UNCHANGED <<cart, merged, checkout, listing, kept, merging>>

(* The checkout is paid, under its lock. *)
Paid(b, k) ==
  /\ checkout[b][k].status = "AWAITING_PAYMENT" /\ CheckoutFree(b, k)
  /\ checkout' = [checkout EXCEPT ![b][k].status = "PAID"]
  /\ UNCHANGED <<cart, merged, listing, tx, kept, merging>>

(* A seller or an administrator edits the row: it waits for its lock. *)
EditableAlways(l) == l \in Listing
Editable(l) == ~RowHeld(l)

EditListing(l) ==
  /\ Editable(l)
  /\ \E price \in Price, onSale \in BOOLEAN :
       listing' = [listing EXCEPT ![l].price = price, ![l].onSale = onSale]
  /\ UNCHANGED <<cart, merged, checkout, tx, kept, merging>>

-----------------------------------------------------------------------------
InTransaction(s) ==
  \/ \E l \in Listing : TakeRow(s, l) \/ RowRefused(s, l)
  \/ PlaceCommits(s) \/ PlaceRefused(s) \/ ReleaseCommits(s) \/ Timeout(s)

Next ==
  \/ \E b \in Buyer, l \in Listing :
       AddItem(b, l) \/ RemoveItem(b, l) \/ \E q \in 1..Stock : UpdateItem(b, l, q)
  \/ \E b \in Buyer, k \in Key : MergeBegins(b, k) \/ Paid(b, k)
  \/ \E b \in Buyer : AddLine(b) \/ MergeCommits(b) \/ MergeDies(b)
  \/ \E s \in Session, b \in Buyer, k \in Key :
       \/ CheckoutBegins(s, b, k) \/ ReleaseBegins(s, b, k)
       \/ \E l \in Listing : BuyNowBegins(s, b, k, l)
  \/ \E s \in Session : InTransaction(s)
  \/ \E l \in Listing : EditListing(l)

Spec == Init /\ [][Next]_vars

-----------------------------------------------------------------------------
(* Nothing a buyer puts in the cart is lost or counted twice: a line added   *)
(* while a checkout is being placed is not emptied with it, and a merge sent *)
(* again does not add again.                                                 *)
NothingLost == cart = kept

(* A checkout costs what its buyer was last shown and what its listings cost *)
(* when it is placed: no edit slips in between the check and the commit.     *)
PricedAsAgreed ==
  [][\A s \in Session :
       LET b == tx[s].buyer  k == tx[s].key
           price == [l \in Listing |-> listing'[l].price]
       IN PlaceCommits(s) => /\ checkout'[b][k].total = tx[s].expected
                             /\ checkout'[b][k].total = Total(checkout'[b][k].lines, price)]_vars

(* Placements and releases that share listings queue: none waits for a row   *)
(* of one that, through others perhaps, waits for a row of its own.          *)
WaitsFor(s, t) == s # t /\ Busy(s) /\ \E l \in NextRows(tx[s].todo) : tx[t].held[l] > 0
NoCircularWait ==
  \A S \in (SUBSET Session) \ {{}} : \E s \in S : \A t \in S : ~WaitsFor(s, t)
=============================================================================
