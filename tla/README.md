# Laicos backend: models and proofs

The Laicos backend is a NestJS service on PostgreSQL (Prisma) with BullMQ jobs
on Redis. Farmers list produce, buyers put it in a cart and pay through
Paystack, extension agents verify farms and hand orders over, admins source,
refund and pay out. This directory holds TLA+ models of the parts whose
correctness depends on how requests, jobs and Paystack's webhooks interleave,
TLC configurations that check small instances of them, and TLAPS proofs that
hold for instances of any size.

Paths below are relative to `src/` of the backend unless they start with
`prisma/`.

| To do | Command (in this directory) |
| --- | --- |
| check a run | `tlc -workers 2 -config MCSettlement.cfg MCSettlement` |
| check the proofs of a module | `tlapm SideBySideProofs.tla` |

`PROJECT.json` lists components, runs, mutants, the source lines of every
definition, findings, hazards and theorems.

## 1. The system

### Where concurrency comes from

* Every request runs in its own task, and several instances of the service may
  run. Nothing is shared but the database, Redis, the bucket, Firebase and
  Paystack.
* Transactions run at READ COMMITTED. A row that is read is not protected; the
  code protects itself in three ways: an advisory lock held to the end of the
  transaction (`common/advisory-lock.ts`: `cart:`, `checkout:`, `payment:`,
  `payout:farmer:`, `payout:`, `sourcing:`, `lga:`, `addresses:`), an `updateMany`
  whose `where` repeats what was read, and unique indexes or CHECKs.
* A list or a figure made of several statements sees the table at several
  moments, inside `$transaction` as well.
* Paystack, Firebase, the bucket and the mail are called outside transactions. A
  call may be refused, or its answer lost. Paystack's webhooks come late,
  repeated and in any order, and are handled by a queue that retries.
* Jobs: the expiry of checkouts (every 60 s), the retry of waiting verification
  rounds (every 15 min), the sweep of the notifications' outbox, one job per
  delivery, Paystack's events (retried 12 times), exchange rates.
* A process may die between two steps. What is committed stays; what the call
  knew is gone.

So each model has one action per transaction where the code's locks and guards
make the transaction take effect at one instant, and two or three where they do
not: one that reads, one that writes, with what was read kept in a variable.

### Components

| Component | State | Operations | What is hard | What makes it correct | Module |
| --- | --- | --- | --- | --- | --- |
| Checkout and payment settlement (`cart/checkout.service.ts`, `payment/`) | Checkout, Order, Payment, a listing's two quantities | place, cancel, expire, initiate, verify, apply a charge | several attempts, late or unknown charges, sweep against payment, crashes | stock is never oversold or lost, a checkout is decided once, one charge kept and all others returned | `Settlement`, `Sale` |
| Order lifecycle (`order/`) | Order.status, the preparation checklist | confirm, prepare, tick, mark ready, cancel, hand over | confirm reads the listing without a lock; a tick beside markReady | a cancelled order gives back exactly what it took; READY is as ticked | `Settlement`, `Shelf`, `Preparation` |
| Listings (`produce/`) | Produce | create, edit, disable | edits computed from an old row | stock adds up, status follows it, a disable stays | `Shelf` |
| Sourcing requests (`sourcing-request/`) | SourcingRequest, allocations, their checkouts | assign, save, confirm, close, escalate, status sync | every transaction rewrites a stored status from rows it did not lock | a request is bought once, a selection is frozen under a checkout | `Sourcing` |
| Refunds (`payment/refund.service.ts`) | Refund | refund an order or the rest, automatic refund, submit, results | lost answers, results before answers, retries | never more than charged, one live refund per order | `Refunds`, `Payouts` |
| Payouts (`payout/`) | Payout, PayoutItem, FarmerBankAccount | approve, send, results, change of account | locks of several farmers, lost answers, refunds beside | an order paid once, never both paid out and refunded | `Payouts` |
| Verification (`verification/`, `farm/`) | Farm, FarmVerification, AssignmentDecline, Farmer.status | create, edit, remove, assign, retry, record, decline, approve, reject, suspend | old reads by edit, approve and the retry job; rounds changing hands | the farm follows its rounds, nothing passes between agents | `Verification` |
| Evidence (`verification/`, `farm/services/farm-documents.service.ts`) | a round's checks, photos, documents and evidence status; information requests | record, add and remove evidence, replace documents, ask, approve | the status is recalculated from three rows, one of them locked at most | the status follows the documents, a choice stays until somebody changes it, an approved round had its papers, and its agent alone can have opened a gap | `Evidence` |
| Notifications (`notifications/`) | Notification, Delivery, the queue's jobs | write, dispatch, sweep, deliver, admin retry | at-least-once sending, stalled and finished jobs, a late attempt beside a retry | sent once but for faults, none waits for good | `Outbox`, `Notifications` |
| Cart (`cart/`, `order/order.service.ts` create) | Cart, CartItem, the rows a placement locks | add, merge, change, remove, place, buy now | an addition beside a placement, two placements of shared listings, price edits | nothing lost, no deadlock, the price that was shown | `Cart` |
| Conversations (`conversation/`) | Conversation, Message, read marks | open, send, replay, page, read | a message appears after a newer one; the order closes meanwhile | a closed thread is silent, paging misses nothing | `Conversations` |
| Accounts and codes (`auth/`) | Firebase account, User, EmailVerificationCode, temporary password | register, onboard, invite, sign in, issue, check, activate, change | two systems and no transaction over them | a failed sign-up leaves nothing and takes nothing, the mailed code works, the mailed password is the account's | `Accounts` |
| Applications, farms' documents, handover photos, storage (`application/`, `farm/`, `handover/`, `common/identity.ts`) | private objects and the rows that name them | save, complete, register, create, replace, remove, add and remove proof | the bucket is in no transaction | rows and objects match; a completed handover's photos stay | `Documents` |
| Profiles (`buyer/`, `agent/`, `address/`) | places, a buyer's kind, an agent's cluster, the address book | PATCH from a stale row; create, default, remove | two requests at once | pairs of state and LGA match, one default, the limit holds | `Profiles` |
| Lists (`common/pagination.ts` and its callers) | none; pages of other tables | next page | rows move between two pages, the count is another statement | no row repeated or skipped | `Lists` |
| Dashboards and details | none; figures over other tables | load | figures of different moments | figures add up | `Reports` |
| Exchange rates, seed, wiring, DTOs, formatting, templates | – | – | nothing that interleaves | – | not modelled |

Who calls whom: a placement (Cart) reserves stock (Settlement) of a listing
(Shelf), for a cart or for a sourcing request (Sourcing); a charge pays the
checkout and makes its orders PENDING; an accepted order is prepared
(Preparation) and handed over (Settlement, Documents), and its thread closes with
it (Conversations); an order cancelled after payment can be refunded (Refunds);
an order fulfilled can be paid out (Payouts), unless its checkout was refunded
in full. Payouts and full refunds meet in the locks `payout:farmer:{id}`, so both
are in `Payouts`. Verification decides which farms may sell, from what Evidence
records; the approval of a farmer's farm activates the account (Accounts).
Everything notifies (Notifications).

## 2. The modules

A variable is a column, named after it, or, with a comment, the memory of a call
under way. `PROJECT.json` "map" gives the lines of every definition. Definitions
that only the mutants use say so or stand right above the definition they vary;
no specification refers to them.

### Sale and Settlement

`Sale` is what a settlement promises, with no attempts, locks or webhooks: a
checkout is open and then sold or released, once; the sale keeps one charge and
every other is returned; the goods of a checkout move together. `Settlement` is
the code: `Place`, `Cancel`, `Expire`, `Initiate`, `OpenAnswered`/`OpenFailed`,
`Verify`, `Apply` (into `ApplySuccess`, `ApplyOrphan`, `ApplyFailure`,
`ApplyNothing`), the order's `Confirm` to `HandOver`, `CancelOrder`. Every
transaction there either holds `checkout:{id}` or is guarded on the status it
read, so it is one action. What happens outside a transaction is a step of its
own: `sweep` (checkouts the scan found overdue), `opening` (a call to Paystack
under way), `verified` (an answer read, not yet applied); `Crash` empties all
three. Paystack (`PaystackOpens`, `PaystackCharges`) may charge an attempt whose
opening failed here, and one that was replaced. `Settlement` is shown to implement
`Sale` with `SaleOf`, `GoodsOf` and `MoneyOf` as refinement mapping
(`ImplementsSale`).

### Shelf

One listing, with the requests that read its row and write it later: confirm
(`ConfirmRead`, `ConfirmWrite`), a farmer's edit (`EditRead`, `EditWrite`), an
admin's disable (`DisableCheck`, `DisableWrite`). `DeriveStatus` and `Synced` are
`deriveProduceStatus` and `syncProduceStatus`. `supplied` records what the farmer
says to have, so that the stock can be added up across edits.

### Sourcing

A request's rows and its stored status. A transaction that syncs the status is
two steps: change the rows and read them all, then store what was derived. Who
else may come between is decided by the locks: the order's row, `checkout:{id}`,
`sourcing:{id}`. `Derived` is `deriveSourcingStatus`.

### Refunds

One payment: rows created under `payment:{id}`, submitted after the commit
(`Ask`, `SubmitAnswered`, `SubmitRefused`, `SubmitUnknown`), and results that are
read (`ResultRead`, which picks the row) and then written (`ResultWrite`). An event
may have Paystack's id of the refund; without it, or as long as that id is not
stored, the code takes the oldest waiting row of the payment, and so does
`FoundFor`.

### Payouts

`approve` walks the farmers in sorted order: `ApproveLock`, `ApproveRead`,
`ApproveCreate` for each, `ApproveCommit`, then `Send` and the answers. `Refunding` takes the same
locks for a refund in full. For each farmer an approval takes the lock and reads the
account, reads the orders that may be paid (`ApproveRead`), then inserts the payout
(`ApproveCreate`): three statements. A farmer's account changes with no lock
(`SetAccount`), so also between them; the change starts a hold of 24 hours, and
`HoldEnds` waits for the transactions open at the change, which time out after 30 s
(`cleared` is the account at the read of the orders). "Refused" means that Paystack took none of the batch. The
unique index on live items (`PayoutItem_orderId_active_key`) is not a guard of the
model: `OrderInOnePayout` shows that it is never what stops a second payout.

### Verification

One farm. `StartOver` stands for `openRound` and `resetRound` followed by `assign`,
which wait for the retry job's lock `lga:{id}` (`LgaFree`). A decline holds the
round before it empties it. An update that moves the farm does not: `reassignOpenRound`
deletes evidence and checks (`UpdateClears`) before its first write to the round's
row (`UpdateReassigns`), and what the agent saves in between stays (`moving`, and
`work`, the agents whose checks and evidence a round has). The retry job is `RetryScan`,
`RetryRead`, `RetryPick`, `RetryWrite`: the LGA is read before the lock is known,
so it may be old. `update` plans from a farm it read before its transaction
(`UpdateRead`, then `UpdateReopens`, `UpdateClears` and `UpdateReassigns`, `UpdateOnly` or, when
PostgreSQL aborts it or the one-open-round index refuses, `UpdateAborts`).
`approve` reads the checklist (`ApproveRead`) and then commits (`ApproveCommit`);
`recorded` says whether what the agent recorded is complete, and any save may
make it so or undo it. Which candidate `pickAgent` takes depends on other farms,
so it may be any, except a preferred one. No code sets `Agent.isVerified` yet:
`VerifyAgent` is external.

### Outbox and Notifications

`Outbox` is what the notifications promise: a delivery written with its
notification waits, is offered to its channel any number of times and is settled
once; only an administrator makes a failed one wait again. `Notifications` is the
code: rows written with the business change (`Notify`), a call that queues them
(`Look`, `Remove`, `Add`: the queue keeps one job per row, under the row's id, and
a finished one has to be removed first), workers that take a job, read the row,
send and settle (`Take`, `Read`, `Send`, `Settle`, `Finish`), the sweep, an
administrator's retry (`RetryRead`, `RetryWrite`). The faults are a crash, a send
whose answer is lost, a write that fails, a queue that cannot be reached and a
job given to a second worker (`Stall`, which keeps `stalled`). `round` counts the
retries of a row, so that an attempt older than the retry can be told.
`Notifications` implements `Outbox` under the mapping of the row's status
(`ImplementsOutbox`).

### Cart

Carts, the merge of a device's cart (`MergeBegins`, one `AddLine` per line, by the
listing as it then stands, `MergeCommits`; `merging` is the merge under way and
holds the cart's lock), and the transactions that turn a cart or one listing into a
checkout, row by row: `TakeRow` locks a listing's row in the order of ids and
reserves, `PlaceCommits` compares the total with what the buyer was shown.
`ReleaseBegins` to `ReleaseCommits` give the units back under the same rows. `kept`
is what the buyer should find in the cart, changed by the buyer's own operations
alone, a merge counted once per key; `NothingLost` compares.

### Conversations

A thread is opened for an order and its agent (`OpenRead`, `OpenCreate`), a message
is read for a replay, inserted, and committed together with the thread's last
message (`SendRead`, `SendInsert`, `SendUpdate`, `SendCommit`); insertion gives it
its time. Sending takes a share lock on the order's row, which `Close` waits for.
A reader pages forward from the newest message it has and back from the oldest;
`seen` is what it has, `overtaken` the messages saved after a newer one.

### Accounts

One person's two accounts. `CreateFirebaseUser`, `CreateLocalUser` and, when the
second fails, `DeleteFirebaseUser` are the steps of every sign-up; Google's are
`GoogleRegister`, `GoogleLogin`, `TrustGoogle`. A code is stored and then mailed
(`IssueUpsert`, `IssueMail`), checked, and discarded last (`CheckCode`,
`MarkFirebase`, `MarkUser`, `Discard`). Activation is claimed before the temporary
password is set (`Claim`, `SetPassword`, `UndoClaim`, `SendInvite`). Every call to
Firebase or the mail may fail, and a crash ends a request between any two steps.

### Documents

Every request that stores a document uploads first, writes its rows and then
deletes what no row should name any more (`Upload`, a write, `Clean`). `Begin`
holds what it read: a request may delete an object that another request, having
read the same row, has put or kept there, and `overlap` records for which
documents two requests did so. An application, the profile it becomes
(`Claim`, `CreateFarmer`, `CreateAgent`), farms created and removed later, and the
photos of a handover are the rows; `Verify`, `HandOver`, `AddProof` and
`RemoveProof` the handover's operations.

### Evidence

What one round collects before its agent may approve it. Every write of the agent
holds the round's row and is one action; `evidenceStatus` is computed from three
rows, so `addEvidence`, `replace`, `uploadIdDocument`, the information request and
`approve` are several steps each, with what they read kept in `adding`, `replacing`,
`identity`, `asking` and `approving`. `Refreshed` is the recalculation, `RowComplete`
and `RestComplete` what approve asks for, which reads the row (`ApproveRead`) before
what belongs to it (`ApproveInclude`); `opened` recalls the gaps that drafts left in
the meantime, a field sent as null being cleared (`Update`). `StartOver` is the reset
when a round changes hands, after which late checks and photos may be there
(`Relocate`; Verification says when).

### Preparation

One order's checklist: `prepare` makes it, `updateChecklist` ticks, `markReady`
wants it whole, `cancel` ends it. Each looks at the other row as committed so far
and holds its own, so each is read, write, commit; `crossed` records that two of
them overlapped, each with the other's old row before it.

### Lists, Reports and Profiles

`Lists` has one record per list of the API: how it is sorted (`tie`: by id at the
end), whether its rows leave or move, and whether the count is read after the
rows, with them, or in either order. A reader opens a list, finds a page and counts,
while rows are inserted, moved and removed. `Reports` keeps what each statement of
a dashboard saw of its table and computes the figures from that. `Profiles` has the
PATCH requests that complete themselves from a row read earlier, and the address
book, whose transactions run under a lock.

### Apart and SideBySide

Components that share no state are explored and proved together. `Apart` extends
`Accounts` and instantiates `Sourcing` (`Src`), `Refunds` (`F`, whose orders are
`Bought`), `Conversations` (`T`, whose orders are `Talked`) and `Documents` (`D`);
variables that two of them call alike are renamed in the instance (`deal`,
`asking`, `filing`, `failures`). `SideBySide` extends `Shelf` and instantiates
`Evidence` (`E`), `Preparation` (`W`), `Lists` (`L`), `Reports` (`R`) and
`Profiles` (`P`). The initial state chooses in `part` the component that moves, and
the others stay as they started. A state of `Apart` is thus a state of one
component, and `ApartImplements` and `TogetherImplements` say that every behaviour
is a behaviour of each of them. The constant `Parts` says which of the five of
`Apart` may be chosen.

### Sums

Sums of whole numbers over finite sets, as the community modules' `MapThenSumSet`
computes them: by any order, of two sets, after one element was added, left or
changed its value. The proofs that count units, amounts and sends cite them.

## 3. The runs

| Run | Instance | Question |
| --- | --- | --- |
| `settlement` | one checkout with a line on each of two listings, two attempts, one answer on its way at a time | is one charge kept and every other returned (`MoneySettled`), is a unit lost (`StockAccounted`), does it implement `Sale` (`ImplementsSale`), is what is overdue or paid decided (`OverdueIsDecided`, `ChargeIsSettled`) |
| `apart` | `Accounts`, `Sourcing` and `Conversations`, one at a time: an applicant whose farm is approved; two checkouts, of two orders and of one, one call of escalate; one order's thread, two messages of each side, two requests, pages of one | is a request bought once, is the selection frozen, does a late status mislead (`BoughtOnce`, `PaidOrdersSurvive`); is a closed thread silent (`SilentOnceClosed`), what can paging miss (`MissNeedsOverlap`) |
| `sourcing_close` | the two checkouts, nobody escalating | does a release find its checkout unpaid (`ReleasedUnpaid`): violated |
| `refunds` | `Apart` with `Refunds` moving: a payment of five for orders of two and three, three refunds, two results at once | never more than charged (`WithinCharged`); the row of a payment's only refund is true (`LoneRefundTrue`) |
| `payouts` | an order, two farmers' locks, two approvals, two payouts, one change of account, a full refund | is an order paid once and never also refunded (`PaidOnce`), does anybody wait in a circle (`NoCircularWait`), is the account one the farmer had, with no change recent, when his orders were read (`AccountHeld`), does what Paystack took settle (`TakenSettles`) |
| `verification` | two LGAs, two agents of one of them, two rounds, one edit | does the farm follow its rounds (`FarmInStanding`), what can pass from agent to agent (`StartsClean`), how may its agents leave its LGA (`StrayNeedsOverlap`) |
| `verification_retry` | the same with one round | is a waiting round assigned (`WaitingIsAssigned`) |
| `notifications` | one delivery, two workers, two calls, two administrators; two attempts, one retry, one fault | is it sent once (`SentOnce`), is a retry kept (`RetryKept`), does it wait for good (`PendingSettles`), does it implement `Outbox` (`ImplementsOutbox`) |
| `cart` | two buyers, two listings of one unit, two sessions, a device's cart and carts of at most two lines | is a line lost (`NothingLost`), does anybody wait in a circle (`NoCircularWait`), is the price the one shown (`PricedAsAgreed`) |
| `accounts` | a person of each kind in turn, two requests, two approvals; two uids, codes and guesses, one fault | do the accounts belong together (`AccountWhole`), does the mailed code work (`MailedCodeWorks`), and the mailed password (`InvitePasswordHeld`) |
| `documents` | `Apart` with `Documents` moving: one application, its profile, two farms, one handover, two requests, three objects, one fault | do rows and objects match (`FilesMatchRows`), do the photos of goods handed over stay (`ProofsFrozen`) |
| `side_by_side` | `Shelf`, `Evidence`, `Preparation`, `Lists`, `Reports`, `Profiles`, one at a time | does a listing's stock add up and when may its status stray (`StockAccounted`, `StatusStrays`); what may an approval miss, when may the evidence status stray (`ApprovedWhole`, `EvidenceKept`); is READY as ticked (`ReadyAsTicked`); do pages and figures hold together (`PagesComplete`, `FiguresAgree`); do profiles (`ProfilesWhole`, `LgaHeld`) |

Every property of a passing run has a mutant in `PROJECT.json`: a plausible bug
in one definition with which TLC finds the property violated.

**Side by side.** The six components of `MCSideBySide`, and the five of `MCApart`,
share no state and have no action in common. The initial state chooses the one
that moves, so a run is the union of the state spaces and not the product. `Parts`
gives `refunds` and `documents` runs of their own, as theirs are the largest; the
instance of `Accounts` in `apart` is small, and the run `accounts` is about it.

**Bounds.** The bounds are constants: `MaxVerified` (answers of Paystack on their
way at once), `MaxActual`, `MaxRefunds`, `MaxResults`, `MaxPayouts`, `MaxAccounts`,
`MaxRounds`, `MaxAttempts`, `MaxItems`, `MaxTime`, `MaxUid`, `MaxCode`, `MaxKey`,
`MaxFarm`, `MaxFaults`, `MaxTurns`, `MaxRow`, `MaxChange`, `MaxSize`, `MaxId`,
`MaxAddresses`.
They are chosen so that the interesting case happens: an attempt that pays after
another did; a failed payout before a second; a round declined by one of two
agents, taken to an LGA without agents and back; a second round; an object
replaced while another request replaces it, with one key to spare; a delivery
that fails for good, is retried by an administrator and meets the older attempt;
two listings wanted in opposite order. Faults need two actors almost everywhere, a
stale reader and a writer, and each run has both.

* `settlement` has one checkout, since checkouts meet only in a listing's
  quantities; the rivalry for the last unit is in `cart`, and units given and taken
  by two orders are in `Shelf`. One answer at a time loses nothing that matters:
  answers are applied under the checkout's lock, and what an answer says stays
  true (`VerifiedIsTrue`, proved).
* `documents` explores the photos of the handover while the papers rest and the
  papers while the photos rest (`OneAtATime`): they share only the bucket, which
  never draws a key twice; the proof has both at once. With four keys the run takes
  longer and finds nothing more.
* `payouts` has two accounts: the one the farmer starts with and one he changes to,
  which may come anywhere in an approval.
* In `side_by_side` the round's evidence has one document, one check and, of the two
  statuses that stay, AWAITING_DOCS; FOLLOW_UP is treated as that one is.
* `side_by_side` and `verification` have one edit under way at a time; the proofs cover
  any number.

Symmetry is used where no property is a liveness property: agents in `verification`,
sessions and buyers in `cart`, requests in `apart`, `documents` and `accounts`. `cart` also has a
view (`Seen`) that leaves out the total of a placed checkout and the lines of a
decided one: nothing reads them again, so no behaviour is lost.

**Deadlock** is not checked where the instance really ends: every checkout
settled, every refund or payout final, the farm removed, the keys used up. In
`side_by_side` it is checked.

**Fairness** is assumed only of what the code schedules or Paystack commits to:

* `settlement`: the sweep is repeated every 60 s, and a Paystack event is retried
  until handled. Expiry and application are strongly fair, since a crash or another
  attempt may undo a step now and then, though not for ever. Buyers are not fair.
* `payouts`: the rest of a call of approve that got past its commit, which may
  also be ended by `Crash`; Paystack works on a transfer it took, and its event is
  retried. Nobody has to approve anything.
* `verification_retry`: the steps of the retry job, which runs every 15 min. Strong for
  the later ones, as the process may die between them, though not every time.
  Neither agents, farmers nor admins are fair.
* `notifications`: the sweep is repeated, a call that queues rows goes on or fails,
  a worker goes on or dies, and the queue takes back the job of a dead worker.
  Faults are bounded by `MaxFaults`, as a channel that fails for ever delivers
  nothing; administrators are not fair.

The queues' attempts are finite; the runs assume that Paystack's events are handled
within them, while a delivery that uses up its attempts is FAILED, which settles it.

## 4. What is proved

All theorems hold for every value of the constants under the assumptions named
in the modules. `IdsAssumption` and `OneLinePerProduce` (Settlement; the second is
the unique index of CartItem), `PayoutsAssumption`, `VerificationAssumption`,
`CartAssumption`, `AccountsAssumption` and that of Notifications type the
constants and keep the null value apart from the others; `PartsAssumption` (Apart)
repeats those of the four components it instantiates, and `ShelfAssumption`,
`EvidenceAssumption`, `ListsAssumption`, `ReportsAssumption` and `ProfilesAssumption`
are those of SideBySide. Each component has an invariant, shown to hold initially
and to be kept by every step (one lemma or step per action), from which its
theorems follow; TLC checked the parts of the invariants before they were proved. Type correctness
is proved of every component below; the type invariants are not part of a run.

* **SettlementProofs**: `TypeOK`, `PaidByOne`, `MoneyKeptOrReturned` (together
  `MoneySettled`), `OrdersFollowCheckout`, `OneLiveAttempt`, `SettledStays`, and that
  every step of `Settlement` is a step of `Sale` or a stutter
  (`SpecImplementsSale`). `Inv` adds `VerifiedIsTrue`: an answer on its way that says
  money arrived is still true when it is applied, for Paystack does not take a
  charge back. Without it a late answer could pay a checkout with money that is
  not there.
  `StockAccounted` counts the units that live orders hold, a sum over a set of
  orders: `StockInv` says that the set is finite, and each action changes one
  checkout's lines at a time (`UnitsGain`, `UnitsLose`, `UnitsStay`). From it follows
  that a listing is never sold below nothing (`StockWithinBounds`).
* **SideBySideProofs**, a section for each component, whose theorems are stated of
  the run's specification as well (`TogetherImplements`):
  * *Shelf*: `LateRequestsRespectDisable` and `DriftNeedsOverlap` (together
    `StatusStrays`). `Inv` says what requests under way hold: an edit will write a row
    in step with its own stock, and DISABLED if it read DISABLED; an order being
    confirmed is PENDING to everybody else. `StockAccounted`, with `StockInv`: an edit
    under way that the guard of its write lets through changes what the farmer
    supplied and the two quantities by the same amount.
  * *Preparation*: `ReadyAsTicked`. `PreparationInv` says that of a tick and a write
    that ends the preparation, both past their guards, one overlapped the other.
  * *Evidence*: `ApprovedWhole`, `EvidenceKept`. `EvidenceInv` says of each of the five
    requests of several steps what it read and what may have become of that; of an
    approval, that while the round is the same the gaps in what it found complete are
    those that drafts have opened since (`ApprovalSound`).
  * *Profiles*: `ProfilesWhole`, `LgaHeld`. `ProfilesInv` says that the row a PATCH
    completes itself from was a pair of state and LGA.
  * *Reports*: `FiguresAgree`. `FiguresInv` relates what each statement saw to the
    table as it then stood.
  * *Lists*: `PagesComplete`. Of a row that stays, `ListsInv` compares how many rows are
    ahead of it (`Pos`) with how many were read so far (`Upto`): it was on a page if and
    only if the former are fewer. A change moves the former only by putting a row in
    front of it or taking one away (`AheadMoves`), and however the rows are arranged,
    a row whose place the sort decides is found at that place (`InPlace`).
* **ApartProofs**, likewise (`ApartImplements`):
  * *Accounts*: `AccountWhole`, `MailedCodeWorks`, `InvitePasswordHeld`. `UidsInv` follows
    every Firebase uid from the request that made it (`MakersKept`: it has the user's
    account, unless the account is shared); `CodeInv` says that whoever writes the
    code does so alone unless `mixed`, and what it will mail is what is stored;
    `ActInv`, that one request has claimed an activation and sets a password only
    where there was none.
  * *Sourcing*: `OneLiveCheckout`, `StatusShowsCheckout` (together `BoughtOnce`),
    `SelectionFrozen`, `PaidOrdersSurvive`. The stored status may be stale, so
    `SourcingInv` has to say how stale: one part per kind of transaction under way,
    with what the locks it holds keep the others from doing.
  * *Refunds*: `OneLivePerOrder`, `LoneRefundTrue`, `FirstResultStays`, `WithinCharged`.
    `RefundsInv` adds that Paystack knows of no row before it exists and that a
    result under way says what Paystack decided. `WithinCharged` is a sum over live
    rows: a row is created with no more than what remains, and the others only ever
    leave the sum.
  * *Conversations*: `MissNeedsOverlap`, `SilentOnceClosed`, and that a thread keeps its
    people. `ThreadsInv` says that a message that is inserted and not committed
    belongs to one request (`OneInserts`), in a thread whose order is not closed,
    since that request holds the order's share lock (`RequestsSound`), and that what
    a reader has was saved (`SeenSaved`).
  * *Documents*: `FilesMatchRows`, `ProofsFrozen`, `CompletedAsSaved`. A key is drawn once
    and known in one slot only (`OneSlot`), and until a row names it, to one request
    only (`Fresh`); requests that handle one document are in `overlap` (`MineApart`),
    so a document that one request handles is as that request found it (`AsFound`),
    and what it deletes is named by no row. Conversely every object has a row or a
    request that will name or delete it, unless a call failed (`Accounted`).
* **PayoutsProofs**: `TypeOK`, `OrderInOnePayout`, `StatusTrue`, `PaidOrRefunded`,
  `MoneyOnce` (the last two together `PaidOnce`), `AccountHeld`, `ResultStays`,
  `NoCircularWait`. `AccountHeld` follows from `AccountCleared`: past the read of the
  orders an approval has the account of that moment, which was not held. The core of `Inv` is `LocksHeld`: who holds a farmer's lock goes
  on to larger farmers only, and holds what it has passed. `NoCircularWait` takes,
  in a set of callers, the one that holds the largest lock (`LastFarmer`): it waits
  for nobody in the set.
* **VerificationProofs**: `TypeOK`, `FarmFollowsRounds`, `OnSaleInGoodStanding`
  (together `FarmInStanding`), `ClusterIsApprovers`, `StartsClean`, `NeverRepicked`,
  `StrayNeedsOverlap`. `StartsClean` needs that an open round with nobody's work has
  nothing recorded (`NothingRecorded`) and that the round an update has emptied is
  open until it ends (`MovesOpen`). `Inv` adds that a farm that is not there has no rounds
  (`NoFarmNoRounds`) and that the agent the retry job picked covers the LGA it read
  (`PickCoversRead`). The latter is what ties a stray agent to an old read.
* **NotificationsProofs**: `TypeOK`, `RetryKept`, and that every step of
  `Notifications` is a step of `Outbox` or a stutter (`SpecImplementsOutbox`).
  `OneRunner` says that, unless the queue gave a job away, the worker running it is
  the one the queue knows and the row is as it read it; `SendsWritten`, that what is
  being sent was written, and that who says SENT had a channel take the message.
  `SentOnce` needs an account of the sends (`SendsInv`, `Counted`): what the channel
  took, and the workers that may still send or settle without holding the row
  (`Extra`), are paid for by faults, but for one when the row is SENT or its worker
  is about to say so (`Credit`).
* **CartProofs**: `TypeOK`, `NothingLost`, `NoCircularWait`. `Inv` adds that a merge
  goes on from the cart as it is (`MergeHasCart`), that what a placement holds and
  still has to lock is the cart (`PlacingHasCart`) and nobody else places that cart
  (`OneAtCart`), that it holds smaller listings than it still wants (`RowsInOrder`),
  and that a row has one holder, who holds no more than there is (`HeldInStock`). In
  a set of transactions, the one that holds the largest listing waits for nobody in
  the set (`LastListing`).
  `PricedAsAgreed` follows from `Priced`: what a transaction has added up is what the
  rows it holds cost, as nobody edits a row that is held.
* **Sums** proves what sums do, for the modules above. The library's theorems of
  induction take an operator as a parameter, which the provers cannot instantiate;
  the lemmas here go by the least number, or the smallest subset, that is not in
  a *set* of those for which the claim holds (`AllNaturals`).

**Only model-checked.** Liveness (`OverdueIsDecided`, `ChargeIsSettled`,
`TakenSettles`, `WaitingIsAssigned`, `PendingSettles`): the prover has neither
fairness nor ENABLED. Every other property that a passing run checks is a theorem.

## 5. Where the code does not do what it says

Shown by a run that finds the violation: **a closed request can cancel a paid
checkout** (`sourcing_close`). `close` finds the waiting checkout before it takes
`checkout:{id}` and does not look again; a payment in between is turned into
CANCELLED, although `releaseCheckout` is documented for a checkout its caller has
checked under the lock. The orders survive (`PaidOrdersSurvive`).

Bounded by a property, which names the overlaps in which the code does otherwise:

* `confirm` writes a listing status derived from a row it did not lock, so a
  listing can stay SOLD_OUT with stock, or PUBLISHED without; and a farmer's edit
  repeats in its `where` the quantities it read, not the status
  (`produce/produce.service.ts:199`), so it can undo an admin's disable
  (`StatusStrays`).
* A sourcing request's stored status can stay behind its orders (`BoughtOnce` says
  what is still true of it).
* An event of a refund that has no id, or whose id is not stored yet, is booked on the
  oldest waiting refund (`payment/refund.service.ts:213`); if two wait, the failure of one is
  booked on the other, which can then be refunded again. `LoneRefundTrue` is about a
  payment's only refund for that reason.
* A farm's edit decides from what it read before its transaction whether a move
  sends the farm back through verification; with an approval or the retry job in
  between, a farm or a round is left with an agent of another LGA
  (`StrayNeedsOverlap`). The retry job can also give a round to an agent it had
  picked before the agent declined ("This one is never re-picked", `NeverRepicked`).
* A payout can go to an account its farmer has just replaced: the account is not
  locked, and a change between the read of his orders and the insert
  (`payout/payout.service.ts:116-152`) is not seen (`AccountHeld`).
* Checks and evidence that the old agent saves after an update has emptied the round
  and before it locks it stay for the next agent (`farm/services/farm.service.ts:360`,
  `verification/services/assignment.service.ts:145-154`; "Returns a round to UNASSIGNED
  with nothing recorded", `StartsClean`).
* A round can be approved with a gap if its agent clears a note or removes a photo
  while `approve` is between its reads and its write
  (`verification/services/verification.service.ts:362-378`; `ApprovedWhole`).
* An order can become READY with an item unticked, or be ticked afterwards, when
  the two transactions overlap (`ReadyAsTicked`; "So a tick can't land after the
  order moved on", `order/order.service.ts:292`).
* The evidence status parts from the documents when two writes overlap, an upload
  can undo AWAITING_DOCS or FOLLOW_UP, and a request for documents can reach a
  round that was decided after it was read (`EvidenceKept`).
* Lists that are sorted by a date alone can repeat or skip rows with equal dates,
  and the count that is older than its rows can end the reading early
  (`PagesComplete`). Figures of one page can come from different moments
  (`FiguresAgree`).
* A verified agent's LGA can be changed by a request that read the agent before
  the verification (`LgaHeld`).
* A message can be missed by a reader that has a newer one, since its time is that
  of its insertion (`MissNeedsOverlap`).
* A code in the last mail can be dead when two requests wrote codes at once, or a
  call failed between storing and mailing (`MailedCodeWorks`). A password chosen
  while an activation runs can be overwritten (`InvitePasswordHeld`).
* A request for a proof that read the order before the handover can add or remove a
  photo after it (`handover/handover.service.ts:165`, `ProofsFrozen`).
* Two requests that replace the same document can delete the object the row ends
  up with (`FilesMatchRows`). A completed application keeps the keys it gave the
  profile and names an object that is gone after a replacement.

Seen in the models or beside them, without a property:

* Two admins can both escalate a request, with two audit events
  (`sourcing-request/admin-sourcing-request.service.ts:543`).
* A refund whose process died before it was submitted stays PENDING, as nothing
  asks again (`payment/refund.service.ts:117`); likewise a payout whose bulk
  transfer never reached Paystack. `TakenSettles` is about transfers Paystack took.
* A crash between Firebase's account and the local user leaves the address taken
  until somebody removes the account.
* `replace` (farm, then round) and `approve` (round, then farm) take the two rows in
  opposite order; PostgreSQL aborts one of them.
* `confirm` of a sourcing request does not ask whether the request is closed.
* `findEligible` of the payouts drops farmers without a bank account after paging,
  so a page can be shorter than its size.
* Refresh tokens are stored and read by no code; sessions are left out.

## 6. Not modelled

* **Exchange rates**: one job that stores the latest rate; nothing reads it twice.
* **Seed, configuration, DTOs, guards, formatting, mail templates and transports**: no
  state, or that of an outside service. Of the controllers only the list of routes
  is modelled: it says which operations a `Next` offers.
* **Price and fee arithmetic**, search terms, matching of candidates: computation
  over one row or one selection.
* **Single guarded writes** with nothing to race with: read marks of the inbox,
  registration of devices, a farmer's profile, removal of a listing, public images.
* **The balance of `pickAgent`** over several farms: `Verification` has one farm, and
  any candidate may be picked.
* **Sessions**: see above.

What could follow, in this order: abstract ledgers for `Refunds` and `Payouts` with
a refinement like that of `Sale`; two farms in `Verification`; removal of listings
in `Shelf`.
