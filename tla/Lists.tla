-------------------------------- MODULE Lists ---------------------------------
(* The paged lists of the API (src/src/common/pagination.ts and its callers): *)
(* a reader asks for one page after the other while rows come, go and move.   *)
(* A page is two statements, its rows and their count; each sees the table as *)
(* committed by then, in $transaction as well (READ COMMITTED).  Which rows a *)
(* caller may see and how a row is shown are left out.                        *)
EXTENDS Integers, SequencesExt

CONSTANTS
  MaxRow,      \* bound: rows; a row is its id, and ids break ties
  MaxKey,      \* bound: values of the column sorted by
  MaxChange,   \* bound: changes to the table during one reading
  MaxSize      \* bound: rows of a page

ListsAssumption ==
  MaxRow \in Nat /\ MaxKey \in Nat /\ MaxChange \in Nat /\ MaxSize \in Nat \ {0}

Row == 1..MaxRow

(* What the rows of a page depend on.                                         *)
(*   tie     the order ends with the id                                       *)
(*   leaves  rows leave the list: deleted, or the filter is on a column that  *)
(*           changes                                                          *)
(*   moves   how the column sorted by changes once the row is there           *)
(*   counts  when the rows are counted: after they are read, with them, or in *)
(*           either order (Promise.all)                                       *)
Kind == [tie : BOOLEAN, leaves : BOOLEAN, moves : {"never", "up", "any"},
         counts : {"after", "with", "either"}]

NewestFirst(tie, leaves, counts) ==
  [tie |-> tie, leaves |-> leaves, moves |-> "never", counts |-> counts]

(* Of administrators                                                          *)
AdminFarms == NewestFirst(TRUE, TRUE, "after")
AdminListings == NewestFirst(TRUE, TRUE, "after")
AdminRequests == NewestFirst(FALSE, TRUE, "after")
EligiblePayouts == NewestFirst(TRUE, TRUE, "after")
Payouts == NewestFirst(FALSE, TRUE, "after")
Deliveries == [tie |-> FALSE, leaves |-> TRUE, moves |-> "up", counts |-> "either"]
Farmers == NewestFirst(FALSE, FALSE, "after")
AuditTrail == NewestFirst(TRUE, FALSE, "either")
(* Of buyers and farmers                                                      *)
Shop == [tie |-> TRUE, leaves |-> TRUE, moves |-> "any", counts |-> "after"]
Orders == NewestFirst(FALSE, TRUE, "after")
Requests == NewestFirst(FALSE, FALSE, "after")
OwnFarms == NewestFirst(FALSE, TRUE, "after")
Chats == [tie |-> FALSE, leaves |-> FALSE, moves |-> "up", counts |-> "after"]
Inbox == NewestFirst(TRUE, TRUE, "either")
(* Of agents                                                                  *)
ClusterFarms == NewestFirst(FALSE, TRUE, "after")
ClusterFarmers == NewestFirst(FALSE, TRUE, "after")
Rounds == NewestFirst(FALSE, TRUE, "after")
Handovers == NewestFirst(FALSE, TRUE, "after")
Tasks == NewestFirst(FALSE, TRUE, "with")

List == {AdminFarms, AdminListings, AdminRequests, EligiblePayouts, Payouts,
         Deliveries, Farmers, AuditTrail, Shop, Orders, Requests, OwnFarms, Chats,
         Inbox, ClusterFarms, ClusterFarmers, Rounds, Handovers, Tasks}

VARIABLES
  list,      \* the list being read
  key,       \* what each row is sorted by; 0 when it is not in the list
  page,      \* the page asked for; 0 before the first and after the last
  perPage,
  data,      \* the rows of the page, while their count is to come
  total,     \* the count, while the rows are to come; -1 before
  got,       \* how often each row was on a page, twice at most counted
  changes,   \* changes so far
  steady,    \* history: rows in their place since the reading began
  raised,    \* history: rows that another one came in front of
  dropped,   \* history: rows that another one left the front of
  level,     \* history: rows that another one had the same key as
  ended      \* whether the reader has come to the last page

vars == <<list, key, page, perPage, data, total, got, changes, steady, raised,
          dropped, level, ended>>

table == <<list, key, changes, steady, raised, dropped, level>>

Waiting == <<0>>    \* no rows have been read for this page

TypeOK ==
  /\ list \in Kind
  /\ key \in [Row -> 0..MaxKey]
  /\ page \in 0..MaxRow + 1 /\ perPage \in 1..MaxSize
  /\ data = Waiting \/ data \in Seq(Row)
  /\ total \in -1..MaxRow
  /\ got \in [Row -> 0..2]
  /\ changes \in 0..MaxChange
  /\ steady \subseteq Row /\ raised \subseteq Row /\ dropped \subseteq Row /\ level \subseteq Row
  /\ ended \in BOOLEAN

Init ==
  /\ list = Farmers
  /\ key = [r \in Row |-> 0]
  /\ page = 0 /\ perPage = 1
  /\ data = Waiting /\ total = -1
  /\ got = [r \in Row |-> 0]
  /\ changes = 0
  /\ steady = {} /\ raised = {} /\ dropped = {} /\ level = {} /\ ended = FALSE

-----------------------------------------------------------------------------
(* The table                                                                  *)

Listed(k) == {r \in Row : k[r] # 0}

(* r comes before s: the rows are sorted by the column, then perhaps by id.   *)
Before(k, r, s) == k[r] > k[s] \/ (k[r] = k[s] /\ list.tie /\ r > s)

Level(k) == {r \in Listed(k) : \E s \in Row \ {r} : k[s] = k[r]}

(* A row is put in, taken out or moved; those it now precedes or precedes no  *)
(* longer are remembered.                                                     *)
Change(r, value) ==
  /\ changes < MaxChange /\ value # key[r]
  /\ LET k == [key EXCEPT ![r] = value]
         behind(m) == {s \in Listed(m) \ {r} : m[r] # 0 /\ Before(m, r, s)}
     IN /\ key' = k
        /\ raised' = raised \cup (behind(k) \ behind(key))
        /\ dropped' = dropped \cup (behind(key) \ behind(k))
        /\ level' = level \cup Level(k)
  /\ changes' = changes + 1
  /\ steady' = steady \ {r}
  /\ UNCHANGED <<list, page, perPage, data, total, got, ended>>

(* A new row has the newest key when it is made, which another transaction    *)
(* may commit after a newer one; or a filter lets it in.                      *)
Insert(r) == key[r] = 0 /\ \E value \in 1..MaxKey : Change(r, value)
Leave(r) == key[r] # 0 /\ list.leaves /\ Change(r, 0)
Move(r) ==
  /\ key[r] # 0
  /\ \E value \in 1..MaxKey :
       /\ list.moves = "any" \/ (list.moves = "up" /\ value > key[r])
       /\ Change(r, value)

-----------------------------------------------------------------------------
(* The reader                                                                 *)

(* The table as it is when the first page is asked for.                       *)
Open ==
  /\ page = 0 /\ ~ended
  /\ \E l \in List, k \in [Row -> 0..MaxKey], size \in 1..MaxSize :
       list' = l /\ key' = k /\ perPage' = size /\ steady' = Listed(k)
       /\ level' = Level(k)
  /\ page' = 1
  /\ data' = Waiting /\ total' = -1
  /\ got' = [r \in Row |-> 0]
  /\ UNCHANGED <<changes, raised, dropped, ended>>

(* What was read is put aside, to read another list.                          *)
Close ==
  /\ ended
  /\ list' = Farmers /\ key' = [r \in Row |-> 0] /\ perPage' = 1
  /\ got' = [r \in Row |-> 0]
  /\ changes' = 0 /\ steady' = {} /\ raised' = {} /\ dropped' = {} /\ level' = {}
  /\ ended' = FALSE
  /\ UNCHANGED <<page, data, total>>

(* Any order of the rows that the sort allows, and another one each time.     *)
Arrangements ==
  {s \in SetToSeqs(Listed(key)) : \A i, j \in DOMAIN s : Before(key, s[i], s[j]) => i < j}

(* skip and take of resolvePagination                                         *)
SkipOffByOne == IF page = 1 THEN 0 ELSE (page - 1) * perPage + 1
Skip == (page - 1) * perPage
SliceOf(rows) == SubSeq(rows, Skip + 1, Min({Skip + perPage, Len(rows)}))

TotalPages(count) == (count + perPage - 1) \div perPage

Seen(rows) == [r \in Row |-> IF r \in ToSet(rows) /\ got[r] < 2 THEN got[r] + 1 ELSE got[r]]

(* The page is shown; the next one is asked for while there is one.           *)
Show(rows, count) ==
  /\ got' = Seen(rows)
  /\ data' = Waiting /\ total' = -1
  /\ ended' = (page >= TotalPages(count))
  /\ page' = IF page >= TotalPages(count) THEN 0 ELSE page + 1
  /\ UNCHANGED <<table, perPage>>

(* findMany *)
Find ==
  /\ page # 0 /\ data = Waiting
  /\ \E rows \in Arrangements :
       IF total # -1 THEN Show(SliceOf(rows), total)
       ELSE IF list.counts = "with" THEN Show(SliceOf(rows), Len(rows))
       ELSE data' = SliceOf(rows) /\ UNCHANGED <<table, page, perPage, total, got, ended>>

(* count *)
Count ==
  /\ page # 0 /\ total = -1
  /\ \/ data # Waiting /\ Show(data, Cardinality(Listed(key)))
     \/ /\ data = Waiting /\ list.counts = "either"
        /\ total' = Cardinality(Listed(key))
        /\ UNCHANGED <<table, page, perPage, data, got, ended>>

Next ==
  \/ \E r \in Row : page # 0 /\ (Insert(r) \/ Leave(r) \/ Move(r))
  \/ Open \/ Close \/ Find \/ Count

Spec == Init /\ [][Next]_vars

-----------------------------------------------------------------------------
(* "id breaks ties so offset paging never repeats or skips a row": when the   *)
(* last page has been read, a row that stayed in its place has been seen      *)
(* exactly once, but for what an offset cannot help:                          *)
(*   rows with equal keys, where the order does not end with the id;          *)
(*   a row in front of it that left or moved back, which skips it;            *)
(*   a row that came in front of it, which repeats it, or, where the count    *)
(*   may be older than the rows, ends the reading too soon.                   *)
(* So the farmers, the buyer's requests and the audit trail, whose rows never *)
(* leave, skip nothing while their keys differ and the count comes last.      *)
Tied(r) == ~list.tie /\ r \in level
PagesComplete ==
  ended => \A r \in steady :
    /\ got[r] = 0 => \/ Tied(r) \/ r \in dropped
                     \/ (list.counts = "either" /\ r \in raised)
    /\ got[r] = 2 => Tied(r) \/ r \in raised
=============================================================================
