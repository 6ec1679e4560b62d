------------------------------ MODULE Listings ------------------------------
(***************************************************************************)
(* A client reads a listing of the REST interface page by page: the        *)
(* user's orders, the markets or the leaderboard, with or without a        *)
(* filter, while rows are inserted and change under it.  Each page is an   *)
(* answer of its own: the repository counts, then selects with LIMIT and   *)
(* OFFSET, in two statements that share no snapshot, and nothing ties one  *)
(* page to the next.                                                       *)
(*                                                                         *)
(* Orders and markets are listed newest first; row r is the r-th that was  *)
(* created.  Nothing but created_at orders them (orders.sql:37), and no    *)
(* two rows are taken to be of the same microsecond.  The leaderboard is   *)
(* read from a materialized view, which shows the scores of its last       *)
(* refresh.                                                                *)
(***************************************************************************)
EXTENDS Integers, FiniteSets, Sequences, SequencesExt

CONSTANTS
    MaxRows,      \* bound: rows that may be created
    MaxScore,     \* bound: scores of the leaderboard are 0..MaxScore
    MaxChanges,   \* bound: changes of rows during a walk
    MaxPages,     \* bound: pages of one walk
    Asked,        \* the values of per_page that clients ask for
    Default,      \* the page size when the client asks for none
    Cap           \* the largest page of markets that the gateway forwards

ASSUME ListingsAssumption ==
    /\ {MaxRows, MaxScore, MaxChanges, MaxPages} \subseteq Nat
    /\ {Default, Cap} \subseteq Nat \ {0}
    /\ Asked \subseteq Int

Rows == 1..MaxRows
Kinds == {"orders", "markets", "rankings"}
Spellings == {"none", "plain", "enum"}    \* no filter, "open", "ORDER_STATUS_OPEN"
Absent == -1    \* the view has no row of this user

VARIABLES
    kind, spelling, perPage,   \* the request, the same for every page of a walk
    created,                   \* rows 1..created are committed
    fits,                      \* the rows that satisfy the filter
    score, view,               \* what the leaderboard orders by: live, and in the view
    changes,                   \* changes so far
    pc, page, total,           \* the walk: next step, next page, the last count
    seen,                      \* how often each row was listed
    wanted,                    \* the rows the client should see: there when it began
    left, joined, refreshed    \* what happened to the listing since

request == <<kind, spelling, perPage>>
table == <<created, fits, score, view>>
walk == <<pc, page, total, seen>>
history == <<wanted, left, joined, refreshed>>
vars == <<request, table, changes, walk, history>>

-----------------------------------------------------------------------------
(* The request, on its way from the gateway to the repository.             *)

(* The filter that arrives.  For orders the gateway knows only the names   *)
(* of the protocol's enumeration, for markets and users only plain words;  *)
(* it drops a filter that it does not know.                                *)
OrderFilter == spelling = "enum"
stringToMarketStatus == spelling = "plain"
userTypeFilterMap == spelling = "plain"
filtered ==
    CASE kind = "orders"   -> OrderFilter
      [] kind = "markets"  -> stringToMarketStatus
      [] kind = "rankings" -> userTypeFilterMap

(* The page size that handler and server pass on. *)
OrdersSize == IF perPage <= 0 THEN Default ELSE perPage
MarketsSize == IF perPage > Cap THEN Cap ELSE perPage
RankingsSize == IF perPage = 0 THEN Default ELSE perPage
Size ==
    CASE kind = "orders"   -> OrdersSize
      [] kind = "markets"  -> MarketsSize
      [] kind = "rankings" -> RankingsSize

OffsetOnePageOn == IF page * Size < 0 THEN 0 ELSE page * Size
Offset == IF (page - 1) * Size < 0 THEN 0 ELSE (page - 1) * Size

(* The repositories' LIMIT. *)
Limit == IF Size <= 0 THEN Default ELSE Size

-----------------------------------------------------------------------------
(* The queries.                                                            *)

(* The rows that the WHERE clauses select.  Orders are selected by user    *)
(* only: their filter is applied to the page afterwards.                   *)
OrdersOfUser == 1..created
MarketsLike == IF filtered THEN fits ELSE 1..created
RankedUsers ==
    LET all == {u \in Rows : view[u] # Absent} IN IF filtered THEN all \cap fits ELSE all
Selected ==
    CASE kind = "orders"   -> OrdersOfUser
      [] kind = "markets"  -> MarketsLike
      [] kind = "rankings" -> RankedUsers

(* The orders in which a statement may return them.  RANK() leaves users   *)
(* of equal value in any order, and every statement may choose another.    *)
NewestFirst ==
    {s \in SetToSeqs(Selected) : \A i, j \in DOMAIN s : i < j => s[i] > s[j]}
AnyOrder == SetToSeqs(Selected)          \* mutated form: no ORDER BY
ByRank ==
    {s \in SetToSeqs(Selected) : \A i, j \in DOMAIN s : i < j => view[s[i]] >= view[s[j]]}
Sorted == IF kind = "rankings" THEN ByRank ELSE NewestFirst

(* The rows of a page, for a statement that returns s. *)
PageEnd(s) == IF Offset + Limit < Len(s) THEN Offset + Limit ELSE Len(s)
Page(s) == {s[i] : i \in (Offset + 1)..PageEnd(s)}

(* What the service does to the page: orders are filtered here. *)
InMemoryFilter(rows) == IF kind = "orders" /\ filtered THEN rows \cap fits ELSE rows

(* The total of the answer: for orders the length of the filtered page. *)
Total(rows) == IF kind = "orders" THEN Cardinality(rows) ELSE total

(* The rows of the materialized view, computed from the tables. *)
ViewRows == [u \in Rows |-> IF kind = "rankings" /\ u <= created THEN score[u] ELSE Absent]

-----------------------------------------------------------------------------
Init ==
    /\ kind \in Kinds
    /\ spelling \in Spellings
    /\ perPage \in Asked
    /\ created \in 0..MaxRows
    /\ fits \in SUBSET (1..created)
    /\ score \in {s \in [Rows -> 0..MaxScore] :
                     \A u \in Rows : kind # "rankings" \/ u > created => s[u] = 0}
    /\ view = ViewRows
    /\ changes = 0
    /\ pc = "count" /\ page = 1 /\ total = 0
    /\ seen = [r \in Rows |-> 0]
    /\ wanted = IF filtered THEN fits ELSE 1..created
    /\ left = FALSE /\ joined = FALSE /\ refreshed = FALSE

-----------------------------------------------------------------------------
(* Other people's calls, as long as the walk lasts.                        *)

Changing ==
    /\ pc # "done"
    /\ changes < MaxChanges /\ changes' = changes + 1
    /\ UNCHANGED <<request, walk, wanted>>

(* A new row, at the head of a listing that is sorted by creation. *)
Insert ==
    /\ Changing /\ created < MaxRows
    /\ created' = created + 1
    /\ \E f \in SUBSET {created + 1} :
          /\ fits' = fits \cup f
          /\ joined' = (joined \/ kind = "orders" \/ ~filtered \/ f # {})
    /\ UNCHANGED <<score, view, left, refreshed>>

(* A row's status changes: the order is filled, the market closes.  The    *)
(* leaderboard's filter is the type of a user, which never changes.        *)
Restatus ==
    /\ Changing /\ kind # "rankings"
    /\ \E r \in 1..created :
          /\ fits' = IF r \in fits THEN fits \ {r} ELSE fits \cup {r}
          /\ left' = (left \/ (filtered /\ r \in fits))
          /\ joined' = (joined \/ (filtered /\ r \notin fits))
    /\ UNCHANGED <<created, score, view, refreshed>>

(* A trade or a payout changes what a user is worth. *)
Score ==
    /\ Changing /\ kind = "rankings"
    /\ \E u \in 1..created, n \in 0..MaxScore : score' = [score EXCEPT ![u] = n]
    /\ UNCHANGED <<created, fits, view, left, joined, refreshed>>

(* REFRESH MATERIALIZED VIEW, by an administrator. *)
RefreshRankings ==
    /\ Changing /\ kind = "rankings"
    /\ view' = ViewRows
    /\ refreshed' = TRUE
    /\ UNCHANGED <<created, fits, score, left, joined>>

-----------------------------------------------------------------------------
(* The walk.                                                               *)

(* The first statement of List: the rows that match. *)
Count ==
    /\ pc = "count" /\ page <= MaxPages
    /\ total' = Cardinality(Selected)
    /\ pc' = "select"
    /\ UNCHANGED <<request, table, changes, page, seen, history>>

(* The second statement, and the answer.  The client goes on until a page  *)
(* is shorter than it asked for, or empty when it named no size.           *)
Select ==
    /\ pc = "select"
    /\ \E s \in Sorted :
          LET rows == InMemoryFilter(Page(s)) IN
          /\ seen' = [r \in Rows |-> seen[r] + (IF r \in rows THEN 1 ELSE 0)]
          /\ total' = Total(rows)
          /\ pc' = IF Cardinality(rows) < perPage \/ rows = {} THEN "done" ELSE "count"
    /\ page' = page + 1
    /\ UNCHANGED <<request, table, changes, history>>

Next == Insert \/ Restatus \/ Score \/ RefreshRankings \/ Count \/ Select

Spec == Init /\ [][Next]_vars

-----------------------------------------------------------------------------
(* Properties.                                                             *)

Paged == pc = "done" /\ perPage \in 1..Cap

(* A client that has walked the markets, or its unfiltered orders, to the  *)
(* end misses a row that was there when it began only if some row left the *)
(* filter meanwhile and the rest moved up, new rows only pushing others    *)
(* down onto pages still to come; and a row is listed twice only if        *)
(* another came in above it during the walk (orders.sql:29-38).            *)
ListedOnceUnlessMoved ==
    Paged /\ kind # "rankings" =>
        /\ ~left /\ (kind = "markets" \/ ~filtered) => \A r \in wanted : seen[r] > 0
        /\ ~joined => \A r \in Rows : seen[r] <= 1

(* However the database breaks ties and whatever users earn meanwhile: as  *)
(* long as the view is not refreshed, a user whose value no other listed   *)
(* user has is on exactly one page of the leaderboard.                     *)
UnrivalledListedOnce ==
    Paged /\ ~refreshed /\ kind = "rankings" =>
        \A u \in Selected :
            (\A v \in Selected \ {u} : view[v] # view[u]) => seen[u] = 1

(* What api/components/schemas.yaml:534 says of a listing's total: it is   *)
(* the number of items that match the query.  Orders count the page.       *)
TotalIsOfTheQuery ==
    Paged /\ changes = 0 => total = Cardinality(wanted)

(* What api/trading.yaml:209 says of "status=open" and its like: orders    *)
(* are filtered by it.  The gateway drops every such filter.               *)
OnlyMatchesListed ==
    Paged /\ changes = 0 /\ spelling = "plain" => \A r \in Rows : seen[r] > 0 => r \in fits
=============================================================================
