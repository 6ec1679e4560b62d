--------------------------- MODULE ListingsProofs ---------------------------
(***************************************************************************)
(* What a client that pages through a listing sees, for any number of      *)
(* rows, changes and pages.                                                *)
(***************************************************************************)
EXTENDS Listings, FiniteSetTheorems, SequenceTheorems, TLAPS

-----------------------------------------------------------------------------
(* Sequences that list a set, and pages of them.                           *)

\* As many values as places.
LEMMA ImageCount ==
  ASSUME NEW s, NEW a \in Int, NEW b \in Int, a <= b + 1,
         \A i, j \in a..b : i # j => s[i] # s[j]
  PROVE  LET T == {s[i] : i \in a..b} IN IsFiniteSet(T) /\ Cardinality(T) = b - a + 1
<1> DEFINE T == {s[i] : i \in a..b}
           f == [i \in a..b |-> s[i]]
<1>1. f \in Bijection(a..b, T)
  <2>1. f \in [a..b -> T] /\ \A i, j \in a..b : f[i] = f[j] => i = j  OBVIOUS
  <2>2. \A t \in T : \E i \in a..b : f[i] = t  OBVIOUS
  <2> QED BY <2>1, <2>2 DEF Bijection, Injection, Surjection, IsInjective
<1>2. ExistsBijection(a..b, T)  BY <1>1 DEF ExistsBijection
<1>3. IsFiniteSet(a..b) /\ Cardinality(a..b) = b - a + 1  BY FS_Interval
<1> QED BY <1>2, <1>3, FS_Bijection

\* A listing of S has every element of S at one place.
Lists(s, S) ==
  /\ s \in [1..Cardinality(S) -> S] /\ Len(s) = Cardinality(S)
  /\ DOMAIN s = 1..Cardinality(S)
  /\ \A i, j \in 1..Cardinality(S) : i # j => s[i] # s[j]
  /\ \A x \in S : \E i \in 1..Cardinality(S) : s[i] = x

LEMMA ListsAll ==
  ASSUME NEW S, IsFiniteSet(S), NEW s \in SetToSeqs(S)
  PROVE  Cardinality(S) \in Nat /\ Lists(s, S)
<1> DEFINE n == Cardinality(S)
           T == {s[i] : i \in 1..n}
<1>1. n \in Nat  BY FS_CardinalityType
<1>2. s \in [1..n -> S] /\ \A i, j \in 1..n : i # j => s[i] # s[j]  BY DEF SetToSeqs
<1>3. IsFiniteSet(T) /\ Cardinality(T) = n
  <2>1. 1 \in Int /\ n \in Int /\ 1 <= n + 1  BY <1>1
  <2> HIDE DEF n
  <2>2. /\ IsFiniteSet({s[i] : i \in 1..n})
        /\ Cardinality({s[i] : i \in 1..n}) = n - 1 + 1
    BY ONLY <1>2, <2>1, ImageCount
  <2> QED BY <1>1, <2>2
<1>4. T \in SUBSET S  BY <1>2
<1>5. T = S  BY <1>3, <1>4, FS_Subset
<1>6. Len(s) = n
  <2> HIDE DEF n
  <2> QED BY <1>1, <1>2, SeqDef, LenProperties
<1> QED BY <1>1, <1>2, <1>5, <1>6 DEF Lists

\* The place of a row is the number of rows that are as new.
LEMMA PlaceOfRow ==
  ASSUME NEW S \in SUBSET Int, IsFiniteSet(S), NEW s, Lists(s, S),
         \A i, j \in DOMAIN s : i < j => s[i] > s[j],
         NEW i \in 1..Cardinality(S)
  PROVE  Cardinality({x \in S : x >= s[i]}) = i
<1> DEFINE n == Cardinality(S)
<1>0. n \in Nat  BY FS_CardinalityType
<1>1. /\ \A j \in 1..n : s[j] \in S /\ s[j] \in Int
      /\ \A j, k \in 1..n : j # k => s[j] # s[k]
      /\ \A x \in S : \E j \in 1..n : s[j] = x
      /\ \A j, k \in 1..n : j < k => s[j] > s[k]
  BY DEF Lists
<1> HIDE DEF n
<1>2. {x \in S : x >= s[i]} = {s[j] : j \in 1..i}
  <2>1. ASSUME NEW x \in S, x >= s[i] PROVE \E j \in 1..i : x = s[j]
    <3>1. PICK j \in 1..n : s[j] = x  BY <1>1
    <3>2. ~ (i < j)  BY <1>1, <2>1, <3>1 DEF n
    <3> QED BY <1>0, <3>1, <3>2
  <2>2. ASSUME NEW j \in 1..i PROVE s[j] \in S /\ s[j] >= s[i]
    <3>1. j \in 1..n /\ (j < i \/ j = i)  BY <1>0 DEF n
    <3> QED BY <1>1, <3>1 DEF n
  <2> QED BY <2>1, <2>2
<1>3. \A j, k \in 1..i : j # k => s[j] # s[k]
  <2>1. \A j \in 1..i : j \in 1..n  BY <1>0 DEF n
  <2> QED BY <1>1, <2>1
<1>4. Cardinality({s[j] : j \in 1..i}) = i - 1 + 1
  <2>1. 1 \in Int /\ i \in Int /\ 1 <= i + 1  BY <1>0 DEF n
  <2> QED BY ONLY <1>3, <2>1, ImageCount
<1> QED BY <1>0, <1>2, <1>4 DEF n

\* The place of a user whose value no other has is after those who have more.
LEMMA PlaceOfUser ==
  ASSUME NEW S, IsFiniteSet(S), NEW s, Lists(s, S), NEW v, \A x \in S : v[x] \in Int,
         \A i, j \in DOMAIN s : i < j => v[s[i]] >= v[s[j]],
         NEW i \in 1..Cardinality(S), \A x \in S \ {s[i]} : v[x] # v[s[i]]
  PROVE  Cardinality({x \in S : v[x] > v[s[i]]}) = i - 1
<1> DEFINE n == Cardinality(S)
<1>0. n \in Nat /\ i \in 1..n  BY FS_CardinalityType
<1>1. /\ \A j \in 1..n : s[j] \in S
      /\ \A j, k \in 1..n : j # k => s[j] # s[k]
      /\ \A x \in S : \E j \in 1..n : s[j] = x
      /\ \A j, k \in 1..n : j < k => v[s[j]] >= v[s[k]]
  BY DEF Lists
<1> HIDE DEF n
<1>2. {x \in S : v[x] > v[s[i]]} = {s[j] : j \in 1..(i - 1)}
  <2>1. ASSUME NEW x \in S, v[x] > v[s[i]] PROVE \E j \in 1..(i - 1) : x = s[j]
    <3>1. PICK j \in 1..n : s[j] = x  BY <1>1
    <3>2. v[s[i]] \in Int /\ v[x] \in Int  BY <1>0, <1>1
    <3>3. ~ (i < j) /\ i # j  BY <1>0, <1>1, <2>1, <3>1, <3>2
    <3> QED BY <1>0, <3>1, <3>3
  <2>2. ASSUME NEW j \in 1..(i - 1) PROVE s[j] \in S /\ v[s[j]] > v[s[i]]
    <3>1. j \in 1..n /\ j < i /\ j # i  BY <1>0
    <3>2. s[j] \in S \ {s[i]} /\ v[s[j]] >= v[s[i]]  BY <1>0, <1>1, <3>1
    <3>3. v[s[i]] \in Int /\ v[s[j]] \in Int /\ v[s[j]] # v[s[i]]  BY <1>0, <1>1, <3>2
    <3> QED BY <3>2, <3>3
  <2> QED BY <2>1, <2>2
<1>3. \A j, k \in 1..(i - 1) : j # k => s[j] # s[k]
  <2>1. \A j \in 1..(i - 1) : j \in 1..n  BY <1>0
  <2> QED BY <1>1, <2>1
<1>4. Cardinality({s[j] : j \in 1..(i - 1)}) = i - 1
  <2> DEFINE k == i - 1
  <2>1. 1 \in Int /\ k \in Int /\ 1 <= k + 1  BY <1>0
  <2>2. \A x, y \in 1..k : x # y => s[x] # s[y]  BY <1>3
  <2> HIDE DEF k
  <2>3. Cardinality({s[j] : j \in 1..k}) = k - 1 + 1  BY ONLY <2>1, <2>2, ImageCount
  <2>4. Cardinality({s[j] : j \in 1..k}) = k  BY ONLY <2>1, <2>3
  <2> QED BY <2>4 DEF k
<1> QED BY ONLY <1>2, <1>4

\* What is on a page of p rows after n of a listing of S, and when the page is
\* the last one.
LEMMA PageRows ==
  ASSUME NEW S, IsFiniteSet(S), NEW s, Lists(s, S), NEW n \in Nat, NEW p \in Nat \ {0},
         Offset = n, Limit = p
  PROVE  /\ Page(s) \in SUBSET S
         /\ \A i \in 1..Cardinality(S) : s[i] \in Page(s) <=> n < i /\ i <= n + p
         /\ Cardinality(Page(s)) < p \/ Page(s) = {} => Cardinality(S) < n + p
<1> DEFINE c == Cardinality(S)
           e == IF n + p < c THEN n + p ELSE c
<1>0. c \in Nat  BY FS_CardinalityType
<1>1. /\ \A j \in 1..c : s[j] \in S
      /\ \A j, k \in 1..c : j # k => s[j] # s[k]
      /\ Len(s) = c
  BY DEF Lists
<1>2. Page(s) = {s[i] : i \in (n + 1)..e}  BY <1>1 DEF Page, PageEnd
<1> HIDE DEF c
<1>3. \A i \in (n + 1)..e : i \in 1..c /\ i <= n + p  BY <1>0
<1>4. Page(s) \in SUBSET S  BY <1>1, <1>2, <1>3
<1>5. ASSUME NEW i \in 1..c PROVE s[i] \in Page(s) <=> n < i /\ i <= n + p
  <2>1. ASSUME n < i, i <= n + p PROVE s[i] \in Page(s)
    <3>1. i \in (n + 1)..e  BY <1>0, <2>1
    <3> QED BY <1>2, <3>1
  <2>2. ASSUME s[i] \in Page(s) PROVE n < i /\ i <= n + p
    <3>1. PICK j \in (n + 1)..e : s[i] = s[j]  BY <1>2, <2>2
    <3>2. j \in 1..c /\ j <= n + p /\ n < j  BY <1>3, <3>1
    <3>3. i = j  BY <1>1, <3>1, <3>2
    <3> QED BY <3>2, <3>3
  <2> QED BY <2>1, <2>2
<1>6. ASSUME ~ (c < n + p)
      PROVE  ~ (Cardinality(Page(s)) < p) /\ Page(s) # {}
  <2>1. e = n + p /\ n + 1 \in Int /\ n + p \in Int /\ n + 1 <= (n + p) + 1
    BY <1>0, <1>6
  <2>2. \A i, j \in (n + 1)..(n + p) : i # j => s[i] # s[j]
    <3>1. \A i \in (n + 1)..(n + p) : i \in 1..c  BY <1>0, <1>6
    <3> QED BY <1>1, <3>1
  <2>3. Page(s) = {s[i] : i \in (n + 1)..(n + p)}  BY <1>2, <2>1
  <2> HIDE DEF e
  <2>4. Cardinality(Page(s)) = (n + p) - (n + 1) + 1
    BY ONLY <2>1, <2>2, <2>3, ImageCount
  <2>5. Cardinality(Page(s)) = p  BY ONLY <2>4, n \in Nat, p \in Nat \ {0}
  <2>6. n + 1 \in (n + 1)..(n + p)  OBVIOUS
  <2> QED BY <2>3, <2>5, <2>6
<1> QED BY <1>4, <1>5, <1>6 DEF c

-----------------------------------------------------------------------------
(* The walk.                                                               *)

\* Rows that the pages before this one have room for.
Passed == (page - 1) * perPage

\* Where a statement finds row r of orders or markets; how many users have more
\* than user u.
Place(r) == Cardinality({x \in Selected : x >= r})
Above(u) == Cardinality({v \in Selected : view[v] > view[u]})

Unrivalled(u) == \A v \in Selected \ {u} : view[v] # view[u]

ListingTypes ==
  /\ kind \in Kinds /\ perPage \in Int
  /\ created \in 0..MaxRows /\ fits \in SUBSET (1..created)
  /\ score \in [Rows -> 0..MaxScore] /\ view \in [Rows -> Int]
  /\ \A u \in Rows : view[u] # Absent => u <= created
  /\ pc \in {"count", "select", "done"} /\ page \in Nat \ {0}
  /\ seen \in [Rows -> Nat] /\ wanted \in SUBSET Rows

\* Of the rows that are still there, those not yet seen are on pages to come.
MissedInv ==
  kind # "rankings" /\ perPage \in 1..Cap /\ ~left /\ (kind = "markets" \/ ~filtered) =>
    /\ wanted \subseteq Selected
    /\ \A r \in wanted : seen[r] > 0 \/ (pc # "done" /\ Place(r) > Passed)

\* Of the rows seen, those that are still there are on pages passed.
TwiceInv ==
  kind # "rankings" /\ perPage \in 1..Cap /\ ~joined =>
    \A r \in Rows : /\ seen[r] <= 1
                    /\ seen[r] = 1 /\ r \in Selected => Place(r) <= Passed

\* A user without rival is on the page where the count of those above says.
RankInv ==
  kind = "rankings" /\ perPage \in 1..Cap /\ ~refreshed =>
    \A u \in Selected : Unrivalled(u) =>
      /\ seen[u] = IF Above(u) < Passed THEN 1 ELSE 0
      /\ pc = "done" => Above(u) < Passed

ListingInv == ListingTypes /\ MissedInv /\ TwiceInv /\ RankInv

-----------------------------------------------------------------------------

\* What the statements select are rows.
LEMMA SelectedRows ==
  ASSUME ListingTypes
  PROVE  /\ Selected \in SUBSET Rows /\ Rows \in SUBSET Nat /\ IsFiniteSet(Selected)
         /\ Cardinality(Selected) \in Nat
<1>1. MaxRows \in Nat  BY ListingsAssumption
<1>2. Selected \in SUBSET Rows
  BY <1>1 DEF ListingTypes, Kinds, Selected, OrdersOfUser, MarketsLike, RankedUsers, Rows
<1>3. Rows \in SUBSET Nat /\ IsFiniteSet(Rows)  BY <1>1, FS_Interval DEF Rows
<1> QED BY <1>2, <1>3, FS_Subset, FS_CardinalityType

LEMMA PlaceType ==
  ASSUME ListingTypes, NEW r
  PROVE  /\ Place(r) \in Nat /\ Above(r) \in Nat
         /\ IsFiniteSet({x \in Selected : x >= r})
<1>1. IsFiniteSet(Selected)  BY SelectedRows
<1>2. /\ IsFiniteSet({x \in Selected : x >= r})
      /\ IsFiniteSet({v \in Selected : view[v] > view[r]})
  BY <1>1, FS_Subset
<1> QED BY <1>2, FS_CardinalityType DEF Place, Above

\* The page size of every listing is the one asked for, within the cap.
LEMMA PageSize ==
  ASSUME ListingTypes, perPage \in 1..Cap
  PROVE  /\ Limit = perPage /\ perPage \in Nat \ {0}
         /\ Offset = Passed /\ Passed \in Nat
         /\ (page + 1 - 1) * perPage = Passed + perPage
<1>1. Cap \in Nat \ {0}  BY ListingsAssumption
<1>2. perPage \in Nat \ {0} /\ perPage <= Cap  BY <1>1
<1>3. Size = perPage
  BY <1>1, <1>2 DEF ListingTypes, Kinds, Size, OrdersSize, MarketsSize, RankingsSize
<1>4. Limit = perPage  BY <1>2, <1>3 DEF Limit
<1>5. page - 1 \in Nat /\ page \in Nat  BY DEF ListingTypes
<1>6. Passed \in Nat  BY <1>2, <1>5 DEF Passed
<1>7. Offset = Passed  BY <1>2, <1>3, <1>6 DEF Offset, Passed
<1>8. (page + 1 - 1) * perPage = (page - 1) * perPage + perPage  BY <1>2, <1>5
<1> QED BY <1>2, <1>4, <1>6, <1>7, <1>8 DEF Passed

-----------------------------------------------------------------------------
(* Types.                                                                  *)

LEMMA InitListingTypes == Init => ListingTypes
<1> SUFFICES ASSUME Init PROVE ListingTypes  OBVIOUS
<1>1. MaxRows \in Nat /\ MaxScore \in Nat /\ Asked \subseteq Int  BY ListingsAssumption
<1>2. created \in 0..MaxRows /\ fits \in SUBSET (1..created) /\ perPage \in Int /\ kind \in Kinds
  BY <1>1 DEF Init
<1>3. score \in [Rows -> 0..MaxScore]  BY DEF Init
<1>4. view \in [Rows -> Int] /\ \A u \in Rows : view[u] # Absent => u <= created
  <2>1. \A u \in Rows : score[u] \in Int  BY <1>1, <1>3
  <2>2. view = [u \in Rows |-> IF kind = "rankings" /\ u <= created THEN score[u] ELSE Absent]
    BY DEF Init, ViewRows
  <2> QED BY <2>1, <2>2 DEF Absent
<1>5. wanted \in SUBSET Rows  BY <1>1, <1>2 DEF Init, Rows
<1>6. seen \in [Rows -> Nat] /\ page \in Nat \ {0} /\ pc = "count"  BY DEF Init
<1> QED BY <1>2, <1>3, <1>4, <1>5, <1>6 DEF ListingTypes

LEMMA NextListingTypes == ListingTypes /\ [Next]_vars => ListingTypes'
<1> SUFFICES ASSUME ListingTypes, [Next]_vars PROVE ListingTypes'  OBVIOUS
<1> USE DEF ListingTypes
<1>0. MaxRows \in Nat /\ MaxScore \in Nat  BY ListingsAssumption
<1>1. CASE Insert
  <2>1. /\ created < MaxRows /\ created' = created + 1
        /\ UNCHANGED <<kind, perPage, score, view, pc, page, seen, wanted>>
    BY <1>1 DEF Insert, Changing, request, walk
  <2>2. PICK f \in SUBSET {created + 1} : fits' = fits \cup f  BY <1>1 DEF Insert
  <2>3. created' \in 0..MaxRows /\ fits' \in SUBSET (1..created')  BY <1>0, <2>1, <2>2
  <2>4. \A u \in Rows : view'[u] # Absent => u <= created'  BY <1>0, <2>1 DEF Rows
  <2> QED BY <2>1, <2>3, <2>4
<1>2. CASE Restatus
  <2>1. UNCHANGED <<kind, perPage, created, score, view, pc, page, seen, wanted>>
    BY <1>2 DEF Restatus, Changing, request, walk
  <2>2. PICK r \in 1..created : fits' = IF r \in fits THEN fits \ {r} ELSE fits \cup {r}
    BY <1>2 DEF Restatus
  <2>3. fits' \in SUBSET (1..created')  BY <2>1, <2>2
  <2> QED BY <2>1, <2>3
<1>3. CASE Score
  <2>1. UNCHANGED <<kind, perPage, created, fits, view, pc, page, seen, wanted>>
    BY <1>3 DEF Score, Changing, request, walk
  <2>2. PICK u \in 1..created, n \in 0..MaxScore : score' = [score EXCEPT ![u] = n]
    BY <1>3 DEF Score
  <2> QED BY <2>1, <2>2
<1>4. CASE RefreshRankings
  <2>1. UNCHANGED <<kind, perPage, created, fits, score, pc, page, seen, wanted>>
    BY <1>4 DEF RefreshRankings, Changing, request, walk
  <2>2. view' = [u \in Rows |-> IF kind = "rankings" /\ u <= created THEN score[u] ELSE Absent]
    BY <1>4 DEF RefreshRankings, ViewRows
  <2>3. \A u \in Rows : score[u] \in Int  BY <1>0
  <2>4. view' \in [Rows -> Int] /\ \A u \in Rows : view'[u] # Absent => u <= created'
    BY <2>1, <2>2, <2>3 DEF Absent
  <2> QED BY <2>1, <2>4
<1>5. CASE Count
  BY <1>5 DEF Count, request, table, history
<1>6. CASE Select
  <2>1. /\ UNCHANGED <<kind, perPage, created, fits, score, view, wanted>>
        /\ page' = page + 1 /\ pc' \in {"done", "count"}
    BY <1>6 DEF Select, request, table, history
  <2>2. PICK rows : seen' = [r \in Rows |-> seen[r] + (IF r \in rows THEN 1 ELSE 0)]
    BY <1>6 DEF Select
  <2>3. seen' \in [Rows -> Nat]  BY <2>2
  <2> QED BY <2>1, <2>3
<1>7. CASE UNCHANGED vars
  BY <1>7 DEF vars, request, table, walk, history
<1> QED BY <1>1, <1>2, <1>3, <1>4, <1>5, <1>6, <1>7 DEF Next

-----------------------------------------------------------------------------
(* What others do between two pages.                                       *)

LEMMA SelectedNext ==
  ASSUME ListingTypes'
  PROVE  Selected' \in SUBSET Rows
<1>1. MaxRows \in Nat  BY ListingsAssumption
<1> QED BY <1>1 DEF ListingTypes, Kinds, Selected, OrdersOfUser, MarketsLike, RankedUsers, Rows

LEMMA PlaceTypeNext ==
  ASSUME ListingTypes', NEW r
  PROVE  Place(r)' \in Nat
<1>1. MaxRows \in Nat  BY ListingsAssumption
<1>2. IsFiniteSet(Rows)  BY <1>1, FS_Interval DEF Rows
<1>3. {x \in Selected' : x >= r} \in SUBSET Rows  BY SelectedNext
<1> QED BY <1>2, <1>3, FS_Subset, FS_CardinalityType DEF Place

\* The place of a row grows and shrinks with what is selected.
LEMMA PlaceMoves ==
  ASSUME ListingTypes, ListingTypes', NEW r
  PROVE  /\ Selected \subseteq Selected' => Place(r) <= Place(r)'
         /\ Selected' \subseteq Selected => Place(r)' <= Place(r)
<1> DEFINE A == {x \in Selected : x >= r}
           B == {x \in Selected' : x >= r}
<1>1. IsFiniteSet(A) /\ Place(r) = Cardinality(A)  BY PlaceType DEF Place
<1>2. IsFiniteSet(B) /\ Place(r)' = Cardinality(B)
  <2>1. Selected' \in SUBSET Rows /\ IsFiniteSet(Rows)
    <3>1. MaxRows \in Nat  BY ListingsAssumption
    <3>2. IsFiniteSet(Rows)  BY <3>1, FS_Interval DEF Rows
    <3> QED BY <3>2, SelectedNext
  <2>2. B \in SUBSET Rows  BY <2>1
  <2> QED BY <2>1, <2>2, FS_Subset DEF Place
<1>3. Selected \subseteq Selected' => A \subseteq B  OBVIOUS
<1>4. Selected' \subseteq Selected => B \subseteq A  OBVIOUS
<1> HIDE DEF A, B
<1> QED BY <1>1, <1>2, <1>3, <1>4, FS_Subset

\* What a step that is not of the walk must leave alone.
LEMMA OthersKeep ==
  ASSUME ListingInv, ListingTypes',
         UNCHANGED <<kind, spelling, perPage, page, seen, wanted>>,
         pc # "done", pc' # "done",
         left => left', joined => joined', refreshed => refreshed',
         kind # "rankings" /\ ~left' /\ (kind = "markets" \/ ~filtered)
           => Selected \subseteq Selected',
         kind # "rankings" /\ ~joined' => Selected' \subseteq Selected,
         kind = "rankings" /\ ~refreshed' => Selected' = Selected /\ view' = view
  PROVE  ListingInv'
<1>0. ListingTypes /\ MissedInv /\ TwiceInv /\ RankInv  BY DEF ListingInv
<1>1. filtered' = filtered /\ Passed' = Passed /\ wanted \subseteq Rows
  BY <1>0 DEF filtered, OrderFilter, stringToMarketStatus, userTypeFilterMap, Passed, ListingTypes
<1>2. MissedInv'
  <2> SUFFICES ASSUME kind # "rankings", perPage \in 1..Cap, ~left',
                      kind = "markets" \/ ~filtered
               PROVE  /\ wanted \subseteq Selected'
                      /\ \A r \in wanted : seen[r] > 0 \/ Place(r)' > Passed
    BY <1>1 DEF MissedInv
  <2>1. /\ wanted \subseteq Selected
        /\ \A r \in wanted : seen[r] > 0 \/ Place(r) > Passed
    BY <1>0 DEF MissedInv
  <2>2. \A r \in wanted : Place(r) <= Place(r)' /\ Place(r) \in Nat /\ Place(r)' \in Nat
    BY <1>0, PlaceMoves, PlaceType, PlaceTypeNext
  <2>3. Passed \in Nat  BY <1>0, PageSize
  <2> QED BY <2>1, <2>2, <2>3
<1>3. TwiceInv'
  <2> SUFFICES ASSUME kind # "rankings", perPage \in 1..Cap, ~joined', NEW r \in Rows
               PROVE  /\ seen[r] <= 1
                      /\ seen[r] = 1 /\ r \in Selected' => Place(r)' <= Passed
    BY <1>1 DEF TwiceInv
  <2>1. seen[r] <= 1 /\ (seen[r] = 1 /\ r \in Selected => Place(r) <= Passed)
    BY <1>0 DEF TwiceInv
  <2>2. Place(r)' <= Place(r) /\ Place(r) \in Nat /\ Place(r)' \in Nat
    BY <1>0, PlaceMoves, PlaceType, PlaceTypeNext
  <2>3. Passed \in Nat  BY <1>0, PageSize
  <2> QED BY <2>1, <2>2, <2>3
<1>4. RankInv'
  <2> SUFFICES ASSUME kind = "rankings", perPage \in 1..Cap, ~refreshed'
               PROVE  \A u \in Selected' : Unrivalled(u)' =>
                        seen[u] = IF Above(u)' < Passed THEN 1 ELSE 0
    BY <1>1 DEF RankInv
  <2>1. Selected' = Selected /\ view' = view  OBVIOUS
  <2>2. \A u : (Unrivalled(u)' <=> Unrivalled(u)) /\ Above(u)' = Above(u)
    BY <2>1 DEF Unrivalled, Above
  <2> QED BY <1>0, <2>1, <2>2 DEF RankInv
<1> QED BY <1>2, <1>3, <1>4 DEF ListingInv

LEMMA InitListing == Init => ListingInv
<1> SUFFICES ASSUME Init PROVE ListingInv  OBVIOUS
<1>1. ListingTypes  BY InitListingTypes
<1>2. /\ page = 1 /\ pc = "count" /\ seen = [r \in Rows |-> 0]
      /\ wanted = IF filtered THEN fits ELSE 1..created
  BY DEF Init
<1>3. perPage \in Int => Passed = 0  BY <1>2 DEF Passed
<1>4. Passed = 0  BY <1>1, <1>3 DEF ListingTypes
<1>5. MissedInv
  <2> SUFFICES ASSUME kind # "rankings", kind = "markets" \/ ~filtered
               PROVE  wanted \subseteq Selected /\ \A r \in wanted : Place(r) > Passed
    BY <1>2 DEF MissedInv
  <2>1. wanted = Selected
    BY <1>1, <1>2 DEF ListingTypes, Kinds, Selected, OrdersOfUser, MarketsLike
  <2>2. ASSUME NEW r \in wanted PROVE Place(r) > 0
    <3>1. r \in {x \in Selected : x >= r}
      <4>1. r \in Int  BY <1>1, <2>1, SelectedRows
      <4> QED BY <2>1, <4>1
    <3>2. IsFiniteSet({x \in Selected : x >= r})  BY <1>1, PlaceType
    <3>3. Place(r) # 0  BY <3>1, <3>2, FS_EmptySet DEF Place
    <3>4. Place(r) \in Nat  BY <1>1, PlaceType
    <3> QED BY <3>3, <3>4
  <2> QED BY <1>4, <2>1, <2>2
<1>6. TwiceInv  BY <1>2 DEF TwiceInv
<1>7. RankInv
  <2>1. \A u \in Selected : u \in Rows /\ Above(u) \in Nat
    BY <1>1, SelectedRows, PlaceType
  <2> QED BY <1>2, <1>4, <2>1 DEF RankInv
<1> QED BY <1>1, <1>5, <1>6, <1>7 DEF ListingInv

LEMMA InsertKeeps == ListingInv /\ ListingTypes' /\ Insert => ListingInv'
<1> SUFFICES ASSUME ListingInv, ListingTypes', Insert PROVE ListingInv'  OBVIOUS
<1>1. ListingTypes  BY DEF ListingInv
<1>2. /\ UNCHANGED <<kind, spelling, perPage, page, seen, wanted, pc, view, left, refreshed>>
      /\ pc # "done" /\ created' = created + 1
  BY DEF Insert, Changing, request, walk
<1>3. PICK f \in SUBSET {created + 1} :
        /\ fits' = fits \cup f
        /\ joined' = (joined \/ kind = "orders" \/ ~filtered \/ f # {})
  BY DEF Insert
<1>4. filtered' = filtered
  BY <1>2 DEF filtered, OrderFilter, stringToMarketStatus, userTypeFilterMap
<1>5. created \in Nat /\ 1..created \subseteq 1..(created + 1)
  BY <1>1, ListingsAssumption DEF ListingTypes
<1>6. kind # "rankings" => Selected \subseteq Selected'
  BY <1>1, <1>2, <1>3, <1>4, <1>5
     DEF ListingTypes, Kinds, Selected, OrdersOfUser, MarketsLike
<1>7. kind # "rankings" /\ ~joined' => Selected' \subseteq Selected
  BY <1>1, <1>2, <1>3, <1>4, <1>5
     DEF ListingTypes, Kinds, Selected, OrdersOfUser, MarketsLike
<1>8. kind = "rankings" => Selected' = Selected
  <2> SUFFICES ASSUME kind = "rankings" PROVE RankedUsers' = RankedUsers
    BY <1>2 DEF Selected
  <2>1. \A u \in Rows : view[u] # Absent => u # created + 1
    BY <1>1, <1>5 DEF ListingTypes
  <2>2. \A u \in Rows : view[u] # Absent => (u \in fits' <=> u \in fits)
    BY <1>3, <2>1
  <2> QED BY <1>2, <1>4, <2>2 DEF RankedUsers
<1> QED BY <1>2, <1>3, <1>6, <1>7, <1>8, OthersKeep

LEMMA RestatusKeeps == ListingInv /\ ListingTypes' /\ Restatus => ListingInv'
<1> SUFFICES ASSUME ListingInv, ListingTypes', Restatus PROVE ListingInv'  OBVIOUS
<1>1. ListingTypes  BY DEF ListingInv
<1>2. /\ UNCHANGED <<kind, spelling, perPage, page, seen, wanted, pc, created, view, refreshed>>
      /\ pc # "done" /\ kind # "rankings"
  BY DEF Restatus, Changing, request, walk
<1>3. PICK r \in 1..created :
        /\ fits' = IF r \in fits THEN fits \ {r} ELSE fits \cup {r}
        /\ left' = (left \/ (filtered /\ r \in fits))
        /\ joined' = (joined \/ (filtered /\ r \notin fits))
  BY DEF Restatus
<1>4. filtered' = filtered
  BY <1>2 DEF filtered, OrderFilter, stringToMarketStatus, userTypeFilterMap
<1>5. ~left' /\ (kind = "markets" \/ ~filtered) => Selected \subseteq Selected'
  BY <1>1, <1>2, <1>3, <1>4 DEF ListingTypes, Kinds, Selected, OrdersOfUser, MarketsLike
<1>6. ~joined' => Selected' \subseteq Selected
  BY <1>1, <1>2, <1>3, <1>4 DEF ListingTypes, Kinds, Selected, OrdersOfUser, MarketsLike
<1> QED BY <1>2, <1>3, <1>5, <1>6, OthersKeep

LEMMA TableKeeps ==
  ListingInv /\ ListingTypes' /\ (Score \/ RefreshRankings \/ Count \/ UNCHANGED vars)
    /\ pc # "done" => ListingInv'
<1> SUFFICES ASSUME ListingInv, ListingTypes', pc # "done",
                    Score \/ RefreshRankings \/ Count \/ UNCHANGED vars
             PROVE  ListingInv'
  OBVIOUS
<1>1. /\ UNCHANGED <<kind, spelling, perPage, page, seen, wanted, created, fits, left, joined>>
      /\ pc' # "done" /\ (refreshed => refreshed')
      /\ UNCHANGED view \/ (kind = "rankings" /\ refreshed')
      /\ UNCHANGED view \/ kind = "rankings"
  <2>1. CASE Score  BY <2>1 DEF Score, Changing, request, walk
  <2>2. CASE RefreshRankings  BY <2>2 DEF RefreshRankings, Changing, request, walk
  <2>3. CASE Count  BY <2>3 DEF Count, request, table, history
  <2>4. CASE UNCHANGED vars  BY <2>4 DEF vars, request, table, walk, history
  <2> QED BY <2>1, <2>2, <2>3, <2>4
<1>2. ListingTypes  BY DEF ListingInv
<1>3. filtered' = filtered
  BY <1>1 DEF filtered, OrderFilter, stringToMarketStatus, userTypeFilterMap
<1>4. kind # "rankings" => Selected' = Selected
  BY <1>1, <1>2, <1>3 DEF ListingTypes, Kinds, Selected, OrdersOfUser, MarketsLike
<1>5. UNCHANGED view => Selected' = Selected
  BY <1>1, <1>3 DEF Selected, OrdersOfUser, MarketsLike, RankedUsers
<1> QED BY <1>1, <1>4, <1>5, OthersKeep

LEMMA StutterKeeps == ListingInv /\ UNCHANGED vars => ListingInv'
<1> SUFFICES ASSUME ListingInv, UNCHANGED vars PROVE ListingInv'  OBVIOUS
<1>1. UNCHANGED <<kind, spelling, perPage, created, fits, score, view, pc, page, seen,
                  wanted, left, joined, refreshed>>
  BY DEF vars, request, table, walk, history
<1>2. ListingTypes'  BY <1>1 DEF ListingInv, ListingTypes
<1>3. filtered' = filtered /\ Passed' = Passed
  BY <1>1 DEF filtered, OrderFilter, stringToMarketStatus, userTypeFilterMap, Passed
<1>4. Selected' = Selected
  BY <1>1, <1>3 DEF Selected, OrdersOfUser, MarketsLike, RankedUsers
<1>5. \A r : Place(r)' = Place(r) /\ Above(r)' = Above(r) /\ (Unrivalled(r)' <=> Unrivalled(r))
  BY <1>1, <1>4 DEF Place, Above, Unrivalled
<1>6. MissedInv'  BY <1>1, <1>3, <1>4, <1>5 DEF ListingInv, MissedInv
<1>7. TwiceInv'  BY <1>1, <1>3, <1>4, <1>5 DEF ListingInv, TwiceInv
<1>8. RankInv'  BY <1>1, <1>3, <1>4, <1>5 DEF ListingInv, RankInv
<1> QED BY <1>2, <1>6, <1>7, <1>8 DEF ListingInv

-----------------------------------------------------------------------------
(* A page.                                                                 *)

\* A page shows the rows whose place is on it; the last one has room for all.
LEMMA SelectPage ==
  ASSUME ListingInv, perPage \in 1..Cap, Select
  PROVE  \E s \in Sorted, rows \in SUBSET Selected :
           /\ Lists(s, Selected)
           /\ seen' = [r \in Rows |-> seen[r] + (IF r \in rows THEN 1 ELSE 0)]
           /\ rows \subseteq Page(s)
           /\ ~ (kind = "orders" /\ filtered) => rows = Page(s)
           /\ \A i \in 1..Cardinality(Selected) :
                s[i] \in Page(s) <=> Passed < i /\ i <= Passed + perPage
           /\ rows = Page(s) /\ pc' = "done" => Cardinality(Selected) < Passed + perPage
<1>1. /\ ListingTypes /\ IsFiniteSet(Selected)
      /\ Offset = Passed /\ Limit = perPage /\ Passed \in Nat /\ perPage \in Nat \ {0}
  BY SelectedRows, PageSize DEF ListingInv
<1>2. PICK s \in Sorted :
        LET rows == InMemoryFilter(Page(s)) IN
        /\ seen' = [r \in Rows |-> seen[r] + (IF r \in rows THEN 1 ELSE 0)]
        /\ pc' = IF Cardinality(rows) < perPage \/ rows = {} THEN "done" ELSE "count"
  BY DEF Select
<1>3. s \in SetToSeqs(Selected)  BY DEF Sorted, ByRank, NewestFirst
<1>4. Lists(s, Selected)  BY <1>1, <1>3, ListsAll
<1> DEFINE rows == InMemoryFilter(Page(s))
<1>5. /\ Page(s) \in SUBSET Selected
      /\ \A i \in 1..Cardinality(Selected) :
           s[i] \in Page(s) <=> Passed < i /\ i <= Passed + perPage
      /\ Cardinality(Page(s)) < perPage \/ Page(s) = {}
           => Cardinality(Selected) < Passed + perPage
  BY <1>1, <1>4, PageRows
<1>6. rows \subseteq Page(s) /\ (~ (kind = "orders" /\ filtered) => rows = Page(s))
  BY DEF InMemoryFilter
<1>7. rows \in SUBSET Selected  BY <1>5, <1>6
<1>8. rows = Page(s) /\ pc' = "done" => Cardinality(Selected) < Passed + perPage
  BY <1>2, <1>5
<1>9. seen' = [r \in Rows |-> seen[r] + (IF r \in rows THEN 1 ELSE 0)]  BY <1>2
<1> QED BY <1>4, <1>5, <1>6, <1>7, <1>8, <1>9

\* What a page leaves alone, and how far it goes.
LEMMA SelectStep ==
  ASSUME ListingInv, Select
  PROVE  /\ UNCHANGED <<kind, spelling, perPage, created, fits, view, wanted,
                        left, joined, refreshed>>
         /\ pc = "select" /\ filtered' = filtered /\ Selected' = Selected
         /\ \A r : /\ Place(r)' = Place(r) /\ Above(r)' = Above(r)
                   /\ Unrivalled(r)' <=> Unrivalled(r)
         /\ perPage \in 1..Cap => Passed' = Passed + perPage /\ Passed \in Nat
                                  /\ perPage \in Nat \ {0}
<1>1. /\ UNCHANGED <<kind, spelling, perPage, created, fits, view, wanted,
                     left, joined, refreshed>>
      /\ pc = "select" /\ page' = page + 1
  BY DEF Select, request, table, history
<1>2. filtered' = filtered
  BY <1>1 DEF filtered, OrderFilter, stringToMarketStatus, userTypeFilterMap
<1>3. Selected' = Selected
  BY <1>1, <1>2 DEF Selected, OrdersOfUser, MarketsLike, RankedUsers
<1>4. \A r : Place(r)' = Place(r) /\ Above(r)' = Above(r) /\ (Unrivalled(r)' <=> Unrivalled(r))
  BY <1>1, <1>3 DEF Place, Above, Unrivalled
<1>5. perPage \in 1..Cap => Passed' = Passed + perPage /\ Passed \in Nat
                            /\ perPage \in Nat \ {0}
  <2>1. Passed' = (page' - 1) * perPage'  BY DEF Passed
  <2>2. page' = page + 1 /\ perPage' = perPage  BY <1>1
  <2>3. page \in Nat /\ perPage \in Int  BY DEF ListingInv, ListingTypes
  <2>4. page' - 1 = page + 1 - 1  BY <2>2, <2>3
  <2>5. Passed' = (page + 1 - 1) * perPage  BY ONLY <2>1, <2>2, <2>3, <2>4
  <2> QED BY <2>5, PageSize DEF ListingInv
<1> QED BY <1>1, <1>2, <1>3, <1>4, <1>5

LEMMA SelectKeepsMissed == ListingInv /\ Select => MissedInv'
<1> SUFFICES ASSUME ListingInv, Select, kind # "rankings", perPage \in 1..Cap, ~left,
                    kind = "markets" \/ ~filtered
             PROVE  MissedInv'
  BY SelectStep DEF MissedInv
<1>1. ListingTypes /\ wanted \subseteq Selected /\ wanted \subseteq Rows
      /\ \A r \in wanted : seen[r] > 0 \/ Place(r) > Passed
  BY DEF ListingInv, MissedInv, ListingTypes
<1>2. PICK s \in Sorted, rows \in SUBSET Selected :
        /\ Lists(s, Selected)
        /\ seen' = [r \in Rows |-> seen[r] + (IF r \in rows THEN 1 ELSE 0)]
        /\ rows \subseteq Page(s)
        /\ ~ (kind = "orders" /\ filtered) => rows = Page(s)
        /\ \A i \in 1..Cardinality(Selected) :
             s[i] \in Page(s) <=> Passed < i /\ i <= Passed + perPage
        /\ rows = Page(s) /\ pc' = "done" => Cardinality(Selected) < Passed + perPage
  BY SelectPage
<1>3. rows = Page(s)  BY <1>2
<1>4. \A i, j \in DOMAIN s : i < j => s[i] > s[j]  BY DEF Sorted, NewestFirst
<1>5. ASSUME NEW r \in wanted
      PROVE  seen'[r] > 0 \/ (pc' # "done" /\ Place(r) > Passed + perPage)
  <2>1. PICK i \in 1..Cardinality(Selected) : s[i] = r  BY <1>1, <1>2 DEF Lists
  <2>2. Place(r) = i
    <3>1. Selected \in SUBSET Int /\ IsFiniteSet(Selected)  BY <1>1, SelectedRows
    <3> QED BY <1>2, <1>4, <2>1, <3>1, PlaceOfRow DEF Place
  <2>3. seen'[r] = seen[r] + (IF r \in Page(s) THEN 1 ELSE 0) /\ seen[r] \in Nat
    BY <1>1, <1>2, <1>3 DEF ListingTypes
  <2>4. Cardinality(Selected) \in Nat /\ Passed \in Nat /\ perPage \in Nat
    BY <1>1, SelectedRows, SelectStep
  <2>5. CASE seen[r] > 0  BY <2>3, <2>5
  <2>6. CASE Place(r) > Passed
    <3>1. Passed < i  BY <2>2, <2>4, <2>6
    <3>2. CASE i <= Passed + perPage
      <4>1. r \in Page(s)  BY <1>2, <2>1, <3>1, <3>2
      <4> QED BY <2>3, <4>1
    <3>3. CASE ~ (i <= Passed + perPage)
      <4>1. i > Passed + perPage /\ ~ (Cardinality(Selected) < Passed + perPage)
        BY <2>4, <3>3
      <4> QED BY <1>2, <1>3, <2>2, <4>1
    <3> QED BY <3>2, <3>3
  <2> QED BY <1>1, <2>5, <2>6
<1> QED BY <1>1, <1>5, SelectStep DEF MissedInv

LEMMA SelectKeepsTwice == ListingInv /\ Select => TwiceInv'
<1> SUFFICES ASSUME ListingInv, Select, kind # "rankings", perPage \in 1..Cap, ~joined
             PROVE  TwiceInv'
  BY SelectStep DEF TwiceInv
<1>1. ListingTypes /\ \A r \in Rows : /\ seen[r] <= 1
                                      /\ seen[r] = 1 /\ r \in Selected => Place(r) <= Passed
  BY DEF ListingInv, TwiceInv
<1>2. PICK s \in Sorted, rows \in SUBSET Selected :
        /\ Lists(s, Selected)
        /\ seen' = [r \in Rows |-> seen[r] + (IF r \in rows THEN 1 ELSE 0)]
        /\ rows \subseteq Page(s)
        /\ \A i \in 1..Cardinality(Selected) :
             s[i] \in Page(s) <=> Passed < i /\ i <= Passed + perPage
  BY SelectPage
<1>3. \A i, j \in DOMAIN s : i < j => s[i] > s[j]  BY DEF Sorted, NewestFirst
<1>4. Passed \in Nat /\ perPage \in Nat  BY SelectStep
<1>5. ASSUME NEW r \in Rows
      PROVE  /\ seen'[r] <= 1
             /\ seen'[r] = 1 /\ r \in Selected => Place(r) <= Passed + perPage
  <2>1. seen'[r] = seen[r] + (IF r \in rows THEN 1 ELSE 0) /\ seen[r] \in Nat
        /\ Place(r) \in Nat
    BY <1>1, <1>2, PlaceType DEF ListingTypes
  <2>2. r \in rows => Passed < Place(r) /\ Place(r) <= Passed + perPage /\ r \in Selected
    <3> SUFFICES ASSUME r \in rows
                 PROVE  Passed < Place(r) /\ Place(r) <= Passed + perPage
      BY <1>2
    <3>1. PICK i \in 1..Cardinality(Selected) : s[i] = r  BY <1>2 DEF Lists
    <3>2. Selected \in SUBSET Int /\ IsFiniteSet(Selected)  BY <1>1, SelectedRows
    <3>3. Place(r) = i  BY <1>2, <1>3, <3>1, <3>2, PlaceOfRow DEF Place
    <3> QED BY <1>2, <3>1, <3>3
  <2>3. seen[r] <= 1 /\ (seen[r] = 1 /\ r \in Selected => Place(r) <= Passed)  BY <1>1
  <2> QED BY <1>4, <2>1, <2>2, <2>3
<1> QED BY <1>5, SelectStep DEF TwiceInv

LEMMA SelectKeepsRank == ListingInv /\ Select => RankInv'
<1> SUFFICES ASSUME ListingInv, Select, kind = "rankings", perPage \in 1..Cap, ~refreshed
             PROVE  RankInv'
  BY SelectStep DEF RankInv
<1>1. /\ ListingTypes
      /\ \A u \in Selected : Unrivalled(u) => seen[u] = IF Above(u) < Passed THEN 1 ELSE 0
  BY DEF ListingInv, RankInv
<1>2. PICK s \in Sorted, rows \in SUBSET Selected :
        /\ Lists(s, Selected)
        /\ seen' = [r \in Rows |-> seen[r] + (IF r \in rows THEN 1 ELSE 0)]
        /\ ~ (kind = "orders" /\ filtered) => rows = Page(s)
        /\ \A i \in 1..Cardinality(Selected) :
             s[i] \in Page(s) <=> Passed < i /\ i <= Passed + perPage
        /\ rows = Page(s) /\ pc' = "done" => Cardinality(Selected) < Passed + perPage
  BY SelectPage
<1>3. rows = Page(s)  BY <1>2
<1>4. \A i, j \in DOMAIN s : i < j => view[s[i]] >= view[s[j]]  BY DEF Sorted, ByRank
<1>5. Passed \in Nat /\ perPage \in Nat \ {0}  BY SelectStep
<1>6. ASSUME NEW u \in Selected, Unrivalled(u)
      PROVE  /\ seen'[u] = IF Above(u) < Passed + perPage THEN 1 ELSE 0
             /\ pc' = "done" => Above(u) < Passed + perPage
  <2>1. /\ u \in Rows /\ Selected \in SUBSET Rows /\ IsFiniteSet(Selected)
        /\ Cardinality(Selected) \in Nat
    BY <1>1, SelectedRows
  <2>2. PICK i \in 1..Cardinality(Selected) : s[i] = u  BY <1>2 DEF Lists
  <2>3. Above(u) = i - 1
    <3>1. \A x \in Selected : view[x] \in Int  BY <1>1, <2>1 DEF ListingTypes
    <3>2. \A x \in Selected \ {s[i]} : view[x] # view[s[i]]  BY <1>6, <2>2 DEF Unrivalled
    <3>3. Cardinality({x \in Selected : view[x] > view[s[i]]}) = i - 1
      BY <1>2, <1>4, <2>1, <3>1, <3>2, PlaceOfUser
    <3> QED BY <2>2, <3>3 DEF Above
  <2>4. seen'[u] = seen[u] + (IF u \in Page(s) THEN 1 ELSE 0)  BY <1>2, <1>3, <2>1
  <2>5. u \in Page(s) <=> Passed < i /\ i <= Passed + perPage  BY <1>2, <2>2
  <2>6. seen[u] = IF i - 1 < Passed THEN 1 ELSE 0  BY <1>1, <1>6, <2>3
  <2>7. seen'[u] = IF i - 1 < Passed + perPage THEN 1 ELSE 0
    <3>1. CASE i <= Passed
      <4>1. seen[u] = 1 /\ u \notin Page(s) /\ i - 1 < Passed + perPage
        BY <1>5, <2>5, <2>6, <3>1
      <4> QED BY <2>4, <4>1
    <3>2. CASE Passed < i /\ i <= Passed + perPage
      <4>1. seen[u] = 0 /\ u \in Page(s) /\ i - 1 < Passed + perPage
        BY <1>5, <2>5, <2>6, <3>2
      <4> QED BY <2>4, <4>1
    <3>3. CASE i > Passed + perPage
      <4>1. seen[u] = 0 /\ u \notin Page(s) /\ ~ (i - 1 < Passed + perPage)
        BY <1>5, <2>5, <2>6, <3>3
      <4> QED BY <2>4, <4>1
    <3> QED BY <1>5, <3>1, <3>2, <3>3
  <2>8. pc' = "done" => i - 1 < Passed + perPage  BY <1>2, <1>3, <1>5, <2>1
  <2> QED BY <2>3, <2>7, <2>8
<1> QED BY <1>6, SelectStep DEF RankInv

-----------------------------------------------------------------------------
(* The theorems.                                                           *)

LEMMA NextListing == ListingInv /\ [Next]_vars => ListingInv'
<1> SUFFICES ASSUME ListingInv, [Next]_vars PROVE ListingInv'  OBVIOUS
<1>1. ListingTypes'  BY NextListingTypes DEF ListingInv
<1>2. CASE Insert  BY <1>1, <1>2, InsertKeeps
<1>3. CASE Restatus  BY <1>1, <1>3, RestatusKeeps
<1>4. CASE Score  BY <1>1, <1>4, TableKeeps DEF Score, Changing
<1>5. CASE RefreshRankings  BY <1>1, <1>5, TableKeeps DEF RefreshRankings, Changing
<1>6. CASE Count  BY <1>1, <1>6, TableKeeps DEF Count
<1>7. CASE Select
  BY <1>1, <1>7, SelectKeepsMissed, SelectKeepsTwice, SelectKeepsRank DEF ListingInv
<1>8. CASE UNCHANGED vars  BY <1>8, StutterKeeps
<1> QED BY <1>2, <1>3, <1>4, <1>5, <1>6, <1>7, <1>8 DEF Next

LEMMA ListingInvariant == Spec => []ListingInv
BY InitListing, NextListing, PTL DEF Spec

\* For any number of rows, changes and pages, and any page size up to the
\* cap: a walk that has come to its end missed no row of an unfiltered
\* listing of orders, or of a listing of markets, unless a row left it
\* meanwhile, and showed none twice unless one joined it.
THEOREM ListedOnce == Spec => []ListedOnceUnlessMoved
<1>1. ListingInv => ListedOnceUnlessMoved
  BY DEF ListingInv, MissedInv, TwiceInv, ListedOnceUnlessMoved, Paged
<1> QED BY <1>1, ListingInvariant, PTL

\* Whichever way every page breaks the ties of RANK(), and however scores
\* move between refreshes: a user whose value no other has is on exactly one
\* page of the leaderboard.
THEOREM UnrivalledOnce == Spec => []UnrivalledListedOnce
<1>1. ListingInv => UnrivalledListedOnce
  BY DEF ListingInv, RankInv, Unrivalled, UnrivalledListedOnce, Paged
<1> QED BY <1>1, ListingInvariant, PTL
=============================================================================
