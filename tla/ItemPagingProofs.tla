-------------------------- MODULE ItemPagingProofs --------------------------
(***************************************************************************)
(* Proofs about ItemPaging, for any items, discovery times, prices and     *)
(* queries: PagingIndInv is inductive, so a walk by discovery time shows   *)
(* nothing twice, and a walk whose markers are left alone shows everything *)
(* that is left alone, once.                                               *)
(*                                                                         *)
(* The argument: the ordering is total, a page is a beginning of what its  *)
(* statement selects, and what the statement selects with a marker is what *)
(* lies behind the marker.  So the marker divides the list into what has   *)
(* been shown and what has not.  And as rows can be ranked, a page has the *)
(* size that was asked for.                                                *)
(***************************************************************************)
EXTENDS ItemPaging, FiniteSetTheorems, TLAPS

-----------------------------------------------------------------------------
(* The ordering.                                                           *)

RowsOK == row \in [Items -> Row]

(* The keys compared are numbers.                                          *)
LEMMA KeysAreNumbers ==
    ASSUME RowsOK, NEW q \in Query, NEW i \in Items
    PROVE  SortKey(q, i) \in Nat /\ i \in Nat
<1>1. row[i] \in Row
  BY DEF RowsOK
<1>2. row[i].price \in Nat
  <2>1. Prices \union {0} \subseteq Nat
    BY PricesAssumption
  <2>2. row[i].price \in Prices \union {0}
    BY <1>1 DEF Row
  <2>. QED
    BY <2>1, <2>2
<1>3. discoveredAt[i] \in Nat /\ i \in Nat
  BY ItemsAssumption
<1>. QED
  BY <1>2, <1>3 DEF SortKey

(* Pairs of a key and an id are totally ordered, in either direction.      *)
LEMMA OrderedIsTotal ==
    ASSUME NEW q,
           NEW u \in Nat, NEW i \in Nat,
           NEW v \in Nat, NEW j \in Nat,
           NEW w \in Nat, NEW k \in Nat
    PROVE  /\ ~Ordered(q, u, i, u, i)
           /\ Ordered(q, u, i, v, j) /\ Ordered(q, v, j, w, k)
                => Ordered(q, u, i, w, k)
           /\ i # j => Ordered(q, u, i, v, j) \/ Ordered(q, v, j, u, i)
BY DEF Ordered, Below

(* So the rows are: buildOrderBy's tie-breaker makes the list one sequence. *)
LEMMA AheadIsTotal ==
    ASSUME RowsOK, NEW q \in Query,
           NEW i \in Items, NEW j \in Items, NEW k \in Items
    PROVE  /\ ~Ahead(q, i, i)
           /\ Ahead(q, i, j) /\ Ahead(q, j, k) => Ahead(q, i, k)
           /\ i # j => Ahead(q, i, j) \/ Ahead(q, j, i)
BY KeysAreNumbers, OrderedIsTotal DEF Ahead

-----------------------------------------------------------------------------
(* The statement.                                                          *)

(* Without a marker it selects all that matches.                           *)
LEMMA FirstRows ==
    ASSUME NEW q
    PROVE  AfterSkip(q, None) = Matching
BY DEF AfterSkip, FromCursor

(* With a marker it selects nothing but what lies behind it.               *)
LEMMA RowsAreBehind ==
    ASSUME RowsOK, NEW q \in Query, NEW c \in Items, NEW i \in AfterSkip(q, c)
    PROVE  i \in Matching /\ Ahead(q, c, i)
<1>1. c # None
  BY ItemsAssumption
<1>2. PICK j \in FromCursor(q, c) : Ahead(q, j, i)
  BY <1>1 DEF AfterSkip
<1>3. i \in FromCursor(q, c) /\ i \in Items /\ j \in Items
  BY <1>2 DEF AfterSkip, FromCursor, Matching
<1>4. ~Ahead(q, j, c) /\ ~Ahead(q, i, c)
  BY <1>1, <1>2, <1>3 DEF FromCursor
<1>5. i # c
  BY <1>2, <1>4
<1>. QED
  BY <1>3, <1>4, <1>5, AheadIsTotal DEF FromCursor

(* A marker that still matches selects all of that.                        *)
LEMMA AllBehindAreRows ==
    ASSUME RowsOK, NEW q \in Query, NEW c \in Matching,
           NEW i \in Matching, Ahead(q, c, i)
    PROVE  i \in AfterSkip(q, c)
<1>1. c \in Items /\ i \in Items
  BY DEF Matching
<1>2. c \in FromCursor(q, c) /\ i \in FromCursor(q, c)
  BY <1>1, AheadIsTotal DEF FromCursor, Matching, Stored
<1>. QED
  BY <1>2 DEF AfterSkip

(* A page is a beginning of the rows.                                      *)
LEMMA PageIsABeginning ==
    ASSUME RowsOK, NEW q \in Query, NEW rows \in SUBSET Items,
           NEW i \in PageOf(q, rows), NEW j \in rows, Ahead(q, j, i)
    PROVE  j \in PageOf(q, rows)
<1> DEFINE Before(k) == {l \in rows : Ahead(q, l, k)}
<1>1. i \in rows /\ Cardinality(Before(i)) < q.limit
  BY DEF PageOf
<1>2. Before(j) \subseteq Before(i)
  BY <1>1, AheadIsTotal
<1>3. IsFiniteSet(Before(i)) /\ IsFiniteSet(Before(j))
  BY ItemsAssumption, FS_Subset
<1>4. /\ Cardinality(Before(j)) <= Cardinality(Before(i))
      /\ Cardinality(Before(i)) \in Nat /\ Cardinality(Before(j)) \in Nat
  BY <1>2, <1>3, FS_Subset, FS_CardinalityType
<1>5. q.limit \in Nat
  BY DEF Query
<1>6. Cardinality(Before(j)) < q.limit
  BY <1>1, <1>4, <1>5
<1>. QED
  BY <1>6 DEF PageOf

(* The marker ends the page: the page is what lies on or before it.        *)
LEMMA MarkerEndsThePage ==
    ASSUME RowsOK, NEW q \in Query, NEW rows \in SUBSET Items,
           NEW last \in Markers(q, rows), NEW i \in rows
    PROVE  i \in PageOf(q, rows) <=> (i = last \/ Ahead(q, i, last))
BY PageIsABeginning DEF Markers

-----------------------------------------------------------------------------
(* The size of a page.  The code takes limit + 1 rows, keeps limit of them *)
(* and hands out the id of the last one it keeps.                          *)

RowsBefore(q, rows, i) == {j \in rows : Ahead(q, j, i)}

(* The rows before a row are fewer than all, and fewer still before a row  *)
(* that is ahead of it.                                                    *)
LEMMA FewerAreBefore ==
    ASSUME RowsOK, NEW q \in Query, NEW rows \in SUBSET Items,
           NEW i \in rows, NEW j \in rows
    PROVE  /\ Cardinality(RowsBefore(q, rows, i)) \in 0 .. Cardinality(rows) - 1
           /\ Ahead(q, i, j) =>
                Cardinality(RowsBefore(q, rows, i)) < Cardinality(RowsBefore(q, rows, j))
<1> DEFINE Before(k) == RowsBefore(q, rows, k)
<1>1. IsFiniteSet(rows) /\ Cardinality(rows) \in Nat
  BY ItemsAssumption, FS_Subset, FS_CardinalityType
<1>2. \A k \in {i, j} : Before(k) \in SUBSET rows /\ k \notin Before(k)
  BY AheadIsTotal DEF RowsBefore
<1>3. \A k \in {i, j} : IsFiniteSet(Before(k)) /\ Cardinality(Before(k)) \in Nat
  BY <1>1, <1>2, FS_Subset, FS_CardinalityType
<1>4. Cardinality(Before(i)) <= Cardinality(rows)
  BY <1>1, <1>2, FS_Subset
<1>5. Cardinality(Before(i)) # Cardinality(rows)
  BY <1>1, <1>2, FS_Subset
<1>6. ASSUME Ahead(q, i, j)
      PROVE  Cardinality(Before(i)) < Cardinality(Before(j))
  <2>1. Before(i) \in SUBSET Before(j)
    BY <1>6, AheadIsTotal DEF RowsBefore
  <2>2. i \in Before(j) /\ i \notin Before(i)
    BY <1>2, <1>6 DEF RowsBefore
  <2>3. /\ Cardinality(Before(i)) <= Cardinality(Before(j))
        /\ Cardinality(Before(i)) # Cardinality(Before(j))
    BY <1>3, <2>1, <2>2, FS_Subset
  <2>. QED
    BY <1>3, <2>3
<1>. QED
  BY <1>1, <1>3, <1>4, <1>5, <1>6

(* So every rank from the first to the last is taken by exactly one row.   *)
LEMMA RowsAreRanked ==
    ASSUME RowsOK, NEW q \in Query, NEW rows \in SUBSET Items
    PROVE  [i \in rows |-> Cardinality(RowsBefore(q, rows, i))]
             \in Bijection(rows, 0 .. Cardinality(rows) - 1)
<1> DEFINE ranks == 0 .. Cardinality(rows) - 1
           rank == [i \in rows |-> Cardinality(RowsBefore(q, rows, i))]
<1>1. Cardinality(rows) \in Nat
  BY ItemsAssumption, FS_Subset, FS_CardinalityType
<1>2. rank \in [rows -> ranks]
  BY FewerAreBefore
<1>3. ASSUME NEW i \in rows, NEW j \in rows, i # j
      PROVE  rank[i] # rank[j]
  <2>1. Ahead(q, i, j) \/ Ahead(q, j, i)
    BY <1>3, AheadIsTotal
  <2>2. rank[i] \in Nat /\ rank[j] \in Nat
    BY <1>1, <1>2
  <2>. QED
    BY <2>1, <2>2, FewerAreBefore
<1>4. rank \in Injection(rows, ranks)
  BY <1>2, <1>3 DEF Injection, IsInjective
<1>5. IsFiniteSet(ranks) /\ Cardinality(ranks) = Cardinality(rows)
  BY <1>1, FS_Interval
<1>6. rank \in Surjection(rows, ranks)
  BY <1>4, <1>5, FS_Injection
<1>. QED
  BY <1>4, <1>6 DEF Bijection

(* A page holds as many items as were asked for, unless it is the last,    *)
(* which holds all that is left; and a page that is not the last has       *)
(* exactly one last row, so that there is one nextCursor to hand out       *)
(* (ItemsService.list, page.at(-1)).                                       *)
THEOREM PagesAreFull ==
    ASSUME RowsOK, NEW q \in Query, NEW rows \in SUBSET Items
    PROVE  IF hasMore(q, rows)
             THEN /\ Cardinality(PageOf(q, rows)) = q.limit
                  /\ \E last \in rows : Markers(q, rows) = {last}
             ELSE PageOf(q, rows) = rows
<1> DEFINE n == Cardinality(rows)
           rank == [i \in rows |-> Cardinality(RowsBefore(q, rows, i))]
           page == PageOf(q, rows)
<1>1. n \in Nat /\ q.limit \in Nat /\ q.limit > 0
  <2>1. n \in Nat
    BY ItemsAssumption, FS_Subset, FS_CardinalityType
  <2>2. q.limit \in Nat \ {0}
    BY DEF Query
  <2>. QED
    BY <2>1, <2>2
<1>2. rank \in Bijection(rows, 0 .. n - 1)
  BY RowsAreRanked
<1>3. /\ \A i \in rows : rank[i] \in 0 .. n - 1
      /\ \A i, j \in rows : rank[i] = rank[j] => i = j
      /\ \A k \in 0 .. n - 1 : \E i \in rows : rank[i] = k
  BY <1>2 DEF Bijection, Injection, Surjection, IsInjective
<1>4. page = {i \in rows : rank[i] < q.limit}
  BY DEF PageOf, RowsBefore
<1>5. \A i, j \in rows : rank[i] < rank[j] => Ahead(q, i, j)
  <2>1. SUFFICES ASSUME NEW i \in rows, NEW j \in rows, rank[i] < rank[j]
                 PROVE  Ahead(q, i, j)
    OBVIOUS
  <2>2. rank[i] \in Nat /\ rank[j] \in Nat
    BY <1>1, <1>3
  <2>3. i # j /\ ~Ahead(q, j, i)
    BY <2>1, <2>2, FewerAreBefore
  <2>. QED
    BY <2>3, AheadIsTotal
<1> HIDE DEF rank
<1>6. CASE ~hasMore(q, rows)
  <2>1. n <= q.limit
    BY <1>1, <1>6 DEF hasMore
  <2>2. \A i \in rows : rank[i] < q.limit
    BY <1>1, <1>3, <2>1
  <2>. QED
    BY <1>4, <1>6, <2>2
<1>7. CASE hasMore(q, rows)
  <2>1. n > q.limit
    BY <1>1, <1>7 DEF hasMore
  <2> DEFINE kept == 0 .. q.limit - 1
             f == [i \in page |-> rank[i]]
  <2>2. f \in [page -> kept]
    BY <1>1, <1>3, <1>4
  <2>3. f \in Injection(page, kept)
    BY <1>3, <1>4, <2>2 DEF Injection, IsInjective
  <2>4. f \in Surjection(page, kept)
    <3>1. SUFFICES ASSUME NEW k \in kept
                   PROVE  \E i \in page : f[i] = k
      BY <2>2 DEF Surjection
    <3>2. k \in 0 .. n - 1 /\ k < q.limit
      BY <1>1, <2>1
    <3>. QED
      BY <1>3, <1>4, <3>2
  <2>5. IsFiniteSet(kept) /\ Cardinality(kept) = q.limit
    <3>1. 0 \in Int /\ q.limit - 1 \in Int
      BY <1>1
    <3>2. /\ IsFiniteSet(kept)
          /\ Cardinality(kept) = IF 0 > q.limit - 1 THEN 0 ELSE q.limit - 1 - 0 + 1
      BY <3>1, FS_Interval
    <3>. QED
      BY <1>1, <3>2
  <2>6. Cardinality(page) = q.limit
    BY <2>3, <2>4, <2>5, FS_Injection
  <2>7. q.limit - 1 \in 0 .. n - 1
    BY <1>1, <2>1
  <2>8. PICK last \in rows : rank[last] = q.limit - 1
    BY <1>3, <2>7
  <2>9. last \in page
    BY <1>1, <1>4, <2>8
  <2>10. \A i \in page : i = last \/ Ahead(q, i, last)
    <3>1. SUFFICES ASSUME NEW i \in page, i # last
                   PROVE  Ahead(q, i, last)
      OBVIOUS
    <3>2. i \in rows /\ rank[i] < q.limit /\ rank[i] \in Nat
      BY <1>1, <1>3, <1>4
    <3>3. rank[i] # rank[last]
      BY <1>3, <3>1, <3>2
    <3>. QED
      BY <1>1, <1>5, <2>8, <3>2, <3>3
  <2>11. \A i \in page : Ahead(q, last, i) => ~Ahead(q, i, last)
    BY <1>4, AheadIsTotal
  <2>12. Markers(q, rows) = {last}
    BY <2>9, <2>10, <2>11 DEF Markers
  <2>. QED
    BY <1>7, <2>6, <2>12
<1>. QED
  BY <1>6, <1>7

-----------------------------------------------------------------------------
(* A page.                                                                 *)

\* What MarkerDivides says, of any walk.
Divides(w) ==
    /\ w.intact => \A i \in w.steady : i \in w.shown <=> Passed(w, i)
    /\ w.query.sortBy = "discoveredAt" =>
          /\ w.at = discoveredAt[w.cursor]
          /\ \A i \in w.shown : Passed(w, i)

Unrepeated(w) ==
    /\ w.query.sortBy = "discoveredAt" => w.twice = {}
    /\ w.intact => w.twice \intersect w.steady = {}

\* A walk about to ask for a page.
Ready(w) ==
    /\ w \in Walk
    /\ w.query \in Queries
    /\ w.steady \subseteq Matching
    /\ IF w.cursor = None THEN w.shown = {} ELSE Divides(w)
    /\ Unrepeated(w)

(* The rows of a page have been shown already only where they moved.       *)
LEMMA ShownIsPassed ==
    ASSUME RowsOK, NEW w, Ready(w), w.cursor # None,
           NEW i \in AfterSkip(w.query, w.cursor) \intersect w.shown
    PROVE  /\ w.query.sortBy # "discoveredAt"
           /\ w.intact /\ MarkerHolds(w) => i \notin w.steady
<1> DEFINE q == w.query
           c == w.cursor
<1>1. q \in Query /\ c \in Items
  BY QueriesAssumption DEF Ready, Walk
<1>2. i \in Items /\ Ahead(q, c, i)
  BY <1>1, RowsAreBehind DEF Matching
<1>3. i # c /\ ~Ahead(q, i, c)
  BY <1>1, <1>2, AheadIsTotal
<1>4. w.at = SortKey(q, c) => ~Passed(w, i)
  BY <1>3 DEF Passed, Ahead
<1>5. q.sortBy # "discoveredAt"
  <2>1. SUFFICES ASSUME q.sortBy = "discoveredAt"
                 PROVE  FALSE
    OBVIOUS
  <2>2. w.at = SortKey(q, c) /\ Passed(w, i)
    BY <2>1 DEF Ready, Divides, SortKey
  <2>. QED
    BY <2>2, <1>4
<1>6. w.intact /\ MarkerHolds(w) => i \notin w.steady
  <2>1. SUFFICES ASSUME w.intact, MarkerHolds(w), i \in w.steady
                 PROVE  FALSE
    OBVIOUS
  <2>2. w.at = SortKey(q, c)
    BY <2>1 DEF MarkerHolds
  <2>3. Passed(w, i)
    BY <2>1 DEF Ready, Divides
  <2>. QED
    BY <2>2, <2>3, <1>4
<1>. QED
  BY <1>5, <1>6

(* With a marker that holds, what is left alone is behind it, and in the   *)
(* rows of the page, or has been shown.                                    *)
LEMMA ShownOrInTheRows ==
    ASSUME RowsOK, NEW w, Ready(w), w.intact, MarkerHolds(w),
           NEW i \in w.steady
    PROVE  i \in w.shown \/ i \in AfterSkip(w.query, w.cursor)
<1>1. i \in Matching /\ i \in Items
  BY DEF Ready, Matching
<1>2. CASE w.cursor = None
  BY <1>1, <1>2, FirstRows
<1>3. CASE w.cursor # None
  <2> DEFINE q == w.query
             c == w.cursor
  <2>1. q \in Query /\ c \in Matching /\ c \in Items /\ w.at = SortKey(q, c)
    BY <1>3, QueriesAssumption DEF Ready, MarkerHolds, Matching
  <2>2. i \in w.shown <=> Passed(w, i)
    BY <1>3 DEF Ready, Divides
  <2>3. Passed(w, i) \/ Ahead(q, c, i)
    BY <1>1, <2>1, AheadIsTotal DEF Passed, Ahead
  <2>. QED
    BY <1>1, <2>1, <2>2, <2>3, AllBehindAreRows
<1>. QED
  BY <1>2, <1>3

(* What the last page leaves.                                              *)
LEMMA LastPage ==
    ASSUME RowsOK, NEW w, Ready(w),
           walk' = [Shown(w, AfterSkip(w.query, w.cursor)) EXCEPT
                       !.pc = "done", !.cursor = None],
           UNCHANGED row
    PROVE  PagingIndInv'
<1> DEFINE rows == AfterSkip(w.query, w.cursor)
<1>1. rows \subseteq Items
  BY DEF AfterSkip, FromCursor, Matching
<1>2. /\ walk' \in Walk
      /\ walk'.pc = "done"
      /\ walk'.query = w.query
      /\ walk'.steady = w.steady
      /\ walk'.shown = w.shown \union rows
      /\ walk'.twice = w.twice \union (w.shown \intersect rows)
      /\ walk'.intact = (w.intact /\ MarkerHolds(w))
  BY <1>1 DEF Ready, Walk, Shown, MarkerHolds
<1>3. w.cursor = None => w.shown = {}
  BY DEF Ready
<1>4. NothingIsRepeated'
  BY <1>2, <1>3, ShownIsPassed DEF NothingIsRepeated, Ready, Unrepeated
<1>5. NothingSteadyIsSkipped'
  BY <1>2, ShownOrInTheRows DEF NothingSteadyIsSkipped
<1>6. \A i \in walk'.steady : row'[i].state = "listed"
  BY <1>2 DEF Ready, Matching
<1>7. PagingTypeOK'
  BY <1>2 DEF PagingTypeOK, RowsOK, Ready
<1>. QED
  BY <1>2, <1>4, <1>5, <1>6, <1>7 DEF PagingIndInv, MarkerDivides

(* What a page with a successor leaves.                                    *)
LEMMA PageBefore ==
    ASSUME RowsOK, NEW w, Ready(w),
           NEW last \in Markers(w.query, AfterSkip(w.query, w.cursor)),
           walk' = [Shown(w, PageOf(w.query, AfterSkip(w.query, w.cursor))) EXCEPT
                       !.pc = "paging",
                       !.cursor = last,
                       !.at = SortKey(w.query, last)],
           UNCHANGED row
    PROVE  PagingIndInv'
<1> DEFINE q == w.query
           c == w.cursor
           rows == AfterSkip(q, c)
           page == PageOf(q, rows)
<1>1. rows \subseteq Items /\ page \subseteq rows /\ last \in page
  BY DEF AfterSkip, FromCursor, Matching, PageOf, Markers
<1>2. q \in Query /\ last \in Items /\ SortKey(q, last) \in Nat
  BY <1>1, KeysAreNumbers, QueriesAssumption DEF Ready
<1> HIDE DEF page, rows
<1>3. /\ walk' \in Walk
      /\ walk'.pc = "paging"
      /\ walk'.query = q
      /\ walk'.cursor = last
      /\ walk'.at = SortKey(q, last)
      /\ walk'.steady = w.steady
      /\ walk'.shown = w.shown \union page
      /\ walk'.twice = w.twice \union (w.shown \intersect page)
      /\ walk'.intact = (w.intact /\ MarkerHolds(w))
  <2>1. walk' = [Shown(w, page) EXCEPT !.pc = "paging", !.cursor = last,
                                       !.at = SortKey(q, last)]
    BY DEF page, rows
  <2>2. w \in Walk /\ page \subseteq Items /\ MarkerHolds(w) \in BOOLEAN
    BY <1>1 DEF Ready, MarkerHolds
  <2>3. /\ Shown(w, page) \in Walk
        /\ Shown(w, page).query = q
        /\ Shown(w, page).steady = w.steady
        /\ Shown(w, page).shown = w.shown \union page
        /\ Shown(w, page).twice = w.twice \union (w.shown \intersect page)
        /\ Shown(w, page).intact = (w.intact /\ MarkerHolds(w))
    BY <2>2 DEF Walk, Shown
  <2>. QED
    BY <2>1, <2>3, <1>2 DEF Walk
<1>4. w.cursor = None => w.shown = {}
  BY DEF Ready
<1>5. w.cursor # None => \A i \in rows \intersect w.shown :
          /\ q.sortBy # "discoveredAt"
          /\ w.intact /\ MarkerHolds(w) => i \notin w.steady
  BY ShownIsPassed DEF rows
<1>6. NothingIsRepeated'
  BY <1>1, <1>3, <1>4, <1>5 DEF NothingIsRepeated, Ready, Unrepeated
<1>7. NothingSteadyIsSkipped'
  BY <1>3 DEF NothingSteadyIsSkipped
<1>8. \A i \in walk'.steady : row'[i].state = "listed"
  BY <1>3 DEF Ready, Matching
<1>9. PagingTypeOK'
  BY <1>2, <1>3 DEF PagingTypeOK, RowsOK, Ready
<1>10. \A i \in Items : Passed(walk, i)' <=> (i = last \/ Ahead(q, i, last))
  BY <1>3 DEF Passed, Ahead, SortKey
<1>11. \A i \in rows : i \in page <=> Passed(walk, i)'
  BY <1>1, <1>2, <1>10, MarkerEndsThePage DEF page, rows
<1>12. w.cursor # None => c \in Items /\ Ahead(q, c, last)
  BY <1>1, <1>2, RowsAreBehind DEF rows, Ready, Walk
<1>13. \A i \in Items : w.cursor # None /\ (i = c \/ Ahead(q, i, c))
                           => Passed(walk, i)'
  BY <1>2, <1>10, <1>12, AheadIsTotal
<1>14. walk'.intact => \A i \in walk'.steady :
          i \in walk'.shown <=> Passed(walk, i)'
  <2>1. SUFFICES ASSUME w.intact, MarkerHolds(w), NEW i \in w.steady
                 PROVE  i \in w.shown \union page <=> Passed(walk, i)'
    BY <1>3
  <2>2. i \in Items
    BY DEF Ready, Matching
  <2>3. i \in w.shown => Passed(walk, i)'
    <3>1. SUFFICES ASSUME i \in w.shown
                   PROVE  Passed(walk, i)'
      OBVIOUS
    <3>2. w.cursor # None /\ Passed(w, i)
      BY <2>1, <3>1, <1>4 DEF Ready, Divides
    <3>3. w.at = SortKey(q, c)
      BY <2>1, <3>2 DEF MarkerHolds
    <3>4. i = c \/ Ahead(q, i, c)
      BY <3>2, <3>3 DEF Passed, Ahead
    <3>. QED
      BY <2>2, <3>2, <3>4, <1>13
  <2>4. i \in w.shown \/ i \in rows
    BY <2>1, ShownOrInTheRows DEF rows
  <2>. QED
    BY <2>3, <2>4, <1>1, <1>11
<1>15. walk'.query.sortBy = "discoveredAt" =>
          /\ walk'.at = discoveredAt[walk'.cursor]
          /\ \A i \in walk'.shown : Passed(walk, i)'
  <2>1. SUFFICES ASSUME q.sortBy = "discoveredAt"
                 PROVE  /\ walk'.at = discoveredAt[walk'.cursor]
                        /\ \A i \in w.shown \union page : Passed(walk, i)'
    BY <1>3
  <2>2. walk'.at = discoveredAt[walk'.cursor]
    BY <2>1, <1>3 DEF SortKey
  <2>3. ASSUME NEW i \in w.shown
        PROVE  Passed(walk, i)'
    <3>1. i \in Items
      BY DEF Ready, Walk
    <3>2. w.cursor # None /\ Passed(w, i) /\ w.at = SortKey(q, c)
      BY <2>1, <1>4 DEF Ready, Divides, SortKey
    <3>3. i = c \/ Ahead(q, i, c)
      BY <3>2 DEF Passed, Ahead
    <3>. QED
      BY <3>1, <3>2, <3>3, <1>13
  <2>. QED
    BY <2>2, <2>3, <1>1, <1>11
<1>16. MarkerDivides'
  BY <1>14, <1>15 DEF MarkerDivides
<1>. QED
  BY <1>6, <1>7, <1>8, <1>9, <1>16 DEF PagingIndInv

(* So a page keeps the invariant.                                          *)
LEMMA PagePreserves ==
    ASSUME RowsOK, NEW w, Ready(w), list(w)
    PROVE  PagingIndInv'
BY LastPage, PageBefore DEF list

-----------------------------------------------------------------------------
(* A row.                                                                  *)

(* A write to a row keeps the invariant: the item it wrote is no longer    *)
(* one that is left alone, and the key of the marker is remembered.        *)
LEMMA RewritePreserves ==
    ASSUME PagingIndInv, NEW i \in Items, NEW new \in Row, Rewrite(i, new)
    PROVE  PagingIndInv'
<1>1. /\ row \in [Items -> Row]
      /\ walk \in Walk
  BY DEF PagingIndInv, PagingTypeOK
<1>2. /\ row' \in [Items -> Row]
      /\ \A k \in Items : k # i => row'[k] = row[k]
  BY <1>1 DEF Rewrite
<1>3. /\ walk' \in Walk
      /\ walk'.pc = walk.pc
      /\ walk'.query = walk.query
      /\ walk'.cursor = walk.cursor
      /\ walk'.at = walk.at
      /\ walk'.intact = walk.intact
      /\ walk'.shown = walk.shown
      /\ walk'.twice = walk.twice
      /\ walk'.steady = walk.steady \ {i}
  BY <1>1 DEF Rewrite, Walk
<1>4. walk.steady \subseteq Items /\ walk.shown \subseteq Items
  BY <1>1 DEF Walk
<1>5. PagingTypeOK'
  BY <1>2, <1>3 DEF PagingIndInv, PagingTypeOK
<1>6. \A k \in walk'.steady : row'[k].state = "listed"
  BY <1>2, <1>3, <1>4 DEF PagingIndInv
<1>7. ASSUME NEW k \in Items, k # i \/ walk.query.sortBy = "discoveredAt"
      PROVE  Passed(walk, k)' <=> Passed(walk, k)
  <2>1. SortKey(walk.query, k)' = SortKey(walk.query, k)
    BY <1>2, <1>3, <1>7 DEF SortKey
  <2>. QED
    BY <2>1, <1>3 DEF Passed
<1>8. MarkerDivides'
  BY <1>3, <1>4, <1>7 DEF PagingIndInv, MarkerDivides
<1>9. NothingIsRepeated' /\ NothingSteadyIsSkipped'
  BY <1>3 DEF PagingIndInv, NothingIsRepeated, NothingSteadyIsSkipped
<1>. QED
  BY <1>5, <1>6, <1>8, <1>9 DEF PagingIndInv

-----------------------------------------------------------------------------
(* The theorems.                                                           *)

LEMMA PagingInit == Init => PagingIndInv
<1>1. SUFFICES ASSUME Init
               PROVE  PagingIndInv
  OBVIOUS
<1>2. row \in [Items -> Row]
  BY <1>1 DEF Init, Row
<1>3. NoWalk \in Walk
  BY DEF NoWalk, Walk
<1>4. walk.pc = "idle" /\ walk.steady = {}
  BY <1>1 DEF Init, NoWalk
<1>. QED
  BY <1>1, <1>2, <1>3, <1>4
  DEF Init, PagingIndInv, PagingTypeOK, MarkerDivides, NothingIsRepeated,
      NothingSteadyIsSkipped

(* A new walk is ready for its first page.                                 *)
LEMMA FirstIsReady ==
    ASSUME PagingIndInv, NEW q \in Queries
    PROVE  Ready([NoWalk EXCEPT !.query = q, !.steady = Matching])
BY DEF Ready, NoWalk, Walk, Matching, Unrepeated

(* A walk under way is ready for its next page.                            *)
LEMMA NextIsReady ==
    ASSUME PagingIndInv, walk.pc = "paging"
    PROVE  Ready(walk)
<1>1. walk \in Walk /\ walk.query \in Queries /\ walk.cursor \in Items
  BY DEF PagingIndInv, PagingTypeOK
<1>2. walk.cursor # None
  BY <1>1, ItemsAssumption
<1>3. walk.steady \subseteq Matching
  BY <1>1 DEF PagingIndInv, Walk, Matching
<1>. QED
  BY <1>1, <1>2, <1>3
  DEF Ready, Divides, Unrepeated, PagingIndInv, MarkerDivides, NothingIsRepeated

LEMMA PagingNext == PagingIndInv /\ [Next]_pagingVars => PagingIndInv'
<1>1. SUFFICES ASSUME PagingIndInv, [Next]_pagingVars
               PROVE  PagingIndInv'
  OBVIOUS
<1>2. RowsOK
  BY <1>1 DEF PagingIndInv, PagingTypeOK, RowsOK
<1>3. ASSUME NEW i \in Items, Appear(i) \/ Change(i)
      PROVE  PagingIndInv'
  <2>1. PICK state \in States, price \in Prices :
            Rewrite(i, [state |-> state, price |-> price])
    BY <1>3 DEF Appear, Change
  <2>2. [state |-> state, price |-> price] \in Row
    BY DEF Row, States
  <2>. QED
    BY <1>1, <2>1, <2>2, RewritePreserves
<1>4. ASSUME NEW i \in Items, Disappear(i)
      PROVE  PagingIndInv'
  <2>1. [state |-> "gone", price |-> 0] \in Row
    BY DEF Row
  <2>. QED
    BY <1>1, <1>4, <2>1, RewritePreserves DEF Disappear
<1>5. ASSUME NEW q \in Queries, FirstPage(q)
      PROVE  PagingIndInv'
  BY <1>1, <1>2, <1>5, FirstIsReady, PagePreserves DEF FirstPage
<1>6. CASE NextPage
  BY <1>1, <1>2, <1>6, NextIsReady, PagePreserves DEF NextPage
<1>7. CASE UNCHANGED pagingVars
  BY <1>1, <1>7
  DEF pagingVars, PagingIndInv, PagingTypeOK, MarkerDivides, Passed, SortKey,
      NothingIsRepeated, NothingSteadyIsSkipped
<1>. QED
  BY <1>1, <1>3, <1>4, <1>5, <1>6, <1>7 DEF Next

(* After every page the marker divides what is left alone into what was    *)
(* shown and what was not.                                                 *)
THEOREM PagingIndInvHolds == Spec => []PagingIndInv
BY PagingInit, PagingNext, PTL DEF Spec

(* A walk by discovery time never shows an item twice, whatever happens to *)
(* the items between its pages; by price it does not as long as item and   *)
(* markers are left alone (ItemPaging, NothingIsRepeated).                 *)
THEOREM NoItemTwice == Spec => []NothingIsRepeated
<1>1. PagingIndInv => NothingIsRepeated
  BY DEF PagingIndInv
<1> QED
  BY <1>1, PagingIndInvHolds, PTL

(* A walk whose markers are left alone shows every item that is left alone *)
(* (ItemPaging, NothingSteadyIsSkipped).                                   *)
THEOREM NoItemMissed == Spec => []NothingSteadyIsSkipped
<1>1. PagingIndInv => NothingSteadyIsSkipped
  BY DEF PagingIndInv
<1> QED
  BY <1>1, PagingIndInvHolds, PTL

(* A walk by discovery time gets on by a whole page each time, so with     *)
(* finitely many items it ends: it has shown at most all of them           *)
(* (ItemPaging, WalksAdvance).                                             *)
THEOREM WalksDoAdvance == Spec => WalksAdvance
<1> DEFINE Advances ==
        NextPage /\ walk.query.sortBy = "discoveredAt" /\ walk'.pc = "paging" =>
            Cardinality(walk'.shown) = Cardinality(walk.shown) + walk.query.limit
<1>1. ASSUME PagingIndInv, NextPage, walk.query.sortBy = "discoveredAt",
             walk'.pc = "paging"
      PROVE  Cardinality(walk'.shown) = Cardinality(walk.shown) + walk.query.limit
  <2> DEFINE rows == AfterSkip(walk.query, walk.cursor)
             page == PageOf(walk.query, rows)
  <2>1. RowsOK /\ walk.pc = "paging" /\ Ready(walk)
    BY <1>1, NextIsReady DEF NextPage, PagingIndInv, PagingTypeOK, RowsOK
  <2>2. walk.query \in Query /\ walk \in Walk /\ walk.cursor # None
    BY <1>1, <2>1, QueriesAssumption, ItemsAssumption
    DEF PagingIndInv, PagingTypeOK
  <2>3. rows \in SUBSET Items
    BY DEF AfterSkip, FromCursor, Matching
  <2>4. hasMore(walk.query, rows) /\ walk'.shown = walk.shown \union page
    <3>1. CASE ~hasMore(walk.query, rows)
      BY <1>1, <2>2, <3>1 DEF NextPage, list, Shown, Walk
    <3>2. CASE hasMore(walk.query, rows)
      BY <1>1, <2>2, <3>2 DEF NextPage, list, Shown, Walk
    <3>. QED
      BY <3>1, <3>2
  <2>5. Cardinality(page) = walk.query.limit /\ page \subseteq rows
    BY <2>1, <2>2, <2>3, <2>4, PagesAreFull DEF PageOf
  <2>6. page \intersect walk.shown = {}
    BY <1>1, <2>1, <2>2, <2>5, ShownIsPassed
  <2>7. /\ IsFiniteSet(page) /\ IsFiniteSet(walk.shown)
        /\ Cardinality(page) \in Nat /\ Cardinality(walk.shown) \in Nat
    BY <2>2, <2>3, <2>5, ItemsAssumption, FS_Subset, FS_CardinalityType DEF Walk
  <2>8. /\ Cardinality(walk.shown \union page)
             = Cardinality(walk.shown) + Cardinality(page)
                 - Cardinality(walk.shown \intersect page)
        /\ Cardinality(walk.shown \intersect page) = 0
    BY <2>6, <2>7, FS_Union, FS_EmptySet
  <2>. QED
    BY <2>4, <2>5, <2>7, <2>8
<1>2. PagingIndInv /\ [Next]_pagingVars => [Advances]_pagingVars
  BY <1>1
<1> HIDE DEF Advances
<1>3. Spec => [][Advances]_pagingVars
  BY <1>2, PagingIndInvHolds, PTL DEF Spec
<1> QED
  BY <1>3 DEF Advances, WalksAdvance

=============================================================================
