----------------------------- MODULE ItemPaging -----------------------------
(***************************************************************************)
(* GET /items: one client walking its list page by page, by means of the   *)
(* cursor, while the items change underneath.                              *)
(*                                                                         *)
(* A page is one statement, so it sees the rows as they are committed when *)
(* it runs, and nothing holds between two pages.  Of a row only what the   *)
(* list looks at is kept: whether it passes the filter of the walk, and    *)
(* its price; how rows come to change is the subject of Items.             *)
(***************************************************************************)
EXTENDS Naturals, FiniteSets

CONSTANTS
    Items,         \* ids of the user's items, as PostgreSQL orders them
    Prices,        \* item prices
    discoveredAt,  \* item -> when it was discovered: fixed once written
    Queries,       \* what a client may ask for
    Filtered,      \* whether it asks for a status or a category
    None

ASSUME ItemsAssumption ==
    /\ Items \subseteq Nat /\ IsFiniteSet(Items)
    /\ None \notin Items
    /\ discoveredAt \in [Items -> Nat]

ASSUME PricesAssumption == Prices \subseteq Nat

ASSUME FilteredAssumption == Filtered \in BOOLEAN

Query == [sortBy : {"discoveredAt", "price"},
          order : {"asc", "desc"},
          limit : Nat \ {0}]

ASSUME QueriesAssumption == Queries \subseteq Query

VARIABLES
    row,           \* item -> its row, as far as the list looks at it
    walk           \* the client's walk, and what it has been shown

pagingVars == <<row, walk>>

-----------------------------------------------------------------------------
(* Rows.                                                                   *)

\* listed: passes the filter on status and category; hidden: does not.
Row == [state : {"unborn", "listed", "hidden", "gone"}, price : Prices \union {0}]

States == IF Filtered THEN {"listed", "hidden"} ELSE {"listed"}

Stored(i) == row[i].state \in {"listed", "hidden"}
Matching == {i \in Items : row[i].state = "listed"}

\* A statement of a writing request commits.
Rewrite(i, new) ==
    /\ row' = [row EXCEPT ![i] = new]
    /\ walk' = [walk EXCEPT !.steady = @ \ {i}]

\* With any discoveredAt in the past, so anywhere in the order.
Appear(i) ==
    /\ row[i].state = "unborn"
    /\ \E state \in States, price \in Prices :
          Rewrite(i, [state |-> state, price |-> price])

\* update changes price and category, updateStatus the status.
Change(i) ==
    /\ Stored(i)
    /\ \E state \in States, price \in Prices :
          Rewrite(i, [state |-> state, price |-> price])

Disappear(i) ==
    /\ Stored(i)
    /\ Rewrite(i, [state |-> "gone", price |-> 0])

-----------------------------------------------------------------------------
(* The statement behind a page.                                            *)

Below(v, i, w, j) == v < w \/ (v = w /\ i < j)

\* buildOrderBy: both columns in the direction asked for.
SortKey(q, i) == IF q.sortBy = "price" THEN row[i].price ELSE discoveredAt[i]
Ordered(q, v, i, w, j) ==
    IF q.order = "asc" THEN Below(v, i, w, j) ELSE Below(w, j, v, i)
Ahead(q, i, j) == Ordered(q, SortKey(q, i), i, SortKey(q, j), j)

\* Prisma looks the cursor's row up by its id alone, and compares the rows
\* that match with it, itself included; without that row there are none.
FromCursor(q, cursor) ==
    {i \in Matching :
        \/ cursor = None
        \/ Stored(cursor) /\ ~Ahead(q, i, cursor)}

NeverSkips(q, cursor) == FromCursor(q, cursor)  \* fault: no skip

\* skip: 1, whichever row is the first.
AfterSkip(q, cursor) ==
    {i \in FromCursor(q, cursor) :
        \/ cursor = None
        \/ \E j \in FromCursor(q, cursor) : Ahead(q, j, i)}

hasMore(q, rows) == Cardinality(rows) > q.limit

\* The rows before the limit.
PageOf(q, rows) ==
    {i \in rows : Cardinality({j \in rows : Ahead(q, j, i)}) < q.limit}

\* fault: the marker is the row beyond the page, and the next page skips it
MarksTheExtraRow(q, rows) ==
    LET beyond == rows \ PageOf(q, rows)
    IN  {i \in beyond : \A j \in beyond : j = i \/ Ahead(q, i, j)}

\* The last row of the page, for a nextCursor.
Markers(q, rows) ==
    {i \in PageOf(q, rows) :
        \A j \in PageOf(q, rows) : j = i \/ Ahead(q, j, i)}

-----------------------------------------------------------------------------
(* The walk.  Of its record the code knows the query and the cursor.  The  *)
(* rest is history: shown and twice are the items that were on some page   *)
(* and on two; steady, those that matched when the walk began and have not *)
(* been written since; at, the sort key the marker had when it was handed  *)
(* out; intact, that every marker was used while its row still matched and *)
(* still had that key.                                                     *)

Walk == [pc : {"idle", "paging", "done"},
         query : Queries \union {None},
         cursor : Items \union {None},
         at : Nat,
         intact : BOOLEAN,
         shown : SUBSET Items,
         twice : SUBSET Items,
         steady : SUBSET Items]

NoWalk == [pc |-> "idle", query |-> None, cursor |-> None, at |-> 0,
           intact |-> TRUE, shown |-> {}, twice |-> {}, steady |-> {}]

Init ==
    /\ row = [i \in Items |-> [state |-> "unborn", price |-> 0]]
    /\ walk = NoWalk

MarkerHolds(w) ==
    \/ w.cursor = None
    \/ w.cursor \in Matching /\ SortKey(w.query, w.cursor) = w.at

Shown(w, page) ==
    [w EXCEPT !.shown = @ \union page,
              !.twice = @ \union (w.shown \intersect page),
              !.intact = @ /\ MarkerHolds(w)]

\* ItemsService.list, called with the cursor of w.
list(w) ==
    LET rows == AfterSkip(w.query, w.cursor)
    IN  /\ \/ /\ ~hasMore(w.query, rows)
              /\ walk' = [Shown(w, rows) EXCEPT !.pc = "done", !.cursor = None]
           \/ /\ hasMore(w.query, rows)
              /\ \E last \in Markers(w.query, rows) :
                    walk' = [Shown(w, PageOf(w.query, rows)) EXCEPT
                               !.pc = "paging",
                               !.cursor = last,
                               !.at = SortKey(w.query, last)]
        /\ UNCHANGED row

FirstPage(q) == list([NoWalk EXCEPT !.query = q, !.steady = Matching])

NextPage == walk.pc = "paging" /\ list(walk)

Next ==
    \/ \E i \in Items : Appear(i) \/ Change(i) \/ Disappear(i)
    \/ \E q \in Queries : FirstPage(q)
    \/ NextPage

Spec == Init /\ [][Next]_pagingVars

-----------------------------------------------------------------------------
(* Properties.                                                             *)

(* "Without it two items sharing a discoveredAt (or a price) could         *)
(* straddle a page boundary and be repeated" (items.service.ts:204-208):   *)
(* by discovery time nothing is ever shown twice, whatever changes between *)
(* the pages; by price, which can be edited, nothing that is left alone    *)
(* is, as long as the markers are left alone too.                          *)
NothingIsRepeated ==
    walk.pc # "idle" =>
        /\ walk.query.sortBy = "discoveredAt" => walk.twice = {}
        /\ walk.intact => walk.twice \intersect walk.steady = {}

(* "... or skipped": whatever is added, edited and removed around it, an   *)
(* item that matches throughout has been shown when the last page has,     *)
(* provided that every marker still matched, unmoved, when it was used.    *)
NothingSteadyIsSkipped ==
    walk.pc = "done" /\ walk.intact => walk.steady \subseteq walk.shown

(* A walk by discovery time gets on: every page but the last shows limit   *)
(* items that were on no page before it, whatever was added, edited and    *)
(* removed meanwhile, and whatever became of the marker's row, so that a   *)
(* client that asks for as long as there is a nextCursor comes to the end  *)
(* (items.service.ts:76-99).                                               *)
WalksAdvance ==
    [][NextPage /\ walk.query.sortBy = "discoveredAt" /\ walk'.pc = "paging" =>
          Cardinality(walk'.shown) = Cardinality(walk.shown) + walk.query.limit
      ]_pagingVars

(* "A marker into the ordering stays correct while items are being added   *)
(* and removed, where an offset silently skips or repeats rows"            *)
(* (item-page.dto.ts:6-7): with no proviso about the marker's own row.     *)
MarkersStayCorrect ==
    walk.pc = "done" => walk.steady \subseteq walk.shown

-----------------------------------------------------------------------------
(* The inductive invariant behind the theorems of ItemPagingProofs.        *)

PagingTypeOK ==
    /\ row \in [Items -> Row]
    /\ walk \in Walk
    /\ walk.pc # "idle" => walk.query \in Queries
    /\ walk.pc = "paging" => walk.cursor \in Items

\* i is on or before the marker of w.
Passed(w, i) ==
    \/ i = w.cursor
    \/ Ordered(w.query, SortKey(w.query, i), i, w.at, w.cursor)

(* The marker divides the list: what is left alone before it has been      *)
(* shown, and what is left alone after it has not; by discovery time, with *)
(* keys that never change, nothing after it has been shown at all.         *)
MarkerDivides ==
    walk.pc = "paging" =>
        /\ walk.intact => \A i \in walk.steady : i \in walk.shown <=> Passed(walk, i)
        /\ walk.query.sortBy = "discoveredAt" =>
              /\ walk.at = discoveredAt[walk.cursor]
              /\ \A i \in walk.shown : Passed(walk, i)

PagingIndInv ==
    /\ PagingTypeOK
    /\ \A i \in walk.steady : row[i].state = "listed"
    /\ MarkerDivides
    /\ NothingIsRepeated
    /\ NothingSteadyIsSkipped

=============================================================================
