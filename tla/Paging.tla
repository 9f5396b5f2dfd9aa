------------------------------- MODULE Paging -------------------------------
(***************************************************************************)
(* The platform's listings: rows in the order of creation, newest first,   *)
(* read page by page with a cursor while rows are inserted and decided.    *)
(* A row carries the start of the transaction that inserts it, so it may   *)
(* appear behind a cursor.  The page keeps what it has loaded per filter,  *)
(* loads further pages and loads all of them again when it is invalidated. *)
(***************************************************************************)
EXTENDS Integers, Sequences, FiniteSets

CONSTANTS
    Ids,            \* ids of rows, numbers
    LastTime,       \* bound of the clock, in microseconds
    Filters,        \* the states a listing can be filtered by
    Limit,          \* rows of a page
    None

VARIABLES
    clock,
    row,            \* id -> [created, state, committed]
    filter,         \* the filter of the page
    shown,          \* filter -> the pages loaded for it, kept in the cache
    fetch           \* the load under way: its pages so far and how many it wants

vars == <<clock, row, filter, shown, fetch>>

Row == [created : 0 .. LastTime, state : Filters, committed : BOOLEAN]
Cursor == [created : 0 .. LastTime, id : Ids, status : Filters]
Page == [items : Seq(Ids), next : Cursor \cup {None}]
Load == [pages : Seq(Page), since : SUBSET Ids]
Fetching == [pages : Seq(Page), since : SUBSET Ids, want : Nat]

\* What the constants stand for: any ids in an order, and pages that hold a row.
ListingFits ==
    /\ Ids \subseteq Int /\ LastTime \in Nat /\ Limit \in Nat \ {0}
    /\ None \notin Cursor /\ None \notin Load /\ None \notin Fetching

\* "since": the rows that have been in the listing from the first page on.
PagingTypeOK ==
    /\ clock \in 0 .. LastTime
    /\ DOMAIN row \subseteq Ids /\ row \in [DOMAIN row -> Row]
    /\ filter \in Filters
    /\ \A load \in {fetch} \cup {shown[f] : f \in Filters} : load # None =>
          /\ \A i \in DOMAIN load.pages :
                load.pages[i] \in Page /\ Len(load.pages[i].items) <= Limit
          /\ load.since \subseteq DOMAIN row

Nothing == [pages |-> <<>>, since |-> {}]
Fetch(load, want) == [pages |-> load.pages, since |-> load.since, want |-> want]

Init ==
    /\ clock = 0
    /\ row = [id \in {} |-> None]
    /\ filter \in Filters
    /\ shown = [f \in Filters |-> Nothing]
    /\ fetch = Fetch(Nothing, 1)

-----------------------------------------------------------------------------
\* The query.

Listed(f) == {id \in DOMAIN row : row[id].committed /\ row[id].state = f}
Newer(a, b) ==
    \/ row[a].created > row[b].created
    \/ row[a].created = row[b].created /\ a > b

After_Created(id, cursor) == cursor = None \/ row[id].created < cursor.created
After(id, cursor) ==
    \/ cursor = None
    \/ row[id].created < cursor.created
    \/ row[id].created = cursor.created /\ id < cursor.id

\* encodeCursor keeps the microseconds of the database's timestamp.
EncodeCursor(id, f) == [created |-> row[id].created, id |-> id, status |-> f]

\* Newest first: a row has as many before it as its place says.
Newest(ids) ==
    [n \in 1 .. Cardinality(ids) |->
        CHOOSE id \in ids : Cardinality({x \in ids : Newer(x, id)}) = n - 1]

\* One row more than the page holds is read, to know whether there is a next.
ListPage_Unsliced(f, cursor) ==
    LET rows == Newest({id \in Listed(f) : After(id, cursor)}) IN
    [items |-> SubSeq(rows, 1, IF Len(rows) > Limit THEN Limit + 1 ELSE Len(rows)),
     next |-> IF Len(rows) > Limit THEN EncodeCursor(rows[Limit], f) ELSE None]
ListPage(f, cursor) ==
    LET rows == Newest({id \in Listed(f) : After(id, cursor)}) IN
    [items |-> SubSeq(rows, 1, IF Len(rows) > Limit THEN Limit ELSE Len(rows)),
     next |-> IF Len(rows) > Limit THEN EncodeCursor(rows[Limit], f) ELSE None]

-----------------------------------------------------------------------------
\* Rows.

Tick == clock < LastTime /\ clock' = clock + 1 /\ UNCHANGED <<row, filter, shown, fetch>>

\* The row's time is CURRENT_TIMESTAMP, the start of its transaction.
InsertRow(id, state) ==
    /\ id \notin DOMAIN row
    /\ row' = [x \in (DOMAIN row) \cup {id} |->
                 IF x = id THEN [created |-> clock, state |-> state, committed |-> FALSE]
                           ELSE row[x]]
    /\ UNCHANGED <<clock, filter, shown, fetch>>

CommitRow(id) ==
    /\ id \in DOMAIN row /\ ~row[id].committed
    /\ row' = [row EXCEPT ![id].committed = TRUE]
    /\ UNCHANGED <<clock, filter, shown, fetch>>

Without(load, id) == IF load = None THEN None ELSE [load EXCEPT !.since = @ \ {id}]

\* A decision or a lifecycle change moves the row to another listing.
ChangeRow(id, state) ==
    /\ id \in DOMAIN row /\ row[id].committed /\ row[id].state # state
    /\ row' = [row EXCEPT ![id].state = state]
    /\ shown' = [f \in Filters |-> Without(shown[f], id)]
    /\ fetch' = Without(fetch, id)
    /\ UNCHANGED <<clock, filter>>

-----------------------------------------------------------------------------
\* The page: an infinite query whose key holds the filter.

LastCursor(load) == IF load.pages = <<>> THEN None ELSE load.pages[Len(load.pages)].next
AtEnd(load) == load.pages # <<>> /\ LastCursor(load) = None

\* One request of the load under way; the load ends when it has the pages it
\* wants or there is no next page.
FetchPage ==
    /\ fetch # None
    /\ LET loaded == [fetch EXCEPT !.pages = Append(@, ListPage(filter, LastCursor(fetch))),
                                   !.since = IF fetch.pages = <<>> THEN Listed(filter) ELSE @]
           done == [pages |-> loaded.pages, since |-> loaded.since]
       IN IF Len(loaded.pages) >= fetch.want \/ AtEnd(loaded)
          THEN fetch' = None /\ shown' = [shown EXCEPT ![filter] = done]
          ELSE fetch' = loaded /\ UNCHANGED shown
    /\ UNCHANGED <<clock, row, filter>>

FetchFails ==
    /\ fetch # None
    /\ fetch' = None
    /\ UNCHANGED <<clock, row, filter, shown>>

\* "Load more" is shown while there is a next page.
LoadMore ==
    /\ fetch = None
    /\ shown[filter].pages # <<>> /\ ~AtEnd(shown[filter])
    /\ fetch' = Fetch(shown[filter], Len(shown[filter].pages) + 1)
    /\ UNCHANGED <<clock, row, filter, shown>>

\* An invalidation, or "Try again", loads as many pages as are shown, from the first.
Reload ==
    /\ fetch' = Fetch(Nothing, IF shown[filter].pages = <<>> THEN 1 ELSE Len(shown[filter].pages))
    /\ UNCHANGED <<clock, row, filter, shown>>

\* The load of the filter that is left is aborted; what the cache has for the
\* new one is shown and loaded again.
SelectFilter_KeepsPages(f) ==
    /\ f # filter
    /\ filter' = f
    /\ fetch' = Fetch(shown[filter], Len(shown[filter].pages) + 1)
    /\ UNCHANGED <<clock, row, shown>>
SelectFilter(f) ==
    /\ f # filter
    /\ filter' = f
    /\ fetch' = Fetch(Nothing, IF shown[f].pages = <<>> THEN 1 ELSE Len(shown[f].pages))
    /\ UNCHANGED <<clock, row, shown>>

Next ==
    \/ Tick \/ FetchPage \/ FetchFails \/ LoadMore \/ Reload
    \/ \E id \in Ids : CommitRow(id)
    \/ \E id \in Ids, f \in Filters : InsertRow(id, f) \/ ChangeRow(id, f)
    \/ \E f \in Filters : SelectFilter(f)

Spec == Init /\ [][Next]_vars

-----------------------------------------------------------------------------
\* A load has a row on one of its pages.
Has(load, id) ==
    \E i \in DOMAIN load.pages : \E n \in DOMAIN load.pages[i].items : load.pages[i].items[n] = id

\* A listing shows no row twice, whatever is inserted or decided between its
\* pages, and a listing read to its end shows every row that was there when its
\* first page was read and has stayed: rows of the same microsecond are neither
\* skipped nor repeated at the border of two pages.
ListedOnce ==
    \A f \in Filters :
        /\ \A i, j \in DOMAIN shown[f].pages :
              \A m \in DOMAIN shown[f].pages[i].items, n \in DOMAIN shown[f].pages[j].items :
                  shown[f].pages[i].items[m] = shown[f].pages[j].items[n] => i = j /\ m = n
        /\ AtEnd(shown[f]) => \A id \in shown[f].since : Has(shown[f], id)

\* A request for a page carries a cursor of its own listing: the server never
\* refuses it with invalid_cursor, although cursors hold the status they are for.
CursorsFitTheListing ==
    fetch # None /\ LastCursor(fetch) # None => LastCursor(fetch).status = filter

\* A listing reads each row once, with its own cursors and pages of their size.
ListingsConsistent == PagingTypeOK /\ ListedOnce /\ CursorsFitTheListing
=============================================================================
