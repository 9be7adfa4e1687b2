------------------------------ MODULE Listings ------------------------------
(***************************************************************************)
(* Listings that are read page by page while rows come, change and go: an  *)
(* owner's trades (packages/trade-api/src/index.ts, listTrades), sorted by *)
(* the service, and his orders (packages/adapters/src/trading.ts,          *)
(* listOrders), sorted by the database; listFills is like the latter.      *)
(*                                                                         *)
(* Times are the database's, finer than the millisecond of a date.  A      *)
(* reader follows the cursor of one query to its end.                      *)
(***************************************************************************)
EXTENDS Integers, FiniteSets

CONSTANTS
    RowId,       \* ids, ordered like the strings they stand for
    Queries,     \* what may be asked for: resource, source, sort, direction
    NoQuery, NoCursor,
    Milli,       \* units of time in a millisecond
    PageSize,
    RowLimit,    \* rows of one table that listTrades looks at (1000)
    MaxNow       \* bound on the time

\* Orders are asked for by their last change, the latest first, and in no other way.
Orders == [resource |-> "orders", source |-> "own", sort |-> "updatedAt", direction |-> "desc"]
Trades == [resource : {"trades"}, source : {"own", "subscriptions", "all"},
           sort : {"occurredAt", "updatedAt"}, direction : {"asc", "desc"}]
Cursor == [key : Nat, id : RowId]

ASSUME ListingAssumption ==
    /\ RowId \subseteq Nat /\ MaxNow \in Nat
    /\ Milli \in Nat \ {0} /\ PageSize \in Nat \ {0} /\ RowLimit \in Nat
    /\ Queries \subseteq Trades \union {Orders} /\ NoQuery \notin Queries
    /\ NoCursor \notin Cursor

VARIABLES
    now,
    rows,        \* [RowId -> row]
    query,       \* the query that is being read
    cursor, ended,
    listed,      \* how often each row has been listed
    steady,      \* rows there since the first page, with the key they had then
    ends,        \* times of the last rows of the pages before this one
    crowded      \* did a page leave out rows for RowLimit?

rowVars == <<now, rows>>
readerVars == <<query, cursor, ended, listed, ends, crowded>>
listingVars == <<rowVars, readerVars, steady>>

NoRow == [source |-> "none"]
Wiped == [source |-> "wiped"]   \* what is behind the cursor is not collected again

ListingsInit ==
    /\ now = 0 /\ rows = [id \in RowId |-> NoRow]
    /\ query = NoQuery /\ cursor = NoCursor /\ ended = FALSE
    /\ listed = [id \in RowId |-> 0] /\ steady = {} /\ ends = {} /\ crowded = FALSE

-----------------------------------------------------------------------------
(* Rows.                                                                    *)
Add(id, source, occurredAt) ==
    /\ rows[id] = NoRow
    /\ rows' = [rows EXCEPT ![id] =
                  [source |-> source, occurredAt |-> occurredAt, updatedAt |-> now]]
    /\ UNCHANGED <<now, readerVars, steady>>

\* A trade of the owner, or his order.
AddOwn(id) == Add(id, "own", now)

\* A trade of a watched address, which occurred when its block was made.
AddSubscribed(id, block) == block % Milli = 0 /\ Add(id, "subscriptions", block)

\* updated_at
TouchRow(id) ==
    /\ rows[id] \notin {NoRow, Wiped} /\ rows[id].updatedAt < now
    /\ rows' = [rows EXCEPT ![id].updatedAt = now]
    /\ steady' = IF query # NoQuery /\ query.sort = "updatedAt" THEN steady \ {id} ELSE steady
    /\ UNCHANGED <<now, readerVars>>

\* What was collected is wiped.
WipeRows ==
    LET gone == {id \in RowId : rows[id].source = "subscriptions"}
    IN  /\ gone # {}
        /\ rows' = [id \in RowId |-> IF id \in gone THEN Wiped ELSE rows[id]]
        /\ steady' = steady \ gone
        /\ UNCHANGED <<now, readerVars>>

Elapse == now < MaxNow /\ now' = now + 1 /\ UNCHANGED <<rows, readerVars, steady>>

-----------------------------------------------------------------------------
(* Pages.                                                                   *)
Matching(q) == {id \in RowId : rows[id].source \in (IF q.source = "all" THEN {"own", "subscriptions"}
                                                                         ELSE {q.source})}

\* SELECT ... LIMIT, without an order, from each of the tables of trades.
Fetched(q) ==
    IF q.resource = "orders" THEN {Matching(q)}
    ELSE {S \in SUBSET Matching(q) : \A source \in {"own", "subscriptions"} :
            LET Of(T) == {id \in T : rows[id].source = source}
            IN  Cardinality(Of(S)) = IF Cardinality(Of(Matching(q))) < RowLimit
                                       THEN Cardinality(Of(Matching(q))) ELSE RowLimit}

\* The service sees dates, the database what it stored.
Key(q, id) == IF q.resource = "orders" THEN rows[id][q.sort] ELSE rows[id][q.sort] \div Milli

\* A cursor carries a date, which the database takes for the start of its millisecond.
CursorKey(q, key) == IF q.resource = "orders" THEN key - (key % Milli) ELSE key

\* (mutant) rows with the key of the cursor are taken for listed
BeyondKey(q, key, id, other, otherId) ==
    IF q.direction = "asc" THEN key > other ELSE key < other

\* Does the row with key and id come behind the other one?
Beyond(q, key, id, other, otherId) ==
    IF q.direction = "asc" THEN key > other \/ (key = other /\ id > otherId)
                           ELSE key < other \/ (key = other /\ id < otherId)

\* In the order of the listing
Before(q, i, j) ==
    IF q.direction = "asc" THEN Key(q, i) < Key(q, j) \/ (Key(q, i) = Key(q, j) /\ i < j)
                           ELSE Key(q, i) > Key(q, j) \/ (Key(q, i) = Key(q, j) /\ i > j)

\* The first rows of those that are left are listed, and the last of them is the cursor.
ListPage(q) ==
    /\ query \in {NoQuery, q} /\ ~ended
    /\ \E fetched \in Fetched(q) :
         LET rest == {id \in fetched :
                        cursor # NoCursor => Beyond(q, Key(q, id), id, cursor.key, cursor.id)}
             more == Cardinality(rest) > PageSize
         IN  \E page \in SUBSET rest :
               /\ IF more THEN Cardinality(page) = PageSize ELSE page = rest
               /\ \A i \in page, j \in rest \ page : Before(q, i, j)
               /\ \/ /\ more
                     /\ \E last \in page :
                          /\ \A i \in page \ {last} : Before(q, i, last)
                          /\ cursor' = [key |-> CursorKey(q, Key(q, last)), id |-> last]
                          /\ ends' = ends \union {rows[last][q.sort]}
                  \/ ~more /\ cursor' = NoCursor /\ ends' = ends
               /\ listed' = [id \in RowId |-> listed[id] + (IF id \in page THEN 1 ELSE 0)]
               /\ ended' = ~more
               /\ crowded' = (crowded \/ fetched # Matching(q))
    /\ query' = q
    /\ steady' = IF query = NoQuery THEN Matching(q) ELSE steady
    /\ UNCHANGED rowVars

ListingsNext ==
    \/ \E id \in RowId :
         \/ AddOwn(id) \/ TouchRow(id)
         \/ \E block \in 0..now : AddSubscribed(id, block)
    \/ WipeRows \/ Elapse
    \/ \E q \in Queries : ListPage(q)

ListingsSpec == ListingsInit /\ [][ListingsNext]_listingVars

-----------------------------------------------------------------------------
(* Properties.                                                              *)

\* Of the orders of one millisecond, those behind the last of a page are lost when
\* that one's time has a fraction, as the time of a cancellation has.
LostWithFraction(id) ==
    /\ query.resource = "orders"
    /\ \E e \in ends : (e % Milli) # 0 /\ e \div Milli = rows[id].updatedAt \div Milli

\* A reader who follows the cursor to the end has got every row that was there all the
\* time with the same key once and only once, whatever came, changed and went between
\* two pages, unless the tables outgrew what is fetched (README: stable sorting and
\* cursor pagination).
ListedOnce ==
    \A id \in steady :
        /\ listed[id] <= 1
        /\ ended /\ ~crowded => listed[id] = 1 \/ LostWithFraction(id)
=============================================================================
