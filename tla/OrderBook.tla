------------------------------ MODULE OrderBook ------------------------------
(***************************************************************************)
(* How a request for a market or limit order is answered from the indexed  *)
(* book of its pair: packages/orderbook/src/service.ts (execute, create, query),  *)
(* the route of packages/adapters/src/trading.ts (prepareMarketRoute) and  *)
(* the rounding of packages/core/src/price.ts.  The book of the opposite   *)
(* pair is turned around and merged.  Both tokens have the same decimals.  *)
(***************************************************************************)
EXTENDS Integers, Sequences, FiniteSets, Functions

CONSTANTS
    Price,         \* prices [n, d]: n / d units of quote for a unit of base
    Left,          \* base units that an order may have left
    Amount,        \* amounts of a request, in units
    MaxOrders,     \* orders in the book
    MaxRoute,      \* orders in a route (8)
    Units,         \* units of a whole token
    Precision,     \* of an inverted price (10^36)
    NoLimit

ASSUME BookAssumption ==
    /\ Price \subseteq [n : Nat \ {0}, d : Nat \ {0}] /\ NoLimit \notin [n : Nat, d : Nat]
    /\ Left \subseteq Nat /\ Amount \subseteq Nat \ {0}
    /\ MaxOrders \in Nat /\ MaxRoute \in Nat \ {0} /\ Units \in Nat \ {0} /\ Precision \in Nat \ {0}

VARIABLES
    stored,        \* trading_orders of both pairs, the earlier before the later
    asked,         \* what somebody asked the service
    answer         \* and what it answered

bookVars == <<stored, asked, answer>>

Side == {"buy", "sell"}
Flip(side) == IF side = "buy" THEN "sell" ELSE "buy"
StoredOrder == [side : Side, price : Price, base : Left, opposite : BOOLEAN]
Request ==
    [action : {"market", "ioc", "fok", "gtc", "postOnly"}, side : Side, amount : Amount,
     denomination : {"base", "quote"}, limit : Price \union {NoLimit}]
Nothing == [kind |-> "none"]

\* Rounding in the favour of the maker; a result of zero is an error.
Ceil(n, d) == (n + d - 1) \div d
QuoteUnits(side, base, price) ==
    IF side = "sell" THEN Ceil(base * price.n, price.d) ELSE (base * price.n) \div price.d
BaseUnits(side, quote, price) ==
    IF side = "sell" THEN (quote * price.d) \div price.n ELSE Ceil(quote * price.d, price.n)

(***************************************************************************)
(* The book of the requested pair.                                         *)
(***************************************************************************)
Below(p, q) == p.n * q.d < q.n * p.d

InvertPrice(p) ==
    IF p.d % p.n = 0 THEN [n |-> p.d \div p.n, d |-> 1]
                     ELSE [n |-> (p.d * Precision) \div p.n, d |-> Precision]

AsRequestedPair(o) ==
    IF ~o.opposite THEN o
    ELSE [o EXCEPT !.side = Flip(@), !.price = InvertPrice(@),
                   !.base = QuoteUnits(o.side, o.base, o.price)]

Book == [i \in DOMAIN stored |-> AsRequestedPair(stored[i])]
BookFails == \E i \in DOMAIN Book : Book[i].base = 0

Compatible(side, limit) ==
    {i \in DOMAIN Book :
       /\ Book[i].side # side
       /\ limit = NoLimit \/ ~(IF side = "buy" THEN Below(limit, Book[i].price)
                                               ELSE Below(Book[i].price, limit))}

\* (mutant) both sides are taken from the lowest price on
CheapestFirst(side, i, j) ==
    \/ Below(Book[i].price, Book[j].price)
    \/ ~Below(Book[j].price, Book[i].price) /\ i < j

\* The taker gets the best price first, then the earliest order.
Before(side, i, j) ==
    LET p == Book[i].price  q == Book[j].price
    IN  \/ IF side = "buy" THEN Below(p, q) ELSE Below(q, p)
        \/ ~Below(p, q) /\ ~Below(q, p) /\ i < j

\* Some orders in turn: the k-th is the one that k - 1 of them come before.
Sorted(S, side) ==
    [k \in 1..Cardinality(S) |->
       CHOOSE i \in S : Cardinality({j \in S : Before(side, j, i)}) = k - 1]
Foremost(s, n) == SubSeq(s, 1, IF Len(s) < n THEN Len(s) ELSE n)

ExecutableOrders(side, limit) == Foremost(Sorted(Compatible(side, limit), side), MaxRoute)

(***************************************************************************)
(* The route: as much of each order in turn as is still wanted.            *)
(***************************************************************************)
Capacity(i, denomination) ==
    IF denomination = "base" THEN Book[i].base
    ELSE QuoteUnits(Book[i].side, Book[i].base, Book[i].price)

WantedAfter(selected, r) ==
    LET wanted[k \in 0..Len(selected)] ==
          IF k = 0 THEN r.amount
          ELSE LET capacity == Capacity(selected[k], r.denomination)
               IN  IF wanted[k - 1] < capacity THEN 0 ELSE wanted[k - 1] - capacity
    IN  wanted

Failed(why) == [kind |-> why]

\* An order whose capacity rounds to zero quote units fails the whole route.
PrepareMarketRoute(selected, r, report) ==
    LET wanted  == WantedAfter(selected, r)
        reached == {k \in DOMAIN selected : wanted[k - 1] > 0}
        plans   == [k \in reached |-> [order |-> selected[k], units |-> wanted[k - 1] - wanted[k]]]
        left    == wanted[Len(selected)]
    IN  IF (\E k \in reached : Capacity(selected[k], r.denomination) = 0) \/ (left > 0 /\ r.action = "fok")
          THEN Failed("error")
          ELSE [kind |-> "route", plans |-> plans, unfilled |-> left, report |-> report]

(***************************************************************************)
(* The decision: take, rest or refuse.                                     *)
(***************************************************************************)
BaseOf(S) == SumFunctionOnSet([i \in DOMAIN Book |-> Book[i].base], S)
Depth(selected) == BaseOf(Range(selected))

RequiredBase(r, price) ==
    IF r.denomination = "base" THEN r.amount ELSE BaseUnits(r.side, r.amount, price)

MatchingFromBook(depth, required) ==
    [consumed |-> IF required < depth THEN required ELSE depth,
     unfilled |-> IF required > depth THEN required - depth ELSE 0]

TakeLiquidity(r) ==
    LET selected == ExecutableOrders(r.side, r.limit)
        required == RequiredBase(r, IF r.limit = NoLimit THEN Book[selected[1]].price ELSE r.limit)
        depth    == Depth(selected)
    IN  IF selected = <<>> THEN Failed("noLiquidity")
        ELSE IF required = 0 THEN Failed("error")
        ELSE IF r.action = "fok" /\ depth < required THEN Failed("fokUnfillable")
        ELSE PrepareMarketRoute(selected, r, MatchingFromBook(depth, required))

\* Decimals are those of an order of the book: with an empty book they are zero,
\* so that the amount must be one of whole tokens.
Place(r) ==
    LET selected == ExecutableOrders(r.side, r.limit)
        whole    == [r EXCEPT !.amount = @ \div Units]
        required == RequiredBase(IF stored = <<>> THEN whole ELSE r, r.limit)
    IN  IF required = 0 \/ (stored = <<>> /\ r.amount % Units # 0) THEN Failed("error")
        ELSE IF selected # <<>> /\ Depth(selected) >= required THEN TakeLiquidity(r)
        ELSE [kind |-> "rests"]

Create(r) ==
    /\ r.action = "market" <=> r.limit = NoLimit
    /\ asked' = r
    /\ answer' =
         CASE BookFails -> Failed("error")
           [] ~BookFails /\ r.action \in {"market", "ioc", "fok"} -> TakeLiquidity(r)
           [] ~BookFails /\ r.action = "gtc" -> Place(r)
           [] ~BookFails /\ r.action = "postOnly" ->
                IF ExecutableOrders(r.side, r.limit) # <<>> THEN Failed("crossing") ELSE Place(r)

\* An order that somebody chose from the book is taken, as the pair of the order has it.
ExecuteOrder(i, r) ==
    /\ ~stored[i].opposite /\ r.action = "market" /\ r.limit = NoLimit /\ r.side = Flip(stored[i].side)
    /\ asked' = [r EXCEPT !.action = "execute"]
    /\ answer' = PrepareMarketRoute(<<i>>, r, Nothing)

\* The levels of one side, best first, each with all the orders at the price of its first.
Level(i) ==
    {j \in DOMAIN Book :
       /\ Book[j].side = Book[i].side
       /\ ~Below(Book[i].price, Book[j].price) /\ ~Below(Book[j].price, Book[i].price)}
Levels(side, depth) ==
    LET firsts == {i \in DOMAIN Book : Book[i].side = side /\ \A j \in Level(i) : i <= j}
        sorted == Sorted(firsts, Flip(side))
    IN  Foremost([k \in DOMAIN sorted |->
                    [price |-> Book[sorted[k]].price, base |-> BaseOf(Level(sorted[k]))]], depth)

\* Anybody looks at the book, or, with a depth of one, at the ticker.
QueryBook(depth) ==
    /\ asked' = Nothing
    /\ answer' = IF BookFails THEN Failed("error")
                 ELSE [kind |-> "book", bids |-> Levels("buy", depth), asks |-> Levels("sell", depth)]

BookInit ==
    /\ stored \in UNION {[1..n -> StoredOrder] : n \in 0..MaxOrders}
    /\ asked = Nothing /\ answer = Nothing
BookNext ==
    /\ answer = Nothing /\ UNCHANGED stored
    /\ \/ \E r \in Request : Create(r) \/ \E i \in DOMAIN stored : ExecuteOrder(i, r)
       \/ \E depth \in 1..MaxOrders : QueryBook(depth)
BookSpec == BookInit /\ [][BookNext]_bookVars

-----------------------------------------------------------------------------
(***************************************************************************)
(* Properties.                                                             *)
(***************************************************************************)
UnitsOf(plans) == SumFunctionOnSet([k \in DOMAIN plans |-> plans[k].units], DOMAIN plans)
Routed == answer.kind = "route" /\ asked.action # "execute"

\* A route takes the best orders that the limit of the request lets in, at most
\* eight, and each of them whole but the last; it leaves something only when
\* there is nothing else to take.
BestRoute(r, route) ==
    LET compatible == Compatible(r.side, r.limit)
        taken == {route.plans[k].order : k \in DOMAIN route.plans}
        spent(p) == p.units = Capacity(p.order, r.denomination)
        last == Len(route.plans)
    IN  /\ taken \subseteq compatible /\ last \in 1..MaxRoute
        /\ \A i \in taken, j \in compatible \ taken :
             IF r.side = "buy" THEN ~Below(Book[j].price, Book[i].price)
                               ELSE ~Below(Book[i].price, Book[j].price)
        /\ \A k \in 1..(last - 1) : spent(route.plans[k])
        /\ UnitsOf(route.plans) + route.unfilled = r.amount
        /\ route.unfilled > 0 => spent(route.plans[last]) /\ (compatible = taken \/ last = MaxRoute)
RouteIsBest == Routed => BestRoute(asked, answer)

\* For a size in base units the report is the one of the route: what it says
\* will be taken and left is so, and an order that must be filled or killed is
\* refused only when the foremost eight orders do not suffice.
Unfillable(r) ==
    LET compatible == Compatible(r.side, r.limit)
        foremost(S) == \A i \in S, j \in compatible \ S : Before(r.side, i, j)
    IN  \A S \in SUBSET compatible :
          foremost(S) /\ Cardinality(S) <= MaxRoute => BaseOf(S) < r.amount
ReportAgrees ==
    /\ Routed /\ asked.denomination = "base" =>
         /\ answer.report.unfilled = answer.unfilled
         /\ answer.report.consumed = UnitsOf(answer.plans)
    /\ answer.kind = "fokUnfillable" /\ asked.denomination = "base" => Unfillable(asked)

\* An order that is executed by its id gives what was asked for or all it has.
GivesItsOwn(r, route) ==
    LET plan == route.plans[1]
        capacity == Capacity(plan.order, r.denomination)
    IN  /\ Len(route.plans) = 1 /\ plan.units + route.unfilled = r.amount
        /\ plan.units <= capacity
        /\ route.unfilled > 0 => plan.units = capacity
ExecutedAlone == answer.kind = "route" /\ asked.action = "execute" => GivesItsOwn(asked, answer)

\* A limit order at the price of a level reaches what the book shows up to there.
Reachable(levels, side) ==
    \A k \in DOMAIN levels :
      SumFunctionOnSet([l \in DOMAIN levels |-> levels[l].base], 1..k)
        = BaseOf(Compatible(Flip(side), levels[k].price))
LevelsAreReachable ==
    answer.kind = "book" => Reachable(answer.bids, "buy") /\ Reachable(answer.asks, "sell")

\* What a client is told of the book and of his order follows the book (README: market
\* execution walks price-time-compatible liquidity in best-price order).
AnswerFollowsBook == RouteIsBest /\ ReportAgrees /\ ExecutedAlone /\ LevelsAreReachable
=============================================================================
