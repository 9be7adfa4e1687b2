------------------------- MODULE MCTradeSubmission -------------------------
(***************************************************************************)
(* Two requests about one trade, or one about each of two, which together  *)
(* exceed the day's limit; a trade is executed at once, rests, waits with  *)
(* two legs, or has an unsafe plan.  Besides, the listings of the same     *)
(* service, which share nothing with that here: part says whose behaviour  *)
(* it is.                                                                  *)
(***************************************************************************)
EXTENDS TradeSubmission, Listings, TLC

CONSTANTS Parts, t1, t2, r1, r2, p1, p2

VARIABLE part

AmountOf == [t \in Trade |-> 1]
Plain(policy, calls) ==
    [policy |-> policy, waits |-> FALSE, outcome |-> "fillsNow", routes |-> 1, calls |-> calls,
     output |-> "fair", affordable |-> TRUE]
Approval(spender) == [runs |-> TRUE, approves |-> spender, size |-> "fits"]
WishSet == {Plain("market", {Approval("reviewed")}), Plain("stopMarket", {}), Plain("market", {Approval("foreign")})}
Limits  == {[perOrder |-> 1, perDay |-> 1, until |-> 2]}
SceneSet == [Request -> Trade]
Symmetry == {f @@ g @@ h : f \in Permutations(Trade), g \in Permutations(Request), h \in Permutations(Payment)}
\* By creation and by change, and the orders as they are always listed.
trades(sort, direction) ==
    [resource |-> "trades", source |-> "all", sort |-> sort, direction |-> direction]
MCQueries == {trades("occurredAt", "desc"), trades("updatedAt", "asc"),
              Orders}

ServiceInit == part \in Parts /\ Init /\ ListingsInit
ServiceNext ==
    /\ UNCHANGED part
    /\ \/ part = "submission" /\ Next /\ UNCHANGED listingVars
       \/ part = "listings" /\ ListingsNext /\ UNCHANGED vars
ServiceSpec == ServiceInit /\ [][ServiceNext]_<<part, vars, listingVars>>
=============================================================================
