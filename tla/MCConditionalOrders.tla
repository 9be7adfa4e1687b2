------------------------ MODULE MCConditionalOrders ------------------------
(* One trade: a stop loss and a take profit of which one may fire.          *)
EXTENDS ConditionalOrders, TLC

CONSTANT trade

MCTradeOf == [l \in Legs |-> trade]
Symmetry  == Permutations(Legs) \cup Permutations(Proofs)
=============================================================================
