----------------------- MODULE MCAquaOrderVaultFactory -----------------------
(* One owner and one agent with two vaults that share a policy key.  Of the  *)
(* two delegations one is narrow and outlives the first day, the other is    *)
(* wide and lapses on it.                                                    *)
EXTENDS AquaOrderVaultFactory, TLC

CONSTANTS v1, v2, alice, bob, market, S, B, o1, o2, n1, n2

MCOwnerOf     == [v \in {v1, v2} |-> alice]
MCDelegateOf  == [v \in {v1, v2} |-> bob]
MCSellTokenOf == [v \in {v1, v2} |-> S]
MCMakerOf     == [o \in {o1, o2} |-> IF o = o1 THEN v1 ELSE v2]
MCHoldings    == [a \in {v1, v2, alice, market} |-> [t \in {S, B} |->
                    CASE a = alice /\ t = S -> 2
                      [] a = market /\ t = B -> 1
                      [] OTHER -> 0]]
MCOffers == {[key |-> <<alice, bob, S>>, maxPerOrder |-> 1, maxPerDay |-> 1, validUntil |-> 5],
             [key |-> <<alice, bob, S>>, maxPerOrder |-> 2, maxPerDay |-> 2, validUntil |-> 3]}

NonceSymmetry == Permutations({n1, n2})
=============================================================================
