--------------------------- MODULE MCChainReaders ---------------------------
(***************************************************************************)
(* Instances for the order indexer and the activity collector.  They share *)
(* nothing but the chain, which neither writes, so that each is checked    *)
(* while the other rests: reader says whose behaviour it is.               *)
(***************************************************************************)
EXTENDS OrderIndexer, ActivityCollector

CONSTANTS o1, a, b, base, quote, other, Readers,
          FeedHeight   \* the bound of the chain that the collector follows

VARIABLE reader
vars == <<reader, chainVars, indexerVars, activityVars>>

event(kind, order) == [kind |-> kind, order |-> order]
MCEvent ==
    {event(k, None) : k \in {"none", "malformed", "traded"}}
      \union {event(k, o1) : k \in {"shipped", "docked"}}
      \union {[kind |-> "swapped", order |-> o1, id |-> x] : x \in {a, b}}
MCAmount == [x \in {a, b} |-> 1]

transfer(token, from, to) == [token |-> token, from |-> from, to |-> to]
MCTransfers ==
    [k \in {e.kind : e \in MCEvent} |->
       IF k = "traded" THEN {transfer(base, Wallet, other), transfer(quote, other, Wallet)} ELSE {}]

Init == reader \in Readers /\ ChainInit /\ IndexerInit /\ ActivityInit
Next ==
    /\ UNCHANGED reader
    /\ \/ reader = "indexer" /\ IndexerNext /\ UNCHANGED activityVars
       \/ reader = "activity" /\ ActivityNext /\ Height' <= FeedHeight /\ UNCHANGED indexerVars

Spec == Init /\ [][Next]_vars
FairSpec == /\ Spec
            /\ reader = "indexer" => IndexerFairness

\* In the behaviours of the indexer.
IndexerCatchesUp == reader = "indexer" => CatchesUp
=============================================================================
