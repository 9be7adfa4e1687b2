--------------------------- MODULE CanonicalChain ---------------------------
(***************************************************************************)
(* The chain that the order indexer and the activity collector follow, as  *)
(* their RpcPort shows it: a sequence of blocks that grows, and whose last *)
(* blocks are now and then replaced by as many others.  A block is told    *)
(* from another of the same number by the fork that made it, so that       *)
(* Hash(n) stands for its hash and, with it, for all the blocks below.     *)
(***************************************************************************)
EXTENDS Integers, Sequences, FiniteSets, FiniteSetsExt

CONSTANTS
    Event,         \* what a block may hold: one transaction of interest, or none
    Original,      \* the size of an order, in base units
    Amount,        \* [fill -> base units]
    Confirmations, \* manifest.indexer.confirmations
    None,
    MaxHeight, MaxForks, MaxDepth,
    MaxReplayed    \* how many transactions a fork brings

\* An order is shipped once, and a fill is a transaction of its own.
ASSUME ChainAssumption ==
    /\ Confirmations \in Nat /\ MaxHeight \in Nat /\ MaxForks \in Nat /\ MaxDepth \in Nat
    /\ None \notin Nat
    /\ Original \in Nat \ {0}
    /\ IsFiniteSet(DOMAIN Amount) /\ \A x \in DOMAIN Amount : Amount[x] \in Nat \ {0}
    /\ \A e \in Event : e.kind = "swapped" => e.id \in DOMAIN Amount
    /\ \A e, f \in Event : e.kind = "swapped" /\ f.kind = "swapped" /\ e.id = f.id => e = f
    /\ \A e, f \in Event : e.kind = "shipped" /\ f.kind = "shipped" /\ e.order = f.order => e = f

VARIABLES
    chain,   \* the canonical blocks, from number 1 on
    fork     \* how often the chain was reorganized

chainVars == <<chain, fork>>

Height == Len(chain)
Hash(n) == IF n = 0 THEN 0 ELSE chain[n].fork
IsCanonical(block, hash) == Hash(block) = hash

\* The positions of blocks where a transaction of this kind touches order.
Where(blocks, kind, order) ==
    {i \in DOMAIN blocks : blocks[i].event.kind = kind /\ blocks[i].event.order = order}

\* What fills add up to.
Total[S \in SUBSET DOMAIN Amount] ==
    IF S = {} THEN 0 ELSE LET x == CHOOSE y \in S : TRUE IN Amount[x] + Total[S \ {x}]
Filled(blocks, order) == Total[{blocks[i].event.id : i \in Where(blocks, "swapped", order)}]

(***************************************************************************)
(* What the contracts let a chain hold: a transaction once, an order is    *)
(* filled or docked after it was shipped and not after it was docked, and  *)
(* for no more than its size.                                              *)
(***************************************************************************)
Legal(blocks) ==
    LET event(i) == blocks[i].event
        orders   == {e.order : e \in Event} \ {None}
    IN  /\ \A i, j \in DOMAIN blocks :
              i # j /\ event(i) = event(j) => event(i).kind = "none"
        /\ \A o \in orders :
              /\ \A i \in Where(blocks, "swapped", o) \union Where(blocks, "docked", o) :
                    \E j \in Where(blocks, "shipped", o) : j < i
              /\ \A i \in Where(blocks, "docked", o), j \in Where(blocks, "swapped", o) : j < i
              /\ Filled(blocks, o) <= Original

ChainInit == chain = <<>> /\ fork = 0

\* A block is added, with one of the transactions the readers can tell.
Extend(events) ==
    /\ Height < MaxHeight
    /\ \E e \in events : chain' = Append(chain, [event |-> e, fork |-> fork])
    /\ Legal(chain')
    /\ UNCHANGED fork

\* The last blocks give way to as many others, at any time.
Reorganize(events) ==
    /\ fork < MaxForks
    /\ fork' = fork + 1
    /\ \E depth \in 1..MaxDepth :
         /\ depth <= Height
         /\ \E tail \in [1..depth -> events] :
              /\ Cardinality({i \in 1..depth : tail[i].kind # "none"}) <= MaxReplayed
              /\ chain' = SubSeq(chain, 1, Height - depth)
                            \o [i \in 1..depth |-> [event |-> tail[i], fork |-> fork + 1]]
    /\ Legal(chain')

\* A fork took the place of the block of this number.
Replaced(n) == Hash(n)' # Hash(n)
=============================================================================
