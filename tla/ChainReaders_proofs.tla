-------------------------- MODULE ChainReaders_proofs --------------------------
(***************************************************************************)
(* Theorems of the readers of the chain, for any number of workers, orders *)
(* and blocks and for forks no deeper than a rewind goes: what the         *)
(* activity collector lists for a wallet is what happened to it on the     *)
(* canonical chain, and the order index is right about the blocks up to a  *)
(* checkpoint that is on the chain.                                        *)
(***************************************************************************)
EXTENDS OrderIndexer, ActivityCollector,
        FiniteSetTheorems, SequenceTheorems, WellFoundedInduction, TLAPS

-----------------------------------------------------------------------------
(* The chain.                                                               *)

\* The chain: a block is of a fork there has been, a transaction is in one block.
ChainOK ==
    /\ chain \in Seq([event : Event, fork : 0..MaxForks]) /\ Height <= MaxHeight
    /\ fork \in 0..MaxForks /\ \A n \in 1..Height : chain[n].fork <= fork
    /\ \A i, j \in 1..Height :
          i # j /\ chain[i].event = chain[j].event => chain[i].event.kind = "none"

LEMMA BlocksTyped ==
    ASSUME ChainOK, NEW n \in 1..Height
    PROVE  /\ chain[n].event \in Event /\ chain[n].fork \in 0..MaxForks /\ chain[n].fork <= fork
           /\ Hash(n) = chain[n].fork
<1>1. chain[n].event \in Event /\ chain[n].fork \in 0..MaxForks /\ chain[n].fork <= fork
  <2>1. chain[n] \in [event : Event, fork : 0..MaxForks]
      BY ElementOfSeq DEF ChainOK, Height
  <2> QED
      BY <2>1 DEF ChainOK
<1> QED
    BY <1>1 DEF Hash

\* Up to block k the chain stays, and what comes above is of a new fork.
Grows(k) ==
    /\ k \in Nat /\ k <= Height /\ Height <= Height' /\ k >= Height - MaxDepth
    /\ \A n \in 1..k : chain'[n] = chain[n]
    /\ \A n \in (k + 1)..Height : chain'[n].fork > fork
    /\ fork <= fork'

\* Both ways the chain moves are of that kind.
LEMMA ExtendGrows ==
    ASSUME ChainOK, NEW events \in SUBSET Event, Extend(events)
    PROVE  ChainOK' /\ Grows(Height)
<1>1. PICK e \in events : chain' = Append(chain, [event |-> e, fork |-> fork])
    BY DEF Extend
<1>2. e \in Event
    OBVIOUS
<1> DEFINE Blocks == [event : Event, fork : 0..MaxForks]
<1>3. chain \in Seq(Blocks) /\ [event |-> e, fork |-> fork] \in Blocks /\ Height \in Nat
    BY <1>2, LenProperties DEF ChainOK, Height
<1> HIDE DEF Blocks
<1>4. /\ chain' \in Seq(Blocks) /\ Height' = Height + 1
      /\ \A n \in 1..Height : chain'[n] = chain[n]
      /\ chain'[Height + 1] = [event |-> e, fork |-> fork]
    BY <1>1, <1>3, AppendProperties DEF Height
<1>5. fork' = fork /\ Height < MaxHeight /\ Legal(chain)'
    BY DEF Extend
<1>6. ChainOK'
  <2>1. \A i, j \in 1..Height' : i # j /\ chain'[i].event = chain'[j].event => chain'[i].event.kind = "none"
    <3>1. DOMAIN chain' = 1..Height'
        BY <1>4, LenProperties DEF Height
    <3> QED
        BY <1>5, <3>1 DEF Legal
  <2>2. \A n \in 1..Height' : chain'[n].fork <= fork'
      BY <1>3, <1>4, <1>5 DEF ChainOK
  <2>3. Height' <= MaxHeight
      BY <1>3, <1>4, <1>5, ChainAssumption
  <2> QED
      BY <1>4, <1>5, <2>1, <2>2, <2>3 DEF ChainOK, Blocks
<1>8. fork \in Nat
    BY DEF ChainOK
<1> QED
    BY <1>3, <1>4, <1>5, <1>6, <1>8, ChainAssumption DEF Grows

LEMMA ForkGrows ==
    ASSUME ChainOK, NEW events \in SUBSET Event, Reorganize(events)
    PROVE  ChainOK' /\ \E k : Grows(k)
<1> DEFINE Blocks == [event : Event, fork : 0..MaxForks]
<1>0. PICK depth \in 1..MaxDepth :
         /\ depth <= Height
         /\ \E tail \in [1..depth -> events] :
              chain' = SubSeq(chain, 1, Height - depth)
                         \o [i \in 1..depth |-> [event |-> tail[i], fork |-> fork + 1]]
    BY DEF Reorganize
<1>1. PICK tail \in [1..depth -> events] :
         chain' = SubSeq(chain, 1, Height - depth)
                    \o [i \in 1..depth |-> [event |-> tail[i], fork |-> fork + 1]]
    BY <1>0
<1> DEFINE top == [i \in 1..depth |-> [event |-> tail[i], fork |-> fork + 1]]
           k == Height - depth
           bottom == SubSeq(chain, 1, k)
<1>2. /\ fork < MaxForks /\ fork' = fork + 1 /\ Legal(chain)'
      /\ fork \in Nat /\ fork + 1 \in 0..MaxForks
    BY ChainAssumption DEF Reorganize, ChainOK
<1>3. chain \in Seq(Blocks) /\ Height \in Nat /\ Height = Len(chain)
    BY LenProperties DEF ChainOK, Height
<1>4. k \in Nat /\ k <= Height /\ depth \in Nat /\ k + depth = Height
  <2>1. depth <= Height /\ depth \in Nat
      BY <1>0, ChainAssumption
  <2> QED
      BY <1>3, <2>1
<1>5. /\ top \in Seq(Blocks) /\ Len(top) = depth
      /\ \A i \in 1..depth : top[i].fork = fork + 1
  <2>1. \A i \in 1..depth : [event |-> tail[i], fork |-> fork + 1] \in Blocks
      BY <1>1, <1>2
  <2>2. top \in [1..depth -> Blocks]
      BY <2>1
  <2> HIDE DEF Blocks
  <2>3. top \in Seq(Blocks)
      BY <1>4, <2>2 DEF Seq
  <2>4. DOMAIN top = 1..depth
      OBVIOUS
  <2> HIDE DEF top
  <2>5. Len(top) = depth
      BY <1>4, <2>3, <2>4, LenProperties
  <2> QED
      BY <2>3, <2>5 DEF top
<1> HIDE DEF Blocks
<1>6. /\ bottom \in Seq(Blocks) /\ Len(bottom) = k
      /\ \A n \in 1..k : bottom[n] = chain[n]
    BY <1>3, <1>4, SubSeqProperties
<1> HIDE DEF top, bottom
<1>7. chain' = bottom \o top
    BY <1>1 DEF top, bottom
<1>8. /\ chain' \in Seq(Blocks) /\ Len(chain') = Height
      /\ \A n \in 1..k : chain'[n] = chain[n]
      /\ \A n \in (k + 1)..Height : chain'[n].fork = fork + 1
  <2> HIDE DEF k
  <2>0. bottom \in Seq(Blocks) /\ top \in Seq(Blocks)
      BY <1>5, <1>6
  <2>1. /\ bottom \o top \in Seq(Blocks)
        /\ Len(bottom \o top) = Len(bottom) + Len(top)
        /\ \A n \in 1..(Len(bottom) + Len(top)) :
              (bottom \o top)[n] = IF n <= Len(bottom) THEN bottom[n] ELSE top[n - Len(bottom)]
      BY <2>0, ConcatProperties
  <2>2. /\ chain' \in Seq(Blocks) /\ Len(chain') = k + depth
        /\ \A n \in 1..(k + depth) : chain'[n] = IF n <= k THEN bottom[n] ELSE top[n - k]
      BY <1>5, <1>6, <1>7, <2>1
  <2>3. \A n \in (k + 1)..Height : n \in 1..(k + depth) /\ ~(n <= k) /\ n - k \in 1..depth
      BY <1>4
  <2>4. \A n \in 1..k : n \in 1..(k + depth) /\ n <= k
      BY <1>4
  <2>5. \A n \in 1..k : chain'[n] = chain[n]
      BY <1>6, <2>2, <2>4
  <2>6. \A n \in (k + 1)..Height : chain'[n].fork = fork + 1
    <3> SUFFICES ASSUME NEW n \in (k + 1)..Height PROVE chain'[n].fork = fork + 1
        OBVIOUS
    <3>1. chain'[n] = top[n - k]
        BY <2>2, <2>3
    <3> QED
        BY <1>5, <2>3, <3>1
  <2> QED
      BY <1>4, <2>2, <2>5, <2>6
<1>9. Height' = Height
    BY <1>3, <1>8 DEF Height
<1>10. ChainOK'
  <2>1. \A i, j \in 1..Height' : i # j /\ chain'[i].event = chain'[j].event => chain'[i].event.kind = "none"
    <3>1. DOMAIN chain' = 1..Height'
        BY <1>3, <1>8, <1>9, LenProperties
    <3> QED
        BY <1>2, <3>1 DEF Legal
  <2>2. \A n \in 1..Height' : chain'[n].fork <= fork'
    <3> HIDE DEF k
    <3>1. \A n \in 1..Height : n \in 1..k \/ n \in (k + 1)..Height
        BY <1>4
    <3>2. \A n \in 1..k : chain'[n].fork <= fork'
        BY <1>2, <1>3, <1>4, <1>8, BlocksTyped
    <3>3. \A n \in (k + 1)..Height : chain'[n].fork <= fork'
        BY <1>2, <1>8
    <3> QED
        BY <1>9, <3>1, <3>2, <3>3
  <2> QED
      BY <1>2, <1>8, <1>9, <2>1, <2>2 DEF ChainOK, Blocks
<1>11. Grows(k)
  <2>1. /\ k \in Nat /\ k <= Height /\ Height <= Height' /\ k >= Height - MaxDepth /\ fork <= fork'
    <3>1. depth <= MaxDepth /\ MaxDepth \in Nat
        BY <1>0, ChainAssumption
    <3> QED
        BY <1>2, <1>3, <1>4, <1>9, <3>1
  <2> HIDE DEF k
  <2>2. \A n \in (k + 1)..Height : chain'[n].fork > fork
      BY <1>2, <1>8
  <2> QED
      BY <1>8, <2>1, <2>2 DEF Grows
<1> QED
    BY <1>10, <1>11

\* A hash that is still canonical after a fork was so before and is below it, and those
\* below it stay canonical.
LEMMA HashesStay ==
    ASSUME ChainOK, NEW k, Grows(k), NEW n \in Nat, NEW hash \in 0..fork, n <= Height,
           IsCanonical(n, hash)'
    PROVE  IsCanonical(n, hash) /\ n <= k
<1>1. Height \in Nat /\ k \in Nat /\ fork \in Nat
    BY LenProperties DEF ChainOK, Height, Grows
<1>2. CASE n = 0
    BY <1>1, <1>2 DEF IsCanonical, Hash
<1>3. CASE n # 0
  <2>1. Hash(n) = chain[n].fork /\ Hash(n)' = chain'[n].fork
      BY <1>3 DEF Hash
  <2>2. n \in 1..k \/ n \in (k + 1)..Height
      BY <1>1, <1>3
  <2>3. n \in 1..k
      BY <1>1, <2>1, <2>2 DEF Grows, IsCanonical
  <2> QED
      BY <2>1, <2>3 DEF Grows, IsCanonical
<1> QED
    BY <1>2, <1>3

LEMMA HashesKeep ==
    ASSUME NEW k, Grows(k), NEW n \in Nat, NEW hash, n <= k, IsCanonical(n, hash)
    PROVE  IsCanonical(n, hash)'
<1>1. n = 0 \/ n \in 1..k
    BY DEF Grows
<1> QED
    BY <1>1 DEF Grows, IsCanonical, Hash

\* A block that was not replaced is below the fork.
LEMMA KeptIsBelow ==
    ASSUME ChainOK, NEW k, Grows(k), NEW n \in Nat, n <= Height, ~Replaced(n)
    PROVE  n <= k
<1>1. PICK hash : hash = Hash(n)
    OBVIOUS
<1>2. hash \in 0..fork
  <2>1. Height \in Nat /\ fork \in Nat
      BY LenProperties DEF ChainOK, Height
  <2>2. CASE n = 0
      BY <1>1, <2>1, <2>2 DEF Hash
  <2>3. CASE n # 0
    <3>1. n \in 1..Height
        BY <2>1, <2>3
    <3> QED
        BY <1>1, <2>1, <3>1, BlocksTyped, ChainAssumption
  <2> QED
      BY <2>2, <2>3
<1>3. IsCanonical(n, hash)'
    BY <1>1 DEF Replaced, IsCanonical, Hash
<1> QED
    BY <1>2, <1>3, HashesStay

-----------------------------------------------------------------------------
(* The invariant of the activity collector.  The lists are exact up to the  *)
(* last block of the row whenever that block is on the chain, and up to     *)
(* where a rewind would start again in any case, for no fork goes deeper.   *)
(* A worker has read what the chain says as far as its own last block is on *)
(* the chain; if the row it read was written since, it is late.             *)

\* What there is to collect from a block.
InBlock(n) ==
    {[event |-> chain[n].event, token |-> t.token,
      class |-> Classify(Transfers[chain[n].event.kind], t),
      block |-> n, hash |-> Hash(n)] : t \in Transfers[chain[n].event.kind]}

\* A transfer or trade is listed in the block where the chain has it.
InPlace(a) ==
    a.block \in 1..Height /\ chain[a.block].fork = a.hash /\ chain[a.block].event = a.event

\* Up to block m, all that is listed is on the chain and all that is due is listed.
ExactTo(m) ==
    /\ \A a \in actions \union trades : a.block <= m => InPlace(a)
    /\ \A n \in 1..m : n >= since => InBlock(n) \subseteq actions /\ TradesOf(InBlock(n)) \subseteq trades

\* Nothing spoilt the feed.
Clean == ~mixed /\ ~overtaken

\* The row of the subscription: a last block was confirmed when it was collected, so
\* that no fork reaches below CertainTo.
RowOK ==
    /\ sub = None => actions = {} /\ trades = {} /\ \A w \in Worker : run[w] = Resting
    /\ sub # None =>
         /\ sub \in Subscription /\ sub.hash <= fork
         /\ sub.next <= Height + 1
         /\ sub.last # None => sub.next = sub.last + 1 /\ (sub.last = 0 \/ sub.last + Confirmations <= Height)
         /\ \A a \in actions \union trades : a.block \in Nat /\ 1 <= a.block /\ a.block < sub.next
         /\ \A a \in actions : a.hash \in 0..MaxForks
         /\ \/ CertainTo(sub) = 0
            \/ CertainTo(sub) - 1 + MaxDepth <= Height
            \/ actions = {} /\ trades = {} /\ since >= CertainTo(sub)
         /\ Clean => ExactTo(CertainTo(sub) - 1) /\ (OnChain(sub) => ExactTo(sub.next - 1))

\* What a worker has read by now of the blocks up to m.
HasRead(w, m) ==
    \A n \in 1..m : n >= run[w].next => {a \in run[w].batch : a.block = n} = InBlock(n)

\* The blocks of a run are confirmed ones.
RangeOK(w) ==
    /\ run[w].next \in Nat /\ run[w].end \in Nat /\ run[w].next <= run[w].end /\ run[w].end <= Height
    /\ run[w].end = 0 \/ run[w].end + Confirmations <= Height

\* A batch holds transfers of those blocks, each transaction in one of them.
BatchOK(w) ==
    /\ \A a \in run[w].batch : /\ a.block \in Nat /\ 1 <= a.block /\ run[w].next <= a.block
                               /\ a.block <= run[w].end /\ a.hash \in 0..MaxForks
    /\ \A a, b \in run[w].batch : a.event = b.event => a.block = b.block

\* A worker that collects and is not late stands at the cursor of a row on the chain.
Collecting(w) ==
    RangeOK(w) /\ (w \notin late => sub.next = run[w].next /\ (w \notin shaken => OnChain(sub)))

\* One that is about to store may since have lost its blocks to a fork, but none below
\* where the row it writes is certain.
Faithful(w) ==
    /\ HasRead(w, RewindTo(run[w].end) - 1)
    /\ IsCanonical(run[w].end, run[w].hash) => HasRead(w, run[w].end)
    /\ w \notin late =>
         /\ sub.next = run[w].next
         /\ IsCanonical(run[w].end, run[w].hash) => OnChain(sub)
         /\ Clean => \A m \in Int : m < run[w].next /\ m < RewindTo(run[w].end) => ExactTo(m)
Storing(w) ==
    /\ RangeOK(w) /\ BatchOK(w) /\ run[w].hash \in 0..fork
    /\ w \notin shaken => Faithful(w)

\* A worker, by its place in runOnce.
RunOK(w) ==
    /\ run[w].at \in {"resting", "rewind", "transfers", "hash", "store"}
    /\ run[w].at = "rewind" =>
         run[w].last \in Nat /\ (run[w].last = 0 \/ run[w].last + Confirmations <= Height)
    /\ run[w].at \in {"transfers", "hash"} => Collecting(w)
    /\ run[w].at = "hash" => BatchOK(w) /\ (w \notin shaken => HasRead(w, run[w].end))
    /\ run[w].at = "store" => Storing(w)

FeedInvariant ==
    /\ ChainOK /\ RowOK /\ since \in Nat /\ holder \in Worker \union {None}
    /\ run = [w \in Worker |-> run[w]]
    /\ \A w \in Worker : RunOK(w)

\* Only the chain moves, and whom a fork overtook is shaken: no other worker has read, or
\* takes for granted, a block above k.
FeedStill ==
    /\ UNCHANGED <<sub, actions, trades, holder, run, since, late, overtaken, mixed>>
    /\ shaken \subseteq shaken'
Behind(k) ==
    \A w \in Worker : w \notin shaken' =>
        /\ run[w].at = "transfers" => run[w].next - 1 <= k
        /\ run[w].at = "hash" => run[w].end <= k

LEMMA FeedBegins == ASSUME ChainInit, ActivityInit PROVE FeedInvariant
<1>1. ChainOK
    BY ActivityAssumption, ChainAssumption DEF ChainInit, ChainOK, Height
<1>2. RowOK /\ since \in Nat /\ holder \in Worker \union {None}
    BY DEF ActivityInit, RowOK
<1>3. run = [w \in Worker |-> run[w]] /\ \A w \in Worker : RunOK(w)
    BY DEF ActivityInit, RunOK, Resting
<1> QED
    BY <1>1, <1>2, <1>3 DEF FeedInvariant

-----------------------------------------------------------------------------
(* Blocks, and the actions and trades of a range of them.                   *)

LEMMA BlockFacts ==
    ASSUME ChainOK, NEW n \in 1..Height
    PROVE  /\ chain[n].event \in Event /\ chain[n].fork \in 0..MaxForks /\ chain[n].fork <= fork
           /\ Hash(n) = chain[n].fork
           /\ \A x \in InBlock(n) : /\ x.block = n /\ x.event = chain[n].event /\ x.hash = Hash(n)
                                    /\ InPlace(x) /\ x.event.kind # "none"
<1>1. /\ chain[n].event \in Event /\ chain[n].fork \in 0..MaxForks /\ chain[n].fork <= fork
      /\ Hash(n) = chain[n].fork
    BY BlocksTyped
<1>3. ASSUME NEW x \in InBlock(n)
      PROVE  /\ x.block = n /\ x.event = chain[n].event /\ x.hash = Hash(n)
             /\ InPlace(x) /\ x.event.kind # "none"
  <2>1. x.block = n /\ x.event = chain[n].event /\ x.hash = Hash(n)
      BY <1>3 DEF InBlock
  <2>2. Transfers[chain[n].event.kind] # {}
      BY <1>3 DEF InBlock
  <2> QED
      BY <1>1, <2>1, <2>2, ActivityAssumption, ChainAssumption DEF InPlace
<1> QED
    BY <1>1, <1>3

\* What ActionsOf collects, block by block.
LEMMA ActionsByBlock ==
    ASSUME ChainOK, NEW f \in Nat, NEW t \in Int, t <= Height
    PROVE  /\ \A x \in ActionsOf(f, t) : /\ x.block \in 1..t /\ f <= x.block
                                         /\ x \in InBlock(x.block) /\ InPlace(x)
           /\ \A n \in 1..t : n >= f => {x \in ActionsOf(f, t) : x.block = n} = InBlock(n)
           /\ \A x, y \in ActionsOf(f, t) : x.event = y.event => x.block = y.block
<1> DEFINE from == Max({f, 1})
<1>1. from = IF f >= 1 THEN f ELSE 1
    BY DEF Max
<1>2. ActionsOf(f, t) = UNION {InBlock(n) : n \in from..t}
    BY DEF ActionsOf, InBlock
<1>3. Height \in Nat
    BY LenProperties DEF ChainOK, Height
<1>4. ASSUME NEW x \in ActionsOf(f, t)
      PROVE  /\ x.block \in 1..t /\ f <= x.block /\ x \in InBlock(x.block)
             /\ InPlace(x) /\ x.event = chain[x.block].event /\ x.event.kind # "none"
  <2>1. PICK n \in from..t : x \in InBlock(n)
      BY <1>2, <1>4
  <2>2. n \in 1..Height /\ n \in 1..t /\ f <= n
      BY <1>1, <1>3
  <2> QED
      BY <2>1, <2>2, BlockFacts
<1>5. ASSUME NEW n \in 1..t, n >= f PROVE {x \in ActionsOf(f, t) : x.block = n} = InBlock(n)
  <2>1. n \in from..t /\ n \in 1..Height
      BY <1>1, <1>3, <1>5
  <2>2. InBlock(n) \subseteq ActionsOf(f, t) /\ \A x \in InBlock(n) : x.block = n
      BY <1>2, <2>1, BlockFacts
  <2> QED
      BY <1>4, <2>2
<1>6. ASSUME NEW x \in ActionsOf(f, t), NEW y \in ActionsOf(f, t), x.event = y.event
      PROVE  x.block = y.block
  <2>1. x.block \in 1..Height /\ y.block \in 1..Height
      BY <1>3, <1>4
  <2>2. chain[x.block].event = chain[y.block].event /\ chain[x.block].event.kind # "none"
      BY <1>4, <1>6
  <2> QED
      BY <2>1, <2>2 DEF ChainOK
<1> QED
    BY <1>4, <1>5, <1>6

\* A transaction's trade is told from the actions of its block alone.
LEMMA TradesByBlock ==
    ASSUME NEW batch, NEW n, \A x, y \in batch : x.event = y.event => x.block = y.block
    PROVE  /\ TradesOf({a \in batch : a.block = n}) \subseteq TradesOf(batch)
           /\ \A t \in TradesOf(batch) : t.block = n => t \in TradesOf({a \in batch : a.block = n})
<1> DEFINE part == {a \in batch : a.block = n}
<1>1. \A x \in part : {c \in batch : c.event = x.event} = {c \in part : c.event = x.event}
    OBVIOUS
<1>2. ASSUME NEW t \in TradesOf(part) PROVE t \in TradesOf(batch)
  <2>1. PICK a \in part : /\ t = [event |-> a.event, block |-> a.block, hash |-> a.hash]
                          /\ a.class = "sell" /\ IsTrade({c \in part : c.event = a.event})
      BY <1>2 DEF TradesOf
  <2> QED
      BY <1>1, <2>1 DEF TradesOf
<1>3. ASSUME NEW t \in TradesOf(batch), t.block = n PROVE t \in TradesOf(part)
  <2>1. PICK a \in batch : /\ t = [event |-> a.event, block |-> a.block, hash |-> a.hash]
                           /\ a.class = "sell" /\ IsTrade({c \in batch : c.event = a.event})
      BY <1>3 DEF TradesOf
  <2>2. a \in part
      BY <1>3, <2>1
  <2> QED
      BY <1>1, <2>1, <2>2 DEF TradesOf
<1> QED
    BY <1>2, <1>3

\* A trade names the transaction and the block of an action.
LEMMA TradesName ==
    ASSUME NEW batch, NEW t \in TradesOf(batch)
    PROVE  \E a \in batch : t.event = a.event /\ t.block = a.block /\ t.hash = a.hash
<1>1. PICK a \in batch : t = [event |-> a.event, block |-> a.block, hash |-> a.hash]
    BY DEF TradesOf
<1> QED
    BY <1>1

\* What is exact below a fork stays so.
LEMMA BlocksStay ==
    ASSUME NEW m \in Int, NEW k, Grows(k), ExactTo(m), m <= k, Height \in Nat,
           actions' = actions, trades' = trades, since' = since,
           \A a \in actions \union trades : a.block \in Nat /\ 1 <= a.block
    PROVE  ExactTo(m)'
<1>1. k \in Nat /\ k <= Height /\ Height <= Height' /\ Height' \in Int
      /\ \A n \in 1..k : chain'[n] = chain[n]
    BY DEF Grows, Height
<1>2. \A a \in actions \union trades : a.block <= m => InPlace(a)'
  <2> SUFFICES ASSUME NEW a \in actions \union trades, a.block <= m PROVE InPlace(a)'
      OBVIOUS
  <2>1. InPlace(a) /\ a.block \in Nat /\ 1 <= a.block
      BY DEF ExactTo
  <2>2. a.block \in 1..k /\ a.block \in 1..Height'
      BY <1>1, <2>1
  <2> QED
      BY <1>1, <2>1, <2>2 DEF InPlace
<1>3. \A n \in 1..m : InBlock(n)' = InBlock(n)
  <2> SUFFICES ASSUME NEW n \in 1..m PROVE InBlock(n)' = InBlock(n)
      OBVIOUS
  <2>1. chain'[n] = chain[n] /\ Hash(n)' = Hash(n)
      BY <1>1 DEF Hash
  <2> QED
      BY <2>1 DEF InBlock
<1> QED
    BY <1>2, <1>3 DEF ExactTo

LEMMA ExactBelow ==
    ASSUME NEW m \in Int, ExactTo(m), NEW l \in Int, l <= m,
           \A a \in actions \union trades : a.block \in Nat
    PROVE  ExactTo(l)
BY DEF ExactTo

\* How far the row is certain.
LEMMA RowFacts ==
    ASSUME RowOK, sub # None
    PROVE  /\ sub.next \in Nat /\ sub.hash \in Nat
           /\ sub.last # None => sub.last \in Nat /\ RewindTo(sub.last) \in Nat
                                 /\ RewindTo(sub.last) <= sub.last
           /\ CertainTo(sub) \in Nat /\ CertainTo(sub) <= sub.next
<1>1. /\ sub.next \in Nat /\ sub.hash \in Nat
      /\ sub.last \in Nat \/ sub.last = None
      /\ sub.last # None => sub.next = sub.last + 1
    BY ActivityAssumption, ChainAssumption DEF RowOK, Subscription
<1>2. \A n \in Nat : RewindTo(n) \in Nat /\ RewindTo(n) <= n
    BY ActivityAssumption, ChainAssumption DEF RewindTo
<1> QED
    BY <1>1, <1>2 DEF CertainTo

\* No fork disturbs what the row is certain of.
LEMMA CertainStays ==
    ASSUME ChainOK, RowOK, sub # None, since \in Nat, Clean, NEW k, Grows(k), FeedStill
    PROVE  ExactTo(CertainTo(sub) - 1)'
<1>1. /\ actions' = actions /\ trades' = trades /\ since' = since /\ sub' = sub
      /\ Height \in Nat /\ MaxDepth \in Nat
    BY LenProperties, ActivityAssumption, ChainAssumption DEF FeedStill, ChainOK, Height
<1>2. CertainTo(sub) \in Nat /\ CertainTo(sub)' = CertainTo(sub)
    BY <1>1, RowFacts DEF CertainTo, RewindTo
<1> DEFINE m == CertainTo(sub) - 1
<1>3. /\ ExactTo(m)
      /\ \A a \in actions \union trades : a.block \in Nat /\ 1 <= a.block
      /\ \/ CertainTo(sub) = 0
         \/ m + MaxDepth <= Height
         \/ actions = {} /\ trades = {} /\ since >= CertainTo(sub)
    BY DEF RowOK
<1>4. CASE m <= k
  <2> HIDE DEF m
  <2>1. ExactTo(m)'
      BY <1>1, <1>2, <1>3, <1>4, BlocksStay DEF m
  <2> QED
      BY <1>2, <2>1 DEF m, ExactTo
<1>5. CASE actions = {} /\ trades = {} /\ since >= CertainTo(sub)
    BY <1>1, <1>2, <1>5 DEF ExactTo
<1> QED
    BY <1>1, <1>2, <1>3, <1>4, <1>5 DEF Grows

LEMMA ChainKeepsRow ==
    ASSUME FeedInvariant, NEW k, Grows(k), ChainOK', FeedStill
    PROVE  RowOK'
<1>1. /\ actions' = actions /\ trades' = trades /\ since' = since /\ sub' = sub
      /\ run' = run /\ (Clean' <=> Clean)
      /\ ChainOK /\ RowOK /\ since \in Nat
    BY DEF FeedInvariant, FeedStill, Clean
<1>2. CASE sub = None
    BY <1>1, <1>2 DEF RowOK
<1>3. CASE sub # None
  <2>1. /\ Height \in Nat /\ Height' \in Nat /\ Height <= Height' /\ fork <= fork'
        /\ fork \in Nat /\ fork' \in Nat /\ k \in Nat
      BY <1>1, LenProperties DEF Grows, ChainOK, Height
  <2>2. /\ sub \in Subscription /\ sub.hash <= fork /\ sub.next <= Height + 1
        /\ sub.last # None => sub.next = sub.last + 1 /\ (sub.last = 0 \/ sub.last + Confirmations <= Height)
        /\ \A a \in actions \union trades : a.block \in Nat /\ 1 <= a.block /\ a.block < sub.next
        /\ \/ CertainTo(sub) = 0
           \/ CertainTo(sub) - 1 + MaxDepth <= Height
           \/ actions = {} /\ trades = {} /\ since >= CertainTo(sub)
        /\ Clean => ExactTo(CertainTo(sub) - 1) /\ (OnChain(sub) => ExactTo(sub.next - 1))
      BY <1>1, <1>3 DEF RowOK
  <2>3. /\ sub.next \in Nat /\ sub.hash \in Nat
        /\ sub.last # None => sub.last \in Nat
        /\ CertainTo(sub) \in Nat /\ CertainTo(sub)' = CertainTo(sub)
      BY <1>1, <1>3, RowFacts DEF CertainTo, RewindTo
  <2>4. Clean => ExactTo(CertainTo(sub) - 1)'
      BY <1>1, <1>3, CertainStays
  <2>5. Clean /\ OnChain(sub)' => ExactTo(sub.next - 1)'
    <3> SUFFICES ASSUME Clean, OnChain(sub)' PROVE ExactTo(sub.next - 1)'
        OBVIOUS
    <3>1. CASE sub.last = None
      <4>1. CertainTo(sub) = sub.next
          BY <3>1 DEF CertainTo
      <4>2. (CertainTo(sub) - 1)' = (sub.next - 1)'
          BY <1>1, <2>3, <4>1
      <4> QED
          BY <2>4, <4>2 DEF ExactTo
    <3>2. CASE sub.last # None
      <4>1. IsCanonical(sub.last, sub.hash)'
          BY <1>1, <3>2 DEF OnChain
      <4>2. sub.last <= Height /\ sub.hash \in 0..fork /\ sub.last \in Nat
          BY <2>1, <2>2, <2>3, <3>2, ActivityAssumption, ChainAssumption
      <4>3. IsCanonical(sub.last, sub.hash) /\ sub.last <= k
        <5>1. PICK n \in Nat, hash \in 0..fork : n = sub.last /\ hash = sub.hash
            BY <4>2
        <5>2. IsCanonical(n, hash)'
            BY <1>1, <4>1, <5>1 DEF IsCanonical, Hash
        <5>3. n <= Height
            BY <4>2, <5>1
        <5>4. IsCanonical(n, hash) /\ n <= k
            BY <1>1, <5>2, <5>3, HashesStay
        <5> QED
            BY <5>1, <5>4
      <4>4. OnChain(sub) /\ sub.next - 1 \in Int /\ sub.next - 1 <= k
          BY <2>2, <2>3, <3>2, <4>3 DEF OnChain
      <4>5. ExactTo(sub.next - 1)
          BY <2>2, <4>4
      <4>6. PICK m \in Int : m = sub.next - 1
          BY <4>4
      <4>7. ExactTo(m) /\ m <= k
          BY <4>4, <4>5, <4>6
      <4>8. ExactTo(m)'
          BY <1>1, <2>1, <2>2, <4>7, BlocksStay
      <4> QED
          BY <1>1, <4>6, <4>8 DEF ExactTo
    <3> QED
        BY <3>1, <3>2
  <2>6. /\ sub' # None /\ sub' \in Subscription /\ sub'.hash <= fork' /\ sub'.next <= Height' + 1
        /\ sub'.last # None => sub'.next = sub'.last + 1 /\ (sub'.last = 0 \/ sub'.last + Confirmations <= Height')
      BY <1>1, <1>3, <2>1, <2>2, <2>3, ActivityAssumption, ChainAssumption
  <2>7. \/ CertainTo(sub)' = 0
        \/ CertainTo(sub)' - 1 + MaxDepth <= Height'
        \/ actions' = {} /\ trades' = {} /\ since' >= CertainTo(sub)'
      BY <1>1, <2>1, <2>2, <2>3, ActivityAssumption, ChainAssumption
  <2> QED
      BY <1>1, <2>2, <2>4, <2>5, <2>6, <2>7 DEF RowOK
<1> QED
    BY <1>2, <1>3

LEMMA ReadStays ==
    ASSUME NEW w, NEW m \in Int, NEW k, Grows(k), HasRead(w, m), m <= k, run' = run
    PROVE  HasRead(w, m)'
<1>1. \A n \in 1..m : InBlock(n)' = InBlock(n)
  <2> SUFFICES ASSUME NEW n \in 1..m PROVE InBlock(n)' = InBlock(n)
      OBVIOUS
  <2>1. chain'[n] = chain[n] /\ Hash(n)' = Hash(n)
      BY DEF Hash, Grows
  <2> QED
      BY <2>1 DEF InBlock
<1> QED
    BY <1>1 DEF HasRead

\* The row of a worker that nobody overtook stays on the chain, as far as it has read.
LEMMA RowStays ==
    ASSUME ChainOK, RowOK, sub # None, NEW k, Grows(k), sub.next - 1 <= k, OnChain(sub), sub' = sub
    PROVE  OnChain(sub)'
<1>1. CASE sub.last = None
    BY <1>1 DEF OnChain
<1>2. CASE sub.last # None
  <2>1. IsCanonical(sub.last, sub.hash) /\ sub.last \in Nat /\ sub.hash \in Nat /\ sub.last <= k
      BY <1>2, RowFacts DEF OnChain, RowOK
  <2>2. PICK n \in Nat, hash \in Nat : n = sub.last /\ hash = sub.hash
      BY <2>1
  <2>3. IsCanonical(n, hash)'
      BY <2>1, <2>2, HashesKeep
  <2> QED
      BY <2>2, <2>3 DEF OnChain, IsCanonical, Hash
<1> QED
    BY <1>1, <1>2

\* A batch that waits to be stored, while the chain moves.
LEMMA ChainKeepsStore ==
    ASSUME FeedInvariant, NEW k, Grows(k), ChainOK', FeedStill,
           NEW w \in Worker, Storing(w), sub # None
    PROVE  Storing(w)'
<1>1. /\ actions' = actions /\ trades' = trades /\ since' = since /\ sub' = sub
      /\ run' = run /\ (Clean' <=> Clean) /\ late' = late /\ (w \notin shaken' => w \notin shaken)
      /\ ChainOK /\ RowOK /\ since \in Nat
    BY DEF FeedInvariant, FeedStill, Clean
<1>2. /\ Height \in Nat /\ Height' \in Nat /\ Height <= Height' /\ fork <= fork' /\ k >= Height - MaxDepth
      /\ fork \in Nat /\ fork' \in Nat /\ k \in Nat /\ MaxDepth \in Nat /\ Confirmations \in Nat
      /\ MaxDepth <= 2 * (Confirmations + 1)
    BY <1>1, LenProperties, ActivityAssumption, ChainAssumption DEF Grows, ChainOK, Height
<1>3. PICK next \in Nat, end \in Nat, hash \in 0..fork :
          next = run[w].next /\ end = run[w].end /\ hash = run[w].hash
    BY DEF Storing, RangeOK
<1>4. next <= end /\ end <= Height /\ (end = 0 \/ end + Confirmations <= Height)
    BY <1>3 DEF Storing, RangeOK
<1>5. RangeOK(w)' /\ BatchOK(w)' /\ run'[w].hash \in 0..fork'
    BY <1>1, <1>2, <1>3, <1>4 DEF RangeOK, BatchOK, Storing
<1>6. /\ RewindTo(end) \in Nat /\ RewindTo(end) - 1 <= k
      /\ RewindTo(run[w].end) = RewindTo(end) /\ RewindTo(run[w].end)' = RewindTo(end)
    BY <1>1, <1>2, <1>3, <1>4 DEF RewindTo
<1>7. w \notin shaken' => HasRead(w, RewindTo(run[w].end) - 1)'
  <2> SUFFICES ASSUME w \notin shaken' PROVE HasRead(w, RewindTo(run[w].end) - 1)'
      OBVIOUS
  <2>1. PICK m \in Int : m = RewindTo(end) - 1
      BY <1>6
  <2>2. HasRead(w, m) /\ m <= k
      BY <1>1, <1>6, <2>1 DEF Storing, Faithful
  <2>3. HasRead(w, m)'
      BY <1>1, <2>2, ReadStays
  <2> QED
      BY <1>6, <2>1, <2>3 DEF HasRead
<1>8. ASSUME IsCanonical(run[w].end, run[w].hash)'
      PROVE  IsCanonical(end, hash) /\ end <= k
  <2>1. IsCanonical(end, hash)'
      BY <1>1, <1>3, <1>8 DEF IsCanonical, Hash
  <2> QED
      BY <1>1, <1>4, <2>1, HashesStay
<1>9. w \notin shaken' /\ IsCanonical(run[w].end, run[w].hash)' => HasRead(w, run[w].end)'
  <2> SUFFICES ASSUME w \notin shaken', IsCanonical(run[w].end, run[w].hash)' PROVE HasRead(w, run[w].end)'
      OBVIOUS
  <2>1. HasRead(w, end) /\ end <= k
      BY <1>1, <1>3, <1>8 DEF Storing, Faithful
  <2>2. HasRead(w, end)'
      BY <1>1, <2>1, ReadStays
  <2> QED
      BY <1>1, <1>3, <2>2 DEF HasRead
<1>10. ASSUME w \notin shaken', w \notin late'
       PROVE  /\ sub'.next = run'[w].next
              /\ IsCanonical(run[w].end, run[w].hash)' => OnChain(sub)'
              /\ Clean' => \A m \in Int : m < run'[w].next /\ m < RewindTo(run[w].end)' => ExactTo(m)'
  <2>1. sub.next = next /\ (IsCanonical(end, hash) => OnChain(sub))
        /\ (Clean => \A m \in Int : m < next /\ m < RewindTo(end) => ExactTo(m))
      BY <1>1, <1>3, <1>10 DEF Storing, Faithful
  <2>2. ASSUME IsCanonical(run[w].end, run[w].hash)' PROVE OnChain(sub)'
    <3>1. OnChain(sub) /\ sub.next - 1 <= k
        BY <1>2, <1>4, <1>8, <2>1, <2>2
    <3> QED
        BY <1>1, <3>1, RowStays
  <2>3. ASSUME Clean', NEW m \in Int, m < next, m < RewindTo(end) PROVE ExactTo(m)'
    <3>1. ExactTo(m) /\ m <= k
        BY <1>1, <1>2, <1>6, <2>1, <2>3
    <3>2. \A a \in actions \union trades : a.block \in Nat /\ 1 <= a.block
        BY <1>1 DEF RowOK
    <3> QED
        BY <1>1, <1>2, <3>1, <3>2, BlocksStay
  <2> QED
      BY <1>1, <1>3, <1>6, <2>1, <2>2, <2>3
<1> QED
    BY <1>5, <1>7, <1>9, <1>10 DEF Storing, Faithful

LEMMA ChainKeepsRun ==
    ASSUME FeedInvariant, NEW k, Grows(k), Behind(k), ChainOK', FeedStill, NEW w \in Worker
    PROVE  RunOK(w)'
<1>1. /\ sub' = sub /\ run' = run /\ late' = late /\ (w \notin shaken' => w \notin shaken)
      /\ ChainOK /\ RowOK /\ RunOK(w)
    BY DEF FeedInvariant, FeedStill, Clean
<1>2. /\ Height \in Nat /\ Height' \in Nat /\ Height <= Height' /\ Confirmations \in Nat /\ k \in Nat
    BY <1>1, LenProperties, ActivityAssumption, ChainAssumption DEF Grows, ChainOK, Height
<1>3. CASE run[w].at \in {"resting", "rewind"}
    BY <1>1, <1>2, <1>3 DEF RunOK
<1>4. CASE run[w].at \in {"transfers", "hash"}
  <2>1. sub # None /\ Collecting(w)
      BY <1>1, <1>4 DEF RunOK, RowOK, Resting
  <2>2. PICK next \in Nat, end \in Nat : next = run[w].next /\ end = run[w].end
      BY <2>1 DEF Collecting, RangeOK
  <2>3. w \notin shaken' =>
          /\ next - 1 <= k /\ next <= end
          /\ run[w].at = "hash" => end <= k
      BY <1>2, <1>4, <2>1, <2>2 DEF Behind, Collecting, RangeOK
  <2>4. Collecting(w)'
    <3>1. RangeOK(w)'
        BY <1>1, <1>2, <2>1 DEF Collecting, RangeOK
    <3>2. w \notin late' => sub'.next = run'[w].next /\ (w \notin shaken' => OnChain(sub)')
        BY <1>1, <2>1, <2>2, <2>3, RowStays DEF Collecting
    <3> QED
        BY <3>1, <3>2 DEF Collecting
  <2>5. run[w].at = "hash" => BatchOK(w)' /\ (w \notin shaken' => HasRead(w, run[w].end)')
    <3> SUFFICES ASSUME run[w].at = "hash" PROVE BatchOK(w)' /\ (w \notin shaken' => HasRead(w, run[w].end)')
        OBVIOUS
    <3>1. BatchOK(w) /\ (w \notin shaken => HasRead(w, end))
        BY <1>1, <2>2 DEF RunOK
    <3>2. w \notin shaken' => HasRead(w, end)'
        BY <1>1, <2>3, <3>1, ReadStays
    <3> QED
        BY <1>1, <2>2, <3>1, <3>2 DEF HasRead, BatchOK
  <2> QED
      BY <1>1, <1>4, <2>4, <2>5 DEF RunOK
<1>5. CASE run[w].at = "store"
  <2>1. sub # None /\ Storing(w)
      BY <1>1, <1>5 DEF RunOK, RowOK, Resting
  <2>2. Storing(w)'
      BY <2>1, ChainKeepsStore
  <2> QED
      BY <1>1, <1>5, <2>2 DEF RunOK
<1> QED
    BY <1>1, <1>3, <1>4, <1>5 DEF RunOK

LEMMA ChainKeepsFeed ==
    ASSUME FeedInvariant, NEW k, Grows(k), Behind(k), ChainOK', FeedStill
    PROVE  FeedInvariant'
<1>1. RowOK'
    BY ChainKeepsRow
<1>2. \A w \in Worker : RunOK(w)'
    BY ChainKeepsRun
<1> QED
    BY <1>1, <1>2 DEF FeedInvariant, FeedStill, Clean

-----------------------------------------------------------------------------
(* The user's side.                                                         *)


\* The row's part says nothing of whether the subscription is active.
LEMMA RowKept ==
    ASSUME RowOK, sub # None, sub' \in Subscription,
           sub'.next = sub.next, sub'.last = sub.last, sub'.hash = sub.hash,
           chain' = chain, fork' = fork, actions' = actions, trades' = trades,
           since' = since, (Clean' => Clean)
    PROVE  RowOK'
<1>1. sub' # None /\ Height' = Height
    BY ActivityAssumption, ChainAssumption DEF Height
<1>2. CertainTo(sub)' = CertainTo(sub) /\ (OnChain(sub)' <=> OnChain(sub))
    BY DEF CertainTo, RewindTo, OnChain, IsCanonical, Hash
<1>3. \A m : ExactTo(m)' <=> ExactTo(m)
    BY <1>1 DEF ExactTo, InPlace, InBlock, Hash
<1>4. ExactTo(CertainTo(sub) - 1)' <=> ExactTo(CertainTo(sub) - 1)
    BY <1>1, <1>2 DEF ExactTo, InPlace, InBlock, Hash
<1>5. ExactTo(sub.next - 1)' <=> ExactTo(sub.next - 1)
    BY <1>1, <1>2 DEF ExactTo, InPlace, InBlock, Hash
<1>6. /\ sub.hash <= fork /\ sub.next <= Height + 1
      /\ sub.last # None => sub.next = sub.last + 1 /\ (sub.last = 0 \/ sub.last + Confirmations <= Height)
      /\ \A a \in actions \union trades : a.block \in Nat /\ 1 <= a.block /\ a.block < sub.next
      /\ \/ CertainTo(sub) = 0
         \/ CertainTo(sub) - 1 + MaxDepth <= Height
         \/ actions = {} /\ trades = {} /\ since >= CertainTo(sub)
      /\ Clean => ExactTo(CertainTo(sub) - 1) /\ (OnChain(sub) => ExactTo(sub.next - 1))
    BY DEF RowOK
<1>7. /\ sub' # None /\ sub' \in Subscription /\ sub'.hash <= fork' /\ sub'.next <= Height' + 1
      /\ sub'.last # None => sub'.next = sub'.last + 1 /\ (sub'.last = 0 \/ sub'.last + Confirmations <= Height')
    BY <1>1, <1>6
<1>8. /\ \/ CertainTo(sub)' = 0
         \/ CertainTo(sub)' - 1 + MaxDepth <= Height'
         \/ actions' = {} /\ trades' = {} /\ since' >= CertainTo(sub)'
      /\ Clean' => ExactTo(CertainTo(sub) - 1)' /\ (OnChain(sub)' => ExactTo(sub.next - 1)')
    BY <1>1, <1>2, <1>4, <1>5, <1>6
<1> QED
    BY <1>6, <1>7, <1>8 DEF RowOK

\* A worker's part is disturbed only by what changes the row it has read.
LEMMA RunKept ==
    ASSUME NEW w, RunOK(w), run'[w] = run[w], chain' = chain, fork' = fork,
           w \notin shaken' => w \notin shaken,
           w \notin late' /\ run[w].at \in {"transfers", "hash", "store"} =>
              /\ w \notin late /\ sub'.next = sub.next /\ (OnChain(sub) => OnChain(sub)')
              /\ Clean' => /\ Clean
                           /\ \A m \in Int : m < sub.next /\ ExactTo(m) => ExactTo(m)'
    PROVE  RunOK(w)'
<1>1. /\ Height' = Height
      /\ RewindTo(run[w].end)' = RewindTo(run[w].end)
      /\ IsCanonical(run[w].end, run[w].hash)' <=> IsCanonical(run[w].end, run[w].hash)
    BY DEF Height, RewindTo, IsCanonical, Hash
<1>2. /\ RangeOK(w)' <=> RangeOK(w)
      /\ BatchOK(w)' <=> BatchOK(w)
      /\ HasRead(w, run[w].end)' <=> HasRead(w, run[w].end)
      /\ HasRead(w, RewindTo(run[w].end) - 1)' <=> HasRead(w, RewindTo(run[w].end) - 1)
    BY <1>1 DEF RangeOK, BatchOK, HasRead, InBlock, Hash
<1>3. run[w].at \in {"transfers", "hash"} => Collecting(w)'
    BY <1>2 DEF RunOK, Collecting
<1>4. run[w].at = "store" => Storing(w)'
  <2> SUFFICES ASSUME run[w].at = "store" PROVE Storing(w)'
      OBVIOUS
  <2>1. Storing(w)
      BY DEF RunOK
  <2>2. /\ RangeOK(w)' /\ BatchOK(w)' /\ run'[w].hash \in 0..fork'
        /\ w \notin shaken' =>
             /\ HasRead(w, RewindTo(run[w].end) - 1)'
             /\ IsCanonical(run[w].end, run[w].hash)' => HasRead(w, run[w].end)'
      BY <1>1, <1>2, <2>1 DEF Storing, Faithful
  <2>3. ASSUME w \notin shaken', w \notin late'
        PROVE  /\ sub'.next = run'[w].next
               /\ IsCanonical(run[w].end, run[w].hash)' => OnChain(sub)'
               /\ Clean' => \A m \in Int : m < run'[w].next /\ m < RewindTo(run[w].end)' => ExactTo(m)'
      BY <1>1, <2>1, <2>3 DEF Storing, Faithful
  <2> QED
      BY <2>2, <2>3 DEF Storing, Faithful
<1> QED
    BY <1>1, <1>2, <1>3, <1>4 DEF RunOK

LEMMA SubscribeKeepsFeed ==
    ASSUME FeedInvariant, Subscribe, UNCHANGED chainVars
    PROVE  FeedInvariant'
<1>1. /\ actions' = actions /\ trades' = trades /\ holder' = holder /\ run' = run
      /\ late' = late /\ (Clean' => Clean) /\ shaken' = shaken /\ chain' = chain /\ fork' = fork
      /\ ChainOK /\ RowOK /\ since \in Nat /\ \A w \in Worker : RunOK(w)
    BY DEF FeedInvariant, Subscribe, chainVars, Clean
<1>2. Height' = Height /\ Height \in Nat /\ ChainOK' /\ fork \in Nat
    BY <1>1, LenProperties DEF ChainOK, Height
<1>3. PICK first \in 0..SafeHead :
         IF sub = None
           THEN /\ sub' = [active |-> TRUE, next |-> first, last |-> None, hash |-> 0]
                /\ since' = first
           ELSE sub' = [sub EXCEPT !.active = TRUE] /\ UNCHANGED since
    BY DEF Subscribe
<1>4. CASE sub = None
  <2>1. /\ sub' = [active |-> TRUE, next |-> first, last |-> None, hash |-> 0] /\ since' = first
        /\ actions = {} /\ trades = {} /\ \A w \in Worker : run[w] = Resting
      BY <1>1, <1>3, <1>4 DEF RowOK
  <2>2. SafeHead \in Nat /\ SafeHead <= Height
      BY <1>2, ActivityAssumption, ChainAssumption DEF SafeHead, Max
  <2>3. first \in 0..(MaxHeight + 1) /\ first <= Height + 1 /\ first \in Nat
      BY <1>1, <1>2, <2>2, ActivityAssumption, ChainAssumption DEF ChainOK
  <2>4. sub' \in Subscription /\ sub' # None
    <3>1. 0 \in 0..MaxForks /\ None \in 0..MaxHeight \union {None} /\ TRUE \in BOOLEAN
        BY ActivityAssumption, ChainAssumption
    <3>2. sub' \in Subscription
        BY <2>1, <2>3, <3>1 DEF Subscription
    <3> QED
        BY <3>2, ActivityAssumption, ChainAssumption
  <2>5. CertainTo(sub)' = first /\ sub'.next = first /\ sub'.last = None /\ sub'.hash = 0
      BY <2>1 DEF CertainTo
  <2>6. ExactTo(CertainTo(sub) - 1)' /\ ExactTo(sub.next - 1)'
      BY <1>1, <2>1, <2>3, <2>5 DEF ExactTo
  <2>7. RowOK'
      BY <1>1, <1>2, <2>1, <2>3, <2>4, <2>5, <2>6 DEF RowOK
  <2>8. \A w \in Worker : RunOK(w)'
      BY <1>1, <2>1 DEF RunOK, Resting
  <2> QED
      BY <1>1, <1>2, <2>1, <2>3, <2>7, <2>8 DEF FeedInvariant
<1>5. CASE sub # None
  <2>1. sub' = [sub EXCEPT !.active = TRUE] /\ since' = since /\ sub \in Subscription
      BY <1>1, <1>3, <1>5 DEF RowOK
  <2>2. sub' \in Subscription /\ sub'.next = sub.next /\ sub'.last = sub.last /\ sub'.hash = sub.hash
      BY <2>1 DEF Subscription
  <2>3. RowOK'
      BY <1>1, <1>5, <2>1, <2>2, RowKept
  <2>4. (OnChain(sub)' <=> OnChain(sub)) /\ \A m : ExactTo(m)' <=> ExactTo(m)
      BY <1>1, <1>2, <2>1, <2>2 DEF OnChain, IsCanonical, Hash, ExactTo, InPlace, InBlock
  <2>5. \A w \in Worker : RunOK(w)'
      BY <1>1, <2>2, <2>4, RunKept
  <2> QED
      BY <1>1, <1>2, <2>1, <2>3, <2>5 DEF FeedInvariant
<1> QED
    BY <1>4, <1>5

LEMMA UnsubscribeKeepsFeed ==
    ASSUME FeedInvariant, Unsubscribe, UNCHANGED chainVars
    PROVE  FeedInvariant'
<1>1. /\ actions' = actions /\ trades' = trades /\ holder' = holder /\ run' = run /\ since' = since
      /\ late' = late /\ (Clean' => Clean) /\ shaken' = shaken /\ chain' = chain /\ fork' = fork
      /\ ChainOK /\ RowOK /\ since \in Nat /\ \A w \in Worker : RunOK(w)
      /\ sub # None /\ sub' = [sub EXCEPT !.active = FALSE]
    BY DEF FeedInvariant, Unsubscribe, Subscribed, chainVars, Clean
<1>2. Height' = Height /\ ChainOK' /\ sub \in Subscription
    BY <1>1 DEF ChainOK, Height, RowOK
<1>3. sub' \in Subscription /\ sub'.next = sub.next /\ sub'.last = sub.last /\ sub'.hash = sub.hash
    BY <1>1, <1>2 DEF Subscription
<1>4. RowOK'
    BY <1>1, <1>3, RowKept
<1>5. (OnChain(sub)' <=> OnChain(sub)) /\ \A m : ExactTo(m)' <=> ExactTo(m)
    BY <1>1, <1>2, <1>3 DEF OnChain, IsCanonical, Hash, ExactTo, InPlace, InBlock
<1>6. \A w \in Worker : RunOK(w)'
    BY <1>1, <1>3, <1>5, RunKept
<1> QED
    BY <1>1, <1>2, <1>4, <1>6 DEF FeedInvariant

\* Who wipes a list asks for nothing below the cursor any more.
LEMMA WipeKeepsFeed ==
    ASSUME FeedInvariant, WipeActions \/ WipeTrades, UNCHANGED chainVars
    PROVE  FeedInvariant'
<1>1. /\ actions' \subseteq actions /\ trades' \subseteq trades /\ actions \union trades # {}
      /\ holder' = holder /\ run' = run /\ since' = sub.next /\ sub' = sub
      /\ late' = late /\ (Clean' => Clean) /\ shaken' = shaken /\ chain' = chain /\ fork' = fork
      /\ ChainOK /\ RowOK /\ since \in Nat /\ \A w \in Worker : RunOK(w)
    BY DEF FeedInvariant, WipeActions, WipeTrades, chainVars, Clean
<1>2. Height' = Height /\ ChainOK' /\ sub # None
    BY <1>1 DEF ChainOK, Height, RowOK
<1>3. /\ sub.next \in Nat /\ CertainTo(sub) \in Nat /\ CertainTo(sub) <= sub.next
      /\ CertainTo(sub)' = CertainTo(sub)
    BY <1>1, <1>2, RowFacts DEF CertainTo, RewindTo
<1>4. ASSUME NEW m \in Int, m < sub.next, ExactTo(m) PROVE ExactTo(m)'
  <2>1. \A n \in 1..m : ~(n >= since')
      BY <1>1, <1>3, <1>4
  <2>2. \A a \in actions' \union trades' : a.block <= m => InPlace(a)'
      BY <1>1, <1>2, <1>4 DEF ExactTo, InPlace
  <2> QED
      BY <2>1, <2>2 DEF ExactTo
<1>5. ASSUME NEW m \in Int, m = CertainTo(sub) - 1 \/ m = sub.next - 1
      PROVE  m < sub.next
    BY <1>3, <1>5
<1>6. ExactTo(CertainTo(sub) - 1) => ExactTo(CertainTo(sub) - 1)'
  <2>1. PICK m \in Int : m = CertainTo(sub) - 1
      BY <1>3
  <2>2. ExactTo(m) => ExactTo(m)'
      BY <1>4, <1>5, <2>1
  <2> QED
      BY <1>3, <2>1, <2>2 DEF ExactTo
<1>7. ExactTo(sub.next - 1) => ExactTo(sub.next - 1)'
  <2>1. PICK m \in Int : m = sub.next - 1
      BY <1>3
  <2>2. ExactTo(m) => ExactTo(m)'
      BY <1>4, <1>5, <2>1
  <2> QED
      BY <1>1, <2>1, <2>2 DEF ExactTo
<1>8. OnChain(sub)' <=> OnChain(sub)
    BY <1>1 DEF OnChain, IsCanonical, Hash
<1>9. RowOK'
  <2>1. /\ sub \in Subscription /\ sub.hash <= fork /\ sub.next <= Height + 1
        /\ sub.last # None => sub.next = sub.last + 1 /\ (sub.last = 0 \/ sub.last + Confirmations <= Height)
        /\ \A a \in actions \union trades : a.block \in Nat /\ 1 <= a.block /\ a.block < sub.next
        /\ \/ CertainTo(sub) = 0
           \/ CertainTo(sub) - 1 + MaxDepth <= Height
           \/ actions = {} /\ trades = {} /\ since >= CertainTo(sub)
        /\ Clean => ExactTo(CertainTo(sub) - 1) /\ (OnChain(sub) => ExactTo(sub.next - 1))
      BY <1>1, <1>2 DEF RowOK
  <2>2. /\ \A a \in actions' \union trades' : a.block \in Nat /\ 1 <= a.block /\ a.block < sub'.next
        /\ \/ CertainTo(sub)' = 0
           \/ CertainTo(sub)' - 1 + MaxDepth <= Height'
           \/ actions' = {} /\ trades' = {} /\ since' >= CertainTo(sub)'
        /\ Clean' => ExactTo(CertainTo(sub) - 1)' /\ (OnChain(sub)' => ExactTo(sub.next - 1)')
      BY <1>1, <1>2, <1>3, <1>6, <1>7, <1>8, <2>1
  <2> QED
      BY <1>1, <1>2, <2>1, <2>2 DEF RowOK
<1>10. \A w \in Worker : RunOK(w)'
    BY <1>1, <1>4, <1>8, RunKept
<1> QED
    BY <1>1, <1>2, <1>3, <1>9, <1>10 DEF FeedInvariant

-----------------------------------------------------------------------------
(* The workers' side.                                                       *)

\* A step of one worker that writes nothing.
LEMMA WorkKeepsFeed ==
    ASSUME FeedInvariant, NEW w \in Worker, NEW r, run' = [run EXCEPT ![w] = r],
           chain' = chain, fork' = fork, sub' = sub, actions' = actions, trades' = trades,
           since' = since, (Clean' => Clean), holder' \in Worker \union {None},
           late \ {w} \subseteq late', shaken \ {w} \subseteq shaken', sub = None => r = Resting, RunOK(w)'
    PROVE  FeedInvariant'
<1>1. /\ ChainOK /\ RowOK /\ since \in Nat
      /\ run = [v \in Worker |-> run[v]] /\ \A v \in Worker : RunOK(v)
    BY DEF FeedInvariant
<1>2. Height' = Height /\ ChainOK'
    BY <1>1 DEF ChainOK, Height
<1>3. /\ run'[w] = r /\ \A v \in Worker \ {w} : run'[v] = run[v]
      /\ run' = [v \in Worker |-> run'[v]]
    BY <1>1
<1>4. RowOK'
  <2>1. CASE sub = None
      BY <1>1, <1>3, <2>1 DEF RowOK
  <2>2. CASE sub # None
    <3>1. sub \in Subscription
        BY <1>1, <2>2 DEF RowOK
    <3> QED
        BY <1>1, <2>2, <3>1, RowKept
  <2> QED
      BY <2>1, <2>2
<1>5. (OnChain(sub) => OnChain(sub)') /\ \A m : ExactTo(m) => ExactTo(m)'
    BY <1>2 DEF OnChain, IsCanonical, Hash, ExactTo, InPlace, InBlock
<1>6. ASSUME NEW v \in Worker PROVE RunOK(v)'
  <2>1. CASE v # w
    <3>1. RunOK(v) /\ run'[v] = run[v] /\ (v \notin late' => v \notin late)
          /\ (v \notin shaken' => v \notin shaken)
        BY <1>1, <1>3, <2>1
    <3> QED
        BY <1>5, <3>1, RunKept
  <2> QED
      BY <2>1
<1> QED
    BY <1>1, <1>2, <1>3, <1>4, <1>6 DEF FeedInvariant

LEMMA BeginKeepsFeed ==
    ASSUME FeedInvariant, NEW w \in Worker, Begin(w), UNCHANGED chainVars
    PROVE  FeedInvariant'
<1>1. /\ ChainOK /\ RowOK /\ run = [v \in Worker |-> run[v]] /\ RunOK(w)
      /\ chain' = chain /\ fork' = fork /\ sub' = sub /\ actions' = actions /\ trades' = trades
      /\ since' = since /\ late' = late /\ (Clean' => Clean) /\ shaken' = shaken /\ holder' = w
    BY DEF FeedInvariant, Begin, chainVars, Clean
<1> DEFINE r == IF ~Subscribed \/ sub.next > SafeHead THEN Resting
                ELSE IF ~OnChain(sub) THEN [at |-> "rewind", last |-> sub.last]
                ELSE [at |-> "transfers", next |-> sub.next,
                      end |-> Min({sub.next + BlockChunk - 1, SafeHead})]
<1>2. run' = [run EXCEPT ![w] = r] /\ run'[w] = r
    BY <1>1 DEF Begin
<1>3. sub = None => r = Resting
    BY DEF Subscribed
<1>4. Height' = Height /\ Height \in Nat /\ Confirmations \in Nat
    BY <1>1, LenProperties, ActivityAssumption, ChainAssumption DEF ChainOK, Height
<1>5. SafeHead = (IF Height >= Confirmations THEN Height - Confirmations ELSE 0)
    BY <1>4 DEF SafeHead, Max
<1>6. RunOK(w)'
  <2>1. CASE ~Subscribed \/ sub.next > SafeHead
      BY <1>2, <2>1 DEF RunOK, Resting
  <2>2. CASE Subscribed /\ ~(sub.next > SafeHead)
    <3>1. sub # None /\ sub.next \in Nat /\ sub.next <= SafeHead
          /\ (sub.last # None => sub.last \in Nat)
        BY <1>1, <1>4, <1>5, <2>2, RowFacts DEF Subscribed
    <3>2. CASE ~OnChain(sub)
      <4>1. r = [at |-> "rewind", last |-> sub.last]
          BY <2>2, <3>2
      <4>2. sub.last # None /\ sub.last \in Nat
          BY <3>1, <3>2 DEF OnChain
      <4> QED
          BY <1>1, <1>2, <1>4, <3>1, <4>1, <4>2 DEF RunOK, RowOK
    <3>3. CASE OnChain(sub)
      <4> DEFINE end == Min({sub.next + BlockChunk - 1, SafeHead})
      <4>1. r = [at |-> "transfers", next |-> sub.next, end |-> end]
          BY <2>2, <3>3
      <4>2. end = IF sub.next + BlockChunk - 1 <= SafeHead THEN sub.next + BlockChunk - 1 ELSE SafeHead
          BY <1>4, <1>5, <3>1, ActivityAssumption, ChainAssumption DEF Min
      <4>3. end \in Nat /\ sub.next <= end /\ end <= SafeHead
          BY <1>4, <1>5, <3>1, <4>2, ActivityAssumption, ChainAssumption
      <4>4. end <= Height /\ (end = 0 \/ end + Confirmations <= Height)
          BY <1>4, <1>5, <4>3
      <4> HIDE DEF end, r
      <4>5. run'[w].at = "transfers" /\ run'[w].next = sub.next /\ run'[w].end = end
          BY <1>2, <4>1
      <4>6. OnChain(sub)'
          BY <1>1, <3>3 DEF OnChain, IsCanonical, Hash
      <4>7. Collecting(w)'
          BY <1>1, <1>4, <3>1, <4>3, <4>4, <4>5, <4>6 DEF Collecting, RangeOK
      <4> QED
          BY <4>5, <4>7 DEF RunOK
    <3> QED
        BY <3>2, <3>3
  <2> QED
      BY <2>1, <2>2
<1> HIDE DEF r
<1> QED
    BY <1>1, <1>2, <1>3, <1>6, WorkKeepsFeed

LEMMA FailKeepsFeed ==
    ASSUME FeedInvariant, NEW w \in Worker, Fail(w), UNCHANGED chainVars
    PROVE  FeedInvariant'
<1>1. /\ chain' = chain /\ fork' = fork /\ sub' = sub /\ actions' = actions /\ trades' = trades
      /\ since' = since /\ late' = late \ {w} /\ (Clean' => Clean) /\ shaken' = shaken \ {w}
      /\ holder' \in Worker \union {None} /\ run' = [run EXCEPT ![w] = Resting]
      /\ run = [v \in Worker |-> run[v]]
    BY DEF FeedInvariant, Fail, Rest, chainVars, Clean
<1>2. RunOK(w)'
    BY <1>1 DEF RunOK, Resting
<1> QED
    BY <1>1, <1>2, WorkKeepsFeed

LEMMA ReadTransfersKeepsFeed ==
    ASSUME FeedInvariant, NEW w \in Worker, ReadTransfers(w), UNCHANGED chainVars
    PROVE  FeedInvariant'
<1>1. /\ chain' = chain /\ fork' = fork /\ sub' = sub /\ actions' = actions /\ trades' = trades
      /\ since' = since /\ (Clean' => Clean) /\ holder' \in Worker \union {None}
      /\ run = [v \in Worker |-> run[v]] /\ run[w].at = "transfers"
      /\ ChainOK /\ RowOK /\ RunOK(w)
    BY DEF FeedInvariant, ReadTransfers, chainVars, Clean
<1>2. sub # None /\ Collecting(w)
    BY <1>1 DEF RunOK, RowOK, Resting
<1>3. CASE Rest(w) /\ late' = late \ {w}
  <2>1. run' = [run EXCEPT ![w] = Resting] /\ shaken' = shaken \ {w} /\ RunOK(w)'
      BY <1>1, <1>3 DEF Rest, RunOK, Resting
  <2> QED
      BY <1>1, <1>3, <2>1, WorkKeepsFeed
<1>4. CASE ~(Rest(w) /\ late' = late \ {w})
  <2> DEFINE batch == ActionsOf(run[w].next, run[w].end)
             r == [at |-> "hash", next |-> run[w].next, end |-> run[w].end, batch |-> batch]
  <2>1. run' = [run EXCEPT ![w] = r] /\ late' = late /\ shaken' = shaken
      BY <1>4 DEF ReadTransfers
  <2>2. PICK next \in Nat, end \in Nat : next = run[w].next /\ end = run[w].end
      BY <1>2 DEF Collecting, RangeOK
  <2>3. next <= end /\ end <= Height /\ Height \in Nat
      BY <1>1, <1>2, <2>2, LenProperties DEF Collecting, RangeOK, ChainOK, Height
  <2>4. batch = ActionsOf(next, end)
      BY <2>2
  <2>5. /\ \A x \in batch : /\ x.block \in 1..end /\ next <= x.block /\ InPlace(x)
        /\ \A n \in 1..end : n >= next => {x \in batch : x.block = n} = InBlock(n)
        /\ \A x, y \in batch : x.event = y.event => x.block = y.block
      BY <1>1, <2>3, <2>4, ActionsByBlock
  <2>6. r.at = "hash" /\ r.next = next /\ r.end = end /\ r.batch = batch
      BY <2>2
  <2> HIDE DEF batch, r
  <2>7. run'[w] = r
      BY <1>1, <2>1
  <2>8. BatchOK(w)'
    <3>1. ASSUME NEW a \in batch
          PROVE  /\ a.block \in Nat /\ 1 <= a.block /\ next <= a.block
                 /\ a.block <= end /\ a.hash \in 0..MaxForks
      <4>1. a.block \in 1..Height /\ a.hash = chain[a.block].fork
          BY <2>5 DEF InPlace
      <4>2. a.hash \in 0..MaxForks
          BY <1>1, <4>1, BlockFacts
      <4> QED
          BY <2>3, <2>5, <3>1, <4>2
    <3> QED
        BY <2>5, <2>6, <2>7, <3>1 DEF BatchOK
  <2>9. HasRead(w, run[w].end)'
      BY <1>1, <2>5, <2>6, <2>7 DEF HasRead, InBlock, Hash
  <2>10. Collecting(w)'
    <3>1. OnChain(sub) => OnChain(sub)'
        BY <1>1 DEF OnChain, IsCanonical, Hash
    <3>2. Height' = Height
        BY <1>1 DEF Height
    <3> QED
        BY <1>1, <1>2, <2>1, <2>2, <2>6, <2>7, <3>1, <3>2 DEF Collecting, RangeOK
  <2>11. RunOK(w)'
      BY <2>6, <2>7, <2>8, <2>9, <2>10 DEF RunOK
  <2> QED
      BY <1>1, <1>2, <2>1, <2>11, WorkKeepsFeed
<1> QED
    BY <1>3, <1>4

LEMMA ReadLastHashKeepsFeed ==
    ASSUME FeedInvariant, NEW w \in Worker, ReadLastHash(w), UNCHANGED chainVars
    PROVE  FeedInvariant'
<1> DEFINE r == [at |-> "store", next |-> run[w].next, end |-> run[w].end,
                 batch |-> run[w].batch, hash |-> Hash(run[w].end)]
<1>1. /\ chain' = chain /\ fork' = fork /\ sub' = sub /\ actions' = actions /\ trades' = trades
      /\ since' = since /\ late' = late /\ (Clean' => Clean) /\ shaken' = shaken /\ holder' \in Worker \union {None}
      /\ run = [v \in Worker |-> run[v]] /\ run[w].at = "hash" /\ run' = [run EXCEPT ![w] = r]
      /\ ChainOK /\ RowOK /\ RunOK(w)
    BY DEF FeedInvariant, ReadLastHash, chainVars, Clean
<1>2. sub # None /\ Collecting(w) /\ BatchOK(w) /\ (w \notin shaken => HasRead(w, run[w].end))
    BY <1>1 DEF RunOK, RowOK, Resting
<1>3. PICK next \in Nat, end \in Nat : next = run[w].next /\ end = run[w].end
    BY <1>2 DEF Collecting, RangeOK
<1>4. next <= end /\ end <= Height /\ Height \in Nat /\ fork \in Nat /\ Height' = Height
    BY <1>1, <1>2, <1>3, LenProperties DEF Collecting, RangeOK, ChainOK, Height
<1>5. /\ r.at = "store" /\ r.next = next /\ r.end = end /\ r.batch = run[w].batch
      /\ r.hash = Hash(end)
    BY <1>3
<1> HIDE DEF r
<1>6. run'[w] = r
    BY <1>1
<1>7. Hash(end) \in 0..fork
  <2>1. CASE end = 0
      BY <1>4, <2>1 DEF Hash
  <2>2. CASE end # 0
    <3>1. end \in 1..Height
        BY <1>3, <1>4, <2>2
    <3> QED
        BY <1>1, <1>4, <3>1, BlockFacts
  <2> QED
      BY <2>1, <2>2
<1>8. RangeOK(w)' /\ BatchOK(w)'
    BY <1>2, <1>3, <1>4, <1>5, <1>6 DEF Collecting, RangeOK, BatchOK
<1>9. RewindTo(end) \in Nat /\ RewindTo(end) <= end
      /\ RewindTo(run[w].end)' = RewindTo(end)
    BY <1>3, <1>5, <1>6, ActivityAssumption, ChainAssumption DEF RewindTo
<1>10. w \notin shaken => HasRead(w, run[w].end)'
    BY <1>1, <1>2, <1>3, <1>5, <1>6 DEF HasRead, InBlock, Hash
<1>11. w \notin shaken => HasRead(w, RewindTo(run[w].end) - 1)'
  <2>1. \A n \in 1..(RewindTo(end) - 1) : n \in 1..end
      BY <1>9
  <2> QED
      BY <1>1, <1>2, <1>3, <1>5, <1>6, <1>9, <2>1 DEF HasRead, InBlock, Hash
<1>12. ASSUME w \notin shaken, w \notin late'
       PROVE  /\ sub'.next = run'[w].next /\ OnChain(sub)'
              /\ Clean' => \A m \in Int : m < run'[w].next => ExactTo(m)'
  <2>1. sub.next = next /\ OnChain(sub)
      BY <1>1, <1>2, <1>3, <1>12 DEF Collecting
  <2>2. OnChain(sub)' /\ \A m : ExactTo(m) => ExactTo(m)'
      BY <1>1, <1>4, <2>1 DEF OnChain, IsCanonical, Hash, ExactTo, InPlace, InBlock
  <2>3. ASSUME Clean, NEW m \in Int, m < next PROVE ExactTo(m)
    <3>1. ExactTo(next - 1)
        BY <1>1, <1>2, <2>1, <2>3 DEF RowOK
    <3>2. m <= next - 1 /\ \A n \in 1..m : n \in 1..(next - 1)
        BY <1>3, <2>3
    <3>3. \A a \in actions \union trades : a.block \in Nat
        BY <1>1, <1>2 DEF RowOK
    <3> QED
        BY <1>3, <2>3, <3>1, <3>2, <3>3 DEF ExactTo
  <2> QED
      BY <1>1, <1>5, <1>6, <2>1, <2>2, <2>3
<1>13. Storing(w)'
    BY <1>1, <1>5, <1>6, <1>7, <1>8, <1>10, <1>11, <1>12 DEF Storing, Faithful
<1>14. RunOK(w)'
    BY <1>5, <1>6, <1>13 DEF RunOK
<1> QED
    BY <1>1, <1>2, <1>14, WorkKeepsFeed

LEMMA LeaseKeepsFeed ==
    ASSUME FeedInvariant, ExpireLease \/ UNCHANGED activityVars, UNCHANGED chainVars
    PROVE  FeedInvariant'
<1>1. /\ chain' = chain /\ fork' = fork /\ sub' = sub /\ actions' = actions /\ trades' = trades
      /\ since' = since /\ late' = late /\ (Clean' => Clean) /\ shaken' = shaken /\ run' = run
      /\ holder' \in Worker \union {None}
      /\ ChainOK /\ RowOK /\ since \in Nat
      /\ run = [v \in Worker |-> run[v]] /\ \A v \in Worker : RunOK(v)
    BY DEF FeedInvariant, ExpireLease, chainVars, activityVars, Clean
<1>2. Height' = Height /\ ChainOK'
    BY <1>1 DEF ChainOK, Height
<1>3. RowOK'
  <2>1. CASE sub = None
      BY <1>1, <2>1 DEF RowOK
  <2>2. CASE sub # None
    <3>1. sub \in Subscription
        BY <1>1, <2>2 DEF RowOK
    <3> QED
        BY <1>1, <2>2, <3>1, RowKept
  <2> QED
      BY <2>1, <2>2
<1>4. (OnChain(sub) => OnChain(sub)') /\ \A m : ExactTo(m) => ExactTo(m)'
    BY <1>1, <1>2 DEF OnChain, IsCanonical, Hash, ExactTo, InPlace, InBlock
<1>5. \A v \in Worker : RunOK(v)'
    BY <1>1, <1>4, RunKept
<1> QED
    BY <1>1, <1>2, <1>3, <1>5 DEF FeedInvariant

\* What a worker that writes leaves to the others: those who collect are late.
LEMMA OthersAreLate ==
    ASSUME FeedInvariant, NEW w \in Worker, Rest(w), late' = LateAfter(w),
           chain' = chain, fork' = fork
    PROVE  ChainOK' /\ run' = [v \in Worker |-> run'[v]] /\ \A v \in Worker : RunOK(v)'
<1>1. /\ ChainOK /\ run = [v \in Worker |-> run[v]] /\ \A v \in Worker : RunOK(v)
    BY DEF FeedInvariant
<1>2. /\ run'[w] = Resting /\ \A v \in Worker \ {w} : run'[v] = run[v]
      /\ run' = [v \in Worker |-> run'[v]] /\ shaken' = shaken \ {w}
    BY <1>1 DEF Rest
<1>3. ASSUME NEW v \in Worker PROVE RunOK(v)'
  <2>1. CASE v = w
      BY <1>2, <2>1 DEF RunOK, Resting
  <2>2. CASE v # w
    <3>1. run[v].at \in {"transfers", "hash", "store"} => v \in late'
        BY <2>2 DEF LateAfter
    <3>2. RunOK(v) /\ run'[v] = run[v] /\ (v \notin shaken' => v \notin shaken)
        BY <1>1, <1>2, <2>2
    <3> QED
        BY <3>1, <3>2, RunKept
  <2> QED
      BY <2>1, <2>2
<1>4. ChainOK'
    BY <1>1 DEF ChainOK, Height
<1> QED
    BY <1>2, <1>3, <1>4

LEMMA RewindKeepsFeed ==
    ASSUME FeedInvariant, NEW w \in Worker, Rewind(w), UNCHANGED chainVars
    PROVE  FeedInvariant'
<1>1. /\ chain' = chain /\ fork' = fork /\ since' = since /\ holder' \in Worker \union {None}
      /\ late' = LateAfter(w) /\ Rest(w) /\ run[w].at = "rewind" /\ since \in Nat
      /\ ChainOK /\ RowOK /\ RunOK(w)
    BY DEF FeedInvariant, Rewind, chainVars
<1>2. sub # None /\ sub \in Subscription
  <2>1. sub # None
      BY <1>1 DEF RowOK, Resting
  <2> QED
      BY <1>1, <2>1 DEF RowOK
<1>3. PICK last \in Nat : last = run[w].last /\ (last = 0 \/ last + Confirmations <= Height)
    BY <1>1 DEF RunOK
<1>4. PICK next \in Nat : next = RewindTo(last)
    BY <1>3, ActivityAssumption, ChainAssumption DEF RewindTo
<1>5. /\ sub' = [sub EXCEPT !.next = next, !.last = None, !.hash = 0]
      /\ actions' = {a \in actions : a.block < next}
      /\ trades' = {t \in trades : t.block < next}
      /\ overtaken' = (overtaken \/ next > CertainTo(sub)) /\ mixed' = mixed
    BY <1>3, <1>4 DEF Rewind
<1>6. /\ Height \in Nat /\ Height' = Height /\ Height <= MaxHeight /\ fork \in Nat
      /\ Confirmations \in Nat /\ MaxDepth \in Nat /\ MaxDepth <= 2 * (Confirmations + 1)
    BY <1>1, LenProperties, ActivityAssumption, ChainAssumption DEF ChainOK, Height
<1>7. next <= Height /\ (next = 0 \/ next - 1 + MaxDepth <= Height)
    BY <1>3, <1>4, <1>6 DEF RewindTo
<1>8. sub'.next = next /\ sub'.last = None /\ sub'.hash = 0 /\ sub' \in Subscription /\ sub' # None
  <2>1. next \in 0..(MaxHeight + 1) /\ 0 \in 0..MaxForks /\ None \in 0..MaxHeight \union {None}
      BY <1>6, <1>7, ActivityAssumption, ChainAssumption
  <2>2. sub'.next = next /\ sub'.last = None /\ sub'.hash = 0 /\ sub' \in Subscription
      BY <1>2, <1>5, <2>1 DEF Subscription
  <2> QED
      BY <2>2, ActivityAssumption, ChainAssumption
<1>9. \A a \in actions \union trades : a.block \in Nat /\ 1 <= a.block
    BY <1>1, <1>2 DEF RowOK
<1>10. Clean' => ExactTo(next - 1)'
  <2> SUFFICES ASSUME Clean' PROVE ExactTo(next - 1)'
      OBVIOUS
  <2>1. Clean /\ next <= CertainTo(sub) /\ CertainTo(sub) \in Nat /\ ExactTo(CertainTo(sub) - 1)
    <3>1. Clean /\ ~(next > CertainTo(sub))
        BY <1>5 DEF Clean
    <3>2. CertainTo(sub) \in Nat
        BY <1>1, <1>2, RowFacts
    <3>3. ExactTo(CertainTo(sub) - 1)
        BY <1>1, <1>2, <3>1 DEF RowOK
    <3> QED
        BY <3>1, <3>2, <3>3
  <2>2. ExactTo(next - 1)
      BY <1>9, <2>1, ExactBelow
  <2>3. \A a \in actions' \union trades' : a.block <= next - 1 => InPlace(a)'
      BY <1>1, <1>5, <1>6, <2>2 DEF ExactTo, InPlace
  <2>4. ASSUME NEW n \in 1..(next - 1), n >= since
        PROVE  InBlock(n) \subseteq actions' /\ TradesOf(InBlock(n)) \subseteq trades'
    <3>1. n \in 1..Height /\ n < next
        BY <1>6, <1>7, <2>4
    <3>2. InBlock(n) \subseteq actions /\ TradesOf(InBlock(n)) \subseteq trades
        BY <2>2, <2>4 DEF ExactTo
    <3>3. \A x \in InBlock(n) : x.block = n
        BY <1>1, <3>1, BlockFacts
    <3>4. \A t \in TradesOf(InBlock(n)) : t.block = n
        BY <3>3, TradesName
    <3> QED
        BY <1>5, <3>1, <3>2, <3>3, <3>4
  <2>5. \A n : InBlock(n)' = InBlock(n)
      BY <1>1 DEF InBlock, Hash
  <2> QED
      BY <1>1, <2>3, <2>4, <2>5 DEF ExactTo
<1>11. RowOK'
  <2>1. CertainTo(sub)' = next
      BY <1>8 DEF CertainTo
  <2>2. Clean' => ExactTo(CertainTo(sub) - 1)' /\ ExactTo(sub.next - 1)'
      BY <1>8, <1>10, <2>1 DEF ExactTo
  <2>3. \A a \in actions' \union trades' : a.block \in Nat /\ 1 <= a.block /\ a.block < sub'.next
      BY <1>5, <1>8, <1>9
  <2>4. sub'.hash <= fork' /\ sub'.next <= Height' + 1
      BY <1>1, <1>6, <1>7, <1>8
  <2>5. \A a \in actions' : a.hash \in 0..MaxForks
      BY <1>1, <1>2, <1>5 DEF RowOK
  <2> QED
      BY <1>6, <1>7, <1>8, <2>1, <2>2, <2>3, <2>4, <2>5 DEF RowOK
<1>12. ChainOK' /\ run' = [v \in Worker |-> run'[v]] /\ \A v \in Worker : RunOK(v)'
    BY <1>1, OthersAreLate
<1> QED
    BY <1>1, <1>11, <1>12 DEF FeedInvariant

\* What a batch adds is exact as far as its worker has read, and the rest was before.
LEMMA StoreExact ==
    ASSUME ChainOK, NEW w, NEW m \in Int, HasRead(w, m), BatchOK(w), RangeOK(w), m <= run[w].end,
           \A l \in Int : l < run[w].next /\ l <= m => ExactTo(l),
           since \in Nat, since' = since, chain' = chain,
           \A a \in actions \union trades : a.block \in Nat /\ 1 <= a.block /\ a.block < run[w].next,
           actions' = actions \union {a \in run[w].batch : ~\E b \in actions : SameKey(a, b)},
           trades' = trades \union {t \in TradesOf(run[w].batch) : ~\E u \in trades : u.event = t.event}
    PROVE  ExactTo(m)'
<1> DEFINE batch == run[w].batch
<1>1. PICK next \in Nat, end \in Nat : next = run[w].next /\ end = run[w].end
    BY DEF RangeOK
<1>2. next <= end /\ end <= Height /\ Height \in Nat /\ Height' = Height
    BY <1>1, LenProperties DEF RangeOK, ChainOK, Height
<1>3. /\ \A a \in batch : a.block \in Nat /\ 1 <= a.block /\ next <= a.block /\ a.block <= end
      /\ \A a, b \in batch : a.event = b.event => a.block = b.block
    BY <1>1 DEF BatchOK
<1>4. \A n \in 1..m : n >= next => {a \in batch : a.block = n} = InBlock(n)
    BY <1>1 DEF HasRead
<1> HIDE DEF batch
<1>5. /\ actions' = actions \union {a \in batch : ~\E b \in actions : SameKey(a, b)}
      /\ trades' = trades \union {t \in TradesOf(batch) : ~\E u \in trades : u.event = t.event}
    BY DEF batch
<1>6. \A n \in 1..m : n \in 1..Height
    BY <1>1, <1>2
<1>7. ASSUME NEW l \in Int, l < next, l <= m PROVE ExactTo(l)
    BY <1>1, <1>7
<1>8. ASSUME NEW b \in actions \union trades, b.block <= m PROVE InPlace(b)
  <2>1. b.block \in Int /\ b.block < next
      BY <1>1
  <2>2. PICK l \in Int : l = b.block
      BY <2>1
  <2>3. ExactTo(l)
      BY <1>7, <1>8, <2>1, <2>2
  <2> QED
      BY <2>2, <2>3 DEF ExactTo
<1>9. ASSUME NEW x \in batch, x.block <= m
      PROVE  x \in InBlock(x.block) /\ InPlace(x)
  <2>1. x.block \in 1..m /\ x.block >= next
      BY <1>3, <1>9
  <2>2. x \in InBlock(x.block)
      BY <1>4, <2>1
  <2> QED
      BY <1>6, <2>1, <2>2, BlockFacts
<1>10. ASSUME NEW a \in actions' \union trades', a.block <= m PROVE InPlace(a)'
  <2>1. InPlace(a)
    <3>1. CASE a \in actions \union trades
        BY <1>8, <1>10, <3>1
    <3>2. CASE a \in batch
        BY <1>9, <1>10, <3>2
    <3>3. CASE a \in TradesOf(batch)
      <4>1. PICK x \in batch : a.event = x.event /\ a.block = x.block /\ a.hash = x.hash
          BY <3>3, TradesName
      <4>2. InPlace(x)
          BY <1>9, <1>10, <4>1
      <4> QED
          BY <4>1, <4>2 DEF InPlace
    <3> QED
        BY <1>5, <3>1, <3>2, <3>3
  <2> QED
      BY <1>2, <2>1 DEF InPlace
<1>11. ASSUME NEW n \in 1..m, n >= since
       PROVE  InBlock(n) \subseteq actions' /\ TradesOf(InBlock(n)) \subseteq trades'
  <2>1. CASE n < next
    <3>1. n \in Int /\ n \in 1..n
        OBVIOUS
    <3>2. ExactTo(n)
        BY <1>7, <2>1, <3>1
    <3>3. InBlock(n) \subseteq actions /\ TradesOf(InBlock(n)) \subseteq trades
        BY <1>11, <3>1, <3>2 DEF ExactTo
    <3> QED
        BY <1>5, <3>3
  <2>2. CASE ~(n < next)
    <3>1. {a \in batch : a.block = n} = InBlock(n)
        BY <1>1, <1>4, <2>2
    <3>2. ASSUME NEW x \in InBlock(n), NEW b \in actions \union trades PROVE x.event # b.event
      <4>1. x.block = n /\ x.event = chain[n].event /\ x.event.kind # "none"
          BY <1>6, <3>2, BlockFacts
      <4>2. b.block \in Nat /\ b.block < next
          BY <1>1
      <4>3. b.block <= m /\ b.block # n
          BY <2>2, <4>2, <1>1
      <4>4. InPlace(b)
          BY <1>8, <4>3
      <4> QED
          BY <1>6, <4>1, <4>3, <4>4 DEF InPlace, ChainOK
    <3>3. InBlock(n) \subseteq actions'
        BY <1>5, <3>1, <3>2 DEF SameKey
    <3>4. ASSUME NEW t \in TradesOf(InBlock(n)) PROVE t \in trades'
      <4>1. t \in TradesOf(batch)
          BY <1>3, <3>1, <3>4, TradesByBlock
      <4>2. PICK x \in InBlock(n) : t.event = x.event
          BY <3>4, TradesName
      <4> QED
          BY <1>5, <3>2, <4>1, <4>2
    <3> QED
        BY <3>3, <3>4
  <2> QED
      BY <2>1, <2>2
<1>12. \A n : InBlock(n)' = InBlock(n)
    BY DEF InBlock, Hash
<1> QED
    BY <1>10, <1>11, <1>12 DEF ExactTo

LEMMA StoreKeepsFeed ==
    ASSUME FeedInvariant, NEW w \in Worker, StoreBatch(w), UNCHANGED chainVars
    PROVE  FeedInvariant'
<1>1. /\ chain' = chain /\ fork' = fork /\ since' = since /\ holder' \in Worker \union {None}
      /\ Rest(w) /\ run[w].at = "store" /\ since \in Nat /\ run = [v \in Worker |-> run[v]]
      /\ ChainOK /\ RowOK /\ RunOK(w)
    BY DEF FeedInvariant, StoreBatch, chainVars
<1>2. sub # None /\ sub \in Subscription /\ Storing(w)
  <2>1. sub # None /\ Storing(w)
      BY <1>1 DEF RowOK, RunOK, Resting
  <2> QED
      BY <1>1, <2>1 DEF RowOK
<1>3. CASE ~CursorUnmoved(w)
  <2>1. /\ sub' = sub /\ actions' = actions /\ trades' = trades /\ (Clean' => Clean)
        /\ shaken' = shaken \ {w}
        /\ late' = late \ {w} /\ run' = [run EXCEPT ![w] = Resting]
      BY <1>3 DEF StoreBatch, Rest, Clean
  <2>2. RunOK(w)'
      BY <1>1, <2>1 DEF RunOK, Resting
  <2> QED
      BY <1>1, <2>1, <2>2, WorkKeepsFeed
<1>4. CASE CursorUnmoved(w)
  <2> DEFINE batch == run[w].batch
  <2>1. PICK next \in Nat, end \in Nat, hash \in 0..fork :
            next = run[w].next /\ end = run[w].end /\ hash = run[w].hash
      BY <1>2 DEF Storing, RangeOK
  <2>2. /\ actions' = actions \union {a \in batch : ~\E b \in actions : SameKey(a, b)}
        /\ trades' = trades \union {t \in TradesOf(batch) : ~\E u \in trades : u.event = t.event}
        /\ sub' = [sub EXCEPT !.next = end + 1, !.last = end, !.hash = hash]
        /\ overtaken' = (overtaken \/ (w \in late /\ ~OnChain(sub)))
        /\ mixed' = (mixed \/ w \in shaken)
        /\ late' = LateAfter(w) /\ sub.next = next
      BY <1>4, <2>1 DEF StoreBatch, CursorUnmoved
  <2>3. /\ Height \in Nat /\ Height' = Height /\ Height <= MaxHeight /\ fork \in 0..MaxForks
        /\ Confirmations \in Nat /\ MaxDepth \in Nat /\ MaxDepth <= 2 * (Confirmations + 1)
        /\ MaxForks \in Nat /\ MaxHeight \in Nat
      BY <1>1, LenProperties, ActivityAssumption, ChainAssumption DEF ChainOK, Height
  <2>4. /\ next <= end /\ end <= Height /\ (end = 0 \/ end + Confirmations <= Height)
        /\ RangeOK(w) /\ BatchOK(w)
        /\ w \notin shaken =>
             /\ HasRead(w, RewindTo(end) - 1)
             /\ IsCanonical(end, hash) => HasRead(w, end)
             /\ w \notin late =>
                  /\ IsCanonical(end, hash) => OnChain(sub)
                  /\ Clean => \A m \in Int : m < next /\ m < RewindTo(end) => ExactTo(m)
      BY <1>2, <2>1 DEF Storing, Faithful, RangeOK
  <2>5. /\ \A a \in actions \union trades : a.block \in Nat /\ 1 <= a.block /\ a.block < next
        /\ Clean => (OnChain(sub) => ExactTo(next - 1))
      BY <1>1, <1>2, <2>2 DEF RowOK
  <2>6. /\ sub'.next = end + 1 /\ sub'.last = end /\ sub'.hash = hash
        /\ sub' \in Subscription /\ sub' # None /\ end # None
    <3>1. end + 1 \in 0..(MaxHeight + 1) /\ end \in 0..MaxHeight \union {None} /\ hash \in 0..MaxForks
        BY <2>3, <2>4
    <3>2. sub'.next = end + 1 /\ sub'.last = end /\ sub'.hash = hash /\ sub' \in Subscription
        BY <1>2, <2>2, <3>1 DEF Subscription
    <3> QED
        BY <3>2, ActivityAssumption, ChainAssumption
  <2>7. PICK back \in Nat : back = RewindTo(end) /\ back <= end /\ (back = 0 \/ back - 1 + MaxDepth <= Height)
    <3>1. /\ RewindTo(end) \in Nat /\ RewindTo(end) <= end
          /\ RewindTo(end) = 0 \/ RewindTo(end) - 1 + MaxDepth <= Height
        BY <2>3, <2>4 DEF RewindTo
    <3> QED
        BY <3>1
  <2>8. CertainTo(sub)' = back
      BY <2>6, <2>7 DEF CertainTo, RewindTo
  <2>9. \A a \in actions' \union trades' : a.block \in Nat /\ 1 <= a.block /\ a.block < end + 1
    <3>1. \A a \in batch : a.block \in Nat /\ 1 <= a.block /\ a.block <= end
        BY <2>1, <2>4 DEF BatchOK
    <3>2. \A a \in TradesOf(batch) : a.block \in Nat /\ 1 <= a.block /\ a.block <= end
        BY <3>1, TradesName
    <3> QED
        BY <2>2, <2>4, <2>5, <3>1, <3>2
  <2>10. ASSUME NEW m \in Int, m <= end, HasRead(w, m),
                \A l \in Int : l < next /\ l <= m => ExactTo(l)
         PROVE  ExactTo(m)'
      BY <1>1, <2>1, <2>2, <2>4, <2>5, <2>10, StoreExact
  <2>11. ASSUME OnChain(sub), Clean, NEW l \in Int, l < next PROVE ExactTo(l)
    <3>1. PICK m \in Int : m = next - 1
        OBVIOUS
    <3>2. ExactTo(m) /\ l <= m
        BY <2>5, <2>11, <3>1
    <3> QED
        BY <2>5, <3>2, ExactBelow
  <2>12. Clean' => ExactTo(CertainTo(sub) - 1)'
    <3> SUFFICES ASSUME Clean' PROVE ExactTo(CertainTo(sub) - 1)'
        OBVIOUS
    <3>1. Clean /\ w \notin shaken /\ (w \notin late \/ OnChain(sub))
        BY <2>2 DEF Clean
    <3>2. PICK m \in Int : m = back - 1
        OBVIOUS
    <3>3. m <= end /\ m < back /\ HasRead(w, m)
        BY <2>4, <2>7, <3>1, <3>2
    <3>4. \A l \in Int : l < next /\ l <= m => ExactTo(l)
      <4>1. CASE OnChain(sub)
          BY <2>11, <3>1, <4>1
      <4>2. CASE ~OnChain(sub)
          BY <2>4, <2>7, <3>1, <3>3, <4>2
      <4> QED
          BY <4>1, <4>2
    <3>5. ExactTo(m)'
        BY <2>10, <3>3, <3>4
    <3> QED
        BY <2>8, <3>2, <3>5 DEF ExactTo
  <2>13. Clean' /\ OnChain(sub)' => ExactTo(sub.next - 1)'
    <3> SUFFICES ASSUME Clean', OnChain(sub)' PROVE ExactTo(sub.next - 1)'
        OBVIOUS
    <3>1. Clean /\ w \notin shaken /\ (w \notin late \/ OnChain(sub))
        BY <2>2 DEF Clean
    <3>2. IsCanonical(end, hash)
        BY <1>1, <2>6 DEF OnChain, IsCanonical, Hash
    <3>3. OnChain(sub) /\ HasRead(w, end)
        BY <2>4, <3>1, <3>2
    <3>4. \A l \in Int : l < next /\ l <= end => ExactTo(l)
        BY <2>11, <3>1, <3>3
    <3>5. end \in Int /\ end <= end
        OBVIOUS
    <3>6. ExactTo(end)'
        BY <2>10, <3>3, <3>4, <3>5
    <3>7. (sub.next - 1)' = end
        BY <2>6
    <3> QED
        BY <3>6, <3>7 DEF ExactTo
  <2>14. RowOK'
    <3>1. /\ sub' # None /\ sub' \in Subscription /\ sub'.hash <= fork' /\ sub'.next <= Height' + 1
          /\ sub'.next = sub'.last + 1 /\ (sub'.last = 0 \/ sub'.last + Confirmations <= Height')
        BY <1>1, <2>3, <2>4, <2>6
    <3>2. \/ CertainTo(sub)' = 0
          \/ CertainTo(sub)' - 1 + MaxDepth <= Height'
        BY <2>3, <2>7, <2>8
    <3>3. \A a \in actions' : a.hash \in 0..MaxForks
      <4>1. \A a \in batch : a.hash \in 0..MaxForks
          BY <2>4 DEF BatchOK
      <4>2. \A a \in actions : a.hash \in 0..MaxForks
          BY <1>1, <1>2 DEF RowOK
      <4> QED
          BY <2>2, <4>1, <4>2
    <3> QED
        BY <2>6, <2>9, <2>12, <2>13, <3>1, <3>2, <3>3 DEF RowOK
  <2>15. ChainOK' /\ run' = [v \in Worker |-> run'[v]] /\ \A v \in Worker : RunOK(v)'
      BY <1>1, <2>2, OthersAreLate
  <2> QED
      BY <1>1, <2>14, <2>15 DEF FeedInvariant
<1> QED
    BY <1>3, <1>4

-----------------------------------------------------------------------------
(* The invariant holds, and shows the feed.                                 *)

LEMMA FeedStays ==
    ASSUME FeedInvariant, [ActivityNext]_<<chainVars, activityVars>>
    PROVE  FeedInvariant'
<1>1. CASE UNCHANGED chainVars /\ (Subscribe \/ Unsubscribe \/ WipeActions \/ WipeTrades \/ ExpireLease)
    BY <1>1, SubscribeKeepsFeed, UnsubscribeKeepsFeed, WipeKeepsFeed, LeaseKeepsFeed
<1>2. ASSUME NEW w \in Worker, Collect(w) \/ Fail(w), UNCHANGED chainVars PROVE FeedInvariant'
    BY <1>2, BeginKeepsFeed, RewindKeepsFeed, ReadTransfersKeepsFeed, ReadLastHashKeepsFeed,
       StoreKeepsFeed, FailKeepsFeed DEF Collect
<1>3. CASE Extend(TransferEvents) /\ UNCHANGED activityVars
  <2>1. TransferEvents \in SUBSET Event /\ ChainOK /\ \A w \in Worker : RunOK(w)
      BY DEF TransferEvents, FeedInvariant
  <2>2. PICK events \in SUBSET Event : events = TransferEvents
      BY <2>1
  <2>3. ChainOK' /\ Grows(Height)
      BY <1>3, <2>1, <2>2, ExtendGrows
  <2>4. PICK k : k = Height
      OBVIOUS
  <2>5. Behind(k)
    <3>1. Height \in Nat
        BY <2>1, LenProperties DEF ChainOK, Height
    <3> SUFFICES ASSUME NEW w \in Worker
                 PROVE  /\ run[w].at = "transfers" => run[w].next - 1 <= k
                        /\ run[w].at = "hash" => run[w].end <= k
        BY DEF Behind
    <3>2. RunOK(w)
        BY <2>1
    <3> QED
        BY <2>4, <3>1, <3>2 DEF RunOK, Collecting, RangeOK
  <2>6. FeedStill
      BY <1>3 DEF FeedStill, activityVars
  <2> QED
      BY <1>3, <2>3, <2>4, <2>5, <2>6, ChainKeepsFeed
<1>4. CASE ForkUnderRuns
  <2>1. TransferEvents \in SUBSET Event /\ ChainOK /\ \A w \in Worker : RunOK(w)
      BY DEF TransferEvents, FeedInvariant
  <2>2. PICK events \in SUBSET Event : events = TransferEvents
      BY <2>1
  <2>3. Reorganize(events) /\ FeedStill
      BY <1>4, <2>2 DEF ForkUnderRuns, FeedStill
  <2>4. ChainOK' /\ \E k : Grows(k)
      BY <2>1, <2>3, ForkGrows
  <2>5. PICK k : Grows(k)
      BY <2>4
  <2>6. ASSUME NEW w \in Worker, w \notin shaken'
        PROVE  /\ run[w].at = "transfers" => run[w].next - 1 <= k
               /\ run[w].at = "hash" => run[w].end <= k
    <3>1. Height \in Nat /\ k \in Nat
        BY <2>1, <2>5, LenProperties DEF ChainOK, Height, Grows
    <3>2. run[w].at \in {"transfers", "hash"} => RangeOK(w)
        BY <2>1 DEF RunOK, Collecting
    <3>3. PICK n : n = BlocksUnderRead(w)
        OBVIOUS
    <3>4. n \in Nat /\ n <= Height
        BY <3>1, <3>2, <3>3 DEF BlocksUnderRead, RangeOK
    <3>5. ~Replaced(n)
        BY <1>4, <2>6, <3>3 DEF ForkUnderRuns
    <3>6. n <= k
        BY <2>1, <2>5, <3>4, <3>5, KeptIsBelow
    <3> QED
        BY <3>1, <3>2, <3>3, <3>6 DEF BlocksUnderRead, RangeOK
  <2>7. Behind(k)
      BY <2>6 DEF Behind
  <2> QED
      BY <2>3, <2>4, <2>5, <2>7, ChainKeepsFeed
<1>5. CASE UNCHANGED <<chainVars, activityVars>>
    BY <1>5, LeaseKeepsFeed
<1> QED
    BY <1>1, <1>2, <1>3, <1>4, <1>5 DEF ActivityNext

\* What the invariant says of the two lists when the row is on the chain.
LEMMA FeedShown ==
    ASSUME FeedInvariant
    PROVE  FeedIsExact
<1>1. /\ ChainOK /\ RowOK /\ since \in Nat /\ holder \in Worker \union {None}
      /\ \A w \in Worker : RunOK(w)
    BY DEF FeedInvariant
<1>2. Height \in Nat /\ Height <= MaxHeight
    BY <1>1, LenProperties DEF ChainOK, Height
<1>3. ASSUME Followed
      PROVE  /\ sub # None /\ sub.next \in Nat /\ sub.next <= Height + 1 /\ ExactTo(sub.next - 1)
             /\ \A a \in actions \union trades : a.block \in Nat /\ 1 <= a.block /\ a.block < sub.next
    BY <1>1, <1>3, RowFacts DEF Followed, RowOK, Clean
<1>4. StoredIsCanonical
  <2> SUFFICES ASSUME Followed, NEW a \in actions \union trades
               PROVE  /\ a.block < sub.next
                      /\ IsCanonical(a.block, a.hash) /\ chain[a.block].event = a.event
      BY DEF StoredIsCanonical
  <2>1. a.block \in Nat /\ 1 <= a.block /\ a.block < sub.next /\ InPlace(a)
      BY <1>3 DEF ExactTo
  <2> QED
      BY <2>1 DEF InPlace, IsCanonical, Hash
<1>5. NothingMissed
  <2> SUFFICES ASSUME Followed
               PROVE  LET due == ActionsOf(since, Min({sub.next - 1, Height}))
                      IN  /\ \A a \in due : \E b \in actions : SameKey(a, b) /\ a.class = b.class
                          /\ \A t \in TradesOf(due) : t \in trades
      BY DEF NothingMissed
  <2> DEFINE top == Min({sub.next - 1, Height})
             due == ActionsOf(since, top)
  <2>1. top = sub.next - 1 /\ top \in Int /\ top <= Height
      BY <1>2, <1>3 DEF Min
  <2>2. ExactTo(top)
      BY <1>3, <2>1
  <2> HIDE DEF top
  <2>3. /\ \A x \in due : x.block \in 1..top /\ since <= x.block /\ x \in InBlock(x.block)
        /\ \A n \in 1..top : n >= since => {x \in due : x.block = n} = InBlock(n)
        /\ \A x, y \in due : x.event = y.event => x.block = y.block
      BY <1>1, <2>1, ActionsByBlock
  <2> HIDE DEF due
  <2>4. ASSUME NEW a \in due PROVE a \in actions
    <3>1. a.block \in 1..top /\ a.block >= since /\ a \in InBlock(a.block)
        BY <1>1, <2>1, <2>3
    <3> QED
        BY <2>2, <3>1 DEF ExactTo
  <2>5. ASSUME NEW t \in TradesOf(due) PROVE t \in trades
    <3>1. PICK x \in due : t.block = x.block
        BY <2>5, TradesName
    <3>2. PICK n \in 1..top : n = x.block /\ n >= since
        BY <1>1, <2>1, <2>3
    <3>3. t \in TradesOf({a \in due : a.block = n})
        BY <2>3, <2>5, <3>1, <3>2, TradesByBlock
    <3>4. t \in TradesOf(InBlock(n))
        BY <2>3, <3>2, <3>3
    <3> QED
        BY <2>2, <3>2, <3>4 DEF ExactTo
  <2>6. \A a \in due : \E b \in actions : SameKey(a, b) /\ a.class = b.class
      BY <2>4 DEF SameKey
  <2> QED
      BY <2>5, <2>6 DEF due, top
<1>6. ActivityTypeOK
  <2>1. sub \in Subscription \union {None}
      BY <1>1 DEF RowOK
  <2>2. \A w \in Worker : run[w].at \in {"resting", "rewind", "transfers", "hash", "store"}
      BY <1>1 DEF RunOK
  <2>3. \A a \in actions : a.block \in 1..MaxHeight /\ a.hash \in 0..MaxForks
    <3>1. CASE sub = None
        BY <1>1, <3>1 DEF RowOK
    <3>2. CASE sub # None
      <4>1. \A a \in actions : a.block \in Nat /\ 1 <= a.block /\ a.block < sub.next /\ a.hash \in 0..MaxForks
          BY <1>1, <3>2 DEF RowOK
      <4>2. sub.next \in Nat /\ sub.next <= Height + 1
          BY <1>1, <3>2, RowFacts DEF RowOK
      <4>3. MaxHeight \in Nat
          BY ActivityAssumption, ChainAssumption
      <4> QED
          BY <1>2, <4>1, <4>2, <4>3
    <3> QED
        BY <3>1, <3>2
  <2> QED
      BY <1>1, <2>1, <2>2, <2>3 DEF ActivityTypeOK
<1> QED
    BY <1>4, <1>5, <1>6 DEF FeedIsExact

\* The feed of a wallet is what its chain says, no more and no less: however many workers
\* collect it (their lease is not renewed while a run lasts), and wherever forks come, with
\* the two exceptions the property names: a batch whose blocks a fork replaced under its
\* reads was stored, or a worker undid what another knew of a fork (runOnce, collect,
\* storeBatch and rewind).
THEOREM FeedsAreExact == ActivitySpec => []FeedIsExact
<1>1. ChainInit /\ ActivityInit => FeedInvariant
    BY FeedBegins
<1>2. FeedInvariant /\ [ActivityNext]_<<chainVars, activityVars>> => FeedInvariant'
    BY FeedStays
<1>3. FeedInvariant => FeedIsExact
    BY FeedShown
<1> QED
    BY <1>1, <1>2, <1>3, PTL DEF ActivitySpec

-----------------------------------------------------------------------------
(* What the swaps of a set add up to.                                       *)

\* A set of numbers has a least one.
LEMMA FewestFirst ==
  ASSUME NEW T \in SUBSET Nat, T # {}
  PROVE  \E n \in T : \A m \in T : n <= m
<1>1. PICK n \in T : \A m \in T : <<m, n>> \notin OpToRel(<, Nat)
    BY NatLessThanWellFounded, WFMin
<1>2. \A m \in T : ~(m < n)
    BY <1>1 DEF OpToRel
<1> QED
    BY <1>2

LEMMA AmountsCounted ==
  ASSUME NEW S \in SUBSET DOMAIN Amount
  PROVE  /\ Cardinality(S) \in 0..Cardinality(DOMAIN Amount) /\ Cardinality(DOMAIN Amount) \in Nat
         /\ S # {} => LET t == CHOOSE x \in S : TRUE IN t \in S
         /\ \A t \in S : Cardinality(S \ {t}) = Cardinality(S) - 1 /\ Cardinality(S) > 0
<1>1. IsFiniteSet(DOMAIN Amount)
    BY ChainAssumption
<1>2. IsFiniteSet(S) /\ Cardinality(S) <= Cardinality(DOMAIN Amount)
    BY <1>1, FS_Subset
<1>3. Cardinality(S) \in Nat /\ Cardinality(DOMAIN Amount) \in Nat
    BY <1>1, <1>2, FS_CardinalityType
<1>4. \A t \in S : Cardinality(S \ {t}) = Cardinality(S) - 1 /\ Cardinality(S) > 0
  <2> TAKE t \in S
  <2>1. Cardinality(S \ {t}) = Cardinality(S) - 1
      BY <1>2, FS_RemoveElement
  <2>2. Cardinality(S) # 0
      BY <1>2, FS_EmptySet
  <2> QED
      BY <1>3, <2>1, <2>2
<1>5. S # {} => LET t == CHOOSE x \in S : TRUE IN t \in S
    BY Zenon
<1> QED
    BY <1>2, <1>3, <1>4, <1>5

Body(f, S) == IF S = {} THEN 0 ELSE LET t == CHOOSE x \in S : TRUE IN Amount[t] + f[S \ {t}]
Smaller(n) == {S \in SUBSET DOMAIN Amount : Cardinality(S) < n}

LEMMA TotalOfSmaller ==
  ASSUME NEW n \in Nat
  PROVE  \E f : \A S \in Smaller(n) : f[S] = Body(f, S)
<1> DEFINE Given(m) == \E f : \A S \in Smaller(m) : f[S] = Body(f, S)
           lacking == {m \in Nat : ~Given(m)}
<1>1. ASSUME lacking # {} PROVE FALSE
  <2>1. lacking \in SUBSET Nat
      OBVIOUS
  <2>2. PICK m \in lacking : \A k \in lacking : m <= k
    <3> HIDE DEF lacking
    <3> QED
        BY <1>1, <2>1, FewestFirst
  <2>3. m \in Nat /\ ~Given(m)
      OBVIOUS
  <2>4. m # 0
    <3>1. Smaller(0) = {}
        BY AmountsCounted DEF Smaller
    <3> QED
        BY <2>3, <3>1
  <2>5. m - 1 \in Nat /\ m - 1 < m
      BY <2>3, <2>4
  <2>6. Given(m - 1)
    <3>1. m - 1 \notin lacking
      <4> HIDE DEF lacking
      <4> QED
          BY <2>2, <2>3, <2>5
    <3> QED
        BY <2>5, <3>1
  <2>7. PICK f : \A S \in Smaller(m - 1) : f[S] = Body(f, S)
      BY <2>6
  <2>8. PICK g : g = [S \in SUBSET DOMAIN Amount |-> Body(f, S)]
      OBVIOUS
  <2>9. ASSUME NEW S \in Smaller(m) PROVE g[S] = Body(g, S)
    <3>1. S \in SUBSET DOMAIN Amount /\ Cardinality(S) < m
        BY DEF Smaller
    <3>2. CASE S = {}
        BY <2>8, <3>1, <3>2 DEF Body
    <3>3. CASE S # {}
      <4>1. PICK t : t = CHOOSE x \in S : TRUE
          OBVIOUS
      <4>2. t \in S
          BY <3>3, <4>1
      <4>3. PICK R : R = S \ {t}
          OBVIOUS
      <4>4. R \in SUBSET DOMAIN Amount /\ Cardinality(R) < m - 1
        <5>1. R \in SUBSET DOMAIN Amount
            BY <3>1, <4>3
        <5>2. Cardinality(R) = Cardinality(S) - 1 /\ Cardinality(S) \in Nat
            BY <3>1, <4>2, <4>3, AmountsCounted
        <5> QED
            BY <2>3, <3>1, <5>1, <5>2
      <4>5. g[R] = f[R]
        <5>1. R \in Smaller(m - 1)
            BY <4>4 DEF Smaller
        <5> QED
            BY <2>7, <2>8, <4>4, <5>1
      <4>6. Body(g, S) = Amount[t] + g[R] /\ Body(f, S) = Amount[t] + f[R]
          BY <3>3, <4>1, <4>3, Zenon DEF Body
      <4> QED
          BY <2>8, <3>1, <4>5, <4>6
    <3> QED
        BY <3>2, <3>3
  <2> QED
      BY <2>3, <2>9
<1> QED
    BY <1>1

\* The recursive function that adds the amounts up is defined by its own equation.
LEMMA TotalUnfolds == \A S \in SUBSET DOMAIN Amount : Total[S] = Body(Total, S)
<1>1. PICK f : \A S \in Smaller(Cardinality(DOMAIN Amount) + 1) : f[S] = Body(f, S)
    BY AmountsCounted, TotalOfSmaller
<1>2. \A S \in SUBSET DOMAIN Amount : f[S] = Body(f, S)
    BY <1>1, AmountsCounted DEF Smaller
<1>3. PICK g : g = [S \in SUBSET DOMAIN Amount |-> f[S]]
    OBVIOUS
<1>4. \A S \in SUBSET DOMAIN Amount : g[S] = Body(g, S)
  <2> TAKE S \in SUBSET DOMAIN Amount
  <2>1. PICK t : t = CHOOSE x \in S : TRUE
      OBVIOUS
  <2>2. S \ {t} \in SUBSET DOMAIN Amount
      OBVIOUS
  <2>3. g[S] = f[S] /\ g[S \ {t}] = f[S \ {t}]
      BY <1>3, <2>2
  <2> QED
      BY <1>2, <2>1, <2>3 DEF Body
<1>5. g = [S \in SUBSET DOMAIN Amount |-> Body(g, S)]
    BY <1>3, <1>4
<1> DEFINE Sums(h) == h = [S \in SUBSET DOMAIN Amount |-> IF S = {} THEN 0
                           ELSE LET t == CHOOSE x \in S : TRUE IN Amount[t] + h[S \ {t}]]
<1>6. Sums(g)
    BY <1>5 DEF Body
<1>7. Total = CHOOSE h : Sums(h)
    BY DEF Total
<1>8. Sums(Total)
  <2> HIDE DEF Sums
  <2> QED
      BY <1>6, <1>7
<1> QED
    BY <1>8 DEF Body

\* One more swap adds its amount.
LEMMA TotalAddsUp ==
  /\ \A S \in SUBSET DOMAIN Amount : Total[S] \in Nat
  /\ \A S \in SUBSET DOMAIN Amount : \A t \in S : Total[S] = Amount[t] + Total[S \ {t}]
<1> DEFINE Right(S) == Total[S] \in Nat /\ \A t \in S : Total[S] = Amount[t] + Total[S \ {t}]
           wrong == {Cardinality(S) : S \in {R \in SUBSET DOMAIN Amount : ~Right(R)}}
<1>1. ASSUME wrong # {} PROVE FALSE
  <2>1. wrong \in SUBSET Nat
      BY AmountsCounted
  <2>2. PICK n \in wrong : \A m \in wrong : n <= m
    <3> HIDE DEF wrong
    <3> QED
        BY <1>1, <2>1, FewestFirst
  <2>3. PICK S \in SUBSET DOMAIN Amount : ~Right(S) /\ n = Cardinality(S)
      BY <2>2
  <2>4. ASSUME NEW R \in SUBSET DOMAIN Amount, Cardinality(R) < Cardinality(S) PROVE Right(R)
    <3>1. ~Right(R) => Cardinality(R) \in wrong
        OBVIOUS
    <3>2. Cardinality(R) \in Nat /\ Cardinality(S) \in Nat
        BY AmountsCounted
    <3> HIDE DEF wrong, Right
    <3> QED
        BY <2>2, <2>3, <2>4, <3>1, <3>2
  <2>5. \A t \in DOMAIN Amount : Amount[t] \in Nat
      BY ChainAssumption
  <2>6. Total[S] = Body(Total, S)
      BY TotalUnfolds
  <2>7. CASE S = {}
      BY <2>3, <2>6, <2>7 DEF Body
  <2>8. CASE S # {}
    <3>1. PICK c : c = CHOOSE x \in S : TRUE
        OBVIOUS
    <3>2. c \in S
        BY <2>8, <3>1
    <3>3. Total[S] = Amount[c] + Total[S \ {c}]
        BY <2>6, <2>8, <3>1, Zenon DEF Body
    <3>4. \A t \in S : Right(S \ {t})
      <4> TAKE t \in S
      <4>1. S \ {t} \in SUBSET DOMAIN Amount /\ Cardinality(S \ {t}) < Cardinality(S)
          BY AmountsCounted
      <4> HIDE DEF Right
      <4> QED
          BY <2>4, <4>1
    <3>5. Total[S] \in Nat
      <4>1. Right(S \ {c})
          BY <3>2, <3>4
      <4>2. Total[S \ {c}] \in Nat /\ Amount[c] \in Nat
          BY <2>5, <3>2, <4>1
      <4> HIDE DEF Right
      <4> QED
          BY <3>3, <4>2
    <3>6. ASSUME NEW t \in S PROVE Total[S] = Amount[t] + Total[S \ {t}]
      <4>1. CASE t = c
          BY <3>3, <4>1
      <4>2. CASE t # c
        <5>1. PICK R : R = (S \ {c}) \ {t}
            OBVIOUS
        <5>2. R = (S \ {t}) \ {c} /\ t \in S \ {c} /\ c \in S \ {t}
            BY <3>2, <4>2, <5>1
        <5>3. Total[S \ {c}] = Amount[t] + Total[R] /\ Total[S \ {t}] = Amount[c] + Total[R]
            BY <3>2, <3>4, <5>1, <5>2
        <5>4. Right(S \ {c}) /\ Right(S \ {t}) /\ Amount[t] \in Nat /\ Amount[c] \in Nat
            BY <2>5, <3>2, <3>4
        <5>5. Total[R] \in Nat
          <6>1. R \in SUBSET DOMAIN Amount /\ Cardinality(R) < Cardinality(S)
            <7>1. S \ {c} \in SUBSET DOMAIN Amount /\ Cardinality(S \ {c}) < Cardinality(S)
                    /\ Cardinality(S \ {c}) \in Nat /\ Cardinality(S) \in Nat
                BY <3>2, AmountsCounted
            <7>2. PICK T \in SUBSET DOMAIN Amount : T = S \ {c}
                OBVIOUS
            <7>3. \A x \in T : Cardinality(T \ {x}) = Cardinality(T) - 1
                BY AmountsCounted
            <7>4. R \in SUBSET DOMAIN Amount /\ Cardinality(R) = Cardinality(S \ {c}) - 1
                BY <5>1, <5>2, <7>2, <7>3
            <7> HIDE DEF Right, wrong
            <7> QED
                BY <7>1, <7>4
          <6>2. Right(R)
            <7> HIDE DEF Right
            <7> QED
                BY <2>4, <6>1
          <6> QED
              BY <6>2
        <5> HIDE DEF Right
        <5> QED
            BY <3>3, <5>3, <5>4, <5>5
      <4> QED
          BY <4>1, <4>2
    <3> QED
        BY <2>3, <3>5, <3>6
  <2> QED
      BY <2>7, <2>8
<1> QED
    BY <1>1
\* More fills add up to no less.
LEMMA TotalGrows ==
  ASSUME NEW T \in SUBSET DOMAIN Amount, NEW U \in SUBSET DOMAIN Amount, T \subseteq U
  PROVE  Total[T] <= Total[U]
<1> DEFINE Right(V) == Total[T] <= Total[V]
           Above == {V \in SUBSET DOMAIN Amount : T \subseteq V}
           wrong == {Cardinality(V) : V \in {W \in Above : ~Right(W)}}
<1>1. ASSUME wrong # {} PROVE FALSE
  <2>1. wrong \in SUBSET Nat
      BY AmountsCounted
  <2>2. PICK n \in wrong : \A m \in wrong : n <= m
    <3> HIDE DEF wrong
    <3> QED
        BY <1>1, <2>1, FewestFirst
  <2>3. PICK V \in Above : ~Right(V) /\ n = Cardinality(V)
      BY <2>2
  <2>4. PICK x : x \in V \ T
    <3>1. V # T
      <4>1. Total[T] \in Nat
          BY TotalAddsUp
      <4> QED
          BY <2>3, <4>1
    <3> QED
        BY <2>3, <3>1
  <2>5. V \ {x} \in Above /\ Cardinality(V \ {x}) < Cardinality(V)
        /\ Cardinality(V \ {x}) \in Nat /\ Cardinality(V) \in Nat
      BY <2>4, AmountsCounted
  <2>6. Right(V \ {x})
    <3>1. ~Right(V \ {x}) => Cardinality(V \ {x}) \in wrong
        BY <2>5
    <3> HIDE DEF wrong, Right
    <3> QED
        BY <2>2, <2>3, <2>5, <3>1
  <2>7. Total[V] = Amount[x] + Total[V \ {x}] /\ Total[V \ {x}] \in Nat /\ Amount[x] \in Nat /\ Total[T] \in Nat
      BY <2>4, TotalAddsUp, ChainAssumption
  <2> QED
      BY <2>3, <2>6, <2>7
<1> QED
    BY <1>1

-----------------------------------------------------------------------------
(* What the contracts let a chain hold.                                     *)

\* Every chain there can be is one the contracts allow.
LEMMA ChainStaysLegal ==
  ASSUME NEW events, Extend(events) \/ Reorganize(events)
  PROVE  Legal(chain)'
<1>1. CASE Extend(events)
    BY <1>1 DEF Extend
<1>2. CASE Reorganize(events)
    BY <1>2 DEF Reorganize
<1> QED
    BY <1>1, <1>2

\* The fills of one order, the blocks of which are told by their ids.
LEMMA FilledWithin ==
  ASSUME ChainOK, Legal(chain), None \notin Order, NEW o \in Order, NEW S \in SUBSET Where(chain, "swapped", o)
  PROVE  /\ {chain[n].event.id : n \in S} \in SUBSET DOMAIN Amount
         /\ Total[{chain[n].event.id : n \in S}] \in 0..Original
<1> DEFINE all == Where(chain, "swapped", o)
           ids(T) == {chain[n].event.id : n \in T}
<1>1. DOMAIN chain = 1..Height
    BY LenProperties DEF ChainOK, Height
<1>2. \A n \in all : /\ n \in 1..Height /\ chain[n].event \in Event
                     /\ chain[n].event.kind = "swapped" /\ chain[n].event.order = o
                     /\ chain[n].event.id \in DOMAIN Amount
    BY <1>1, BlocksTyped, ChainAssumption DEF Where
<1>3. ids(S) \in SUBSET DOMAIN Amount /\ ids(all) \in SUBSET DOMAIN Amount /\ ids(S) \subseteq ids(all)
    BY <1>2
<1>4. Original \in Nat
    BY ChainAssumption
<1>5. Total[ids(all)] <= Original
  <2>1. CASE all = {}
    <3>1. ids(all) = {}
        BY <2>1
    <3>2. Total[{}] = 0
        BY TotalUnfolds DEF Body
    <3> HIDE DEF ids, all
    <3> QED
        BY <1>4, <3>1, <3>2
  <2>2. CASE all # {}
    <3>1. o \in {e.order : e \in Event} \ {None}
        BY <1>2, <2>2
    <3>2. Filled(chain, o) <= Original
        BY <3>1 DEF Legal
    <3> QED
        BY <3>2 DEF Filled
  <2> QED
      BY <2>1, <2>2
<1>6. \A T, U \in SUBSET DOMAIN Amount : T \subseteq U => Total[T] <= Total[U]
    BY TotalGrows
<1> HIDE DEF all, ids
<1>7. Total[ids(S)] \in Nat /\ Total[ids(all)] \in Nat
    BY <1>3, TotalAddsUp
<1>8. Total[ids(S)] <= Total[ids(all)]
    BY <1>3, <1>6
<1>9. Total[ids(S)] \in 0..Original
    BY <1>4, <1>5, <1>7, <1>8
<1> QED
    BY <1>3, <1>9 DEF ids

\* One more fill of it takes its amount.
LEMMA OneMoreFill ==
  ASSUME ChainOK, Legal(chain), None \notin Order, NEW o \in Order, NEW S \in SUBSET Where(chain, "swapped", o),
         NEW n \in Where(chain, "swapped", o) \ S
  PROVE  /\ Amount[chain[n].event.id] \in Nat \ {0}
         /\ Total[{chain[i].event.id : i \in S \union {n}}]
              = Amount[chain[n].event.id] + Total[{chain[i].event.id : i \in S}]
<1> DEFINE ids(T) == {chain[i].event.id : i \in T}
           id == chain[n].event.id
<1>1. DOMAIN chain = 1..Height
    BY LenProperties DEF ChainOK, Height
<1>2. \A i \in Where(chain, "swapped", o) :
           /\ i \in 1..Height /\ chain[i].event \in Event
           /\ chain[i].event.kind = "swapped" /\ chain[i].event.id \in DOMAIN Amount
    BY <1>1, BlocksTyped, ChainAssumption DEF Where
<1>3. \A i \in S : chain[i].event.id # id
  <2> SUFFICES ASSUME NEW i \in S, chain[i].event.id = id PROVE FALSE
      OBVIOUS
  <2>1. chain[i].event \in Event /\ chain[n].event \in Event /\ i # n /\ i \in 1..Height /\ n \in 1..Height
        /\ chain[i].event.kind = "swapped" /\ chain[n].event.kind = "swapped"
      BY <1>2
  <2>2. chain[i].event = chain[n].event
      BY <2>1, ChainAssumption
  <2>3. chain[i].event.kind = "none"
      BY <2>1, <2>2 DEF ChainOK
  <2> QED
      BY <2>1, <2>3
<1>4. ids(S \union {n}) \in SUBSET DOMAIN Amount /\ id \in ids(S \union {n}) /\ ids(S \union {n}) \ {id} = ids(S)
    BY <1>2, <1>3
<1>5. Amount[id] \in Nat \ {0}
    BY <1>2, ChainAssumption
<1> HIDE DEF ids, id
<1>6. Total[ids(S \union {n})] = Amount[id] + Total[ids(S)]
    BY <1>4, TotalAddsUp
<1> QED
    BY <1>5, <1>6 DEF ids, id

\* An order is shipped once, before it is filled or docked, and is not filled after that.
LEMMA OrdersLive ==
  ASSUME ChainOK, Legal(chain), None \notin Order, NEW o \in Order
  PROVE  /\ \A i \in Where(chain, "swapped", o) \union Where(chain, "docked", o) :
               \E j \in Where(chain, "shipped", o) : j < i
         /\ \A i \in Where(chain, "docked", o), j \in Where(chain, "swapped", o) : j < i
         /\ \A i, j \in Where(chain, "shipped", o) : i = j
         /\ Where(chain, "shipped", o) \union Where(chain, "swapped", o) \union Where(chain, "docked", o)
              \subseteq 1..Height
<1>1. DOMAIN chain = 1..Height
    BY LenProperties DEF ChainOK, Height
<1>2. \A i \in 1..Height : chain[i].event \in Event
    BY BlocksTyped
<1>3. /\ \A i \in Where(chain, "swapped", o) \union Where(chain, "docked", o) :
            \E j \in Where(chain, "shipped", o) : j < i
      /\ \A i \in Where(chain, "docked", o), j \in Where(chain, "swapped", o) : j < i
  <2>1. CASE o \in {e.order : e \in Event} \ {None}
      BY <2>1 DEF Legal
  <2>2. CASE o \notin {e.order : e \in Event} \ {None}
    <3>1. Where(chain, "swapped", o) \union Where(chain, "docked", o) = {}
        BY <1>1, <1>2, <2>2 DEF Where
    <3> QED
        BY <3>1
  <2> QED
      BY <2>1, <2>2
<1>4. \A i, j \in Where(chain, "shipped", o) : i = j
  <2> SUFFICES ASSUME NEW i \in Where(chain, "shipped", o), NEW j \in Where(chain, "shipped", o), i # j
               PROVE  FALSE
      OBVIOUS
  <2>1. /\ i \in 1..Height /\ chain[i].event.kind = "shipped" /\ chain[i].event.order = o
        /\ j \in 1..Height /\ chain[j].event.kind = "shipped" /\ chain[j].event.order = o
      BY <1>1 DEF Where
  <2>2. chain[i].event = chain[j].event
      BY <1>2, <2>1, ChainAssumption
  <2> QED
      BY <2>1, <2>2 DEF ChainOK
<1> QED
    BY <1>1, <1>3, <1>4 DEF Where

-----------------------------------------------------------------------------
(* The invariant of the order indexer.  Each due statement of a commit      *)
(* stands for one transaction of the chain; what the tables hold is told    *)
(* from the set of statements that were executed.  Whatever happened, the   *)
(* tables are right about the blocks up to the checkpoint when that is on   *)
(* the chain, and during a commit of blocks of this chain they are right    *)
(* about the statements executed by then.                                   *)

\* A block holds what a statement of this name is sent for.
Names == {"order", "fill", "take", "close", "log"}
KindFor == [order |-> "shipped", fill |-> "swapped", take |-> "swapped", close |-> "docked"]
Due(nm, n) ==
    /\ chain[n].event.kind # "none"
    /\ nm = "log" \/ (chain[n].event.order \in Order /\ chain[n].event.kind = KindFor[nm])
Statement(nm, n) == [name |-> nm, block |-> n, event |-> chain[n].event]
Last(to) == [name |-> "checkpoint", block |-> to]
AllDue(from, to) ==
    {s \in {Statement(nm, n) : nm \in Names, n \in from..to} : Due(s.name, s.block)} \union {Last(to)}

\* The blocks up to m whose statements are not pending, by the name of the statement.
Sent(m, pending) ==
    [nm \in Names |-> {n \in 1..m : Due(nm, n) /\ Statement(nm, n) \notin pending}]

\* The blocks of S that fill an order, what they leave of it, and whether one of T docks it.
FillsOf(S, o) == {n \in S : chain[n].event.order = o}
LeftBy(S, o) == Original - Total[{chain[n].event.id : n \in FillsOf(S, o)}]
Touched(T, o) == \E n \in T : chain[n].event.order = o
RowCovers(sent, o) ==
    /\ rows[o] # None
    /\ Live(rows[o]) => rows[o].remaining <= LeftBy(sent["take"], o) /\ ~Touched(sent["close"], o)
RowMatches(sent, o) ==
    /\ rows[o] # None
    /\ rows[o].remaining = LeftBy(sent["take"], o)
    /\ Touched(sent["close"], o) /\ rows[o].remaining > 0 => rows[o].status = "cancelled"
    /\ ~Touched(sent["close"], o) /\ rows[o].remaining > 0 =>
          rows[o].status = IF rows[o].remaining = Original THEN "open" ELSE "partiallyFilled"
    /\ rows[o].remaining = 0 => rows[o].status = "filled"

Covers(sent) ==
    /\ \A o \in Order : Touched(sent["order"], o) => RowCovers(sent, o)
    /\ \A n \in sent["fill"] : \E f \in fills : f.id = chain[n].event.id
    /\ \A n \in sent["log"] : \E l \in logs : l.event = chain[n].event
\* A row is of an order that was shipped, or of one whose row a rewind left.
Known(sent) == \A o \in Order : rows[o] # None => o \in survivors \/ Touched(sent["order"], o)
Matches(sent) == Known(sent) /\ \A o \in Order : Touched(sent["order"], o) => RowMatches(sent, o)

\* The checkpoint is on the chain, or there is none.
Base == IF checkpoint = None THEN 0 ELSE checkpoint.block
Stands == checkpoint = None \/ IsCanonical(checkpoint.block, checkpoint.hash)
AtBase == Sent(Base, {})

\* What a statement may be, of whatever chain it was read.
StatementOK(s) ==
    \/ s.name = "checkpoint"
    \/ /\ s.name \in Names /\ s.block \in 1..Height /\ s.event \in Event
       /\ s.name # "log" => s.event.order \in Order /\ s.event.kind = KindFor[s.name]

\* No fork overtook the cycle under way, nor one that wrote since the last rewind.
Whole == ~misread /\ ~torn

\* The blocks a commit is about are on the chain: what is pending is due, what is not is
\* earlier in turn, and the tables are right about it.
Current(to) ==
    /\ Stands /\ Base < to
    /\ cycle.todo \subseteq AllDue(Base + 1, to)
    /\ \A s \in AllDue(Base + 1, to) \ cycle.todo, t \in cycle.todo : Before(s, t)
    /\ Covers(Sent(to, cycle.todo))
    /\ ~cut => Matches(Sent(to, cycle.todo))

\* What waits to be sent, of this chain or another.
Pending(to) ==
    /\ Last(to) \in cycle.todo
    /\ \A s \in cycle.todo : StatementOK(s) /\ (s.name = "checkpoint" => s = Last(to))

Committing(to) ==
    /\ Pending(to) /\ cycle.hash \in 0..fork
    /\ Whole /\ Stands => \A s \in cycle.todo : s.name = "order" => ~Touched(AtBase["order"], s.event.order)
    /\ Whole /\ IsCanonical(to, cycle.hash) => Current(to)

\* The cycle, by its place in runOnce.
CycleOK ==
    /\ cycle.at \in {"idle", "head", "logs", "hash", "commit"}
    /\ cycle.at \in {"head", "logs", "hash"} => (Whole => Stands)
    /\ cycle.at = "logs" => cycle.from = Base + 1 /\ cycle.to \in cycle.from..Height
    /\ cycle.at = "hash" => /\ cycle.to \in (Base + 1)..Height
                            /\ Pending(cycle.to)
                            /\ Whole => cycle.todo = AllDue(Base + 1, cycle.to)
    /\ cycle.at = "commit" =>
         /\ cycle = [at |-> "commit", hash |-> cycle.hash, todo |-> cycle.todo, begun |-> cycle.begun]
         /\ \E to \in 1..Height : Committing(to)

TablesOK ==
    /\ rows \in [Order -> Row \union {None}]
    /\ checkpoint \in [block : 1..Height, hash : 0..fork] \union {None}
    /\ fills \subseteq [id : DOMAIN Amount, block : 1..MaxHeight]

IndexerInvariant ==
    /\ ChainOK /\ Legal(chain)
    /\ TablesOK /\ CycleOK
    /\ Stands /\ ~torn => Covers(AtBase)
    /\ Stands /\ ~torn /\ ~cut /\ (cycle.at = "commit" => ~cycle.begun) => Matches(AtBase)

\* Only the chain moves, and a cycle that a fork overtook is misread: no other has read,
\* or takes for granted, a block above k.
IndexStill(k) ==
    /\ UNCHANGED <<tables, cycle, interrupts, torn, cut, survivors>>
    /\ ~misread' => ~misread /\ BlocksRead <= k

-----------------------------------------------------------------------------
(* Statements and what was sent of them.                                    *)

\* The turns.
LEMMA TurnOfNames ==
  /\ Turn["order"] = 1 /\ Turn["fill"] = 2 /\ Turn["take"] = 3 /\ Turn["close"] = 4
  /\ Turn["log"] = 5 /\ Turn["checkpoint"] = 6
BY DEF Turn

\* A statement tells its name and its block, and none is the last one.
LEMMA StatementsDiffer ==
  ASSUME NEW nm \in Names, NEW n
  PROVE  /\ Statement(nm, n).name = nm /\ Statement(nm, n).block = n /\ Statement(nm, n).event = chain[n].event
         /\ \A k \in Names : \A i : Statement(k, i) = Statement(nm, n) => k = nm /\ i = n
         /\ \A to : Statement(nm, n) # Last(to)
<1>1. \A k, i : Statement(k, i).name = k /\ Statement(k, i).block = i /\ Statement(k, i).event = chain[i].event
    BY DEF Statement
<1>2. \A to : Last(to).name = "checkpoint"
    BY DEF Last
<1>3. "checkpoint" \notin Names
    BY DEF Names
<1> QED
    BY <1>1, <1>2, <1>3

\* A statement of a commit is of the blocks it is about, or the last.
LEMMA DueStatements ==
  ASSUME NEW from, NEW to, NEW s
  PROVE  s \in AllDue(from, to) <=>
           s = Last(to) \/ \E nm \in Names : \E n \in from..to : Due(nm, n) /\ s = Statement(nm, n)
<1>1. \A nm \in Names : \A n : Statement(nm, n).name = nm /\ Statement(nm, n).block = n
    BY DEF Statement
<1> QED
    BY <1>1 DEF AllDue

\* When the checkpoint alone is pending, everything is sent.
LEMMA AllAreSent ==
  ASSUME NEW to PROVE Sent(to, {Last(to)}) = Sent(to, {})
<1>1. \A nm \in Names : \A n : Statement(nm, n) # Last(to)
    BY StatementsDiffer
<1> QED
    BY <1>1 DEF Sent

\* When all that is due above the checkpoint is pending, what is below it is sent.
LEMMA NoneIsSent ==
  ASSUME NEW base \in Nat, NEW to \in Nat, base <= to
  PROVE  Sent(to, AllDue(base + 1, to)) = Sent(base, {})
<1> SUFFICES ASSUME NEW nm \in Names
             PROVE  {n \in 1..to : Due(nm, n) /\ Statement(nm, n) \notin AllDue(base + 1, to)}
                      = {n \in 1..base : Due(nm, n) /\ Statement(nm, n) \notin {}}
    BY DEF Sent
<1>1. \A n \in 1..to : Due(nm, n) => (Statement(nm, n) \in AllDue(base + 1, to) <=> n \in (base + 1)..to)
  <2> TAKE n \in 1..to
  <2>1. \A k \in Names : \A i : Statement(k, i) = Statement(nm, n) => k = nm /\ i = n
      BY StatementsDiffer
  <2>2. Statement(nm, n) # Last(to)
      BY StatementsDiffer
  <2> QED
      BY <2>1, <2>2, DueStatements
<1>2. \A n \in 1..to : n \in 1..base <=> n \notin (base + 1)..to
    OBVIOUS
<1>3. \A n \in 1..base : n \in 1..to
    OBVIOUS
<1> QED
    BY <1>1, <1>2, <1>3

\* Executing a statement sends one block more.
LEMMA OneIsSent ==
  ASSUME NEW to, NEW pending, NEW nm \in Names, NEW n \in 1..to, Due(nm, n)
  PROVE  Sent(to, pending \ {Statement(nm, n)}) = [Sent(to, pending) EXCEPT ![nm] = @ \union {n}]
<1>1. \A k \in Names : \A i : Statement(k, i) = Statement(nm, n) => k = nm /\ i = n
    BY StatementsDiffer
<1> DEFINE now == Sent(to, pending \ {Statement(nm, n)})
           before == Sent(to, pending)
<1>2. \A k \in Names : now[k] = IF k = nm THEN before[k] \union {n} ELSE before[k]
    BY <1>1 DEF Sent
<1>3. now = [k \in Names |-> now[k]] /\ before = [k \in Names |-> before[k]]
    BY DEF Sent
<1> HIDE DEF now, before
<1>4. now = [before EXCEPT ![nm] = @ \union {n}]
    BY <1>2, <1>3
<1> QED
    BY <1>4 DEF now, before

\* What has been sent is due, up to its bound.
LEMMA SentTyped ==
  ASSUME NEW to, NEW pending
  PROVE  /\ Sent(to, pending) = [nm \in Names |-> Sent(to, pending)[nm]]
         /\ \A nm \in Names : \A n \in Sent(to, pending)[nm] : n \in 1..to /\ Due(nm, n)
         /\ \A nm \in Names : \A n \in 1..to :
               n \in Sent(to, pending)[nm] <=> Due(nm, n) /\ Statement(nm, n) \notin pending
BY DEF Sent

-----------------------------------------------------------------------------
(* What one statement does to the tables.                                   *)

\* The chain and the rows, as far as a statement needs them.
Grounded ==
    /\ ChainOK /\ Legal(chain)
    /\ rows \in [Order -> Row \union {None}]

SentOK(sent) ==
    /\ sent = [nm \in Names |-> sent[nm]]
    /\ \A nm \in Names : \A n \in sent[nm] : n \in 1..Height /\ Due(nm, n)

\* An order is never filled beyond its amount.
LEMMA LeftWithin ==
  ASSUME Grounded, NEW sent, SentOK(sent), NEW o \in Order
  PROVE  LeftBy(sent["take"], o) \in 0..Original
<1>1. DOMAIN chain = 1..Height /\ "take" \in Names /\ KindFor["take"] = "swapped" /\ None \notin Order
    BY LenProperties, IndexerAssumption DEF Grounded, ChainOK, Height, Names, KindFor
<1>2. FillsOf(sent["take"], o) \in SUBSET Where(chain, "swapped", o)
    BY <1>1 DEF SentOK, FillsOf, Where, Due
<1>3. PICK S \in SUBSET Where(chain, "swapped", o) : S = FillsOf(sent["take"], o)
    BY <1>2
<1>4. Total[{chain[n].event.id : n \in S}] \in 0..Original
    BY <1>1, FilledWithin DEF Grounded
<1>5. Original \in Nat
    BY ChainAssumption
<1> QED
    BY <1>3, <1>4, <1>5 DEF LeftBy

\* A fill leaves its amount less.
LEMMA LeftByOneMore ==
  ASSUME Grounded, NEW sent, SentOK(sent), NEW n \in 1..Height, Due("take", n), n \notin sent["take"]
  PROVE  /\ chain[n].event.order \in Order
         /\ Amount[chain[n].event.id] \in Nat \ {0}
         /\ LeftBy(sent["take"] \union {n}, chain[n].event.order)
              = LeftBy(sent["take"], chain[n].event.order) - Amount[chain[n].event.id]
         /\ \A o : o # chain[n].event.order => LeftBy(sent["take"] \union {n}, o) = LeftBy(sent["take"], o)
<1>1. DOMAIN chain = 1..Height /\ "take" \in Names /\ KindFor["take"] = "swapped" /\ None \notin Order
    BY LenProperties, IndexerAssumption DEF Grounded, ChainOK, Height, Names, KindFor
<1>2. chain[n].event.order \in Order /\ chain[n].event.kind = "swapped"
    BY <1>1 DEF Due
<1>3. PICK o \in Order : o = chain[n].event.order
    BY <1>2
<1>4. FillsOf(sent["take"], o) \in SUBSET Where(chain, "swapped", o) /\ n \in Where(chain, "swapped", o)
    BY <1>1, <1>2, <1>3 DEF SentOK, FillsOf, Where, Due
<1>5. PICK S \in SUBSET Where(chain, "swapped", o) : S = FillsOf(sent["take"], o)
    BY <1>4
<1>6. n \in Where(chain, "swapped", o) \ S
    BY <1>4, <1>5 DEF FillsOf
<1>7. /\ Amount[chain[n].event.id] \in Nat \ {0}
      /\ Total[{chain[i].event.id : i \in S \union {n}}]
              = Amount[chain[n].event.id] + Total[{chain[i].event.id : i \in S}]
    BY <1>1, <1>6, OneMoreFill DEF Grounded
<1>8. FillsOf(sent["take"] \union {n}, o) = S \union {n}
    BY <1>3, <1>5 DEF FillsOf
<1>9. \A p : p # o => FillsOf(sent["take"] \union {n}, p) = FillsOf(sent["take"], p)
    BY <1>3 DEF FillsOf
<1>10. Total[{chain[i].event.id : i \in S}] \in 0..Original /\ Original \in Nat
    BY <1>1, FilledWithin, ChainAssumption DEF Grounded
<1>11. LeftBy(sent["take"] \union {n}, o) = LeftBy(sent["take"], o) - Amount[chain[n].event.id]
  <2>1. PICK t \in 0..Original : t = Total[{chain[i].event.id : i \in S}]
      BY <1>10, Zenon
  <2>2. PICK amount \in Int : amount = Amount[chain[n].event.id]
      BY <1>7
  <2>3. LeftBy(sent["take"], o) = Original - t
      BY <1>5, <2>1 DEF LeftBy
  <2>4. LeftBy(sent["take"] \union {n}, o) = Original - (amount + t)
      BY <1>7, <1>8, <2>1, <2>2 DEF LeftBy
  <2> QED
      BY <1>10, <2>2, <2>3, <2>4
<1>12. \A p : p # o => LeftBy(sent["take"] \union {n}, p) = LeftBy(sent["take"], p)
    BY <1>9 DEF LeftBy
<1> QED
    BY <1>2, <1>3, <1>7, <1>11, <1>12

\* A block touches its own order.
LEMMA TouchedByOneMore ==
  ASSUME NEW T, NEW n
  PROVE  \A o : Touched(T \union {n}, o) <=> Touched(T, o) \/ o = chain[n].event.order
BY DEF Touched

\* The row an order statement leaves.
LEMMA OrderRow ==
  ASSUME rows \in [Order -> Row \union {None}], NEW s, s.event.order \in Order, s.block \in 1..MaxHeight, InsertOrder(s)
  PROVE  /\ rows' \in [Order -> Row \union {None}]
         /\ \A o \in Order : o # s.event.order => rows'[o] = rows[o]
         /\ rows'[s.event.order] # None /\ Live(rows[s.event.order])'
         /\ rows'[s.event.order].remaining = Original /\ rows'[s.event.order].status = "open"
<1> DEFINE row == [block |-> s.block, remaining |-> Original, status |-> "open"]
<1>1. row \in Row
    BY ChainAssumption DEF Row
<1>2. rows' = [rows EXCEPT ![s.event.order] = row]
    BY DEF InsertOrder
<1>3. None \notin Row
    BY IndexerAssumption
<1> HIDE DEF row
<1>4. rows' \in [Order -> Row \union {None}] /\ rows'[s.event.order] = row
      /\ \A o \in Order : o # s.event.order => rows'[o] = rows[o]
    BY <1>1, <1>2
<1> QED
    BY <1>1, <1>3, <1>4 DEF row, Live

\* The row a take statement leaves.
LEMMA TakeRow ==
  ASSUME rows \in [Order -> Row \union {None}], NEW s, NEW o \in Order, o = s.event.order,
         Amount[s.event.id] \in Nat, TakeFill(s)
  PROVE  /\ rows' \in [Order -> Row \union {None}]
         /\ \A p \in Order : p # o => rows'[p] = rows[p]
         /\ ~Live(rows[o]) => rows'[o] = rows[o]
         /\ Live(rows[o]) => \E left \in 0..Original :
              /\ left = IF rows[o].remaining >= Amount[s.event.id]
                          THEN rows[o].remaining - Amount[s.event.id] ELSE 0
              /\ rows'[o] # None /\ rows'[o].remaining = left
              /\ rows'[o].status = IF left = 0 THEN "filled" ELSE "partiallyFilled"
<1>1. CASE ~Live(rows[o])
    BY <1>1 DEF TakeFill
<1>2. CASE Live(rows[o])
  <2> DEFINE left == Max({0, rows[o].remaining - Amount[s.event.id]})
  <2>1. rows[o] \in Row /\ rows[o].remaining \in 0..Original /\ Original \in Nat
      BY <1>2, ChainAssumption DEF Live, Row
  <2>2. left = IF rows[o].remaining >= Amount[s.event.id] THEN rows[o].remaining - Amount[s.event.id] ELSE 0
    <3>1. PICK d \in Int : d = rows[o].remaining - Amount[s.event.id]
        BY <2>1
    <3>2. Max({0, d}) = IF d >= 0 THEN d ELSE 0
      <4> DEFINE m == IF d >= 0 THEN d ELSE 0
      <4>1. m \in {0, d} /\ \A x \in {0, d} : m >= x
          OBVIOUS
      <4>2. \A y \in {0, d} : (\A x \in {0, d} : y >= x) => y = m
          OBVIOUS
      <4> HIDE DEF m
      <4>3. Max({0, d}) = m
          BY <4>1, <4>2 DEF Max
      <4> QED
          BY <4>3 DEF m
    <3> QED
        BY <2>1, <3>1, <3>2
  <2> HIDE DEF left
  <2>3. left \in 0..Original
      BY <2>1, <2>2
  <2>4. PICK st : st = IF left = 0 THEN "filled" ELSE "partiallyFilled"
      OBVIOUS
  <2>5. rows' = [rows EXCEPT ![o].remaining = left, ![o].status = st]
      BY <1>2, <2>4 DEF TakeFill, left
  <2>6. PICK row : row = [block |-> rows[o].block, remaining |-> left, status |-> st]
      OBVIOUS
  <2>7. rows[o] = [block |-> rows[o].block, remaining |-> rows[o].remaining, status |-> rows[o].status]
        /\ rows[o].block \in 1..MaxHeight
      BY <2>1 DEF Row
  <2>8. rows' = [rows EXCEPT ![o] = row]
    <3>1. PICK old : old = rows[o]
        OBVIOUS
    <3>2. PICK mid : mid = [rows EXCEPT ![o] = [old EXCEPT !.remaining = left]]
        OBVIOUS
    <3>3. PICK m : m = mid[o]
        OBVIOUS
    <3>4. rows' = [mid EXCEPT ![o] = [m EXCEPT !.status = st]] /\ m = [old EXCEPT !.remaining = left]
        BY <2>5, <3>1, <3>2, <3>3
    <3>5. [m EXCEPT !.status = st] = row
      <4>1. old = [block |-> old.block, remaining |-> old.remaining, status |-> old.status]
          BY <2>7, <3>1
      <4>2. PICK b, r, t : old = [block |-> b, remaining |-> r, status |-> t]
          BY <4>1
      <4>3. [old EXCEPT !.remaining = left] = [block |-> b, remaining |-> left, status |-> t]
          BY <4>2
      <4>4. row = [block |-> b, remaining |-> left, status |-> st]
          BY <2>6, <3>1, <4>2
      <4>5. m = [block |-> b, remaining |-> left, status |-> t]
          BY <3>4, <4>3
      <4>6. PICK x : x = left
          OBVIOUS
      <4>7. m = [block |-> b, remaining |-> x, status |-> t]
          BY <4>5, <4>6
      <4>8. [m EXCEPT !.status = st] = [block |-> b, remaining |-> x, status |-> st]
          BY <4>7
      <4> QED
          BY <4>4, <4>6, <4>8
    <3> QED
        BY <3>2, <3>4, <3>5
  <2>9. row \in Row /\ row.remaining = left /\ row.status = st
      BY <2>3, <2>4, <2>6, <2>7 DEF Row
  <2>10. row # None
      BY <2>9, IndexerAssumption
  <2>11. rows' \in [Order -> Row \union {None}] /\ rows'[o] = row /\ \A p \in Order : p # o => rows'[p] = rows[p]
      BY <2>8, <2>9
  <2> QED
      BY <1>2, <2>2, <2>3, <2>4, <2>9, <2>10, <2>11
<1> QED
    BY <1>1, <1>2

\* The row a close statement leaves.
LEMMA CloseRow ==
  ASSUME rows \in [Order -> Row \union {None}], NEW s, NEW o \in Order, o = s.event.order, CloseOrder(s)
  PROVE  /\ rows' \in [Order -> Row \union {None}]
         /\ \A p \in Order : p # o => rows'[p] = rows[p]
         /\ ~Live(rows[o]) => rows'[o] = rows[o]
         /\ Live(rows[o]) => /\ rows'[o] # None /\ rows'[o].remaining = rows[o].remaining
                             /\ rows'[o].status = "cancelled"
<1>1. CASE ~Live(rows[o])
    BY <1>1 DEF CloseOrder
<1>2. CASE Live(rows[o])
  <2>1. rows[o] \in Row
      BY <1>2 DEF Live
  <2>2. PICK row : row = [rows[o] EXCEPT !.status = "cancelled"]
      OBVIOUS
  <2>3. row \in Row /\ row.remaining = rows[o].remaining /\ row.status = "cancelled"
      BY <2>1, <2>2 DEF Row
  <2>4. rows' = [rows EXCEPT ![o] = row]
      BY <1>2, <2>2 DEF CloseOrder
  <2>5. row # None
      BY <2>3, IndexerAssumption
  <2>6. rows' \in [Order -> Row \union {None}] /\ rows'[o] = row /\ \A p \in Order : p # o => rows'[p] = rows[p]
      BY <2>3, <2>4
  <2> QED
      BY <1>2, <2>3, <2>5, <2>6
<1> QED
    BY <1>1, <1>2

\* What is told of a set of blocks depends on the chain alone.
LEMMA SameChain ==
  ASSUME chain' = chain, NEW S, NEW o
  PROVE  LeftBy(S, o)' = LeftBy(S, o) /\ (Touched(S, o)' <=> Touched(S, o))
BY DEF LeftBy, FillsOf, Touched

\* What a statement writes besides the rows.
LEMMA Recorded ==
  ASSUME NEW s, s.name \in Names, Execute(s)
  PROVE  /\ s.name \notin {"order", "take", "close"} => rows' = rows
         /\ \A id : (\E f \in fills : f.id = id) => \E f \in fills' : f.id = id
         /\ \A e : (\E l \in logs : l.event = e) => \E l \in logs' : l.event = e
         /\ s.name = "fill" => \E f \in fills' : f.id = s.event.id
         /\ s.name = "log" => \E l \in logs' : l.event = s.event
         /\ s.name = "order" => InsertOrder(s)
         /\ s.name = "take" => TakeFill(s)
         /\ s.name = "close" => CloseOrder(s)
         /\ checkpoint' = checkpoint
         /\ fills' = fills \/ (s.name = "fill" /\ fills' = fills \union {[id |-> s.event.id, block |-> s.block]})
<1>1. CASE s.name = "order"
    BY <1>1, Zenon DEF Execute
<1>2. CASE s.name = "take"
    BY <1>2, Zenon DEF Execute
<1>3. CASE s.name = "close"
    BY <1>3, Zenon DEF Execute
<1>4. CASE s.name = "fill"
  <2>1. InsertFill(s) /\ rows' = rows /\ logs' = logs /\ checkpoint' = checkpoint
      BY <1>4, Zenon DEF Execute
  <2>2. /\ \A id : (\E f \in fills : f.id = id) => \E f \in fills' : f.id = id
        /\ \E f \in fills' : f.id = s.event.id
        /\ fills' = fills \/ fills' = fills \union {[id |-> s.event.id, block |-> s.block]}
    <3>1. CASE \E f \in fills : f.id = s.event.id
        BY <2>1, <3>1 DEF InsertFill
    <3>2. CASE ~\E f \in fills : f.id = s.event.id
      <4>1. PICK x : x = [id |-> s.event.id, block |-> s.block]
          OBVIOUS
      <4>2. fills' = fills \union {x} /\ x.id = s.event.id
          BY <2>1, <3>2, <4>1 DEF InsertFill
      <4>3. \E y \in fills' : y.id = s.event.id
          BY <4>2
      <4> QED
          BY <4>1, <4>2, <4>3
    <3> QED
        BY <3>1, <3>2
  <2> QED
      BY <1>4, <2>1, <2>2
<1>5. CASE s.name = "log"
  <2>1. InsertLog(s) /\ rows' = rows /\ fills' = fills /\ checkpoint' = checkpoint
      BY <1>5, Zenon DEF Execute
  <2>2. /\ \A e : (\E l \in logs : l.event = e) => \E l \in logs' : l.event = e
        /\ \E l \in logs' : l.event = s.event
    <3>1. CASE \E l \in logs : l.event = s.event
        BY <2>1, <3>1 DEF InsertLog
    <3>2. CASE ~\E l \in logs : l.event = s.event
      <4>1. PICK x : x = [event |-> s.event, block |-> s.block]
          OBVIOUS
      <4>2. logs' = logs \union {x} /\ x.event = s.event
          BY <2>1, <3>2, <4>1 DEF InsertLog
      <4>3. \E y \in logs' : y.event = s.event
          BY <4>2
      <4> QED
          BY <4>1, <4>2, <4>3
    <3> QED
        BY <3>1, <3>2
  <2> QED
      BY <1>5, <2>1, <2>2
<1> QED
    BY <1>1, <1>2, <1>3, <1>4, <1>5 DEF Names

\* A statement brings no row but the one of its own order.
LEMMA RowsAdded ==
  ASSUME Grounded, NEW s, s.name \in Names, StatementOK(s), Execute(s)
  PROVE  \A o \in Order : rows'[o] # None => rows[o] # None \/ (s.name = "order" /\ o = s.event.order)
<1>1. rows \in [Order -> Row \union {None}] /\ None \notin Row
    BY IndexerAssumption DEF Grounded
<1>2. /\ s.block \in 1..MaxHeight /\ s.event \in Event
      /\ s.name # "log" => s.event.order \in Order /\ s.event.kind = KindFor[s.name]
  <2>1. "checkpoint" \notin Names
      BY DEF Names
  <2>2. Height \in Nat /\ Height <= MaxHeight /\ MaxHeight \in Nat
      BY LenProperties, ChainAssumption DEF Grounded, ChainOK, Height
  <2> QED
      BY <2>1, <2>2 DEF StatementOK
<1>3. \A o \in Order : Live(rows[o]) => rows[o] # None
    BY DEF Live
<1>4. CASE s.name = "order"
  <2>1. InsertOrder(s)
      BY <1>4, Recorded
  <2> QED
      BY <1>1, <1>2, <1>4, <2>1, OrderRow
<1>5. CASE s.name = "take"
  <2>1. TakeFill(s) /\ Amount[s.event.id] \in Nat
      BY <1>2, <1>5, Recorded, ChainAssumption DEF KindFor
  <2>2. PICK p \in Order : p = s.event.order
      BY <1>2, <1>5
  <2>3. (\A o \in Order : o # p => rows'[o] = rows[o]) /\ (~Live(rows[p]) => rows'[p] = rows[p])
      BY <1>1, <2>1, <2>2, TakeRow
  <2> QED
      BY <1>3, <2>3
<1>6. CASE s.name = "close"
  <2>1. CloseOrder(s)
      BY <1>6, Recorded
  <2>2. PICK p \in Order : p = s.event.order
      BY <1>2, <1>6
  <2>3. (\A o \in Order : o # p => rows'[o] = rows[o]) /\ (~Live(rows[p]) => rows'[p] = rows[p])
      BY <1>1, <2>1, <2>2, CloseRow
  <2> QED
      BY <1>3, <2>3
<1>7. CASE s.name \in {"fill", "log"}
    BY <1>7, Recorded
<1> QED
    BY <1>4, <1>5, <1>6, <1>7 DEF Names

\* A row that covers what was sent still does when it offers less, or nothing.
LEMMA CoversLess ==
  ASSUME Grounded, NEW sent, SentOK(sent), NEW o \in Order, RowCovers(sent, o), chain' = chain,
         rows'[o] # None,
         Live(rows[o])' => Live(rows[o]) /\ rows'[o].remaining \in Int /\ rows'[o].remaining <= rows[o].remaining
  PROVE  RowCovers(sent, o)'
<1>1. LeftBy(sent["take"], o)' = LeftBy(sent["take"], o)
      /\ (Touched(sent["close"], o)' <=> Touched(sent["close"], o))
    BY SameChain
<1>2. PICK left \in Int : left = LeftBy(sent["take"], o)
    BY LeftWithin, ChainAssumption
<1>3. Live(rows[o]) => rows[o].remaining \in Int
    BY ChainAssumption DEF Grounded, Live, Row
<1> QED
    BY <1>1, <1>2, <1>3 DEF RowCovers

\* What a statement leaves as it was.
LEMMA StatementKeeps ==
  ASSUME Grounded, NEW sent, SentOK(sent), Covers(sent), NEW s, s.name \in Names, StatementOK(s), Execute(s),
         chain' = chain,
         s.name = "order" => ~Touched(sent["order"], s.event.order)
  PROVE  Covers(sent)' /\ rows' \in [Order -> Row \union {None}]
<1>1. /\ s.block \in 1..MaxHeight /\ s.event \in Event
      /\ s.name # "log" => s.event.order \in Order /\ s.event.kind = KindFor[s.name]
  <2>1. "checkpoint" \notin Names
      BY DEF Names
  <2>2. Height \in Nat /\ Height <= MaxHeight /\ MaxHeight \in Nat
      BY LenProperties, ChainAssumption DEF Grounded, ChainOK, Height
  <2> QED
      BY <2>1, <2>2 DEF StatementOK
<1>2. s.name = "take" => Amount[s.event.id] \in Nat
    BY <1>1, ChainAssumption DEF KindFor
<1>3. \A o : Touched(sent["order"], o)' <=> Touched(sent["order"], o)
    BY SameChain
<1>4. /\ rows \in [Order -> Row \union {None}]
      /\ \A o \in Order : Live(rows[o]) => rows[o].remaining \in Int
    BY ChainAssumption DEF Grounded, Live, Row
<1>5. /\ rows' \in [Order -> Row \union {None}]
      /\ \A o \in Order : Touched(sent["order"], o) => RowCovers(sent, o)'
  <2>1. CASE rows' = rows
    <3>1. ASSUME NEW o \in Order, Touched(sent["order"], o) PROVE RowCovers(sent, o)'
      <4>2. RowCovers(sent, o)
          BY <3>1 DEF Covers
      <4> QED
          BY <1>4, <2>1, <4>2, CoversLess DEF RowCovers, Live
    <3> QED
        BY <1>4, <2>1, <3>1
  <2>2. CASE s.name = "order"
    <3>1. InsertOrder(s)
        BY <2>2, Recorded
    <3>2. /\ rows' \in [Order -> Row \union {None}]
          /\ \A o \in Order : o # s.event.order => rows'[o] = rows[o]
        BY <1>1, <1>4, <2>2, <3>1, OrderRow
    <3>3. ASSUME NEW o \in Order, Touched(sent["order"], o) PROVE RowCovers(sent, o)'
      <4>2. RowCovers(sent, o) /\ rows'[o] = rows[o]
          BY <2>2, <3>2, <3>3 DEF Covers
      <4> QED
          BY <1>4, <4>2, CoversLess DEF RowCovers, Live
    <3> QED
        BY <3>2, <3>3
  <2>3. CASE s.name = "take"
    <3>1. TakeFill(s)
        BY <2>3, Recorded
    <3>2. PICK p \in Order : p = s.event.order
        BY <1>1, <2>3
    <3>3. /\ rows' \in [Order -> Row \union {None}]
          /\ \A o \in Order : o # p => rows'[o] = rows[o]
          /\ ~Live(rows[p]) => rows'[p] = rows[p]
          /\ Live(rows[p]) => \E left \in 0..Original :
              /\ left = IF rows[p].remaining >= Amount[s.event.id]
                          THEN rows[p].remaining - Amount[s.event.id] ELSE 0
              /\ rows'[p] # None /\ rows'[p].remaining = left
              /\ rows'[p].status = IF left = 0 THEN "filled" ELSE "partiallyFilled"
        BY <1>2, <1>4, <2>3, <3>1, <3>2, TakeRow
    <3>4. ASSUME NEW o \in Order, Touched(sent["order"], o) PROVE RowCovers(sent, o)'
      <4>2. RowCovers(sent, o)
          BY <3>4 DEF Covers
      <4>3. CASE rows'[o] = rows[o]
          BY <1>4, <4>2, <4>3, CoversLess DEF RowCovers, Live
      <4>4. CASE o = p /\ Live(rows[p])
        <5>1. rows'[o] # None /\ rows'[o].remaining \in Int /\ rows'[o].remaining <= rows[o].remaining
          <6>1. PICK r \in 0..Original, a \in Nat : r = rows[p].remaining /\ a = Amount[s.event.id]
              BY <1>2, <1>4, <2>3, <4>4 DEF Live, Row
          <6>2. Original \in Nat
              BY ChainAssumption
          <6> QED
              BY <3>3, <4>4, <6>1, <6>2
        <5> QED
            BY <4>2, <4>4, <5>1, CoversLess
      <4> QED
          BY <3>3, <4>3, <4>4
    <3> QED
        BY <3>3, <3>4
  <2>4. CASE s.name = "close"
    <3>1. CloseOrder(s)
        BY <2>4, Recorded
    <3>2. PICK p \in Order : p = s.event.order
        BY <1>1, <2>4
    <3>3. /\ rows' \in [Order -> Row \union {None}]
          /\ \A o \in Order : o # p => rows'[o] = rows[o]
          /\ ~Live(rows[p]) => rows'[p] = rows[p]
          /\ Live(rows[p]) => /\ rows'[p] # None /\ rows'[p].remaining = rows[p].remaining
                              /\ rows'[p].status = "cancelled"
        BY <1>4, <3>1, <3>2, CloseRow
    <3>4. ASSUME NEW o \in Order, Touched(sent["order"], o) PROVE RowCovers(sent, o)'
      <4>2. RowCovers(sent, o)
          BY <3>4 DEF Covers
      <4>3. CASE rows'[o] = rows[o]
          BY <1>4, <4>2, <4>3, CoversLess DEF RowCovers, Live
      <4>4. CASE o = p /\ Live(rows[p])
        <5>1. rows'[o] # None /\ ~Live(rows[o])'
            BY <3>3, <4>4 DEF Live
        <5> QED
            BY <4>2, <5>1, CoversLess
      <4> QED
          BY <3>3, <4>3, <4>4
    <3> QED
        BY <3>3, <3>4
  <2> QED
      BY <2>1, <2>2, <2>3, <2>4, Recorded
<1>6. /\ \A n \in sent["fill"] : \E f \in fills' : f.id = chain[n].event.id
      /\ \A n \in sent["log"] : \E l \in logs' : l.event = chain[n].event
  <2>1. /\ \A n \in sent["fill"] : \E f \in fills : f.id = chain[n].event.id
        /\ \A n \in sent["log"] : \E l \in logs : l.event = chain[n].event
      BY DEF Covers
  <2> QED
      BY <2>1, Recorded
<1> QED
    BY <1>3, <1>5, <1>6 DEF Covers

\* A row that no statement touched.
LEMMA RowSame ==
  ASSUME Grounded, NEW sent, NEW after, NEW o \in Order, rows'[o] = rows[o], chain' = chain,
         LeftBy(after["take"], o) = LeftBy(sent["take"], o),
         Touched(after["close"], o) <=> Touched(sent["close"], o)
  PROVE  (RowCovers(sent, o) => RowCovers(after, o)') /\ (RowMatches(sent, o) => RowMatches(after, o)')
<1>1. LeftBy(after["take"], o)' = LeftBy(sent["take"], o)
      /\ (Touched(after["close"], o)' <=> Touched(sent["close"], o))
    BY SameChain
<1>2. Live(rows[o])' <=> Live(rows[o])
    BY DEF Live
<1>3. RowCovers(sent, o) => RowCovers(after, o)'
    BY <1>1, <1>2 DEF RowCovers
<1>4. RowMatches(sent, o) => RowMatches(after, o)'
    BY <1>1 DEF RowMatches
<1> QED
    BY <1>3, <1>4

LEMMA OrderTold ==
  ASSUME Grounded, NEW sent, SentOK(sent), Covers(sent), NEW n \in 1..Height, Due("order", n),
         NEW s, s = Statement("order", n), InsertOrder(s), chain' = chain,
         ~Touched(sent["take"], chain[n].event.order), ~Touched(sent["close"], chain[n].event.order),
         NEW after, after = [sent EXCEPT !["order"] = @ \union {n}], NEW o \in Order, Touched(after["order"], o)
  PROVE  RowCovers(after, o)' /\ (Matches(sent) => RowMatches(after, o)')
<1>1. after["order"] = sent["order"] \union {n} /\ after["take"] = sent["take"] /\ after["close"] = sent["close"]
    BY DEF SentOK, Names
<1>2. /\ s.block = n /\ s.event = chain[n].event /\ chain[n].event.order \in Order
      /\ n \in 1..MaxHeight
  <2>1. Height \in Nat /\ Height <= MaxHeight /\ MaxHeight \in Nat
      BY LenProperties, ChainAssumption DEF Grounded, ChainOK, Height
  <2> QED
      BY <2>1 DEF Statement, Due
<1>3. PICK p \in Order : p = chain[n].event.order
    BY <1>2
<1>4. /\ \A q \in Order : q # p => rows'[q] = rows[q]
      /\ rows'[p] # None /\ Live(rows[p])'
      /\ rows'[p].remaining = Original /\ rows'[p].status = "open"
    BY <1>2, <1>3, OrderRow DEF Grounded
<1>5. CASE o = p
  <2>1. ~Touched(after["take"], o) /\ ~Touched(after["close"], o)
      BY <1>1, <1>3, <1>5
  <2>2. FillsOf(after["take"], o) = {}
      BY <2>1 DEF Touched, FillsOf
  <2>3. {chain[i].event.id : i \in FillsOf(after["take"], o)} = {}
      BY <2>2
  <2>4. LeftBy(after["take"], o) = Original /\ Original \in Nat \ {0}
    <3>1. Total[{}] = 0
        BY TotalUnfolds DEF Body
    <3>2. LeftBy(after["take"], o) = Original - 0
        BY <2>3, <3>1 DEF LeftBy
    <3> QED
        BY <3>2, ChainAssumption
  <2>5. LeftBy(after["take"], o)' = Original /\ ~Touched(after["close"], o)'
      BY <2>1, <2>4, SameChain
  <2> QED
      BY <1>4, <1>5, <2>4, <2>5 DEF RowCovers, RowMatches
<1>6. CASE o # p
  <2>1. Touched(sent["order"], o)
      BY <1>1, <1>3, <1>6, TouchedByOneMore
  <2>2. RowCovers(sent, o) /\ (Matches(sent) => RowMatches(sent, o))
      BY <2>1 DEF Covers, Matches
  <2> QED
      BY <1>1, <1>4, <1>6, <2>2, RowSame
<1> QED
    BY <1>5, <1>6

LEMMA TakeTold ==
  ASSUME Grounded, NEW sent, SentOK(sent), Covers(sent), NEW n \in 1..Height, Due("take", n), n \notin sent["take"],
         NEW s, s = Statement("take", n), TakeFill(s), chain' = chain,
         ~Touched(sent["close"], chain[n].event.order),
         NEW after, after = [sent EXCEPT !["take"] = @ \union {n}], NEW o \in Order, Touched(after["order"], o)
  PROVE  RowCovers(after, o)' /\ (Matches(sent) => RowMatches(after, o)')
<1>1. after["order"] = sent["order"] /\ after["take"] = sent["take"] \union {n} /\ after["close"] = sent["close"]
    BY DEF SentOK, Names
<1>2. PICK p \in Order, a \in Nat \ {0} :
        /\ p = chain[n].event.order /\ a = Amount[chain[n].event.id]
        /\ LeftBy(after["take"], p) = LeftBy(sent["take"], p) - a
        /\ \A q : q # p => LeftBy(after["take"], q) = LeftBy(sent["take"], q)
  <2>1. PICK T : T = sent["take"] \union {n}
      OBVIOUS
  <2>2. /\ chain[n].event.order \in Order /\ Amount[chain[n].event.id] \in Nat \ {0}
        /\ LeftBy(sent["take"] \union {n}, chain[n].event.order)
             = LeftBy(sent["take"], chain[n].event.order) - Amount[chain[n].event.id]
        /\ \A o1 : o1 # chain[n].event.order => LeftBy(sent["take"] \union {n}, o1) = LeftBy(sent["take"], o1)
      BY LeftByOneMore
  <2> QED
      BY <1>1, <2>2
<1>3. s.event.order = p /\ Amount[s.event.id] = a
    BY <1>2 DEF Statement
<1>4. /\ \A q \in Order : q # p => rows'[q] = rows[q]
      /\ ~Live(rows[p]) => rows'[p] = rows[p]
      /\ Live(rows[p]) => \E left \in 0..Original :
           /\ left = IF rows[p].remaining >= a THEN rows[p].remaining - a ELSE 0
           /\ rows'[p] # None /\ rows'[p].remaining = left
           /\ rows'[p].status = IF left = 0 THEN "filled" ELSE "partiallyFilled"
    BY <1>2, <1>3, TakeRow DEF Grounded
<1>5. RowCovers(sent, o) /\ (Matches(sent) => RowMatches(sent, o))
    BY <1>1 DEF Covers, Matches
<1>6. CASE o # p
    BY <1>1, <1>2, <1>4, <1>5, <1>6, RowSame
<1>7. CASE o = p
  <2>1. PICK left \in 0..Original : left = LeftBy(sent["take"], o)
      BY LeftWithin
  <2>2. Original \in Nat
      BY ChainAssumption
  <2>3. LeftBy(after["take"], o)' = left - a /\ left - a \in 0..Original
    <3>1. LeftBy(after["take"], o) = left - a
        BY <1>2, <1>7, <2>1
    <3>2. left - a >= 0
      <4>1. PICK T : T = sent["take"] \union {n}
          OBVIOUS
      <4>2. SentOK(after)
        <5>1. after = [nm \in Names |-> after[nm]]
            BY DEF SentOK
        <5>2. \A nm \in Names : after[nm] = IF nm = "take" THEN sent[nm] \union {n} ELSE sent[nm]
            BY DEF SentOK, Names
        <5> QED
            BY <5>1, <5>2 DEF SentOK
      <4>3. LeftBy(after["take"], o) \in 0..Original
          BY <4>2, LeftWithin
      <4> QED
          BY <2>2, <3>1, <4>3
    <3> QED
        BY <2>2, <3>1, <3>2, SameChain
  <2>4. ~Touched(after["close"], o)' /\ ~Touched(sent["close"], o)
      BY <1>1, <1>2, <1>7, SameChain
  <2>5. Live(rows[o]) => rows[o].remaining \in 0..Original
      BY DEF Live, Row, Grounded
  <2>6. RowCovers(after, o)'
    <3>1. CASE ~Live(rows[o])
        BY <1>4, <1>5, <1>7, <2>4, <3>1 DEF RowCovers, Live
    <3>2. CASE Live(rows[o])
      <4>1. PICK r \in 0..Original : r = rows[o].remaining /\ r <= left
          BY <1>5, <2>1, <2>5, <3>2 DEF RowCovers
      <4>2. PICK rest \in 0..Original :
               /\ rest = IF r >= a THEN r - a ELSE 0
               /\ rows'[o] # None /\ rows'[o].remaining = rest
               /\ rows'[o].status = IF rest = 0 THEN "filled" ELSE "partiallyFilled"
          BY <1>4, <1>7, <3>2, <4>1
      <4>3. rest <= left - a
          BY <2>2, <2>3, <4>1, <4>2
      <4> QED
          BY <2>3, <2>4, <4>2, <4>3 DEF RowCovers
    <3> QED
        BY <3>1, <3>2
  <2>7. ASSUME Matches(sent) PROVE RowMatches(after, o)'
    <3>2. left > 0 /\ left - a # Original
        BY <2>2, <2>3
    <3>1. rows[o] # None /\ rows[o].remaining = left
        BY <1>5, <2>1, <2>7 DEF RowMatches
    <3>3. Live(rows[o])
        BY <1>5, <2>4, <2>7, <3>1, <3>2 DEF Live, RowMatches
    <3>4. rows'[o] # None /\ rows'[o].remaining = left - a
          /\ rows'[o].status = IF left - a = 0 THEN "filled" ELSE "partiallyFilled"
        BY <1>4, <1>7, <2>2, <2>3, <3>1, <3>3
    <3> QED
        BY <2>2, <2>3, <2>4, <3>2, <3>4 DEF RowMatches
  <2> QED
      BY <2>6, <2>7
<1> QED
    BY <1>6, <1>7

LEMMA CloseTold ==
  ASSUME Grounded, NEW sent, SentOK(sent), Covers(sent), NEW n \in 1..Height, Due("close", n),
         NEW s, s = Statement("close", n), CloseOrder(s), chain' = chain,
         NEW after, after = [sent EXCEPT !["close"] = @ \union {n}], NEW o \in Order, Touched(after["order"], o)
  PROVE  RowCovers(after, o)' /\ (Matches(sent) => RowMatches(after, o)')
<1>1. after["order"] = sent["order"] /\ after["take"] = sent["take"] /\ after["close"] = sent["close"] \union {n}
    BY DEF SentOK, Names
<1>2. PICK p \in Order : p = chain[n].event.order
    BY DEF Due
<1>3. s.event.order = p
    BY <1>2 DEF Statement
<1>4. /\ \A q \in Order : q # p => rows'[q] = rows[q]
      /\ ~Live(rows[p]) => rows'[p] = rows[p]
      /\ Live(rows[p]) => /\ rows'[p] # None /\ rows'[p].remaining = rows[p].remaining
                          /\ rows'[p].status = "cancelled"
    BY <1>3, CloseRow DEF Grounded
<1>5. RowCovers(sent, o) /\ (Matches(sent) => RowMatches(sent, o))
    BY <1>1 DEF Covers, Matches
<1>6. CASE o # p
  <2>1. Touched(after["close"], o) <=> Touched(sent["close"], o)
      BY <1>1, <1>2, <1>6, TouchedByOneMore
  <2> QED
      BY <1>1, <1>4, <1>5, <1>6, <2>1, RowSame
<1>7. CASE o = p
  <2>1. PICK left \in 0..Original : left = LeftBy(sent["take"], o)
      BY LeftWithin
  <2>2. LeftBy(after["take"], o)' = left /\ Touched(after["close"], o)'
      BY <1>1, <1>2, <1>7, <2>1, TouchedByOneMore, SameChain
  <2>3. ~Live(rows[o])' /\ rows'[o] # None
      BY <1>4, <1>5, <1>7 DEF Live, RowCovers
  <2>4. RowCovers(after, o)'
      BY <2>3 DEF RowCovers
  <2>5. ASSUME Matches(sent) PROVE RowMatches(after, o)'
    <3>1. rows[o] # None /\ rows[o].remaining = left
        BY <1>5, <2>1, <2>5 DEF RowMatches
    <3>2. rows'[o].remaining = left
        BY <1>4, <1>7, <3>1
    <3>3. rows'[o].status = IF left = 0 THEN "filled" ELSE "cancelled"
      <4>1. CASE Live(rows[o])
        <5>1. left # 0
            BY <1>5, <2>5, <3>1, <4>1 DEF Live, RowMatches
        <5> QED
            BY <1>4, <1>7, <4>1, <5>1
      <4>2. CASE ~Live(rows[o])
        <5>1. rows'[o].status = rows[o].status
            BY <1>4, <1>7, <4>2
        <5>2. left = 0 => rows[o].status = "filled"
            BY <1>5, <2>5, <3>1 DEF RowMatches
        <5>3. left > 0 => rows[o].status = "cancelled"
            BY <1>5, <2>5, <3>1, <4>2 DEF Live, RowMatches
        <5> QED
            BY <5>1, <5>2, <5>3, ChainAssumption
      <4> QED
          BY <4>1, <4>2
    <3> QED
        BY <2>2, <2>3, <3>2, <3>3 DEF RowMatches
  <2> QED
      BY <2>4, <2>5
<1> QED
    BY <1>6, <1>7

\* The next statement of a commit, when the tables are right about those before it.
LEMMA StatementTold ==
  ASSUME Grounded, NEW sent, SentOK(sent), Covers(sent), NEW nm \in Names, NEW n \in 1..Height, Due(nm, n),
         n \notin sent[nm], NEW s, s = Statement(nm, n), Execute(s), chain' = chain,
         nm = "order" => ~Touched(sent["take"], chain[n].event.order) /\ ~Touched(sent["close"], chain[n].event.order),
         nm = "take" => ~Touched(sent["close"], chain[n].event.order),
         survivors' = IF s.name = "order" THEN survivors \ {s.event.order} ELSE survivors,
         NEW after, after = [sent EXCEPT ![nm] = @ \union {n}]
  PROVE  Covers(after)' /\ (Matches(sent) => Matches(after)')
<1>1. /\ \A k \in Names : after[k] = IF k = nm THEN sent[k] \union {n} ELSE sent[k]
      /\ s.name = nm /\ s.event = chain[n].event
    BY DEF SentOK, Statement
<1>2. ASSUME NEW o \in Order, Touched(after["order"], o)
      PROVE  RowCovers(after, o)' /\ (Matches(sent) => RowMatches(after, o)')
  <2>1. CASE nm = "order"
      BY <1>1, <1>2, <2>1, OrderTold, Recorded
  <2>2. CASE nm = "take"
      BY <1>1, <1>2, <2>2, TakeTold, Recorded
  <2>3. CASE nm = "close"
      BY <1>1, <1>2, <2>3, CloseTold, Recorded
  <2>4. CASE nm \in {"fill", "log"}
    <3>1. rows' = rows
        BY <1>1, <2>4, Recorded
    <3>2. after["order"] = sent["order"] /\ after["take"] = sent["take"] /\ after["close"] = sent["close"]
        BY <1>1, <2>4 DEF Names
    <3>3. RowCovers(sent, o) /\ (Matches(sent) => RowMatches(sent, o))
        BY <1>2, <3>2 DEF Covers, Matches
    <3> QED
        BY <3>1, <3>2, <3>3, RowSame
  <2> QED
      BY <2>1, <2>2, <2>3, <2>4 DEF Names
<1>3. \A o : Touched(after["order"], o)' <=> Touched(after["order"], o)
    BY SameChain
<1>4. /\ \A i \in after["fill"] : \E f \in fills' : f.id = chain[i].event.id
      /\ \A i \in after["log"] : \E l \in logs' : l.event = chain[i].event
  <2>1. /\ \A i \in sent["fill"] : \E f \in fills : f.id = chain[i].event.id
        /\ \A i \in sent["log"] : \E l \in logs : l.event = chain[i].event
      BY DEF Covers
  <2>2. /\ \A i \in sent["fill"] : \E f \in fills' : f.id = chain[i].event.id
        /\ \A i \in sent["log"] : \E l \in logs' : l.event = chain[i].event
      BY <1>1, <2>1, Recorded
  <2>3. /\ nm = "fill" => \E f \in fills' : f.id = chain[n].event.id
        /\ nm = "log" => \E l \in logs' : l.event = chain[n].event
      BY <1>1, Recorded
  <2> QED
      BY <1>1, <2>2, <2>3 DEF Names
<1>5. Covers(after)'
    BY <1>2, <1>3, <1>4 DEF Covers
<1>7. Known(sent) => Known(after)'
  <2> SUFFICES ASSUME Known(sent), NEW o \in Order, rows'[o] # None, o \notin survivors'
               PROVE  Touched(after["order"], o)'
      BY DEF Known
  <2>1. StatementOK(s)
    <3>1. chain[n].event \in Event
        BY BlocksTyped DEF Grounded
    <3> QED
        BY <1>1, <3>1 DEF StatementOK, Statement, Due
  <2>2. rows[o] # None \/ (s.name = "order" /\ o = s.event.order)
      BY <1>1, <2>1, RowsAdded
  <2>3. CASE s.name = "order" /\ o = s.event.order
    <3>1. n \in after["order"]
        BY <1>1, <2>3
    <3> QED
        BY <1>1, <1>3, <2>3, <3>1 DEF Touched
  <2>4. CASE rows[o] # None /\ ~(s.name = "order" /\ o = s.event.order)
    <3>1. Touched(sent["order"], o)
        BY <2>4 DEF Known
    <3>2. sent["order"] \subseteq after["order"]
        BY <1>1 DEF Names
    <3> QED
        BY <1>3, <3>1, <3>2 DEF Touched
  <2> QED
      BY <2>2, <2>3, <2>4
<1>6. Matches(sent) => Matches(after)'
    BY <1>2, <1>3, <1>7 DEF Matches
<1> QED
    BY <1>5, <1>6

-----------------------------------------------------------------------------
(* What stays when the chain moves above block k, or not at all.            *)

\* A block below the fork stays, and so do the statements of it.
LEMMA BlockStays ==
  ASSUME NEW k, Grows(k) \/ (chain' = chain /\ k \in Nat), NEW n \in 1..k, NEW nm
  PROVE  /\ chain'[n] = chain[n] /\ Statement(nm, n)' = Statement(nm, n)
         /\ Due(nm, n)' <=> Due(nm, n)
<1>1. chain'[n] = chain[n]
    BY DEF Grows
<1> QED
    BY <1>1 DEF Statement, Due

\* So what was sent of the blocks below a fork stays sent.
LEMMA SentStays ==
  ASSUME NEW k, Grows(k) \/ (chain' = chain /\ k \in Nat), NEW m \in Nat, m <= k, NEW pending
  PROVE  Sent(m, pending)' = Sent(m, pending)
<1>1. k \in Nat /\ \A n \in 1..m : n \in 1..k
    BY DEF Grows
<1>2. \A nm \in Names : \A n \in 1..m :
        Statement(nm, n)' = Statement(nm, n) /\ (Due(nm, n)' <=> Due(nm, n))
    BY <1>1, BlockStays
<1>3. \A nm \in Names : {n \in 1..m : Due(nm, n)' /\ Statement(nm, n)' \notin pending}
                         = {n \in 1..m : Due(nm, n) /\ Statement(nm, n) \notin pending}
    BY <1>2
<1>4. Sent(m, pending)' = [nm \in Names |-> {n \in 1..m : Due(nm, n)' /\ Statement(nm, n)' \notin pending}]
    BY DEF Sent
<1> QED
    BY <1>3, <1>4 DEF Sent

\* And what is due of them stays due.
LEMMA DueStays ==
  ASSUME NEW k, Grows(k) \/ (chain' = chain /\ k \in Nat), NEW from \in Nat, NEW to \in Nat, 1 <= from, to <= k
  PROVE  AllDue(from, to)' = AllDue(from, to)
<1>1. k \in Nat /\ \A n \in from..to : n \in 1..k
    BY DEF Grows
<1>2. \A nm \in Names : \A n \in from..to :
        Statement(nm, n)' = Statement(nm, n) /\ (Due(nm, n)' <=> Due(nm, n))
    BY <1>1, BlockStays
<1>3. \A s : s \in AllDue(from, to) <=>
           s = Last(to) \/ \E nm \in Names : \E n \in from..to : Due(nm, n) /\ s = Statement(nm, n)
    BY DueStatements
<1>4. \A s : s \in AllDue(from, to)' <=>
           s = Last(to) \/ \E nm \in Names : \E n \in from..to : Due(nm, n)' /\ s = Statement(nm, n)'
  <2>1. \A nm \in Names : \A n : Statement(nm, n)'.name = nm /\ Statement(nm, n)'.block = n
      BY DEF Statement
  <2> QED
      BY <2>1 DEF AllDue, Last
<1> QED
    BY <1>2, <1>3, <1>4

\* And the tables are as right about them as they were.
LEMMA TablesStay ==
  ASSUME NEW k, Grows(k) \/ (chain' = chain /\ k \in Nat), NEW sent, \A nm \in Names : sent[nm] \subseteq 1..k,
         rows' = rows, fills' = fills, logs' = logs, survivors' = survivors
  PROVE  (Covers(sent)' <=> Covers(sent)) /\ (Matches(sent)' <=> Matches(sent))
<1>1. \A n \in 1..k : chain'[n] = chain[n]
    BY DEF Grows
<1>2. \A nm \in Names : \A o : Touched(sent[nm], o)' <=> Touched(sent[nm], o)
    BY <1>1 DEF Touched
<1>3. \A o : LeftBy(sent["take"], o)' = LeftBy(sent["take"], o)
  <2> TAKE o
  <2>1. \A n \in sent["take"] : chain'[n] = chain[n]
      BY <1>1 DEF Names
  <2>2. FillsOf(sent["take"], o)' = FillsOf(sent["take"], o)
      BY <2>1 DEF FillsOf
  <2>3. FillsOf(sent["take"], o) \subseteq sent["take"]
      BY DEF FillsOf
  <2>4. {chain'[n].event.id : n \in FillsOf(sent["take"], o)} = {chain[n].event.id : n \in FillsOf(sent["take"], o)}
      BY <2>1, <2>3
  <2> QED
      BY <2>2, <2>4 DEF LeftBy
<1>4. \A o : (RowCovers(sent, o)' <=> RowCovers(sent, o)) /\ (RowMatches(sent, o)' <=> RowMatches(sent, o))
    BY <1>2, <1>3 DEF RowCovers, RowMatches, Live, Names
<1>5. /\ \A n \in sent["fill"] : chain'[n] = chain[n]
      /\ \A n \in sent["log"] : chain'[n] = chain[n]
    BY <1>1 DEF Names
<1>6. \A o : Touched(sent["order"], o)' <=> Touched(sent["order"], o)
    BY <1>2 DEF Names
<1>7. Covers(sent)' <=> Covers(sent)
    BY <1>4, <1>5, <1>6 DEF Covers
<1>8. Matches(sent)' <=> Matches(sent)
    BY <1>4, <1>6 DEF Matches, Known
<1> QED
    BY <1>7, <1>8

\* What the invariant says of the checkpoint.
LEMMA BaseFacts ==
  ASSUME IndexerInvariant
  PROVE  /\ Base \in 0..Height /\ Height \in Nat /\ Height <= MaxHeight /\ MaxHeight \in Nat
         /\ Grounded
         /\ checkpoint # None => /\ checkpoint.block = Base /\ checkpoint.block \in 1..Height
                                 /\ checkpoint.hash \in 0..fork
<1>1. Height \in Nat /\ Height <= MaxHeight /\ MaxHeight \in Nat
    BY LenProperties, ChainAssumption DEF IndexerInvariant, ChainOK, Height
<1>2. checkpoint # None => /\ checkpoint.block = Base /\ checkpoint.block \in 1..Height
                           /\ checkpoint.hash \in 0..fork
    BY DEF IndexerInvariant, TablesOK, Base
<1>3. Base \in 0..Height
    BY <1>1, <1>2 DEF Base
<1> QED
    BY <1>1, <1>2, <1>3 DEF IndexerInvariant, TablesOK, Grounded

\* When the chain moves, a checkpoint that is on it was so before.
LEMMA StandsOrFalls ==
  ASSUME IndexerInvariant, NEW k, Grows(k), checkpoint' = checkpoint
  PROVE  /\ Base' = Base
         /\ Stands' => Stands /\ Base <= k
         /\ Stands /\ Base <= k => Stands'
<1>1. /\ Base \in 0..Height /\ Height \in Nat
      /\ checkpoint # None => /\ checkpoint.block = Base /\ checkpoint.block \in 1..Height
                              /\ checkpoint.hash \in 0..fork
    BY BaseFacts
<1>2. CASE checkpoint = None
    BY <1>2 DEF Stands, Base, Grows
<1>3. CASE checkpoint # None
  <2>1. PICK n \in Nat, hash \in 0..fork : n = checkpoint.block /\ hash = checkpoint.hash /\ n = Base /\ n <= Height
      BY <1>1, <1>3
  <2>2. Stands <=> IsCanonical(n, hash)
      BY <1>3, <2>1 DEF Stands
  <2>3. Stands' <=> IsCanonical(n, hash)'
      BY <1>3, <2>1 DEF Stands
  <2>4. IsCanonical(n, hash)' => IsCanonical(n, hash) /\ n <= k
      BY <2>1, HashesStay DEF IndexerInvariant
  <2>5. n <= k /\ IsCanonical(n, hash) => IsCanonical(n, hash)'
      BY HashesKeep
  <2> QED
      BY <2>1, <2>2, <2>3, <2>4, <2>5 DEF Base
<1> QED
    BY <1>2, <1>3

\* A commit goes on when the chain moves, whether or not its blocks stay.
LEMMA CommitStays ==
  ASSUME IndexerInvariant, NEW k, Grows(k), ChainOK', IndexStill(k),
         NEW to \in 1..Height, Committing(to)
  PROVE  Committing(to)'
<1>1. /\ cycle' = cycle /\ rows' = rows /\ fills' = fills /\ logs' = logs /\ checkpoint' = checkpoint /\ cut' = cut
      /\ survivors' = survivors /\ (Whole' => Whole)
    BY DEF IndexStill, tables, Whole
<1>2. PICK base \in Nat : base = Base /\ base <= Height /\ Height \in Nat
    BY BaseFacts
<1>3. Base' = base /\ (Stands' => Stands /\ base <= k) /\ (Stands /\ base <= k => Stands')
    BY <1>1, <1>2, StandsOrFalls
<1>4. PICK todo, hash : todo = cycle.todo /\ hash = cycle.hash
    OBVIOUS
<1>5. /\ Last(to) \in todo /\ hash \in 0..fork
      /\ \A s \in todo : StatementOK(s) /\ (s.name = "checkpoint" => s = Last(to))
    BY <1>4 DEF Committing, Pending
<1>6. hash \in 0..fork' /\ Height \in Nat /\ Height' \in Nat /\ Height <= Height' /\ k \in Nat /\ k <= Height
    BY <1>2, <1>5, LenProperties, ChainAssumption DEF Grows, IndexerInvariant, ChainOK, Height
<1>7. \A s \in todo : StatementOK(s)'
    BY <1>5, <1>6 DEF StatementOK
<1>8. Whole' /\ Stands' => \A s \in todo : s.name = "order" => ~Touched(AtBase["order"], s.event.order)'
  <2> SUFFICES ASSUME Whole', Stands', NEW s \in todo, s.name = "order"
               PROVE  ~Touched(AtBase["order"], s.event.order)'
      OBVIOUS
  <2>1. Stands /\ base <= k
      BY <1>3
  <2>2. PICK S : S = Sent(base, {})["order"]
      OBVIOUS
  <2>3. AtBase["order"] = S /\ AtBase'["order"] = S
      BY <1>2, <1>3, <2>1, <2>2, SentStays DEF AtBase
  <2>4. ~Touched(S, s.event.order)
      BY <1>1, <1>4, <2>1, <2>3 DEF Committing
  <2>5. \A n \in S : n \in 1..k
      BY <1>6, <2>1, <2>2, SentTyped DEF Names
  <2>6. \A n \in S : chain'[n] = chain[n]
      BY <2>5 DEF Grows
  <2> QED
      BY <2>3, <2>4, <2>6 DEF Touched
<1>9. Whole' /\ IsCanonical(to, hash)' => Current(to)'
  <2> SUFFICES ASSUME Whole', IsCanonical(to, hash)' PROVE Current(to)'
      OBVIOUS
  <2>1. IsCanonical(to, hash) /\ to <= k
      BY <1>5, <1>6, HashesStay DEF IndexerInvariant
  <2>2. Current(to)
      BY <1>1, <1>4, <2>1 DEF Committing
  <2>3. Stands /\ base < to
      BY <1>2, <2>2 DEF Current
  <2>4. Stands' /\ Base' < to
      BY <1>3, <1>6, <2>1, <2>3
  <2>5. AllDue(base + 1, to)' = AllDue(base + 1, to)
      BY <1>2, <2>1, DueStays
  <2>6. PICK sent : sent = Sent(to, todo)
      OBVIOUS
  <2>7. Sent(to, todo)' = sent
      BY <2>1, <2>6, SentStays
  <2>8. \A nm \in Names : sent[nm] \subseteq 1..k
      BY <1>6, <2>1, <2>6, SentTyped
  <2>9. (Covers(sent)' <=> Covers(sent)) /\ (Matches(sent)' <=> Matches(sent))
      BY <1>1, <2>8, TablesStay
  <2>10. Covers(sent) /\ (~cut => Matches(sent))
      BY <1>4, <2>2, <2>6 DEF Current
  <2>11. Covers(Sent(to, cycle.todo))' /\ (~cut' => Matches(Sent(to, cycle.todo))')
    <3>1. Sent(to, cycle.todo)' = sent
        BY <1>1, <1>4, <2>7
    <3> QED
        BY <1>1, <2>9, <2>10, <3>1 DEF Covers, Matches, Known, RowCovers, RowMatches
  <2>12. /\ cycle'.todo \subseteq AllDue(Base + 1, to)'
         /\ \A s \in AllDue(Base + 1, to)' \ cycle'.todo, t \in cycle'.todo : Before(s, t)
    <3>1. AllDue(Base + 1, to)' = AllDue(Base + 1, to)
        BY <1>2, <1>3, <2>5
    <3> QED
        BY <1>1, <2>2, <3>1 DEF Current
  <2> QED
      BY <2>4, <2>11, <2>12 DEF Current, Before
<1> QED
    BY <1>1, <1>4, <1>5, <1>6, <1>7, <1>8, <1>9 DEF Committing, Pending, Last

\* The tables of an invariant, when only the chain moved.
LEMMA AtBaseStays ==
  ASSUME IndexerInvariant, NEW k, Grows(k), IndexStill(k), Stands'
  PROVE  (Covers(AtBase)' <=> Covers(AtBase)) /\ (Matches(AtBase)' <=> Matches(AtBase)) /\ Stands
<1>1. rows' = rows /\ fills' = fills /\ logs' = logs /\ checkpoint' = checkpoint /\ survivors' = survivors
    BY DEF IndexStill, tables
<1>2. PICK base \in Nat : base = Base /\ base <= Height
    BY BaseFacts
<1>3. Base' = base /\ Stands /\ base <= k /\ k \in Nat
    BY <1>1, <1>2, StandsOrFalls DEF Grows
<1>4. PICK sent : sent = Sent(base, {})
    OBVIOUS
<1>5. AtBase = sent /\ AtBase' = sent
    BY <1>2, <1>3, <1>4, SentStays DEF AtBase
<1>6. \A nm \in Names : sent[nm] \subseteq 1..k
    BY <1>3, <1>4, SentTyped
<1>7. (Covers(sent)' <=> Covers(sent)) /\ (Matches(sent)' <=> Matches(sent))
    BY <1>1, <1>6, TablesStay
<1> QED
    BY <1>3, <1>5, <1>7 DEF Covers, Matches, Known, RowCovers, RowMatches

\* The chain grows or forks.
LEMMA ChainKeepsIndex ==
  ASSUME IndexerInvariant, NEW k, Grows(k), ChainOK', Legal(chain)', IndexStill(k)
  PROVE  IndexerInvariant'
<1>1. /\ cycle' = cycle /\ rows' = rows /\ fills' = fills /\ logs' = logs /\ checkpoint' = checkpoint /\ cut' = cut
      /\ torn' = torn /\ (Whole' => Whole /\ BlocksRead <= k)
    BY DEF IndexStill, tables, Whole
<1>2. PICK base \in Nat : base = Base /\ base <= Height /\ Height \in Nat
    BY BaseFacts
<1>3. Base' = base /\ (Stands' => Stands /\ base <= k) /\ (Stands /\ base <= k => Stands')
    BY <1>1, <1>2, StandsOrFalls
<1>4. Height' \in Nat /\ Height <= Height' /\ k \in Nat /\ k <= Height /\ fork <= fork' /\ fork \in Nat /\ fork' \in Nat
    BY <1>2, LenProperties, ChainAssumption DEF Grows, IndexerInvariant, ChainOK, Height
<1>5. TablesOK'
  <2>1. TablesOK
      BY DEF IndexerInvariant
  <2>2. checkpoint \in [block : 1..Height', hash : 0..fork'] \union {None}
    <3>1. 1..Height \subseteq 1..Height' /\ 0..fork \subseteq 0..fork'
        BY <1>2, <1>4
    <3> QED
        BY <2>1, <3>1 DEF TablesOK
  <2> QED
      BY <1>1, <2>1, <2>2 DEF TablesOK
<1>6. CycleOK'
  <2>1. CycleOK
      BY DEF IndexerInvariant
  <2>2. CASE cycle.at = "idle"
      BY <1>1, <2>2 DEF CycleOK
  <2>3. CASE cycle.at = "head"
    <3>1. BlocksRead = base
        BY <1>2, <2>3 DEF BlocksRead, Base
    <3>2. Whole' => Stands'
        BY <1>1, <1>3, <2>1, <2>3, <3>1 DEF CycleOK
    <3> QED
        BY <1>1, <2>3, <3>2 DEF CycleOK
  <2>4. CASE cycle.at = "logs"
    <3>1. cycle.from = base + 1 /\ cycle.to \in cycle.from..Height
        BY <1>2, <2>1, <2>4 DEF CycleOK
    <3>2. BlocksRead = base
        BY <1>2, <2>4, <3>1 DEF BlocksRead
    <3>3. Whole' => Stands'
        BY <1>1, <1>3, <2>1, <2>4, <3>2 DEF CycleOK
    <3>4. cycle.to \in cycle.from..Height'
        BY <1>2, <1>4, <3>1
    <3> QED
        BY <1>1, <1>3, <2>4, <3>1, <3>3, <3>4 DEF CycleOK
  <2>5. CASE cycle.at = "hash"
    <3>1. PICK to \in (base + 1)..Height : to = cycle.to /\ Pending(to) /\ (Whole => cycle.todo = AllDue(base + 1, to))
        BY <1>2, <2>1, <2>5 DEF CycleOK
    <3>2. Whole' => to <= k
        BY <1>1, <2>5, <3>1 DEF BlocksRead
    <3>3. Whole' => Stands'
        BY <1>1, <1>2, <1>3, <1>4, <2>1, <2>5, <3>2 DEF CycleOK
    <3>4. Whole' => AllDue(base + 1, to)' = AllDue(base + 1, to)
        BY <1>2, <3>1, <3>2, DueStays
    <3>7. Pending(cycle.to)'
      <4>1. 1..Height \subseteq 1..Height'
          BY <1>2, <1>4
      <4> QED
          BY <1>1, <3>1, <4>1 DEF Pending, StatementOK, Last
    <3>5. to \in (base + 1)..Height'
        BY <1>2, <1>4, <3>1
    <3>6. cycle'.to \in (Base' + 1)..Height' /\ (Whole' => cycle'.todo = AllDue(Base + 1, cycle.to)')
      <4>1. AllDue(Base + 1, cycle.to)' = AllDue(base + 1, to)'
          BY <1>1, <1>3, <3>1 DEF AllDue, Last
      <4> QED
          BY <1>1, <1>3, <3>1, <3>4, <3>5, <4>1
    <3> QED
        BY <1>1, <2>5, <3>3, <3>6, <3>7 DEF CycleOK
  <2>6. CASE cycle.at = "commit"
    <3>1. PICK to \in 1..Height : Committing(to)
        BY <2>1, <2>6 DEF CycleOK
    <3>2. Committing(to)' /\ to \in 1..Height'
        BY <1>2, <1>4, <3>1, CommitStays
    <3> QED
        BY <1>1, <2>1, <2>6, <3>2 DEF CycleOK
  <2> QED
      BY <2>1, <2>2, <2>3, <2>4, <2>5, <2>6 DEF CycleOK
<1>7. Stands' /\ ~torn' => Covers(AtBase)'
    BY <1>1, AtBaseStays DEF IndexerInvariant
<1>8. Stands' /\ ~torn' /\ ~cut' /\ (cycle'.at = "commit" => ~cycle'.begun) => Matches(AtBase)'
    BY <1>1, AtBaseStays DEF IndexerInvariant
<1> QED
    BY <1>5, <1>6, <1>7, <1>8 DEF IndexerInvariant

-----------------------------------------------------------------------------
(* The indexer's own steps.                                                 *)

\* What is said of the chain and the tables when neither moves.
LEMMA NothingMoved ==
  ASSUME IndexerInvariant, chain' = chain, fork' = fork,
         rows' = rows, fills' = fills, logs' = logs, checkpoint' = checkpoint, survivors' = survivors
  PROVE  /\ ChainOK' /\ Legal(chain)' /\ TablesOK'
         /\ Base' = Base /\ Height' = Height /\ (Stands' <=> Stands) /\ AtBase' = AtBase
         /\ \A from, to : AllDue(from, to)' = AllDue(from, to)
         /\ (Covers(AtBase)' <=> Covers(AtBase)) /\ (Matches(AtBase)' <=> Matches(AtBase))
<1>1. ChainOK' /\ Legal(chain)' /\ TablesOK'
  <2>1. Legal(chain)'
      BY DEF IndexerInvariant
  <2> QED
      BY <2>1 DEF IndexerInvariant, ChainOK, TablesOK, Height
<1>2. Base' = Base /\ Height' = Height /\ (Stands' <=> Stands)
    BY DEF Base, Height, Stands, IsCanonical, Hash
<1>3. AtBase' = AtBase
    BY <1>2 DEF AtBase, Sent, Statement, Due
<1>4. \A from, to : AllDue(from, to)' = AllDue(from, to)
    BY DEF AllDue, Statement, Due, Last
<1>5. (Covers(AtBase)' <=> Covers(AtBase)) /\ (Matches(AtBase)' <=> Matches(AtBase))
    BY <1>3 DEF Covers, Matches, Known, RowCovers, RowMatches, Live, LeftBy, FillsOf, Touched
<1> QED
    BY <1>1, <1>2, <1>3, <1>4, <1>5

\* The checkpoint is checked; one that is gone is rewound.
LEMMA CheckKeepsIndex ==
  ASSUME IndexerInvariant, CheckCheckpoint, UNCHANGED chainVars
  PROVE  IndexerInvariant'
<1>1. cycle' = [at |-> "head"] /\ chain' = chain /\ fork' = fork
    BY DEF CheckCheckpoint, chainVars
<1>2. CASE checkpoint # None /\ ~IsCanonical(checkpoint.block, checkpoint.hash)
  <2>1. checkpoint' = None /\ RewindFrom(checkpoint.block)
      BY <1>2 DEF CheckCheckpoint, RewindFrom
  <2>2. ChainOK' /\ Legal(chain)'
    <3>1. Legal(chain)'
        BY <1>1 DEF IndexerInvariant
    <3> QED
        BY <1>1, <3>1 DEF IndexerInvariant, ChainOK, Height
  <2>3. TablesOK'
    <3>1. rows' \in [Order -> Row \union {None}]
      <4>1. \A o \in Order : rows[o] \in Row \union {None}
          BY DEF IndexerInvariant, TablesOK
      <4> QED
          BY <2>1, <4>1 DEF RewindFrom
    <3>2. fills' \subseteq [id : DOMAIN Amount, block : 1..MaxHeight]
        BY <2>1 DEF IndexerInvariant, TablesOK, RewindFrom
    <3> QED
        BY <2>1, <3>1, <3>2 DEF TablesOK
  <2>4. Base' = 0 /\ Stands'
      BY <2>1 DEF Base, Stands
  <2>5. \A nm \in Names : AtBase'[nm] = {}
      BY <2>4 DEF AtBase, Sent
  <2>6. Covers(AtBase)' /\ Matches(AtBase)'
    <3>1. \A o : ~Touched(AtBase["order"], o)'
        BY <2>5 DEF Touched, Names
    <3>2. Known(AtBase)'
        BY <1>2 DEF CheckCheckpoint, Known
    <3> QED
        BY <2>5, <3>1, <3>2 DEF Covers, Matches, Names
  <2>7. CycleOK'
      BY <1>1, <2>4 DEF CycleOK
  <2> QED
      BY <2>2, <2>3, <2>6, <2>7 DEF IndexerInvariant
<1>3. CASE ~(checkpoint # None /\ ~IsCanonical(checkpoint.block, checkpoint.hash))
  <2>1. Stands /\ UNCHANGED <<rows, fills, logs, checkpoint, torn, cut, survivors>> /\ cycle.at = "idle"
      BY <1>3 DEF Stands, CheckCheckpoint, tables
  <2>2. Stands' /\ CycleOK'
      BY <1>1, <2>1, NothingMoved DEF CycleOK
  <2> QED
      BY <1>1, <2>1, <2>2, NothingMoved DEF IndexerInvariant
<1> QED
    BY <1>2, <1>3

\* The head is read and the next range chosen.
LEMMA HeadKeepsIndex ==
  ASSUME IndexerInvariant, ReadHead, UNCHANGED chainVars
  PROVE  IndexerInvariant'
<1>1. /\ chain' = chain /\ fork' = fork /\ UNCHANGED <<rows, fills, logs, checkpoint, torn, cut, survivors>> /\ cycle.at = "head"
      /\ (Whole => Stands) /\ (Whole' <=> Whole)
    BY DEF ReadHead, tables, chainVars, IndexerInvariant, CycleOK, Whole
<1>2. PICK base \in Nat : base = Base /\ base <= Height /\ Height \in Nat
    BY BaseFacts
<1> DEFINE confirmed == Height - Confirmations
           last == base + 1 + ChunkSize - 1
           to == Min({last, confirmed})
<1>3. cycle' = Idle \/ (base + 1 <= confirmed /\ cycle' = [at |-> "logs", from |-> base + 1, to |-> to])
  <2>1. (IF checkpoint = None THEN StartBlock ELSE checkpoint.block + 1) = base + 1
      BY <1>2 DEF Base, StartBlock
  <2>2. cycle' = IF Height < Confirmations \/ base + 1 > confirmed THEN Idle
                  ELSE [at |-> "logs", from |-> base + 1, to |-> to]
      BY <2>1, Zenon DEF ReadHead
  <2>3. confirmed \in Int
      BY <1>2, ChainAssumption
  <2> HIDE DEF confirmed, to
  <2> QED
      BY <2>2, <2>3, <1>2
<1>4. base + 1 <= confirmed => to \in (base + 1)..Height
  <2> SUFFICES ASSUME base + 1 <= confirmed PROVE to \in (base + 1)..Height
      OBVIOUS
  <2>1. confirmed \in Int /\ confirmed <= Height /\ last \in Int /\ base + 1 <= last
      BY <1>2, ChainAssumption, IndexerAssumption
  <2> HIDE DEF confirmed, last
  <2>2. to = last \/ to = confirmed
    <3>1. PICK m : m = IF last <= confirmed THEN last ELSE confirmed
        OBVIOUS
    <3>2. m \in {last, confirmed} /\ \A x \in {last, confirmed} : m <= x
        BY <2>1, <3>1
    <3>3. \A y \in {last, confirmed} : (\A x \in {last, confirmed} : y <= x) => y = m
        BY <2>1, <3>1
    <3>4. Min({last, confirmed}) = m
        BY <3>2, <3>3 DEF Min
    <3> QED
        BY <3>1, <3>4
  <2>3. to <= confirmed
    <3>1. PICK m : m = IF last <= confirmed THEN last ELSE confirmed
        OBVIOUS
    <3>2. m \in {last, confirmed} /\ \A x \in {last, confirmed} : m <= x
        BY <2>1, <3>1
    <3>3. \A y \in {last, confirmed} : (\A x \in {last, confirmed} : y <= x) => y = m
        BY <2>1, <3>1
    <3>4. Min({last, confirmed}) = m
        BY <3>2, <3>3 DEF Min
    <3> QED
        BY <2>1, <3>1, <3>4
  <2> HIDE DEF to
  <2> QED
      BY <1>2, <2>1, <2>2, <2>3
<1>5. CycleOK'
  <2>1. CASE cycle' = Idle
      BY <2>1 DEF CycleOK, Idle
  <2>2. CASE base + 1 <= confirmed /\ cycle' = [at |-> "logs", from |-> base + 1, to |-> to]
    <3>1. to \in (base + 1)..Height
        BY <1>4, <2>2
    <3> HIDE DEF to, confirmed
    <3>2. Base' = base /\ Height' = Height /\ (Whole' => Stands')
        BY <1>1, <1>2, NothingMoved
    <3> QED
        BY <2>2, <3>1, <3>2 DEF CycleOK
  <2> QED
      BY <1>3, <2>1, <2>2
<1> HIDE DEF to, confirmed
<1>6. cycle'.at # "commit"
    BY <1>3 DEF Idle
<1> QED
    BY <1>1, <1>5, <1>6, NothingMoved DEF IndexerInvariant

\* The projection of a range that goes on from the checkpoint is all that is due: a swap
\* is of an order that is in the batch or in the table.
LEMMA BatchIsDue ==
  ASSUME IndexerInvariant, Stands, ~torn, NEW base \in Nat, base = Base, NEW to \in (base + 1)..Height
  PROVE  Statements(LogsOf(base + 1, to), to) = AllDue(base + 1, to)
<1> DEFINE batch == LogsOf(base + 1, to)
           range == (base + 1)..to
           Log(n) == [event |-> chain[n].event, block |-> n]
           shipped == Chosen(batch, "shipped")
           known(o) == rows[o] # None \/ \E l \in shipped : l.event.order = o
           swapped == {l \in Chosen(batch, "swapped") : known(l.event.order)}
           As(nm, ls) == {[name |-> nm, block |-> l.block, event |-> l.event] : l \in ls}
           Of(nm) == {Statement(nm, n) : n \in {m \in range : Due(nm, m)}}
<1>1. Statements(batch, to) = As("order", shipped) \union As("fill", swapped) \union As("take", swapped)
          \union As("close", Chosen(batch, "docked")) \union As("log", batch) \union {Last(to)}
    BY DEF Statements, Last
<1>2. /\ Grounded /\ Height \in Nat /\ range \subseteq 1..Height
    BY BaseFacts
<1>3. /\ \A n \in range : chain[n].event.kind # "none" => Log(n) \in batch
      /\ \A l \in batch : \E n \in range : chain[n].event.kind # "none" /\ l = Log(n)
    BY DEF LogsOf
<1>4. \A n : Log(n).event = chain[n].event /\ Log(n).block = n
    OBVIOUS
<1> HIDE DEF batch, Log
<1>5. ASSUME NEW kind \in {"shipped", "swapped", "docked"}
      PROVE  /\ \A n \in range : chain[n].event.kind = kind /\ chain[n].event.order \in Order => Log(n) \in Chosen(batch, kind)
             /\ \A l \in Chosen(batch, kind) : \E n \in range :
                   chain[n].event.kind = kind /\ chain[n].event.order \in Order /\ l = Log(n)
  <2>1. kind # "none"
      OBVIOUS
  <2> QED
      BY <1>3, <1>4, <2>1 DEF Chosen
<1>6. /\ \A n \in range : Due("take", n) => Log(n) \in swapped
      /\ \A l \in swapped : \E n \in range : Due("take", n) /\ l = Log(n)
  <2>1. ASSUME NEW n \in range, Due("take", n) PROVE known(chain[n].event.order)
    <3>1. PICK o \in Order : o = chain[n].event.order /\ chain[n].event.kind = "swapped"
        BY <2>1 DEF Due, KindFor
    <3>2. DOMAIN chain = 1..Height /\ None \notin Order
        BY LenProperties, IndexerAssumption DEF IndexerInvariant, ChainOK, Height
    <3>3. n \in Where(chain, "swapped", o)
        BY <1>2, <3>1, <3>2 DEF Where
    <3>4. PICK j \in Where(chain, "shipped", o) : j < n /\ j \in 1..Height
        BY <1>2, <3>2, <3>3, OrdersLive DEF Grounded
    <3>5. chain[j].event.kind = "shipped" /\ chain[j].event.order = o
        BY <3>2, <3>4 DEF Where
    <3>6. CASE j \in range
        BY <1>4, <1>5, <3>1, <3>5, <3>6
    <3>7. CASE j \notin range
      <4>1. j \in 1..base
          BY <1>2, <3>4, <3>7
      <4>2. Due("order", j)
          BY <3>5 DEF Due, KindFor
      <4>3. j \in AtBase["order"]
          BY <4>1, <4>2, SentTyped DEF AtBase, Names
      <4>4. Touched(AtBase["order"], o)
          BY <3>5, <4>3 DEF Touched
      <4>5. rows[o] # None
          BY <4>4 DEF IndexerInvariant, Covers, RowCovers
      <4> QED
          BY <3>1, <4>5
    <3> QED
        BY <3>6, <3>7
  <2>2. \A n \in range : Due("take", n) <=> chain[n].event.kind = "swapped" /\ chain[n].event.order \in Order
      BY DEF Due, KindFor
  <2> HIDE DEF known
  <2> QED
      BY <1>4, <1>5, <2>1, <2>2
<1>7. /\ \A n \in range : Due("order", n) <=> chain[n].event.kind = "shipped" /\ chain[n].event.order \in Order
      /\ \A n \in range : Due("close", n) <=> chain[n].event.kind = "docked" /\ chain[n].event.order \in Order
      /\ \A n \in range : Due("fill", n) <=> Due("take", n)
      /\ \A n \in range : Due("log", n) <=> chain[n].event.kind # "none"
    BY DEF Due, KindFor
<1> HIDE DEF range, swapped
<1>8. ASSUME NEW nm, NEW ls, \A n \in range : Due(nm, n) => Log(n) \in ls,
             \A l \in ls : \E n \in range : Due(nm, n) /\ l = Log(n)
      PROVE  As(nm, ls) = Of(nm)
  <2>1. \A n : Statement(nm, n) = [name |-> nm, block |-> Log(n).block, event |-> Log(n).event]
      BY <1>4 DEF Statement
  <2> QED
      BY <1>8, <2>1
<1> HIDE DEF As, Of, shipped
<1>9. As("order", shipped) = Of("order")
  <2>1. /\ \A n \in range : Due("order", n) => Log(n) \in shipped
        /\ \A l \in shipped : \E n \in range : Due("order", n) /\ l = Log(n)
      BY <1>5, <1>7 DEF shipped
  <2> QED
      BY <1>8, <2>1
<1>10. As("fill", swapped) = Of("fill") /\ As("take", swapped) = Of("take")
  <2>1. /\ \A n \in range : Due("fill", n) => Log(n) \in swapped
        /\ \A l \in swapped : \E n \in range : Due("fill", n) /\ l = Log(n)
      BY <1>6, <1>7
  <2> QED
      BY <1>6, <1>8, <2>1
<1>11. As("close", Chosen(batch, "docked")) = Of("close")
  <2>1. PICK docked : docked = Chosen(batch, "docked")
      OBVIOUS
  <2>2. /\ \A n \in range : Due("close", n) => Log(n) \in docked
        /\ \A l \in docked : \E n \in range : Due("close", n) /\ l = Log(n)
      BY <1>5, <1>7, <2>1
  <2> QED
      BY <1>8, <2>1, <2>2
<1>12. As("log", batch) = Of("log")
  <2>1. /\ \A n \in range : Due("log", n) => Log(n) \in batch
        /\ \A l \in batch : \E n \in range : Due("log", n) /\ l = Log(n)
      BY <1>3, <1>7
  <2>2. PICK all : all = batch
      OBVIOUS
  <2> QED
      BY <1>8, <2>1, <2>2
<1>13. Statements(batch, to) = Of("order") \union Of("fill") \union Of("take") \union Of("close") \union Of("log") \union {Last(to)}
    BY <1>1, <1>9, <1>10, <1>11, <1>12
<1>14. ASSUME NEW s PROVE s \in Statements(batch, to) <=> s \in AllDue(base + 1, to)
  <2>1. \A nm : s \in Of(nm) <=> \E n \in range : Due(nm, n) /\ s = Statement(nm, n)
      BY DEF Of
  <2>2. s \in AllDue(base + 1, to) <=> s = Last(to) \/ \E nm \in Names : s \in Of(nm)
      BY <2>1, DueStatements DEF range
  <2> QED
      BY <1>13, <2>2 DEF Names
<1> QED
    BY <1>14 DEF batch

\* Whatever the tables hold, what a range is projected to are statements.
LEMMA BatchIsTyped ==
  ASSUME IndexerInvariant, NEW base \in Nat, NEW to \in (base + 1)..Height
  PROVE  /\ Last(to) \in Statements(LogsOf(base + 1, to), to)
         /\ \A s \in Statements(LogsOf(base + 1, to), to) :
               StatementOK(s) /\ (s.name = "checkpoint" => s = Last(to))
<1>1. Height \in Nat /\ ChainOK /\ \A n \in (base + 1)..to : n \in 1..Height
    BY BaseFacts DEF IndexerInvariant
<1>2. PICK batch : batch = LogsOf(base + 1, to)
    OBVIOUS
<1>3. \A l \in batch : l.block \in 1..Height /\ l.event \in Event
    BY <1>1, <1>2, BlocksTyped DEF LogsOf
<1>4. Last(to) \in Statements(batch, to)
    BY DEF Statements, Last
<1>5. ASSUME NEW s \in Statements(batch, to), s # Last(to)
      PROVE  /\ s.name \in Names /\ \E l \in batch : s.block = l.block /\ s.event = l.event
             /\ s.name # "log" => s.event.order \in Order /\ s.event.kind = KindFor[s.name]
  <2> DEFINE As(nm, ls) == {[name |-> nm, block |-> l.block, event |-> l.event] : l \in ls}
  <2>1. PICK nm \in Names, ls \in SUBSET batch :
            /\ s \in As(nm, ls)
            /\ nm # "log" => \A l \in ls : l.event.order \in Order /\ l.event.kind = KindFor[nm]
    <3>1. s \in As("order", Chosen(batch, "shipped")) => \E ls \in SUBSET batch :
             s \in As("order", ls) /\ \A l \in ls : l.event.order \in Order /\ l.event.kind = KindFor["order"]
      <4>1. PICK ls \in SUBSET batch : ls = Chosen(batch, "shipped")
          BY DEF Chosen
      <4>2. \A l \in ls : l.event.order \in Order /\ l.event.kind = KindFor["order"]
          BY <4>1 DEF Chosen, KindFor
      <4> HIDE DEF As
      <4> QED
          BY <4>1, <4>2
    <3>2. s \in As("close", Chosen(batch, "docked")) => \E ls \in SUBSET batch :
             s \in As("close", ls) /\ \A l \in ls : l.event.order \in Order /\ l.event.kind = KindFor["close"]
      <4>1. PICK ls \in SUBSET batch : ls = Chosen(batch, "docked")
          BY DEF Chosen
      <4>2. \A l \in ls : l.event.order \in Order /\ l.event.kind = KindFor["close"]
          BY <4>1 DEF Chosen, KindFor
      <4> HIDE DEF As
      <4> QED
          BY <4>1, <4>2
    <3>3. PICK swapped \in SUBSET Chosen(batch, "swapped") :
             s \in As("order", Chosen(batch, "shipped")) \union As("fill", swapped) \union As("take", swapped)
                  \union As("close", Chosen(batch, "docked")) \union As("log", batch)
        BY <1>5 DEF Statements, Last
    <3>4. swapped \in SUBSET batch /\ \A l \in swapped : l.event.order \in Order /\ l.event.kind = "swapped"
        BY DEF Chosen
    <3> HIDE DEF As
    <3> QED
        BY <3>1, <3>2, <3>3, <3>4 DEF Names, KindFor
  <2>2. PICK l \in ls : s = [name |-> nm, block |-> l.block, event |-> l.event]
      BY <2>1
  <2> HIDE DEF As
  <2> QED
      BY <2>1, <2>2
<1>6. ASSUME NEW s \in Statements(batch, to)
      PROVE  StatementOK(s) /\ (s.name = "checkpoint" => s = Last(to))
  <2>1. CASE s = Last(to)
      BY <2>1 DEF StatementOK, Last
  <2>2. CASE s # Last(to)
    <3>1. s.name \in Names /\ s.name # "checkpoint"
        BY <1>5, <2>2 DEF Names
    <3> QED
        BY <1>3, <1>5, <2>2, <3>1 DEF StatementOK
  <2> QED
      BY <2>1, <2>2
<1> QED
    BY <1>2, <1>4, <1>6

\* The logs of the range are read and projected.
LEMMA LogsKeepIndex ==
  ASSUME IndexerInvariant, ReadLogs, UNCHANGED chainVars
  PROVE  IndexerInvariant'
<1>1. /\ chain' = chain /\ fork' = fork /\ UNCHANGED <<rows, fills, logs, checkpoint, torn, cut, survivors>>
      /\ cycle.at = "logs" /\ CycleOK /\ (Whole => Stands) /\ (Whole' <=> Whole)
    BY DEF ReadLogs, tables, chainVars, IndexerInvariant, CycleOK, Whole
<1>2. PICK base \in Nat : base = Base /\ base <= Height /\ Height \in Nat
    BY BaseFacts
<1>3. PICK to \in (base + 1)..Height : cycle.to = to /\ cycle.from = base + 1
    BY <1>1, <1>2 DEF CycleOK
<1>4. PICK todo : todo = Statements(LogsOf(base + 1, to), to)
    OBVIOUS
<1>5. cycle' = Idle \/ cycle' = [at |-> "hash", to |-> to, todo |-> todo]
    BY <1>3, <1>4 DEF ReadLogs
<1>6. /\ Last(to) \in todo
      /\ \A s \in todo : StatementOK(s) /\ (s.name = "checkpoint" => s = Last(to))
    BY <1>4, BatchIsTyped
<1>7. Whole => todo = AllDue(base + 1, to)
    BY <1>1, <1>2, <1>4, BatchIsDue DEF Whole
<1>8. CycleOK'
  <2>1. CASE cycle' = Idle
      BY <2>1 DEF CycleOK, Idle
  <2>2. CASE cycle' = [at |-> "hash", to |-> to, todo |-> todo]
    <3>1. Base' = base /\ Height' = Height /\ (Stands' <=> Stands)
        BY <1>1, <1>2, NothingMoved
    <3>2. AllDue(base + 1, to)' = AllDue(base + 1, to)
        BY <1>1, NothingMoved
    <3>3. AllDue(Base + 1, cycle.to)' = AllDue(base + 1, to)'
        BY <2>2, <3>1 DEF AllDue, Last
    <3>4. Pending(cycle.to)'
        BY <1>6, <2>2, <3>1 DEF Pending, StatementOK, Last
    <3> QED
        BY <1>1, <1>3, <1>7, <2>2, <3>1, <3>2, <3>3, <3>4 DEF CycleOK
  <2> QED
      BY <1>5, <2>1, <2>2
<1>9. cycle'.at # "commit"
    BY <1>5 DEF Idle
<1> QED
    BY <1>1, <1>8, <1>9, NothingMoved DEF IndexerInvariant

\* The hash of its last block is read.
LEMMA HashKeepsIndex ==
  ASSUME IndexerInvariant, ReadHash, UNCHANGED chainVars
  PROVE  IndexerInvariant'
<1>1. /\ chain' = chain /\ fork' = fork /\ UNCHANGED <<rows, fills, logs, checkpoint, torn, cut, survivors>>
      /\ cycle.at = "hash" /\ CycleOK /\ (Whole => Stands) /\ (Whole' <=> Whole)
    BY DEF ReadHash, tables, chainVars, IndexerInvariant, CycleOK, Whole
<1>2. PICK base \in Nat : base = Base /\ base <= Height /\ Height \in Nat
    BY BaseFacts
<1>3. PICK to \in (base + 1)..Height :
          cycle.to = to /\ Pending(to) /\ (Whole => cycle.todo = AllDue(base + 1, to))
    BY <1>1, <1>2 DEF CycleOK
<1>4. PICK todo : todo = cycle.todo
    OBVIOUS
<1>5. PICK hash : hash = Hash(to)
    OBVIOUS
<1>6. cycle' = [at |-> "commit", hash |-> hash, todo |-> todo, begun |-> FALSE]
    BY <1>3, <1>4, <1>5 DEF ReadHash
<1>7. Base' = base /\ Height' = Height /\ (Stands' <=> Stands) /\ AtBase' = AtBase
      /\ AllDue(base + 1, to)' = AllDue(base + 1, to)
    BY <1>1, <1>2, NothingMoved
<1>8. to \in 1..Height /\ base < to /\ to \in Nat
    BY <1>2
<1>9. Whole => \A s : s \in todo <=>
         s = Last(to) \/ \E nm \in Names : \E n \in (base + 1)..to : Due(nm, n) /\ s = Statement(nm, n)
    BY <1>3, <1>4, DueStatements
<1>10. hash \in 0..fork /\ fork \in Nat
  <2>1. ChainOK /\ fork \in Nat /\ MaxForks \in Nat
      BY ChainAssumption DEF IndexerInvariant, ChainOK
  <2> QED
      BY <1>5, <1>8, <2>1, BlocksTyped
<1>11. /\ Last(to) \in todo
       /\ \A s \in todo : StatementOK(s) /\ (s.name = "checkpoint" => s = Last(to))
    BY <1>3, <1>4 DEF Pending
<1>12. ASSUME Whole, NEW s \in todo, s.name = "order", Touched(AtBase["order"], s.event.order) PROVE FALSE
  <2>1. PICK nm \in Names, n \in (base + 1)..to : Due(nm, n) /\ s = Statement(nm, n)
      BY <1>9, <1>12 DEF Last
  <2>2. s.name = nm /\ s.event = chain[n].event /\ n \in 1..Height
      BY <1>2, <1>8, <2>1 DEF Statement
  <2>3. PICK o \in Order : o = chain[n].event.order /\ chain[n].event.kind = "shipped"
      BY <1>12, <2>1, <2>2 DEF Due, KindFor
  <2>4. PICK i \in AtBase["order"] : chain[i].event.order = o
      BY <1>12, <2>2, <2>3 DEF Touched
  <2>5. i \in 1..base /\ chain[i].event.kind = "shipped"
      BY <1>2, <2>4, SentTyped DEF AtBase, Names, Due, KindFor
  <2>6. DOMAIN chain = 1..Height /\ None \notin Order
      BY LenProperties, IndexerAssumption DEF IndexerInvariant, ChainOK, Height
  <2>7. n \in Where(chain, "shipped", o) /\ i \in Where(chain, "shipped", o)
      BY <1>2, <2>2, <2>3, <2>4, <2>5, <2>6 DEF Where
  <2>8. i = n
      BY <2>6, <2>7, OrdersLive DEF IndexerInvariant
  <2> QED
      BY <1>2, <2>5, <2>8
<1>13. PICK sent : sent = Sent(to, todo)
    OBVIOUS
<1>14. Whole => sent = AtBase
    BY <1>2, <1>3, <1>4, <1>8, <1>13, NoneIsSent DEF AtBase
<1>15. Whole => Covers(sent) /\ (~cut => Matches(sent))
    BY <1>1, <1>14 DEF IndexerInvariant, Whole
<1>16. ASSUME Whole PROVE Current(to)'
  <2>1. Sent(to, todo)' = sent
      BY <1>1, <1>8, <1>13, SentStays
  <2>2. Sent(to, cycle.todo)' = sent
      BY <1>6, <2>1
  <2>3. /\ rows' = rows /\ fills' = fills /\ logs' = logs /\ cut' = cut /\ survivors' = survivors
      BY <1>1
  <2>4. \A nm \in Names : sent[nm] \subseteq 1..to
      BY <1>13, SentTyped
  <2>5. (Covers(sent)' <=> Covers(sent)) /\ (Matches(sent)' <=> Matches(sent))
      BY <1>1, <1>8, <2>3, <2>4, TablesStay
  <2>6. Covers(Sent(to, cycle.todo))' /\ (~cut' => Matches(Sent(to, cycle.todo))')
      BY <1>15, <1>16, <2>2, <2>3, <2>5 DEF Covers, Matches, Known, RowCovers, RowMatches
  <2>7. AllDue(Base + 1, to)' = AllDue(base + 1, to)'
      BY <1>7
  <2>8. cycle'.todo = todo /\ todo = AllDue(base + 1, to)
      BY <1>3, <1>4, <1>6, <1>16
  <2> QED
      BY <1>1, <1>7, <1>8, <1>16, <2>6, <2>7, <2>8 DEF Current
<1>17. Committing(to)'
  <2>1. cycle'.todo = todo /\ cycle'.hash = hash
      BY <1>6
  <2>2. \A s \in todo : StatementOK(s)'
      BY <1>7, <1>11 DEF StatementOK
  <2>3. Whole => \A s \in todo : s.name = "order" => ~Touched(AtBase["order"], s.event.order)'
      BY <1>1, <1>7, <1>12 DEF Touched
  <2> QED
      BY <1>1, <1>10, <1>11, <1>16, <2>1, <2>2, <2>3 DEF Committing, Pending, Last
<1>18. CycleOK'
    BY <1>6, <1>7, <1>8, <1>17 DEF CycleOK
<1> QED
    BY <1>1, <1>18, NothingMoved DEF IndexerInvariant

\* The process ends and starts again, between two statements of a commit too.
LEMMA InterruptKeepsIndex ==
  ASSUME IndexerInvariant, Interrupt, UNCHANGED chainVars
  PROVE  IndexerInvariant'
<1>1. /\ chain' = chain /\ fork' = fork /\ UNCHANGED <<rows, fills, logs, checkpoint, torn, survivors>> /\ cycle' = Idle
      /\ cut' = (cut \/ (cycle.at = "commit" /\ cycle.begun))
    BY DEF Interrupt, tables, chainVars
<1>2. CycleOK'
    BY <1>1 DEF CycleOK, Idle
<1>3. ~cut' => ~cut /\ (cycle.at = "commit" => ~cycle.begun)
    BY <1>1, Zenon
<1> QED
    BY <1>1, <1>2, <1>3, NothingMoved DEF IndexerInvariant

\* What a commit of blocks on the chain has sent when it sends a statement.
LEMMA InTurn ==
  ASSUME IndexerInvariant, NEW base \in Nat, base = Base, NEW to \in 1..Height, Current(to), base < to,
         NEW todo, todo = cycle.todo, NEW nm \in Names, NEW n \in (base + 1)..to, Due(nm, n), Statement(nm, n) \in todo,
         \A t \in todo \ {Statement(nm, n)} : Before(Statement(nm, n), t),
         NEW o \in Order, o = chain[n].event.order
  PROVE  /\ nm = "order" => ~Touched(Sent(to, todo)["take"], o) /\ ~Touched(Sent(to, todo)["close"], o)
         /\ nm = "take" => ~Touched(Sent(to, todo)["close"], o)
<1>1. Height \in Nat /\ base <= Height /\ to \in Nat /\ n \in 1..Height /\ ChainOK /\ Legal(chain) /\ None \notin Order
    BY BaseFacts, IndexerAssumption DEF IndexerInvariant
<1>2. DOMAIN chain = 1..Height
    BY <1>1, LenProperties DEF ChainOK, Height
\* A statement that was sent of a later block of the range comes before this one.
<1>3. ASSUME NEW later \in Names, NEW i \in Sent(to, todo)[later], n < i, later # nm,
             Turn[nm] < Turn[later]
      PROVE  FALSE
  <2>1. i \in 1..to /\ Due(later, i) /\ Statement(later, i) \notin todo
      BY SentTyped
  <2>2. i \in (base + 1)..to
      BY <1>1, <1>3, <2>1
  <2>3. Statement(later, i) \in AllDue(base + 1, to)
      BY <2>1, <2>2, DueStatements
  <2>4. Before(Statement(later, i), Statement(nm, n))
      BY <2>1, <2>3 DEF Current
  <2>5. Statement(later, i).name = later /\ Statement(nm, n).name = nm
      BY DEF Statement
  <2>6. Turn[later] < Turn[nm]
      BY <1>3, <2>4, <2>5 DEF Before
  <2>7. Turn[later] \in Int /\ Turn[nm] \in Int
      BY TurnOfNames DEF Names
  <2> QED
      BY <1>3, <2>6, <2>7
<1>4. ASSUME NEW i \in Sent(to, todo)["take"], chain[i].event.order = o PROVE i \in Where(chain, "swapped", o)
  <2>1. i \in 1..to /\ Due("take", i)
      BY <1>4, SentTyped DEF Names
  <2> QED
      BY <1>1, <1>2, <1>4, <2>1 DEF Due, KindFor, Where
<1>5. ASSUME NEW i \in Sent(to, todo)["close"], chain[i].event.order = o PROVE i \in Where(chain, "docked", o)
  <2>1. i \in 1..to /\ Due("close", i)
      BY <1>5, SentTyped DEF Names
  <2> QED
      BY <1>1, <1>2, <1>5, <2>1 DEF Due, KindFor, Where
<1>6. /\ \A i \in Where(chain, "swapped", o) \union Where(chain, "docked", o) :
               \E j \in Where(chain, "shipped", o) : j < i
      /\ \A i \in Where(chain, "docked", o), j \in Where(chain, "swapped", o) : j < i
      /\ \A i, j \in Where(chain, "shipped", o) : i = j
    BY <1>1, OrdersLive
<1>7. CASE nm = "order"
  <2>1. n \in Where(chain, "shipped", o)
      BY <1>1, <1>2, <1>7 DEF Due, KindFor, Where
  <2>2. \A i \in Where(chain, "swapped", o) \union Where(chain, "docked", o) : n < i
      BY <1>6, <2>1
  <2>3. ~Touched(Sent(to, todo)["take"], o)
      BY <1>3, <1>4, <1>7, <2>2, TurnOfNames DEF Touched, Names
  <2>4. ~Touched(Sent(to, todo)["close"], o)
      BY <1>3, <1>5, <1>7, <2>2, TurnOfNames DEF Touched, Names
  <2> QED
      BY <1>7, <2>3, <2>4
<1>8. CASE nm = "take"
  <2>1. n \in Where(chain, "swapped", o)
      BY <1>1, <1>2, <1>8 DEF Due, KindFor, Where
  <2>2. \A i \in Where(chain, "docked", o) : n < i
      BY <1>6, <2>1
  <2>3. ~Touched(Sent(to, todo)["close"], o)
      BY <1>3, <1>5, <1>8, <2>2, TurnOfNames DEF Touched, Names
  <2> QED
      BY <1>8, <2>3
<1> QED
    BY <1>7, <1>8

\* A statement other than the last of a commit.
LEMMA StatementKeepsIndex ==
  ASSUME IndexerInvariant, cycle.at = "commit", NEW to \in 1..Height, Committing(to),
         NEW s \in cycle.todo, \A t \in cycle.todo \ {s} : Before(s, t), Execute(s), s.name \in Names,
         cycle' = [cycle EXCEPT !.todo = @ \ {s}, !.begun = TRUE], cut' = cut, chain' = chain, fork' = fork,
         misread' = misread, torn' = (torn \/ misread),
         survivors' = IF s.name = "order" THEN survivors \ {s.event.order} ELSE survivors
  PROVE  IndexerInvariant'
<1>1. Grounded /\ Height \in Nat /\ CycleOK
    BY BaseFacts DEF IndexerInvariant
<1>18. (Whole' => Whole /\ ~torn) /\ (~torn' => Whole /\ ~torn)
    BY Zenon DEF Whole
<1>2. PICK base \in Nat : base = Base /\ base <= Height
    BY BaseFacts
<1>3. PICK todo, hash : todo = cycle.todo /\ hash = cycle.hash
    OBVIOUS
<1>14. PICK rest : rest = todo \ {s}
    OBVIOUS
<1>15. PICK next : next = cycle'
    OBVIOUS
<1>16. next = [at |-> "commit", hash |-> hash, todo |-> rest, begun |-> TRUE]
  <2>1. PICK b : cycle = [at |-> "commit", hash |-> hash, todo |-> todo, begun |-> b]
      BY <1>1, <1>3 DEF CycleOK
  <2> QED
      BY <1>14, <1>15, <2>1
<1>17. next.at = "commit" /\ next.hash = hash /\ next.todo = rest /\ next.begun = TRUE
    BY <1>16
<1>4. cycle'.at = "commit" /\ cycle'.hash = hash /\ cycle'.todo = rest /\ cycle'.begun = TRUE
      /\ cycle' = [at |-> "commit", hash |-> cycle'.hash, todo |-> cycle'.todo, begun |-> cycle'.begun]
    BY <1>15, <1>16, <1>17
<1>5. checkpoint' = checkpoint /\ rows' \in [Order -> Row \union {None}] => TablesOK'
  <2>1. checkpoint' = checkpoint
      BY Recorded
  <2>2. fills' \subseteq [id : DOMAIN Amount, block : 1..MaxHeight]
    <3>1. fills \subseteq [id : DOMAIN Amount, block : 1..MaxHeight]
        BY DEF IndexerInvariant, TablesOK
    <3>2. CASE fills' = fills
        BY <3>1, <3>2
    <3>3. CASE s.name = "fill" /\ fills' = fills \union {[id |-> s.event.id, block |-> s.block]}
      <4>1. StatementOK(s)
          BY DEF Committing, Pending
      <4>2. s.event \in Event /\ s.event.kind = "swapped" /\ s.block \in 1..Height
          BY <3>3, <4>1 DEF StatementOK, KindFor
      <4>3. s.event.id \in DOMAIN Amount /\ s.block \in 1..MaxHeight
          BY <4>2, ChainAssumption, BaseFacts
      <4> QED
          BY <3>1, <3>3, <4>3
    <3> QED
        BY <3>2, <3>3, Recorded
  <2>3. Height' = Height
      BY DEF Height
  <2> QED
      BY <2>1, <2>2, <2>3 DEF TablesOK, IndexerInvariant
<1>6. checkpoint' = checkpoint /\ Base' = base /\ Height' = Height /\ (Stands' <=> Stands) /\ AtBase' = AtBase
      /\ AllDue(base + 1, to)' = AllDue(base + 1, to) /\ (IsCanonical(to, hash)' <=> IsCanonical(to, hash))
  <2>1. checkpoint' = checkpoint
      BY Recorded
  <2>2. Base' = base /\ Height' = Height /\ (Stands' <=> Stands) /\ (IsCanonical(to, hash)' <=> IsCanonical(to, hash))
      BY <1>2, <2>1 DEF Base, Height, Stands, IsCanonical, Hash
  <2>3. AtBase' = AtBase
      BY <1>2, <2>2 DEF AtBase, Sent, Statement, Due
  <2>4. AllDue(base + 1, to)' = AllDue(base + 1, to)
      BY DEF AllDue, Statement, Due, Last
  <2> QED
      BY <2>1, <2>2, <2>3, <2>4
<1>7. StatementOK(s) /\ s \in todo /\ todo = cycle.todo
    BY <1>3 DEF Committing, Pending
<1>8. rows' \in [Order -> Row \union {None}] /\ (~torn' /\ Stands => Covers(AtBase)')
  <2>1. ASSUME ~torn', Stands PROVE Covers(AtBase)' /\ rows' \in [Order -> Row \union {None}]
    <3>1. PICK sent : sent = AtBase
        OBVIOUS
    <3>2. SentOK(sent)
        BY <1>1, <1>2, <3>1, SentTyped DEF SentOK, AtBase
    <3>3. Covers(sent) /\ (s.name = "order" => ~Touched(sent["order"], s.event.order))
        BY <1>3, <1>7, <1>18, <2>1, <3>1 DEF IndexerInvariant, Committing
    <3>4. Covers(sent)' /\ rows' \in [Order -> Row \union {None}]
        BY <1>1, <1>7, <3>2, <3>3, StatementKeeps
    <3> QED
        BY <1>6, <3>1, <3>4 DEF Covers, RowCovers
  <2>2. rows' \in [Order -> Row \union {None}]
    <3>1. PICK none : none = Sent(0, {})
        OBVIOUS
    <3>2. SentOK(none) /\ \A nm \in Names : none[nm] = {}
        BY <1>1, <3>1, SentTyped DEF SentOK
    <3>3. Covers(none) /\ \A o : ~Touched(none["order"], o)
        BY <3>2 DEF Covers, Touched, Names
    <3> QED
        BY <1>1, <1>7, <3>2, <3>3, StatementKeeps
  <2> QED
      BY <2>1, <2>2
<1>9. Whole' /\ IsCanonical(to, hash) => Current(to)'
  <2> SUFFICES ASSUME Whole', IsCanonical(to, hash) PROVE Current(to)'
      OBVIOUS
  <2>1. Current(to)
      BY <1>3, <1>18 DEF Committing
  <2>2. Stands /\ base < to /\ todo \subseteq AllDue(base + 1, to)
        /\ (\A x \in AllDue(base + 1, to) \ todo, t \in todo : Before(x, t))
        /\ Covers(Sent(to, todo)) /\ (~cut => Matches(Sent(to, todo)))
      BY <1>2, <1>3, <2>1 DEF Current
  <2>3. PICK nm \in Names, n \in (base + 1)..to : Due(nm, n) /\ s = Statement(nm, n)
    <3>1. s # Last(to)
        BY DEF Last, Names
    <3> QED
        BY <1>7, <2>2, <3>1, DueStatements
  <2>4. PICK sent : sent = Sent(to, todo)
      OBVIOUS
  <2>5. PICK after : after = Sent(to, todo \ {s})
      OBVIOUS
  <2>6. n \in 1..to /\ n \in 1..Height /\ to \in Nat
      BY <1>1, <1>2, <2>3
  <2>7. after = [sent EXCEPT ![nm] = @ \union {n}]
      BY <2>3, <2>4, <2>5, <2>6, OneIsSent
  <2>8. SentOK(sent) /\ n \notin sent[nm]
    <3>1. \A k \in Names : \A i \in sent[k] : i \in 1..Height /\ Due(k, i)
        BY <1>1, <2>4, SentTyped
    <3> QED
        BY <1>7, <2>3, <2>4, <2>6, <3>1, SentTyped DEF SentOK
  <2>9. /\ nm = "order" => ~Touched(sent["take"], chain[n].event.order) /\ ~Touched(sent["close"], chain[n].event.order)
        /\ nm = "take" => ~Touched(sent["close"], chain[n].event.order)
    <3>1. CASE nm \in {"order", "take"}
      <4>1. PICK o \in Order : o = chain[n].event.order
          BY <2>3, <3>1 DEF Due
      <4> QED
          BY <1>2, <1>3, <1>7, <2>1, <2>2, <2>3, <2>4, <4>1, InTurn
    <3> QED
        BY <3>1
  <2>10. Covers(after)' /\ (Matches(sent) => Matches(after)')
      BY <1>1, <2>2, <2>3, <2>4, <2>6, <2>7, <2>8, <2>9, StatementTold
  <2>11. Sent(to, cycle.todo)' = after
    <3>1. Sent(to, todo \ {s})' = Sent(to, todo \ {s})
        BY <2>6, SentStays
    <3> QED
      <4>1. cycle'.todo = rest
          BY <1>4
      <4>2. Sent(to, rest)' = after
          BY <1>14, <2>5, <3>1
      <4> QED
          BY <4>1, <4>2
  <2>12. Covers(Sent(to, cycle.todo))' /\ (~cut' => Matches(Sent(to, cycle.todo))')
      BY <2>2, <2>4, <2>10, <2>11 DEF Covers, Matches, Known, RowCovers, RowMatches
  <2>13. AllDue(Base + 1, to)' = AllDue(base + 1, to)
    <3>1. AllDue(Base + 1, to)' = AllDue(base + 1, to)'
        BY <1>6
    <3> QED
        BY <1>6, <3>1
  <2>14. \A x \in AllDue(base + 1, to) \ (todo \ {s}), t \in todo \ {s} : Before(x, t)
      BY <1>7, <2>2
  <2>15. cycle'.todo = todo \ {s}
      BY <1>4, <1>14, Zenon
  <2> QED
      BY <1>6, <2>2, <2>12, <2>13, <2>14, <2>15 DEF Current, Before
<1>10. Committing(to)'
  <2>1. cycle'.todo = todo \ {s} /\ cycle'.hash = hash
    <3>1. cycle'.todo = rest
        BY <1>4
    <3>2. cycle'.hash = hash
        BY <1>4
    <3> QED
        BY <1>14, <3>1, <3>2, Zenon
  <2>2. s # Last(to)
      BY DEF Last, Names
  <2>3. \A x \in todo : StatementOK(x)' /\ (x.name = "checkpoint" => x = Last(to))
      BY <1>3, <1>6 DEF Committing, Pending, StatementOK
  <2>4. Whole' /\ Stands' => \A x \in todo : x.name = "order" => ~Touched(AtBase["order"], x.event.order)'
      BY <1>3, <1>6, <1>18 DEF Committing, Touched
  <2>5. Last(to) \in todo /\ hash \in 0..fork
      BY <1>3 DEF Committing, Pending
  <2> QED
      BY <1>6, <1>9, <2>1, <2>2, <2>3, <2>4, <2>5 DEF Committing, Pending, Last
<1>11. CycleOK'
    BY <1>4, <1>6, <1>10 DEF CycleOK
<1>12. ChainOK' /\ Legal(chain)'
  <2>1. Legal(chain)'
      BY DEF IndexerInvariant
  <2> QED
      BY <2>1 DEF IndexerInvariant, ChainOK, Height
<1>13. cycle'.at = "commit" /\ cycle'.begun
    BY <1>4
<1> QED
    BY <1>5, <1>6, <1>8, <1>11, <1>12, <1>13 DEF IndexerInvariant

LEMMA IdleRests == Idle.at = "idle"
BY DEF Idle

\* The last statement of a commit.
LEMMA LastKeepsIndex ==
  ASSUME IndexerInvariant, cycle.at = "commit", NEW to \in 1..Height, Committing(to),
         Last(to) \in cycle.todo, \A t \in cycle.todo \ {Last(to)} : Before(Last(to), t), Execute(Last(to)),
         cycle' = IF cycle.todo = {Last(to)} THEN Idle
                    ELSE [cycle EXCEPT !.todo = @ \ {Last(to)}, !.begun = TRUE],
         cut' = cut, chain' = chain, fork' = fork,
         misread' = misread, torn' = (torn \/ misread), survivors' = survivors
  PROVE  IndexerInvariant'
<1>1. Grounded /\ Height \in Nat /\ Height' = Height
    BY BaseFacts DEF Height
<1>15. ~torn' => Whole
    BY Zenon DEF Whole
<1>2. PICK hash \in 0..fork : hash = cycle.hash
    BY DEF Committing
<1>3. Last(to).name = "checkpoint" /\ Last(to).block = to /\ "checkpoint" \notin Names
    BY DEF Last, Names
<1>4. checkpoint' = [block |-> to, hash |-> hash] /\ rows' = rows /\ fills' = fills /\ logs' = logs
    BY <1>2, <1>3, Zenon DEF Execute
<1>5. cycle.todo = {Last(to)}
  <2> SUFFICES ASSUME NEW t \in cycle.todo, t # Last(to) PROVE FALSE
      OBVIOUS
  <2>1. StatementOK(t) /\ t.name # "checkpoint"
      BY DEF Committing, Pending
  <2>2. t.name \in Names
      BY <2>1 DEF StatementOK
  <2>3. Turn["checkpoint"] < Turn[t.name]
      BY <1>3, <2>1 DEF Before
  <2> QED
      BY <2>2, <2>3, TurnOfNames DEF Names
<1>6. cycle' = Idle
    BY <1>5
<1>7. checkpoint' \in [block : 1..Height', hash : 0..fork'] /\ checkpoint' # None
  <2>1. checkpoint' \in [block : 1..Height', hash : 0..fork']
      BY <1>1, <1>4
  <2>2. checkpoint' \in Checkpoint
    <3>1. to \in 1..MaxHeight /\ hash \in 0..MaxForks
      <4>1. Height <= MaxHeight /\ MaxHeight \in Nat /\ fork \in 0..MaxForks /\ MaxForks \in Nat
          BY BaseFacts, ChainAssumption DEF IndexerInvariant, ChainOK
      <4> QED
          BY <1>1, <4>1
    <3> QED
        BY <1>4, <3>1 DEF Checkpoint
  <2> QED
      BY <2>1, <2>2, IndexerAssumption
<1>8. TablesOK'
    BY <1>4, <1>7 DEF IndexerInvariant, TablesOK
<1>9. checkpoint'.block = to /\ checkpoint'.hash = hash
    BY <1>4
<1>10. Base' = to /\ (Stands' <=> IsCanonical(to, hash)')
    BY <1>7, <1>9 DEF Base, Stands
<1>11. IsCanonical(to, hash)' <=> IsCanonical(to, hash)
    BY DEF IsCanonical, Hash
<1>12. ~torn' /\ Stands' => Covers(AtBase)' /\ (~cut => Matches(AtBase)')
  <2> SUFFICES ASSUME ~torn', IsCanonical(to, hash) PROVE Covers(AtBase)' /\ (~cut => Matches(AtBase)')
      BY <1>10, <1>11
  <2>1. Current(to)
      BY <1>2, <1>15 DEF Committing
  <2>2. PICK sent : sent = Sent(to, {})
      OBVIOUS
  <2>3. Sent(to, cycle.todo) = sent
      BY <1>5, <2>2, AllAreSent
  <2>4. Covers(sent) /\ (~cut => Matches(sent))
      BY <2>1, <2>3 DEF Current
  <2>5. \A nm \in Names : sent[nm] \subseteq 1..Height
    <3>1. \A nm \in Names : \A n \in sent[nm] : n \in 1..to
        BY <2>2, SentTyped
    <3> QED
        BY <1>1, <3>1
  <2>6. PICK k \in Nat : k = Height
      BY <1>1
  <2>7. (Covers(sent)' <=> Covers(sent)) /\ (Matches(sent)' <=> Matches(sent))
      BY <1>4, <2>5, <2>6, TablesStay
  <2>8. AtBase' = sent
    <3>1. Sent(to, {})' = Sent(to, {})
        BY <2>6, SentStays
    <3> QED
        BY <1>10, <2>2, <3>1 DEF AtBase
  <2> QED
      BY <2>4, <2>7, <2>8 DEF Covers, Matches, Known, RowCovers, RowMatches
<1>13. ChainOK' /\ Legal(chain)'
  <2>1. Legal(chain)'
      BY DEF IndexerInvariant
  <2> QED
      BY <2>1 DEF IndexerInvariant, ChainOK, Height
<1>14. CycleOK'
  <2>1. cycle'.at = "idle"
      BY <1>6, IdleRests, Zenon
  <2>2. PICK next : next = cycle'
      OBVIOUS
  <2>3. next.at = "idle"
      BY <2>1, <2>2
  <2> QED
      BY <2>2, <2>3, Zenon DEF CycleOK
<1> QED
    BY <1>8, <1>12, <1>13, <1>14 DEF IndexerInvariant

\* A statement of the commit is executed, whichever it is.
LEMMA CommitKeepsIndex ==
  ASSUME IndexerInvariant, CommitStatement, UNCHANGED chainVars
  PROVE  IndexerInvariant'
<1>1. /\ cycle.at = "commit" /\ cut' = cut /\ chain' = chain /\ fork' = fork
      /\ misread' = misread /\ torn' = (torn \/ misread)
    BY DEF CommitStatement, chainVars
<1>2. PICK to \in 1..Height : Committing(to)
    BY <1>1 DEF IndexerInvariant, CycleOK
<1>3. PICK s \in cycle.todo :
         /\ \A t \in cycle.todo \ {s} : Before(s, t)
         /\ Execute(s)
         /\ cycle' = IF cycle.todo = {s} THEN Idle ELSE [cycle EXCEPT !.todo = @ \ {s}, !.begun = TRUE]
         /\ survivors' = IF s.name = "order" THEN survivors \ {s.event.order} ELSE survivors
    BY DEF CommitStatement
<1>4. CASE s.name = "checkpoint"
  <2>1. s = Last(to)
      BY <1>2, <1>4 DEF Committing, Pending
  <2> QED
      BY <1>1, <1>2, <1>3, <1>4, <2>1, LastKeepsIndex
<1>5. CASE s.name # "checkpoint"
  <2>1. s.name \in Names /\ Last(to) \in cycle.todo /\ s # Last(to)
      BY <1>2, <1>5 DEF Committing, Pending, StatementOK, Last
  <2>2. cycle' = [cycle EXCEPT !.todo = @ \ {s}, !.begun = TRUE]
      BY <1>3, <2>1
  <2> QED
      BY <1>1, <1>2, <1>3, <2>1, <2>2, StatementKeepsIndex
<1> QED
    BY <1>4, <1>5

-----------------------------------------------------------------------------
(* The invariant holds, and shows the projection.                           *)

\* The empty database of an empty chain.
LEMMA IndexBegins == ASSUME ChainInit, IndexerInit PROVE IndexerInvariant
<1>1. chain = <<>> /\ fork = 0 /\ Height = 0
    BY DEF ChainInit, Height
<1>2. ChainOK
    BY <1>1, ChainAssumption DEF ChainOK
<1>3. Legal(chain)
  <2>1. \A kind, o : Where(<<>>, kind, o) = {}
      BY DEF Where
  <2>2. \A o : Filled(<<>>, o) = 0
    <3>1. Total[{}] = 0
        BY TotalUnfolds DEF Body
    <3> TAKE o
    <3>2. {<<>>[i].event.id : i \in Where(<<>>, "swapped", o)} = {}
        BY <2>1
    <3> QED
        BY <3>1, <3>2 DEF Filled
  <2>3. 0 <= Original
      BY ChainAssumption
  <2>4. Legal(<<>>)
      BY <2>1, <2>2, <2>3 DEF Legal
  <2> QED
      BY <1>1, <2>4
<1>4. TablesOK /\ CycleOK
    BY DEF IndexerInit, TablesOK, CycleOK, Idle
<1>5. \A nm \in Names : AtBase[nm] = {}
    BY DEF IndexerInit, AtBase, Base, Sent
<1>6. Covers(AtBase) /\ Matches(AtBase)
  <2>1. \A o : ~Touched(AtBase["order"], o)
      BY <1>5 DEF Touched, Names
  <2> QED
      BY <1>5, <2>1 DEF Covers, Matches, Known, Names, IndexerInit
<1> QED
    BY <1>2, <1>3, <1>4, <1>6 DEF IndexerInvariant

\* Every step keeps the invariant.
LEMMA IndexStays ==
  ASSUME IndexerInvariant, [IndexerNext]_<<chainVars, indexerVars>>
  PROVE  IndexerInvariant'
<1>1. CASE (RunOnce \/ Interrupt) /\ UNCHANGED chainVars
    BY <1>1, CheckKeepsIndex, HeadKeepsIndex, LogsKeepIndex, HashKeepsIndex, CommitKeepsIndex, InterruptKeepsIndex
       DEF RunOnce
<1>2. ProtocolEvents \in SUBSET Event
    BY DEF ProtocolEvents
<1>3. BlocksRead \in Nat /\ BlocksRead <= Height
  <2>1. Base \in 0..Height /\ Height \in Nat /\ CycleOK
      BY BaseFacts DEF IndexerInvariant
  <2>2. CASE cycle.at = "head"
      BY <2>1, <2>2 DEF BlocksRead, Base
  <2>3. CASE cycle.at = "logs"
      BY <2>1, <2>3 DEF BlocksRead, CycleOK
  <2>4. CASE cycle.at = "hash"
      BY <2>1, <2>4 DEF BlocksRead, CycleOK
  <2>5. CASE cycle.at \notin {"head", "logs", "hash"}
      BY <2>1, <2>5 DEF BlocksRead
  <2> QED
      BY <2>2, <2>3, <2>4, <2>5
<1>4. CASE Extend(ProtocolEvents) /\ UNCHANGED indexerVars
  <2>1. PICK events \in SUBSET Event : events = ProtocolEvents
      BY <1>2
  <2>2. ChainOK' /\ Grows(Height) /\ Legal(chain)'
      BY <1>4, <2>1, ExtendGrows, ChainStaysLegal DEF IndexerInvariant
  <2>3. PICK k : k = Height
      OBVIOUS
  <2>4. IndexStill(k)
      BY <1>3, <1>4, <2>3 DEF IndexStill, indexerVars
  <2> QED
      BY <2>2, <2>3, <2>4, ChainKeepsIndex
<1>5. CASE ForkUnderCycle
  <2>1. PICK events \in SUBSET Event : events = ProtocolEvents
      BY <1>2
  <2>2. ChainOK' /\ (\E k : Grows(k)) /\ Legal(chain)' /\ ChainOK
      BY <1>5, <2>1, ForkGrows, ChainStaysLegal DEF IndexerInvariant, ForkUnderCycle
  <2>3. PICK k : Grows(k)
      BY <2>2
  <2>4. PICK n \in Nat : n = BlocksRead /\ n <= Height
      BY <1>3
  <2>5. ~misread' => ~misread /\ ~Replaced(n)
      BY <1>5, <2>4, Zenon DEF ForkUnderCycle
  <2>6. ~Replaced(n) => n <= k
      BY <2>2, <2>3, <2>4, KeptIsBelow
  <2>7. IndexStill(k)
      BY <1>5, <2>4, <2>5, <2>6 DEF IndexStill, ForkUnderCycle
  <2> QED
      BY <2>2, <2>3, <2>7, ChainKeepsIndex
<1>6. CASE UNCHANGED <<chainVars, indexerVars>>
  <2>1. chain' = chain /\ fork' = fork /\ UNCHANGED indexerVars
      BY <1>6 DEF chainVars
  <2>2. /\ cycle' = cycle /\ rows' = rows /\ fills' = fills /\ logs' = logs /\ checkpoint' = checkpoint
        /\ survivors' = survivors
      BY <2>1 DEF indexerVars, tables
  <2>3. ChainOK' /\ Legal(chain)'
      BY <2>1, <2>2, NothingMoved
  <2>4. PICK k \in Nat : k = Height /\ Height' = k
      BY <2>1, BaseFacts DEF Height
  <2>5. Grows(k)
      BY <2>1, <2>4, ChainAssumption DEF Grows, IndexerInvariant, ChainOK, Height, Hash
  <2>6. IndexStill(k)
      BY <1>3, <2>1, <2>4 DEF IndexStill, indexerVars
  <2> QED
      BY <2>3, <2>5, <2>6, ChainKeepsIndex
<1> QED
    BY <1>1, <1>4, <1>5, <1>6 DEF IndexerNext

\* The invariant shows the property.
LEMMA IndexShown ==
  ASSUME IndexerInvariant
  PROVE  IndexIsExact
<1>1. /\ Grounded /\ Height \in Nat /\ Height <= MaxHeight /\ MaxHeight \in Nat
      /\ checkpoint # None => /\ checkpoint.block = Base /\ checkpoint.block \in 1..Height
                              /\ checkpoint.hash \in 0..fork
    BY BaseFacts
<1>2. IndexerTypeOK
  <2>1. fork \in 0..MaxForks /\ MaxForks \in Nat
      BY ChainAssumption DEF IndexerInvariant, ChainOK
  <2>2. checkpoint \in Checkpoint \union {None}
      BY <1>1, <2>1 DEF IndexerInvariant, TablesOK, Checkpoint
  <2> QED
      BY <2>2 DEF IndexerTypeOK, IndexerInvariant, TablesOK, CycleOK
<1>3. ASSUME Settled
      PROVE  /\ Stands
             /\ \A o \in Order : /\ Shipped(o) <=> Touched(AtBase["order"], o)
                                 /\ Docked(o) <=> Touched(AtBase["close"], o)
                                 /\ Left(o) = LeftBy(AtBase["take"], o)
             /\ \A i \in DOMAIN Covered : Covered[i] = chain[i] /\ i \in 1..Base
  <2>1. PICK base \in 1..Height : base = Base /\ base = checkpoint.block
      BY <1>1, <1>3 DEF Settled
  <2>2. Stands
      BY <1>3 DEF Settled, Stands
  <2>3. DOMAIN Covered = 1..base /\ \A i \in 1..base : Covered[i] = chain[i]
    <3>1. PICK Blocks : chain \in Seq(Blocks)
        BY DEF IndexerInvariant, ChainOK
    <3>2. Len(SubSeq(chain, 1, base)) = base /\ SubSeq(chain, 1, base) \in Seq(Blocks)
          /\ \A i \in 1..base : SubSeq(chain, 1, base)[i] = chain[i]
        BY <1>1, <2>1, <3>1, SubSeqProperties DEF Height
    <3> QED
        BY <2>1, <3>2, LenProperties DEF Covered
  <2>4. \A kind, o : Where(Covered, kind, o) = {n \in 1..base : chain[n].event.kind = kind /\ chain[n].event.order = o}
      BY <2>3 DEF Where
  <2>5. \A nm \in Names : AtBase[nm] = {n \in 1..base : Due(nm, n)}
      BY <2>1 DEF AtBase, Sent
  <2>6. ASSUME NEW o \in Order
        PROVE  /\ Shipped(o) <=> Touched(AtBase["order"], o)
               /\ Docked(o) <=> Touched(AtBase["close"], o)
               /\ Left(o) = LeftBy(AtBase["take"], o)
    <3>1. /\ Where(Covered, "shipped", o) = FillsOf(AtBase["order"], o)
          /\ Where(Covered, "docked", o) = FillsOf(AtBase["close"], o)
          /\ Where(Covered, "swapped", o) = FillsOf(AtBase["take"], o)
        BY <2>4, <2>5 DEF FillsOf, Due, KindFor, Names
    <3>2. \A S : FillsOf(S, o) # {} <=> Touched(S, o)
        BY DEF FillsOf, Touched
    <3>3. Left(o) = LeftBy(AtBase["take"], o)
      <4>1. FillsOf(AtBase["take"], o) \subseteq 1..base
          BY <2>5 DEF FillsOf, Names
      <4>2. {Covered[i].event.id : i \in FillsOf(AtBase["take"], o)}
              = {chain[i].event.id : i \in FillsOf(AtBase["take"], o)}
          BY <2>3, <4>1
      <4> QED
          BY <3>1, <4>2 DEF Left, Filled, LeftBy
    <3> QED
        BY <3>1, <3>2, <3>3 DEF Shipped, Docked
  <2> QED
      BY <2>1, <2>2, <2>3, <2>6
<1>4. CheckpointCovers
  <2> SUFFICES ASSUME Settled, ~torn
               PROVE  /\ \A o \in Order : Shipped(o) =>
                           /\ rows[o] # None
                           /\ Live(rows[o]) => rows[o].remaining <= Left(o)
                           /\ Docked(o) => ~Live(rows[o])
                      /\ \A i \in DOMAIN Covered :
                           /\ Covered[i].event.kind = "swapped" /\ Covered[i].event.order \in Order
                                => \E f \in fills : f.id = Covered[i].event.id
                           /\ Covered[i].event.kind # "none"
                                => \E l \in logs : l.event = Covered[i].event
      BY DEF CheckpointCovers
  <2>1. Covers(AtBase)
      BY <1>3 DEF IndexerInvariant
  <2>2. \A o \in Order : Shipped(o) => RowCovers(AtBase, o)
      BY <1>3, <2>1 DEF Covers
  <2>3. \A i \in DOMAIN Covered :
           /\ Covered[i].event.kind = "swapped" /\ Covered[i].event.order \in Order => i \in AtBase["fill"]
           /\ Covered[i].event.kind # "none" => i \in AtBase["log"]
      BY <1>3 DEF AtBase, Sent, Due, KindFor, Names
  <2> QED
      BY <1>3, <2>1, <2>2, <2>3 DEF Covers, RowCovers
<1>5. ReplayIsExact
  <2>7. ASSUME Settled, ~torn, ~cut, cycle.at # "commit"
        PROVE  /\ \A o \in Order : Shipped(o) => RowMatches(AtBase, o)
               /\ \A o \in Order : rows[o] # None => Shipped(o) \/ o \in survivors
      BY <1>3, <2>7 DEF IndexerInvariant, Matches, Known
  <2> SUFFICES ASSUME Settled, ~torn, ~cut, cycle.at # "commit", NEW o \in Order, Shipped(o)
               PROVE  /\ rows[o].remaining = Left(o)
                      /\ rows[o].status = CASE Left(o) = 0 -> "filled"
                              [] Docked(o) /\ Left(o) > 0 -> "cancelled"
                              [] Left(o) = Original /\ ~Docked(o) -> "open"
                              [] OTHER -> "partiallyFilled"
      BY <2>7 DEF ReplayIsExact
  <2>1. RowMatches(AtBase, o)
      BY <2>7
  <2>2. PICK left \in 0..Original : left = LeftBy(AtBase["take"], o)
    <3>1. SentOK(AtBase)
        BY <1>1, SentTyped, BaseFacts DEF SentOK, AtBase
    <3>2. PICK sent : sent = AtBase
        OBVIOUS
    <3> QED
        BY <1>1, <3>1, <3>2, LeftWithin
  <2>3. Left(o) = left /\ rows[o].remaining = left /\ (Docked(o) <=> Touched(AtBase["close"], o)) /\ Original \in Nat \ {0}
      BY <1>3, <2>1, <2>2, ChainAssumption DEF RowMatches
  <2>4. CASE Docked(o)
      BY <2>1, <2>3, <2>4 DEF RowMatches
  <2>5. CASE ~Docked(o)
      BY <2>1, <2>3, <2>5 DEF RowMatches
  <2> QED
      BY <2>4, <2>5
<1> QED
    BY <1>2, <1>4, <1>5 DEF IndexIsExact

\* The order index is right about the blocks up to its checkpoint, whenever that block is on
\* the chain: every order shipped there has a row that offers no more than is left of it and
\* is dead once docked, every swap and every log is stored, and unless a commit was cut the
\* rows say exactly what the chain says, of the orders it shipped and of no others but those
\* whose rows a rewind left; wherever the process stops within a commit that is no
\* transaction and wherever the chain forks, but for what a cycle whose own reads a fork
\* divided has written (runOnce, commitProjection, rewindTo).
THEOREM IndexesAreExact == IndexerSpec => []IndexIsExact
<1>1. ChainInit /\ IndexerInit => IndexerInvariant
    BY IndexBegins
<1>2. IndexerInvariant /\ [IndexerNext]_<<chainVars, indexerVars>> => IndexerInvariant'
    BY IndexStays
<1>3. IndexerInvariant => IndexIsExact
    BY IndexShown
<1> QED
    BY <1>1, <1>2, <1>3, PTL DEF IndexerSpec
=============================================================================
