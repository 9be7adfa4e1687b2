---------------------------- MODULE OrderIndexer ----------------------------
(***************************************************************************)
(* packages/orderbook/src/indexer.ts: one cycle of the order worker checks *)
(* the checkpoint against the chain, reads the logs of the next chunk of   *)
(* confirmed blocks, projects them and commits the projection to Postgres  *)
(* (packages/adapters/src/trading.ts).  Every await is a step of its own,  *)
(* and so is every statement of the commit: it is sent on the connection   *)
(* pool, outside the transaction that begin opens (trading.ts:26).         *)
(***************************************************************************)
EXTENDS CanonicalChain

CONSTANTS
    Order,          \* orders of an indexed pair, shipped to a limit router
    ChunkSize,      \* blockChunkSize
    MaxInterrupts

StartBlock == 1     \* manifest.indexer.startBlock

VARIABLES
    rows,        \* trading_orders
    fills,       \* trading_fills
    logs,        \* trading_protocol_logs
    checkpoint,  \* trading_checkpoints
    cycle,       \* where runOnce is, and its local variables
    interrupts,  \* how many cycles were interrupted
    misread,     \* has a fork replaced what the cycle under way had checked or read?
    torn,        \* has a misread cycle written since the last rewind?
    cut,         \* was a commit interrupted after its first statement since then?
    survivors    \* the orders whose rows that rewind left, and no statement wrote since

tables == <<rows, fills, logs, checkpoint>>
indexerVars == <<tables, cycle, interrupts, misread, torn, cut, survivors>>

Row == [block : 1..MaxHeight, remaining : 0..Original,
        status : {"open", "partiallyFilled", "filled", "cancelled"}]
Checkpoint == [block : 1..MaxHeight, hash : 0..MaxForks]
Idle == [at |-> "idle"]

ASSUME IndexerAssumption ==
    /\ ChunkSize \in Nat \ {0}
    /\ None \notin Order \union Row \union Checkpoint

Live(row) == row # None /\ row.status \in {"open", "partiallyFilled"}

IndexerInit ==
    /\ rows = [o \in Order |-> None]
    /\ fills = {} /\ logs = {}
    /\ checkpoint = None
    /\ cycle = Idle
    /\ interrupts = 0
    /\ misread = FALSE /\ torn = FALSE /\ cut = FALSE /\ survivors = {}

(***************************************************************************)
(* Reading.                                                                *)
(***************************************************************************)

\* (mutant) a fork leaves the checkpoint where it was
RewindKeepingCheckpoint(block) ==
    /\ rows' = [o \in Order |-> IF rows[o] # None /\ rows[o].block >= block THEN None ELSE rows[o]]
    /\ fills' = {f \in fills : f.block < block}
    /\ logs' = {l \in logs : l.block < block}
    /\ UNCHANGED checkpoint
RewindFrom(block) ==
    /\ rows' = [o \in Order |-> IF rows[o] # None /\ rows[o].block >= block THEN None ELSE rows[o]]
    /\ fills' = {f \in fills : f.block < block}
    /\ logs' = {l \in logs : l.block < block}
    /\ checkpoint' = None

\* The checkpoint is compared with the chain; a fork undoes its block and
\* forgets the checkpoint.  Rows of the blocks below stay, replaced or not.
CheckCheckpoint ==
    /\ cycle.at = "idle"
    /\ cycle' = [at |-> "head"] /\ misread' = FALSE
    /\ IF checkpoint # None /\ ~IsCanonical(checkpoint.block, checkpoint.hash)
         THEN /\ RewindFrom(checkpoint.block)
              /\ torn' = FALSE /\ cut' = FALSE
              /\ survivors' = {o \in Order : rows'[o] # None}
         ELSE UNCHANGED <<tables, torn, cut, survivors>>
    /\ UNCHANGED interrupts

ReadHead ==
    /\ cycle.at = "head"
    /\ LET confirmed == Height - Confirmations
           from == IF checkpoint = None THEN StartBlock ELSE checkpoint.block + 1
           to   == Min({from + ChunkSize - 1, confirmed})
       IN  cycle' = IF Height < Confirmations \/ from > confirmed THEN Idle
                      ELSE [at |-> "logs", from |-> from, to |-> to]
    /\ UNCHANGED <<tables, interrupts, misread, torn, cut, survivors>>

\* What its filter lets through: to the indexer any other transaction is as none.
ProtocolEvents ==
    {e \in Event : e.kind \in {"none", "shipped", "swapped", "docked", "malformed"}}

\* The logs of a range, with their blocks.
LogsOf(from, to) ==
    {[event |-> chain[n].event, block |-> n] : n \in {m \in from..to : chain[m].event.kind # "none"}}

(***************************************************************************)
(* The projection of logs, as the statements of its commit: the orders,    *)
(* the fills, what they take from the orders, the docked orders, the raw   *)
(* logs and the checkpoint.  A swap of an order that is neither in the     *)
(* batch nor in the table is skipped.                                      *)
(***************************************************************************)
Chosen(batch, kind) == {l \in batch : l.event.kind = kind /\ l.event.order \in Order}

Statements(batch, to) ==
    LET shipped  == Chosen(batch, "shipped")
        known(o) == rows[o] # None \/ \E l \in shipped : l.event.order = o
        swapped  == {l \in Chosen(batch, "swapped") : known(l.event.order)}
        as(name, ls) == {[name |-> name, block |-> l.block, event |-> l.event] : l \in ls}
    IN  as("order", shipped) \union as("fill", swapped) \union as("take", swapped)
          \union as("close", Chosen(batch, "docked")) \union as("log", batch)
          \union {[name |-> "checkpoint", block |-> to]}

\* The order in which they are sent, and within a kind by the block of the log.
\* (mutant) the checkpoint is the first statement
CheckpointFirst ==
    [order |-> 1, fill |-> 2, take |-> 3, close |-> 4, log |-> 5, checkpoint |-> 0]
Turn ==
    [order |-> 1, fill |-> 2, take |-> 3, close |-> 4, log |-> 5, checkpoint |-> 6]
Before(s, t) == Turn[s.name] < Turn[t.name] \/ (s.name = t.name /\ s.block < t.block)

\* A log that is no word of the event language ends the cycle.
Decodes(batch) == \A l \in batch : l.event.kind # "malformed"

ReadLogs ==
    /\ cycle.at = "logs"
    /\ LET batch == LogsOf(cycle.from, cycle.to)
       IN  cycle' = IF Decodes(batch)
                      THEN [at |-> "hash", to |-> cycle.to, todo |-> Statements(batch, cycle.to)]
                      ELSE Idle
    /\ UNCHANGED <<tables, interrupts, misread, torn, cut, survivors>>

ReadHash ==
    /\ cycle.at = "hash"
    /\ cycle' = [at |-> "commit", hash |-> Hash(cycle.to), todo |-> cycle.todo, begun |-> FALSE]
    /\ UNCHANGED <<tables, interrupts, misread, torn, cut, survivors>>

(***************************************************************************)
(* Writing: one statement after the other.                                 *)
(***************************************************************************)

\* An order is written over what was there, as if nothing had been filled.
InsertOrder(l) ==
    rows' = [rows EXCEPT ![l.event.order] =
               [block |-> l.block, remaining |-> Original, status |-> "open"]]

InsertFill(l) ==
    fills' = IF \E f \in fills : f.id = l.event.id THEN fills
             ELSE fills \union {[id |-> l.event.id, block |-> l.block]}

TakeFill(l) ==
    LET row  == rows[l.event.order]
        left == Max({0, row.remaining - Amount[l.event.id]})
    IN  rows' = IF Live(row)
                  THEN [rows EXCEPT ![l.event.order].remaining = left,
                                    ![l.event.order].status =
                                       IF left = 0 THEN "filled" ELSE "partiallyFilled"]
                  ELSE rows

CloseOrder(l) ==
    rows' = IF Live(rows[l.event.order])
              THEN [rows EXCEPT ![l.event.order].status = "cancelled"] ELSE rows

InsertLog(l) ==
    logs' = IF \E k \in logs : k.event = l.event THEN logs
            ELSE logs \union {[event |-> l.event, block |-> l.block]}

Execute(s) ==
    \/ s.name = "order" /\ InsertOrder(s) /\ UNCHANGED <<fills, logs, checkpoint>>
    \/ s.name = "fill" /\ InsertFill(s) /\ UNCHANGED <<rows, logs, checkpoint>>
    \/ s.name = "take" /\ TakeFill(s) /\ UNCHANGED <<fills, logs, checkpoint>>
    \/ s.name = "close" /\ CloseOrder(s) /\ UNCHANGED <<fills, logs, checkpoint>>
    \/ s.name = "log" /\ InsertLog(s) /\ UNCHANGED <<rows, fills, checkpoint>>
    \/ /\ s.name = "checkpoint"
       /\ checkpoint' = [block |-> s.block, hash |-> cycle.hash]
       /\ UNCHANGED <<rows, fills, logs>>

CommitStatement ==
    /\ cycle.at = "commit"
    /\ \E s \in cycle.todo :
         /\ \A t \in cycle.todo \ {s} : Before(s, t)
         /\ Execute(s)
         /\ cycle' = IF cycle.todo = {s} THEN Idle
                       ELSE [cycle EXCEPT !.todo = @ \ {s}, !.begun = TRUE]
         /\ survivors' = IF s.name = "order" THEN survivors \ {s.event.order} ELSE survivors
    /\ torn' = (torn \/ misread)
    /\ UNCHANGED <<interrupts, misread, cut>>

\* A failing call or statement, or a restart, ends the cycle where it is.
Interrupt ==
    /\ cycle.at # "idle" /\ interrupts < MaxInterrupts
    /\ interrupts' = interrupts + 1
    /\ cut' = (cut \/ (cycle.at = "commit" /\ cycle.begun))
    /\ cycle' = Idle
    /\ UNCHANGED <<tables, misread, torn, survivors>>

RunOnce == CheckCheckpoint \/ ReadHead \/ ReadLogs \/ ReadHash \/ CommitStatement

\* The last of the blocks that a cycle takes for granted: those of the checkpoint,
\* once it is checked, and those whose logs it has read.
BlocksRead ==
    CASE cycle.at = "head" -> IF checkpoint = None THEN 0 ELSE checkpoint.block
      [] cycle.at = "logs" -> cycle.from - 1
      [] cycle.at = "hash" -> cycle.to
      [] OTHER -> 0

\* A fork comes at any time, between two reads of a cycle too.
ForkUnderCycle ==
    /\ Reorganize(ProtocolEvents)
    /\ UNCHANGED <<tables, cycle, interrupts, torn, cut, survivors>>
    /\ misread' = (misread \/ Replaced(BlocksRead))

IndexerNext ==
    \/ (RunOnce \/ Interrupt) /\ UNCHANGED chainVars
    \/ Extend(ProtocolEvents) /\ UNCHANGED indexerVars
    \/ ForkUnderCycle

\* The worker starts a cycle every two seconds, and its calls are answered.
IndexerFairness == WF_<<indexerVars, chainVars>>(RunOnce /\ UNCHANGED chainVars)

IndexerSpec == ChainInit /\ IndexerInit /\ [][IndexerNext]_<<chainVars, indexerVars>>

-----------------------------------------------------------------------------
(***************************************************************************)
(* Properties.  What the table should hold is computed from the blocks up  *)
(* to the checkpoint, when these are the canonical ones.                   *)
(***************************************************************************)
IndexerTypeOK ==
    /\ rows \in [Order -> Row \union {None}]
    /\ checkpoint \in Checkpoint \union {None}
    /\ fills \subseteq [id : DOMAIN Amount, block : 1..MaxHeight]
    /\ cycle.at \in {"idle", "head", "logs", "hash", "commit"}

Covered == SubSeq(chain, 1, checkpoint.block)
Shipped(o) == Where(Covered, "shipped", o) # {}
Docked(o) == Where(Covered, "docked", o) # {}
Left(o) == Original - Filled(Covered, o)
Settled == checkpoint # None /\ IsCanonical(checkpoint.block, checkpoint.hash)

\* Whatever cuts a cycle or a commit short, a checkpoint on the canonical chain
\* stands for all that is below it: every order, fill and log is there, no
\* order offers more than is left of it, and none that was docked is on offer
\* (the checkpoint is the last statement, and a fork is replayed from the start).
\* A cycle that a fork overtook between the check of the checkpoint and the read of
\* the last hash (indexer.ts:51, :63, :65) puts the hash of one chain on the logs of
\* another: what it wrote is excepted until the next rewind.
CheckpointCovers ==
    Settled /\ ~torn =>
      /\ \A o \in Order : Shipped(o) =>
           /\ rows[o] # None
           /\ Live(rows[o]) => rows[o].remaining <= Left(o)
           /\ Docked(o) => ~Live(rows[o])
      /\ \A i \in DOMAIN Covered :
           /\ Covered[i].event.kind = "swapped" /\ Covered[i].event.order \in Order
                => \E f \in fills : f.id = Covered[i].event.id
           /\ Covered[i].event.kind # "none"
                => \E l \in logs : l.event = Covered[i].event

\* When the checkpoint is at the confirmed head, a fill has been taken from its
\* order once: what remains of it is what the chain left of it (README: the
\* remaining balances and the checkpoint are committed transactionally).
AtConfirmedHead ==
    /\ checkpoint # None
    /\ checkpoint.block = Height - Confirmations
    /\ IsCanonical(checkpoint.block, checkpoint.hash)

FillsCountOnce ==
    AtConfirmedHead /\ cycle.at # "commit" =>
      \A o \in Order : Shipped(o) => rows[o].remaining = Left(o)

\* For as long as no commit was cut short or written across a fork, every order has
\* at each checkpoint the remainder and the state that the chain gives it: replays
\* over the rows of another chain and interrupted reads leave no trace in it.  And a
\* row is of an order that this chain shipped, but for the survivors of a rewind: it
\* deletes from the block of the checkpoint on, and a fork may go below.
ReplayIsExact ==
    Settled /\ ~torn /\ ~cut /\ cycle.at # "commit" =>
      \A o \in Order :
        /\ Shipped(o) =>
             /\ rows[o].remaining = Left(o)
             /\ rows[o].status = CASE Left(o) = 0 -> "filled"
                                   [] Docked(o) /\ Left(o) > 0 -> "cancelled"
                                   [] Left(o) = Original /\ ~Docked(o) -> "open"
                                   [] OTHER -> "partiallyFilled"
        /\ rows[o] # None => Shipped(o) \/ o \in survivors

\* The projection is the chain's at a checkpoint, and covers it (commitProjection).
IndexIsExact == IndexerTypeOK /\ CheckpointCovers /\ ReplayIsExact

\* Once the chain stays as it is, the checkpoint reaches its last confirmed
\* block, unless that range holds a log the decoder refuses (LANGSEC: a
\* malformed known event halts the checkpoint).
Readable == \A i \in 1..(Height - Confirmations) : chain[i].event.kind # "malformed"
CatchesUp == <>[](Readable /\ Height > Confirmations => AtConfirmedHead)
=============================================================================
