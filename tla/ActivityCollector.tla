-------------------------- MODULE ActivityCollector --------------------------
(***************************************************************************)
(* packages/activity: the subscription of one user to one wallet, and the  *)
(* workers that collect the confirmed transfers of that wallet             *)
(* (apps/worker/src/main.ts).  Every await of a worker is a step of its    *)
(* own; what packages/adapters/src/activity.ts does inside one             *)
(* transaction is one step.                                                *)
(***************************************************************************)
EXTENDS CanonicalChain

CONSTANTS
    Worker,         \* processes of apps/worker
    Transfers,      \* [kind of event -> set of [token, from, to]]
    Wallet,         \* the watched address
    Zero,           \* the zero address
    BlockChunk      \* localProfileDefaults.activityBlockChunkSize

Resting == [at |-> "resting"]
Subscription == [active : BOOLEAN, next : 0..(MaxHeight + 1), last : 0..MaxHeight \union {None},
                 hash : 0..MaxForks]

\* A fork goes no deeper than a rewind does, from a confirmed block.
ASSUME ActivityAssumption ==
    /\ BlockChunk \in Nat \ {0}
    /\ MaxDepth <= 2 * (Confirmations + 1)
    /\ None \notin Worker /\ None \notin Subscription
    /\ \A e \in Event : e.kind = "none" => Transfers[e.kind] = {}

VARIABLES
    sub,        \* the row of activity_subscriptions
    actions,    \* activity_actions
    trades,     \* subscribed_trades
    holder,     \* the worker whose lease has not expired
    run,        \* [Worker -> where runOnce is, and its local variables]
    since,      \* the user has asked for what happens from this block on, and
                \* has not wiped it
    late,       \* workers that collect from a row another has written since they read it
    overtaken,  \* has a worker undone what another knew of a fork?
    shaken,     \* workers whose run had checked or read what a fork has replaced since
    mixed       \* has such a run stored its batch?

activityVars == <<sub, actions, trades, holder, run, since, late, overtaken, shaken, mixed>>

ActivityInit ==
    /\ sub = None /\ since = 0
    /\ late = {} /\ overtaken = FALSE /\ shaken = {} /\ mixed = FALSE
    /\ actions = {} /\ trades = {}
    /\ holder = None
    /\ run = [w \in Worker |-> Resting]

Subscribed == sub # None /\ sub.active
SafeHead == Max({Height - Confirmations, 0})

(***************************************************************************)
(* The API: the user's side.                                               *)
(***************************************************************************)
\* The first block of the last minute is some block of the confirmed chain.  A
\* subscription that was there goes on where it stopped.
Subscribe ==
    /\ ~Subscribed
    /\ \E first \in 0..SafeHead :
         IF sub = None
           THEN /\ sub' = [active |-> TRUE, next |-> first, last |-> None, hash |-> 0]
                /\ since' = first
           ELSE sub' = [sub EXCEPT !.active = TRUE] /\ UNCHANGED since
    /\ UNCHANGED <<actions, trades, holder, run, late, overtaken, shaken, mixed>>

Unsubscribe ==
    /\ Subscribed
    /\ sub' = [sub EXCEPT !.active = FALSE]
    /\ UNCHANGED <<actions, trades, holder, run, since, late, overtaken, shaken, mixed>>

WipeActions ==
    /\ actions # {} /\ actions' = {}
    /\ since' = sub.next
    /\ UNCHANGED <<sub, trades, holder, run, late, overtaken, shaken, mixed>>

WipeTrades ==
    /\ trades # {} /\ trades' = {}
    /\ since' = sub.next
    /\ UNCHANGED <<sub, actions, holder, run, late, overtaken, shaken, mixed>>

(***************************************************************************)
(* Classification of the transfers of one transaction.                     *)
(***************************************************************************)
Incoming(transfers) == {t.token : t \in {u \in transfers : u.to = Wallet /\ u.from # Wallet}}
Outgoing(transfers) == {t.token : t \in {u \in transfers : u.from = Wallet /\ u.to # Wallet}}

Classify(transfers, t) ==
    LET incoming    == t.to = Wallet
        counterflow == (IF incoming THEN Outgoing(transfers) ELSE Incoming(transfers)) \ {t.token} # {}
    IN  CASE t.from = Wallet /\ incoming -> "selfTransfer"
          [] t.from = Zero /\ incoming -> "minted"
          [] t.from = Wallet /\ t.to = Zero -> "burned"
          [] OTHER -> CASE counterflow /\ incoming -> "buy"
                        [] counterflow /\ ~incoming -> "sell"
                        [] ~counterflow /\ incoming -> "received"
                        [] OTHER -> "sent"

\* The transactions with a log of the Transfer topic that names the wallet; to
\* the collector any other transaction is as none.
TransferEvents == {e \in Event : e.kind = "foreign" \/ Transfers[e.kind] # {}}
                    \union {e \in Event : e.kind = "none"}

\* The actions of the transactions of a range of blocks.
ActionsOf(from, to) ==
    UNION {{[event |-> chain[n].event, token |-> t.token,
             class |-> Classify(Transfers[chain[n].event.kind], t),
             block |-> n, hash |-> Hash(n)] : t \in Transfers[chain[n].event.kind]}
           : n \in Max({from, 1})..to}

\* The actions of a transaction are a trade when they are one sell and one buy, of two
\* tokens.
IsTrade(group) ==
    LET of(class) == {a \in group : a.class = class}
    IN  /\ Cardinality(of("sell")) = 1 /\ Cardinality(of("buy")) = 1
        /\ Cardinality(group) = 2
        /\ \A s \in of("sell"), b \in of("buy") : s.token # b.token

TradesOf(batch) ==
    {[event |-> a.event, block |-> a.block, hash |-> a.hash]
     : a \in {b \in batch : b.class = "sell" /\ IsTrade({c \in batch : c.event = b.event})}}

(***************************************************************************)
(* A worker.  The lease is not renewed while a run lasts.                  *)
(***************************************************************************)
\* A fork at last is rewound to the block below the confirmed ones.
\* (mutant) one block short
RewindShallow(last) == IF last > Confirmations THEN last - Confirmations ELSE 0
RewindTo(last) == IF last > Confirmations + 1 THEN last - (Confirmations + 1) ELSE 0

\* What a row stands for is on the chain up to its last block, and if that is not, up
\* to where a rewind would start again.
OnChain(row) == row.last # None => IsCanonical(row.last, row.hash)
CertainTo(row) == IF row.last = None THEN row.next ELSE RewindTo(row.last)

\* Who is collecting when w writes has read a row that is no more.
LateAfter(w) ==
    (late \union {v \in Worker : run[v].at \in {"transfers", "hash", "store"}}) \ {w}

Rest(w) == run' = [run EXCEPT ![w] = Resting] /\ shaken' = shaken \ {w}

\* The lease is taken or kept, the subscription is read, and its last block
\* compared with the chain.
Begin(w) ==
    /\ run[w].at = "resting"
    /\ holder \in {None, w}
    /\ holder' = w
    /\ run' = [run EXCEPT ![w] =
          IF ~Subscribed \/ sub.next > SafeHead THEN Resting
          ELSE IF ~OnChain(sub) THEN [at |-> "rewind", last |-> sub.last]
          ELSE [at |-> "transfers", next |-> sub.next,
                end |-> Min({sub.next + BlockChunk - 1, SafeHead})]]
    /\ UNCHANGED <<sub, actions, trades, since, late, overtaken, shaken, mixed>>

\* Everything from below the fork on is deleted; the row read is not compared.
Rewind(w) ==
    /\ run[w].at = "rewind"
    /\ LET next == RewindTo(run[w].last)
       IN  /\ trades' = {t \in trades : t.block < next}
           /\ actions' = {a \in actions : a.block < next}
           /\ sub' = [sub EXCEPT !.next = next, !.last = None, !.hash = 0]
           /\ overtaken' = (overtaken \/ next > CertainTo(sub))
    /\ late' = LateAfter(w)
    /\ Rest(w)
    /\ UNCHANGED <<holder, since, mixed>>

\* A log that is no ERC-20 transfer fails the run for this subscription.
ReadTransfers(w) ==
    /\ run[w].at = "transfers"
    /\ LET next == run[w].next
           end  == run[w].end
           foreign == \E n \in Max({next, 1})..end : chain[n].event.kind = "foreign"
       IN  IF foreign THEN Rest(w) /\ late' = late \ {w}
           ELSE /\ run' = [run EXCEPT ![w] = [at |-> "hash", next |-> next, end |-> end,
                                              batch |-> ActionsOf(next, end)]]
                /\ UNCHANGED <<late, shaken>>
    /\ UNCHANGED <<sub, actions, trades, holder, since, overtaken, mixed>>

ReadLastHash(w) ==
    /\ run[w].at = "hash"
    /\ run' = [run EXCEPT ![w] = [at |-> "store", next |-> run[w].next, end |-> run[w].end,
                                  batch |-> run[w].batch, hash |-> Hash(run[w].end)]]
    /\ UNCHANGED <<sub, actions, trades, holder, since, late, overtaken, shaken, mixed>>

\* What is already there stays; nothing is kept when the cursor has moved.
CursorUnmoved(w) == Subscribed /\ sub.next = run[w].next
SameKey(a, b) == a.event = b.event /\ a.token = b.token

StoreBatch(w) ==
    /\ run[w].at = "store"
    /\ IF CursorUnmoved(w)
         THEN /\ actions' = actions \union
                   {a \in run[w].batch : ~\E b \in actions : SameKey(a, b)}
              /\ trades' = trades \union
                   {t \in TradesOf(run[w].batch) : ~\E u \in trades : u.event = t.event}
              /\ sub' = [sub EXCEPT !.next = run[w].end + 1,
                                    !.last = run[w].end, !.hash = run[w].hash]
              /\ overtaken' = (overtaken \/ (w \in late /\ ~OnChain(sub)))
              /\ mixed' = (mixed \/ w \in shaken)
              /\ late' = LateAfter(w)
         ELSE /\ late' = late \ {w}
              /\ UNCHANGED <<sub, actions, trades, overtaken, mixed>>
    /\ Rest(w)
    /\ UNCHANGED <<holder, since>>

\* A call fails, or the worker is restarted (its lease stays with the old name
\* until it expires).
Fail(w) ==
    /\ run[w].at # "resting"
    /\ Rest(w)
    /\ late' = late \ {w}
    /\ UNCHANGED <<sub, actions, trades, holder, since, overtaken, mixed>>

\* The lease expires, perhaps while its holder is still at work.
ExpireLease ==
    /\ holder # None
    /\ holder' = None
    /\ UNCHANGED <<sub, actions, trades, run, since, late, overtaken, shaken, mixed>>

Collect(w) == \/ Begin(w) \/ Rewind(w)
              \/ ReadTransfers(w) \/ ReadLastHash(w) \/ StoreBatch(w)

\* The last of the blocks that a run takes for granted: those below the cursor, once
\* their last is checked, and those whose transfers it has read.
BlocksUnderRead(w) ==
    CASE run[w].at = "transfers" /\ run[w].next > 0 -> run[w].next - 1
      [] run[w].at = "hash" -> run[w].end
      [] OTHER -> 0

\* A fork comes at any time, between two reads of a run too.
ForkUnderRuns ==
    /\ Reorganize(TransferEvents)
    /\ UNCHANGED <<sub, actions, trades, holder, run, since, late, overtaken, mixed>>
    /\ shaken' = shaken \union {w \in Worker : Replaced(BlocksUnderRead(w))}

ActivityNext ==
    \/ /\ \/ Subscribe \/ Unsubscribe \/ WipeActions \/ WipeTrades \/ ExpireLease
          \/ \E w \in Worker : Collect(w) \/ Fail(w)
       /\ UNCHANGED chainVars
    \/ Extend(TransferEvents) /\ UNCHANGED activityVars
    \/ ForkUnderRuns

ActivitySpec == ChainInit /\ ActivityInit /\ [][ActivityNext]_<<chainVars, activityVars>>

-----------------------------------------------------------------------------
(***************************************************************************)
(* Properties.                                                             *)
(***************************************************************************)
ActivityTypeOK ==
    /\ sub \in Subscription \union {None}
    /\ holder \in Worker \union {None}
    /\ \A a \in actions : a.block \in 1..MaxHeight /\ a.hash \in 0..MaxForks
    /\ \A w \in Worker : run[w].at \in {"resting", "rewind", "transfers", "hash", "store"}

\* Three things spoil a feed that looks right, and are excepted.  A batch whose transfers
\* a fork replaced before the hash of its last block was read (service.ts:118, :137), or
\* that follows a block replaced since it was checked (:105), is stored under the hash of
\* the other chain: mixed.  A rewind does not compare the row, and can leave more than
\* the row allowed by then; and a batch compares only its cursor, which others may have
\* moved away and back to a fork of their own: overtaken.
Followed == ~mixed /\ ~overtaken /\ sub # None /\ OnChain(sub)

\* When the last block collected is on the chain, so is every transfer that is
\* listed, in the block it is listed in, however many workers ran at once and
\* wherever forks came but under a run's own reads: a rewind goes below any fork of
\* this depth, and a run that read before a rewind stores nothing after it.
StoredIsCanonical ==
    Followed => \A a \in actions \union trades :
                 /\ a.block < sub.next
                 /\ IsCanonical(a.block, a.hash) /\ chain[a.block].event = a.event

\* And nothing is missing: each transfer of the wallet below the cursor that the
\* user has not wiped is listed, and is part of a trade exactly when its
\* transaction sold one token for another.
NothingMissed ==
    Followed =>
      LET due == ActionsOf(since, Min({sub.next - 1, Height})) IN
        /\ \A a \in due : \E b \in actions : SameKey(a, b) /\ a.class = b.class
        /\ \A t \in TradesOf(due) : t \in trades

\* Without these the feed of a wallet is what its chain says, no more and no less
\* (README: background collection by activity workers).
FeedIsExact == ActivityTypeOK /\ StoredIsCanonical /\ NothingMissed
=============================================================================
