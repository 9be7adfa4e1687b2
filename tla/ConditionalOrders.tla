------------------------- MODULE ConditionalOrders -------------------------
(***************************************************************************)
(* Armed trades: the evaluator (packages/orderbook/src/triggers.ts) watches*)
(* the conditions of their legs, keeps what it saw in PostgreSQL           *)
(* (packages/adapters/src/triggers.ts, keeper.ts) and enqueues jobs that   *)
(* report to the intent controller (AquaIntentController) and, in the end, *)
(* fire a leg; meanwhile a trade may be cancelled.                         *)
(*                                                                         *)
(* Of the keeper matters here which jobs were enqueued and whose calls went*)
(* through, perhaps late, more than once or never; that a job completes    *)
(* only after its call went through is a theorem about KeeperQueue.        *)
(*                                                                         *)
(* Every statement is a step of its own, and a process may die between any *)
(* two.  One process evaluates; any number of them run the keeper.  Blocks *)
(* are one unit of time apart, so a block's number is its time as well.    *)
(***************************************************************************)
EXTENDS Integers, Sequences, FiniteSets

CONSTANTS
    Legs,            \* rows of trade_triggers; each has an intent of its own
    Trades,
    TradeOf,         \* the trade of a leg, whose legs share a group
    Proofs,          \* hashes of the orders that make a condition true
    NoProof,
    Keeper,          \* operator of controller and matcher
    Matcher, NoMatcher,
    NoJob,           \* fire_job_id IS NULL
    MayCrash,        \* whether a process may die between two statements
    Confirmations,
    MinimumBlocks, MinimumDelay,
    MaxBlock,        \* bound on the chain's length
    MaxJobs,         \* bound on the jobs enqueued
    MaxReports       \* bound on reports about one leg (see AquaIntentController)

\* What a job does and for which leg, as its id spells it.
ObserveJob(l, p) == [leg |-> l, kind |-> "observe", arg |-> p]
FireJob(l, p)    == [leg |-> l, kind |-> "fire", arg |-> p]
ResetJob(l, b)   == [leg |-> l, kind |-> "reset", arg |-> b]

FireJobs == [leg : Legs, kind : {"fire"}, arg : Proofs]
JobIds   == FireJobs \cup [leg : Legs, kind : {"observe"}, arg : Proofs]
                     \cup [leg : Legs, kind : {"reset"}, arg : 0 .. MaxBlock]

ASSUME ConditionalAssumption ==
    /\ TradeOf \in [Legs -> Trades]
    /\ NoProof \notin Proofs /\ NoJob \notin JobIds
    /\ Matcher # NoMatcher /\ Keeper # NoMatcher
    /\ MayCrash \in BOOLEAN
    /\ Confirmations \in Nat /\ MinimumBlocks \in Nat /\ MinimumDelay \in Nat
    /\ MaxBlock \in Nat \ {0} /\ MaxJobs \in Nat /\ MaxReports \in Nat

VARIABLES
    block, time, observations, closedGroups, reports, activations,
    matcher, nonceUsed, consumed,                             \* the controller
    enqueued,     \* ids in keeper_jobs
    executed,     \* jobs whose call went through
    legs,         \* trade_triggers: status and fire_job_id
    operations,   \* agent_order_operations: state
    watched,      \* trigger_observations
    listed,       \* the evaluator's cycle: legs not yet looked at
    asOf,         \* the evaluator's cycle: its confirmed block
    writing,      \* the job of the evaluator's next statement, or NoJob
    finishing,    \* runs of markComplete, each with its next statement
    cancelling,   \* trade_cancellations: trades with a cancellation
    completed,    \* history: jobs for which markComplete ran to its end
    unmarked      \* history: jobs the worker died before marking their leg,
                  \* or that were completed before it had

Controller == INSTANCE AquaIntentController WITH
    Senders <- {Keeper, Matcher}, Operator <- Keeper, Deployer <- Keeper,
    IntentHashes <- Legs, Groups <- Trades, SignedIntents <- {}, MaxTime <- MaxBlock

chainVars  == <<block, time, observations, closedGroups, reports, activations,
                matcher, nonceUsed, consumed>>
queueVars  == <<enqueued, executed>>
tableVars  == <<legs, operations, watched, cancelling>>
workerVars == <<listed, asOf, writing, finishing>>
history    == <<completed, unmarked>>
vars       == <<chainVars, queueVars, tableVars, workerVars, history>>

Unwatched == [proof |-> NoProof, firstBlock |-> 0]
Armed     == {l \in Legs : legs[l].status = "armed"}

Init ==
    /\ Controller!InitBoundTo(Matcher)
    /\ enqueued = {} /\ executed = {}
    /\ legs = [l \in Legs |-> [status |-> "armed", fireJob |-> NoJob]]
    /\ operations = [t \in Trades |-> "armed"]
    /\ watched = [l \in Legs |-> Unwatched]
    /\ listed = {} /\ asOf = 0 /\ writing = NoJob /\ finishing = {}
    /\ cancelling = {}
    /\ completed = {} /\ unmarked = {}

-----------------------------------------------------------------------------
(* The evaluator.                                                           *)

\* listArmed, at the confirmed block of this cycle
BeginCycle ==
    /\ listed = {} /\ writing = NoJob
    /\ Armed # {} /\ block >= Confirmations
    /\ listed' = Armed
    /\ asOf' = block - Confirmations
    /\ UNCHANGED <<chainVars, queueVars, tableVars, writing, finishing, history>>

\* enqueue: ON CONFLICT DO NOTHING
Enqueue(j) ==
    /\ j \in enqueued \/ Cardinality(enqueued) < MaxJobs
    /\ enqueued' = enqueued \cup {j}
    /\ UNCHANGED executed

\* The evaluator turns to a leg; writing' is what it has to write second.
LooksAt(l) ==
    /\ l \in listed /\ writing = NoJob
    /\ listed' = listed \ {l}
    /\ UNCHANGED <<chainVars, operations, cancelling, asOf, finishing, history>>

\* The condition is false: the report is enqueued, the observation deleted.
ConditionFalse(l) ==
    /\ LooksAt(l)
    /\ watched[l] # Unwatched
    /\ Enqueue(ResetJob(l, asOf))
    /\ writing' = ResetJob(l, asOf)
    /\ UNCHANGED <<legs, watched>>

\* It is true by other orders than before: the observation is saved, the report
\* enqueued.
ConditionNew(l, p) ==
    /\ LooksAt(l)
    /\ watched[l].proof # p
    /\ watched' = [watched EXCEPT ![l] = [proof |-> p, firstBlock |-> asOf]]
    /\ writing' = ObserveJob(l, p)
    /\ UNCHANGED <<queueVars, legs>>

\* It has been true by the same orders for long enough: the leg's batch is
\* enqueued, the leg marked.
ConditionStands(l) ==
    /\ LooksAt(l)
    /\ watched[l] # Unwatched
    /\ asOf >= watched[l].firstBlock + MinimumBlocks
    /\ asOf >= watched[l].firstBlock + MinimumDelay
    /\ Enqueue(FireJob(l, watched[l].proof))
    /\ writing' = FireJob(l, watched[l].proof)
    /\ UNCHANGED <<legs, watched>>

\* Nothing to write: no price, no change, or not yet due.
NothingNew(l) ==
    /\ LooksAt(l)
    /\ UNCHANGED <<queueVars, legs, watched, writing>>

\* (mutant) the mark does not name the job
MarkFiringOnly(j) ==
    legs' = [legs EXCEPT ![j.leg].status = IF @ = "armed" THEN "firing" ELSE @]

MarkFiring(j) ==
    legs' = [legs EXCEPT ![j.leg] =
               IF @.status = "armed" THEN [status |-> "firing", fireJob |-> j] ELSE @]

\* The second statement: deleteObservation, enqueue or markFiring.
SecondWrite ==
    /\ writing # NoJob /\ writing' = NoJob
    /\ \/ /\ writing.kind = "reset"
          /\ watched' = [watched EXCEPT ![writing.leg] = Unwatched]
          /\ UNCHANGED <<queueVars, legs>>
       \/ /\ writing.kind = "observe"
          /\ Enqueue(writing)
          /\ UNCHANGED <<legs, watched>>
       \/ /\ writing.kind = "fire"
          /\ MarkFiring(writing)
          /\ UNCHANGED <<queueVars, watched>>
    /\ UNCHANGED <<chainVars, operations, cancelling, listed, asOf, finishing, history>>

-----------------------------------------------------------------------------
(* The keeper, and the transactions it sends.                               *)

\* (mutant) any receipt counts
CompleteReverted(j) ==
    /\ j \in enqueued /\ finishing' = finishing \cup {[job |-> j, next |-> 2]}
    /\ UNCHANGED <<chainVars, queueVars, tableVars, listed, asOf, writing, history>>

\* After a receipt of success markComplete goes on to the trade's tables, whether
\* or not its first statement still found the lease.
Complete(j) ==
    /\ j \in executed /\ finishing' = finishing \cup {[job |-> j, next |-> 2]}
    /\ UNCHANGED <<chainVars, queueVars, tableVars, listed, asOf, writing, history>>

\* The legs that fire_job_id finds.
FiredBy(j) == {l \in Legs : legs[l].fireJob = j}

\* (mutant) the statement finds the legs by their trade
MarkExecutedOfTrade(j) ==
    /\ legs' = [l \in Legs |-> IF TradeOf[l] = TradeOf[j.leg]
                                 THEN [legs[l] EXCEPT !.status = "executed"] ELSE legs[l]]
    /\ UNCHANGED operations

MarkExecuted(j) ==
    /\ legs' = [l \in Legs |-> IF l \in FiredBy(j)
                                 THEN [legs[l] EXCEPT !.status = "executed"] ELSE legs[l]]
    /\ UNCHANGED operations

MarkBroadcast(j) ==
    /\ operations' = [t \in Trades |-> IF \E l \in FiredBy(j) : TradeOf[l] = t
                                         THEN "broadcast" ELSE operations[t]]
    /\ UNCHANGED legs

CloseOthers(j) ==
    /\ legs' = [l \in Legs |->
         IF l \in Armed \ FiredBy(j) /\ \E other \in FiredBy(j) : TradeOf[other] = TradeOf[l]
           THEN [legs[l] EXCEPT !.status = "closed"] ELSE legs[l]]
    /\ UNCHANGED operations

\* The second to fourth statement of markComplete.
Finish(f) ==
    /\ \/ f.next = 2 /\ MarkExecuted(f.job)
       \/ f.next = 3 /\ MarkBroadcast(f.job)
       \/ f.next = 4 /\ CloseOthers(f.job)
    /\ finishing' = (finishing \ {f}) \cup
                      (IF f.next < 4 THEN {[f EXCEPT !.next = @ + 1]} ELSE {})
    /\ completed' = completed \cup (IF f.next = 4 THEN {f.job} ELSE {})
    /\ unmarked' = unmarked \cup (IF f.next = 2 /\ writing = f.job THEN {f.job} ELSE {})
    /\ UNCHANGED <<chainVars, queueVars, watched, cancelling, listed, asOf, writing>>

\* (mutant) the matcher goes on when a call of the batch failed
FireBatchUnchecked(l, p) ==
    \/ Controller!Activate(Matcher, l, TradeOf[l], p)
    \/ UNCHANGED chainVars

\* The matcher's batch: activate the intent and act on the vault, or neither.
\* Whether the vault still can act, or gave its tokens back, is left open.
FireBatch(l, p) == Controller!Activate(Matcher, l, TradeOf[l], p)

\* What a job's transaction does when it is mined.
Call(j) ==
    \/ /\ j.kind = "observe" /\ Len(reports[j.leg]) < MaxReports
       /\ Controller!Observe(Keeper, j.leg, j.arg)
    \/ j.kind = "reset" /\ Controller!Reset(Keeper, j.leg)
    \/ j.kind = "fire" /\ FireBatch(j.leg, j.arg)

Execute(j) ==
    /\ j \in enqueued /\ Call(j)
    /\ executed' = executed \cup {j}
    /\ UNCHANGED <<enqueued, tableVars, workerVars, history>>

NewBlock ==
    /\ Controller!NewBlock(time + 1)
    /\ UNCHANGED <<queueVars, tableVars, workerVars, history>>

-----------------------------------------------------------------------------
(* Cancellation of an armed trade.                                          *)

CreateCancellation(t) ==
    /\ operations[t] = "armed"
    /\ cancelling' = cancelling \cup {t}
    /\ UNCHANGED <<chainVars, queueVars, legs, operations, watched, workerVars, history>>

\* (mutant) the update does not ask for the leg's status
SubmitCancellationOfAll(t) ==
    /\ t \in cancelling
    /\ operations' = [operations EXCEPT ![t] = "cancelled"]
    /\ legs' = [l \in Legs |-> IF TradeOf[l] = t
                  THEN [legs[l] EXCEPT !.status = "cancelled"] ELSE legs[l]]
    /\ UNCHANGED <<chainVars, queueVars, watched, cancelling, workerVars, history>>

\* The signed vault action is handed to the relay, which does not wait for it;
\* then one database transaction records the cancellation.  A trade may have
\* several, and one may be handed in again before used_at is written, so that no
\* submission excludes a later one.
SubmitCancellation(t) ==
    /\ t \in cancelling
    /\ operations' = [operations EXCEPT ![t] = "cancelled"]
    /\ legs' = [l \in Legs |-> IF TradeOf[l] = t /\ legs[l].status \in {"armed", "firing"}
                  THEN [legs[l] EXCEPT !.status = "cancelled"] ELSE legs[l]]
    /\ UNCHANGED <<chainVars, queueVars, watched, cancelling, workerVars, history>>

-----------------------------------------------------------------------------
\* The worker dies: its cycle and its unfinished markComplete are lost.
Crash ==
    /\ MayCrash
    /\ listed' = {} /\ writing' = NoJob /\ finishing' = {}
    /\ unmarked' = unmarked \cup ({writing} \cap FireJobs)
    /\ UNCHANGED <<chainVars, queueVars, tableVars, asOf, completed>>

Evaluate(l) ==
    \/ ConditionFalse(l) \/ \E p \in Proofs : ConditionNew(l, p)
    \/ ConditionStands(l) \/ NothingNew(l)

Next ==
    \/ BeginCycle \/ SecondWrite
    \/ \E l \in Legs : Evaluate(l)
    \/ \E j \in enqueued : Execute(j)
    \/ \E j \in enqueued \cap FireJobs : Complete(j)
    \/ \E f \in finishing : Finish(f)
    \/ \E t \in Trades : CreateCancellation(t) \/ SubmitCancellation(t)
    \/ NewBlock \/ Crash

Spec == Init /\ [][Next]_vars

-----------------------------------------------------------------------------
(* Properties.                                                              *)

Statuses == {"armed", "firing", "executed", "closed", "cancelled"}

TablesTypeOK ==
    /\ enqueued \subseteq JobIds /\ executed \subseteq enqueued
    /\ legs \in [Legs -> [status : Statuses, fireJob : FireJobs \cup {NoJob}]]
    /\ operations \in [Trades -> {"armed", "broadcast", "cancelled"}]
    /\ \A l \in Legs : watched[l] # Unwatched =>
          watched[l].proof \in Proofs /\ watched[l].firstBlock \in 0 .. block - Confirmations
    /\ listed \subseteq Legs /\ writing \in JobIds \cup {NoJob}
    /\ cancelling \subseteq Trades
    /\ finishing \subseteq [job : FireJobs, next : 2 .. 4]

\* Every variable stays within its type; what the evaluator remembers is of
\* confirmed blocks.
TypeOK == TablesTypeOK /\ completed \subseteq FireJobs /\ unmarked \subseteq FireJobs

ActivatedLeg(l) == activations[l][TradeOf[l]] > 0

\* What the tables say of an execution happened on the chain, through crashes,
\* lost leases, failures and cancellations: an executed leg has activated,
\* a trade is broadcast because one of its legs has, and a leg is closed because
\* another one has.
RecordedExecutionIsReal ==
    /\ \A l \in Legs : legs[l].status = "executed" => ActivatedLeg(l)
    /\ \A t \in Trades : operations[t] = "broadcast" =>
          \E l \in Legs : TradeOf[l] = t /\ ActivatedLeg(l)
    /\ \A l \in Legs : legs[l].status = "closed" =>
          \E other \in Legs \ {l} : TradeOf[other] = TradeOf[l] /\ ActivatedLeg(other)

\* Of the legs of a trade at most one is recorded as executed, though the worker
\* may fire several and learns of their results in any order.
OneLegExecutes ==
    \A l, other \in Legs :
        /\ legs[l].status = "executed" /\ legs[other].status = "executed"
        /\ TradeOf[l] = TradeOf[other]
        => l = other

\* A batch goes through, and the vault acts, only when the proof it was made for
\* had been reported to the controller for the minimum blocks and delay, whatever
\* the evaluator saw in the meantime and in whatever order its reports were mined.
BatchIsPersistent ==
    [][\A j \in FireJobs : j \in executed' \ executed =>
         Controller!Persistent(j.leg, j.arg)]_vars

\* A leg that was executed or closed stays so; a late cancellation, marking or
\* completion does not touch it.
SettledLegsStay ==
    [][\A l \in Legs : legs[l].status \in {"executed", "closed"} =>
         legs'[l].status = legs[l].status]_vars

\* What was executed is recorded, too.  When markComplete has run to its end for
\* a job, its leg is executed, or a cancellation came before its mark; the trade
\* is no longer armed and none of its legs is watched any more.  The exception
\* are the `unmarked` jobs: the id in the queue is all that tells of them, the next
\* cycle's enqueue is dropped as a duplicate, and the leg is then marked as firing
\* for a job that is over.
CompletionIsRecorded ==
    \A j \in completed \ unmarked :
        /\ legs[j.leg].status \in {"executed", "cancelled"}
        /\ operations[TradeOf[j.leg]] # "armed"
        /\ \A l \in Armed : TradeOf[l] # TradeOf[j.leg]

\* A leg that is firing is not watched any more, so its batch must be able to go
\* through: when the report of its proof and all the other reports on it were
\* mined, the controller holds that proof (test/e2e/trade-evidence.ts: a triggered
\* trade executes on-chain after the trigger window).
FiringIsReported ==
    \A l \in Legs :
        /\ legs[l].status = "firing" /\ TradeOf[l] \notin closedGroups
        /\ ObserveJob(l, legs[l].fireJob.arg) \in enqueued
        /\ \A j \in enqueued \ FireJobs : j.leg = l => j \in executed
        => observations[l].proofHash = legs[l].fireJob.arg

=============================================================================
