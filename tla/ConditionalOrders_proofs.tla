----------------------- MODULE ConditionalOrders_proofs -----------------------
(***************************************************************************)
(* Theorems of the armed trades, for any number of trades, legs, proofs and*)
(* jobs, whether or not processes die: what the tables say of an execution *)
(* is true and of one leg of a trade only; a leg is executed by the job it *)
(* was marked for, which traces every completed job to what it records.    *)
(***************************************************************************)
EXTENDS ConditionalOrders, TLAPS

Typed ==
    /\ TablesTypeOK
    /\ block \in 1 .. MaxBlock
    /\ activations \in [Legs -> [Trades -> Nat]]
    /\ watched \in [Legs -> [proof : Proofs \cup {NoProof}, firstBlock : Nat]]
    /\ listed # {} => asOf \in 0 .. block - Confirmations

\* The controller: a trade is closed by its first leg and lets no other pass.
OneLegActivates ==
    /\ \A l \in Legs : ActivatedLeg(l) => TradeOf[l] \in closedGroups
    /\ \A l, other \in Legs :
          ActivatedLeg(l) /\ ActivatedLeg(other) /\ TradeOf[l] = TradeOf[other] => l = other

\* The keeper: a batch that went through activated its leg, and only such
\* batches are completed.
ExecutedActivated ==
    /\ \A j \in executed \cap FireJobs : ActivatedLeg(j.leg)
    /\ \A f \in finishing : f.job \in executed

\* The evaluator: a job is queued before its leg is marked, and only with it.
MarkedForItsJob ==
    /\ writing \in FireJobs => writing \in enqueued
    /\ \A l \in Legs :
          /\ legs[l].fireJob # NoJob => legs[l].fireJob.leg = l /\ legs[l].fireJob \in enqueued
          /\ legs[l].status \in {"firing", "executed"} => legs[l].fireJob # NoJob
          /\ legs[l].status \in {"armed", "closed"} => legs[l].fireJob = NoJob

Invariant ==
    /\ Typed
    /\ OneLegActivates
    /\ ExecutedActivated
    /\ MarkedForItsJob
    /\ RecordedExecutionIsReal

-----------------------------------------------------------------------------
\* What the ids of the jobs tell.
LEMMA JobsTell ==
    /\ FireJobs \subseteq JobIds /\ NoJob \notin JobIds
    /\ \A l \in Legs, p \in Proofs :
          /\ ObserveJob(l, p) \in JobIds \ FireJobs
          /\ FireJob(l, p) \in FireJobs /\ FireJob(l, p).leg = l
    /\ \A l \in Legs, b \in 0 .. MaxBlock : ResetJob(l, b) \in JobIds \ FireJobs
    /\ \A j \in JobIds : j.leg \in Legs /\ (j.kind = "fire" <=> j \in FireJobs)
<1> USE DEF JobIds, FireJobs, ObserveJob, FireJob, ResetJob
<1>1. NoJob \notin JobIds
    BY ConditionalAssumption DEF ConditionalAssumption
<1>2. \A j \in JobIds : j.leg \in Legs /\ (j.kind = "fire" <=> j \in FireJobs)
    OBVIOUS
<1>3. \A l \in Legs, p \in Proofs :
          /\ ObserveJob(l, p) \in JobIds \ FireJobs
          /\ FireJob(l, p) \in FireJobs /\ FireJob(l, p).leg = l
    OBVIOUS
<1>4. \A l \in Legs, b \in 0 .. MaxBlock : ResetJob(l, b) \in JobIds \ FireJobs
    OBVIOUS
<1>5. FireJobs \subseteq JobIds
    OBVIOUS
<1> QED
    BY <1>1, <1>2, <1>3, <1>4, <1>5

\* The block a cycle confirms is one of the chain.
LEMMA ConfirmedBlock ==
    ASSUME Typed, listed # {}
    PROVE  asOf \in 0 .. MaxBlock /\ asOf \in 0 .. block - Confirmations /\ asOf \in Nat
    BY ConditionalAssumption DEF Typed, ConditionalAssumption

\* What is confirmed stays so.
LEMMA LaterBlock ==
    ASSUME NEW b \in Nat, NEW c \in b .. MaxBlock
    PROVE  (0 .. b - Confirmations) \subseteq (0 .. c - Confirmations)
<1>1. Confirmations \in Nat /\ MaxBlock \in Nat
    BY ConditionalAssumption DEF ConditionalAssumption
<1> QED
    BY <1>1

LEMMA InitEstablishes == ASSUME Init PROVE Invariant
<1> USE DEF Init, Controller!InitBoundTo, ActivatedLeg
<1>1. Typed
  <2>1. TablesTypeOK
      BY DEF TablesTypeOK, Statuses, Unwatched
  <2>2. Unwatched \in [proof : Proofs \cup {NoProof}, firstBlock : Nat]
      BY DEF Unwatched
  <2> QED
      BY <2>1, <2>2, ConditionalAssumption DEF Typed, ConditionalAssumption
<1>2. OneLegActivates /\ ExecutedActivated
    BY ConditionalAssumption DEF OneLegActivates, ExecutedActivated, ConditionalAssumption
<1>3. MarkedForItsJob /\ RecordedExecutionIsReal
    BY JobsTell DEF MarkedForItsJob, RecordedExecutionIsReal
<1> QED
    BY <1>1, <1>2, <1>3 DEF Invariant

-----------------------------------------------------------------------------
\* Steps that leave the controller and the trades' tables alone: they enqueue,
\* watch, or forget what the worker was doing.
LEMMA WorkerPreserves ==
    ASSUME Invariant,
           UNCHANGED <<closedGroups, activations, legs, operations, executed>>,
           block' \in block .. MaxBlock,
           watched' \in [Legs -> [proof : Proofs \cup {NoProof}, firstBlock : Nat]],
           \A l \in Legs :
              \/ watched'[l] = watched[l] \/ watched'[l] = Unwatched
              \/ watched'[l].proof \in Proofs
                 /\ watched'[l].firstBlock \in 0 .. block - Confirmations,
           enqueued \subseteq enqueued', enqueued' \subseteq JobIds,
           finishing' \subseteq finishing,
           writing' \in JobIds \cup {NoJob}, writing' \in FireJobs => writing' \in enqueued',
           listed' \subseteq Legs, listed' # {} => asOf' \in 0 .. block' - Confirmations,
           cancelling' \subseteq Trades
    PROVE  Invariant'
<1> USE DEF Invariant, ActivatedLeg
<1>1. TablesTypeOK'
  <2>1. (0 .. block - Confirmations) \subseteq (0 .. block' - Confirmations)
    <3>1. block \in Nat /\ block' \in block .. MaxBlock
        BY DEF Typed
    <3> QED
        BY <3>1, LaterBlock
  <2>2. \A l \in Legs : watched'[l] # Unwatched =>
            watched'[l].proof \in Proofs /\ watched'[l].firstBlock \in 0 .. block' - Confirmations
      BY <2>1 DEF Typed, TablesTypeOK
  <2>3. /\ enqueued' \subseteq JobIds /\ executed' \subseteq enqueued'
        /\ legs' \in [Legs -> [status : Statuses, fireJob : FireJobs \cup {NoJob}]]
        /\ operations' \in [Trades -> {"armed", "broadcast", "cancelled"}]
        /\ finishing' \subseteq [job : FireJobs, next : 2 .. 4]
      BY DEF Typed, TablesTypeOK
  <2> QED
      BY <2>2, <2>3 DEF TablesTypeOK, Unwatched
<1>2. Typed'
    BY <1>1, ConditionalAssumption DEF Typed, ConditionalAssumption
<1>3. OneLegActivates' /\ ExecutedActivated'
    BY DEF OneLegActivates, ExecutedActivated
<1>4. MarkedForItsJob'
    BY DEF MarkedForItsJob
<1>5. RecordedExecutionIsReal'
    BY DEF RecordedExecutionIsReal
<1> QED
    BY <1>2, <1>3, <1>4, <1>5

LEMMA EvaluatePreserves ==
    ASSUME Invariant, NEW l \in Legs, Evaluate(l)
    PROVE  Invariant'
<1> USE DEF LooksAt, chainVars, queueVars, Enqueue
<1>1. /\ listed # {} /\ listed' \subseteq listed /\ listed \subseteq Legs
      /\ asOf' = asOf /\ asOf \in 0 .. MaxBlock /\ asOf \in 0 .. block - Confirmations
      /\ block' = block /\ block \in block .. MaxBlock
      /\ enqueued \subseteq JobIds /\ cancelling \subseteq Trades
      /\ watched \in [Legs -> [proof : Proofs \cup {NoProof}, firstBlock : Nat]]
    BY ConfirmedBlock DEF Evaluate, ConditionFalse, ConditionNew, ConditionStands, NothingNew,
       Invariant, Typed, TablesTypeOK
<1>2. /\ UNCHANGED <<closedGroups, activations, legs, operations, executed, finishing, cancelling>>
    BY DEF Evaluate, ConditionFalse, ConditionNew, ConditionStands, NothingNew
<1>3. CASE ConditionFalse(l)
  <2>1. /\ ResetJob(l, asOf) \in JobIds \ FireJobs
        /\ writing' = ResetJob(l, asOf) /\ watched' = watched
        /\ enqueued' = enqueued \cup {ResetJob(l, asOf)}
      BY <1>1, <1>3, JobsTell DEF ConditionFalse
  <2> QED
      BY <1>1, <1>2, <2>1, WorkerPreserves
<1>4. ASSUME NEW p \in Proofs, ConditionNew(l, p) PROVE Invariant'
  <2>1. /\ ObserveJob(l, p) \in JobIds \ FireJobs
        /\ writing' = ObserveJob(l, p) /\ enqueued' = enqueued
      BY <1>4, JobsTell DEF ConditionNew
  <2>2. /\ watched' \in [Legs -> [proof : Proofs \cup {NoProof}, firstBlock : Nat]]
        /\ \A other \in Legs : watched'[other] =
              IF other = l THEN [proof |-> p, firstBlock |-> asOf] ELSE watched[other]
      BY <1>1, <1>4 DEF ConditionNew
  <2> QED
      BY <1>1, <1>2, <2>1, <2>2, WorkerPreserves
<1>5. CASE ConditionStands(l)
  <2>1. watched[l].proof \in Proofs
      BY <1>5 DEF ConditionStands, Invariant, Typed, TablesTypeOK
  <2>2. /\ FireJob(l, watched[l].proof) \in FireJobs
        /\ FireJob(l, watched[l].proof) \in JobIds
        /\ writing' = FireJob(l, watched[l].proof) /\ watched' = watched
        /\ enqueued' = enqueued \cup {FireJob(l, watched[l].proof)}
      BY <1>5, <2>1, JobsTell DEF ConditionStands
  <2> QED
      BY <1>1, <1>2, <2>2, WorkerPreserves
<1>6. CASE NothingNew(l)
  <2>1. /\ writing' = NoJob /\ NoJob \notin FireJobs
        /\ watched' = watched /\ enqueued' = enqueued
      BY <1>6, JobsTell DEF NothingNew
  <2> QED
      BY <1>1, <1>2, <2>1, WorkerPreserves
<1> QED
    BY <1>3, <1>4, <1>5, <1>6 DEF Evaluate

\* The start of a cycle, a new block, a cancellation's preparation, a crash.
LEMMA OthersPreserve ==
    ASSUME Invariant,
           BeginCycle \/ NewBlock \/ (\E t \in Trades : CreateCancellation(t)) \/ Crash
           \/ UNCHANGED vars
    PROVE  Invariant'
<1> USE DEF chainVars, queueVars, tableVars, workerVars
<1>1. /\ UNCHANGED <<closedGroups, activations, legs, operations, executed, watched, enqueued>>
      /\ finishing' \subseteq finishing /\ writing' \in {writing, NoJob}
      /\ listed' \subseteq Legs /\ cancelling' \subseteq Trades
    BY DEF Invariant, Typed, TablesTypeOK, BeginCycle, NewBlock, Controller!NewBlock,
       Controller!historyVars, CreateCancellation, Crash, Armed, vars
<1>2. block \in Nat /\ MaxBlock \in Nat /\ block <= MaxBlock /\ Confirmations \in Nat
    BY ConditionalAssumption DEF Invariant, Typed, ConditionalAssumption
<1>3. block' \in block .. MaxBlock /\ (listed' # {} => asOf' \in 0 .. block' - Confirmations)
  <2>1. CASE BeginCycle
      BY <2>1, <1>2 DEF BeginCycle
  <2>2. CASE NewBlock
    <3>1. block < MaxBlock /\ block' = block + 1 /\ asOf' = asOf /\ listed' = listed
        BY <2>2 DEF NewBlock, Controller!NewBlock
    <3>2. listed # {} => asOf \in 0 .. block - Confirmations
        BY DEF Invariant, Typed
    <3> QED
        BY <3>1, <3>2, <1>2
  <2>3. CASE (\E t \in Trades : CreateCancellation(t)) \/ Crash \/ UNCHANGED vars
    <3>1. block' = block /\ asOf' = asOf /\ (listed' # {} => listed # {})
        BY <2>3 DEF CreateCancellation, Crash, vars
    <3>2. listed # {} => asOf \in 0 .. block - Confirmations
        BY DEF Invariant, Typed
    <3> QED
        BY <3>1, <3>2, <1>2
  <2> QED
      BY <2>1, <2>2, <2>3
<1>4. /\ watched \in [Legs -> [proof : Proofs \cup {NoProof}, firstBlock : Nat]]
      /\ enqueued \subseteq JobIds /\ writing' \in JobIds \cup {NoJob}
      /\ writing' \in FireJobs => writing' \in enqueued
    BY <1>1, JobsTell DEF Invariant, Typed, TablesTypeOK, MarkedForItsJob
<1> QED
    BY <1>1, <1>3, <1>4, WorkerPreserves

-----------------------------------------------------------------------------
\* Steps that write the trades' tables and leave the rest alone.
LEMMA TablesPreserve ==
    ASSUME Invariant,
           UNCHANGED <<block, closedGroups, activations, enqueued, executed, watched, cancelling,
                       listed, asOf>>,
           writing' \in {writing, NoJob},
           finishing' \subseteq [job : FireJobs, next : 2 .. 4],
           \A f \in finishing' : f.job \in executed,
           legs' \in [Legs -> [status : Statuses, fireJob : FireJobs \cup {NoJob}]],
           operations' \in [Trades -> {"armed", "broadcast", "cancelled"}],
           MarkedForItsJob', RecordedExecutionIsReal'
    PROVE  Invariant'
<1> USE DEF Invariant, ActivatedLeg
<1>1. Typed'
  <2>1. TablesTypeOK'
      BY DEF Typed, TablesTypeOK, Unwatched
  <2> QED
      BY <2>1 DEF Typed
<1>2. OneLegActivates' /\ ExecutedActivated'
    BY DEF OneLegActivates, ExecutedActivated
<1> QED
    BY <1>1, <1>2

LEMMA SecondWritePreserves == ASSUME Invariant, SecondWrite PROVE Invariant'
<1> USE DEF SecondWrite, MarkFiring, chainVars, queueVars, Enqueue
<1>1. /\ writing \in JobIds /\ writing # NoJob /\ writing' = NoJob
      /\ UNCHANGED <<block, closedGroups, activations, operations, executed, finishing,
                     cancelling, listed, asOf>>
    BY DEF Invariant, Typed, TablesTypeOK
<1>2. NoJob \notin JobIds /\ NoJob \notin FireJobs /\ writing.leg \in Legs
      /\ (writing.kind = "fire" <=> writing \in FireJobs)
    BY <1>1, JobsTell
<1>3. CASE writing.kind # "fire"
  <2>1. /\ block \in block .. MaxBlock
        /\ enqueued \subseteq enqueued' /\ enqueued' \subseteq JobIds /\ legs' = legs
        /\ listed \subseteq Legs /\ cancelling \subseteq Trades
        /\ listed # {} => asOf \in 0 .. block - Confirmations
      BY <1>1, <1>3, ConditionalAssumption DEF Invariant, Typed, TablesTypeOK, ConditionalAssumption
  <2>2. Unwatched \in [proof : Proofs \cup {NoProof}, firstBlock : Nat]
      BY DEF Unwatched
  <2>3. /\ watched' \in [Legs -> [proof : Proofs \cup {NoProof}, firstBlock : Nat]]
        /\ \A l \in Legs : watched'[l] = watched[l] \/ watched'[l] = Unwatched
      BY <1>3, <2>2 DEF Invariant, Typed
  <2> QED
      BY <1>1, <1>2, <2>1, <2>3, WorkerPreserves
<1>4. CASE writing.kind = "fire"
  <2> DEFINE marked == [status |-> "firing", fireJob |-> writing]
  <2>1. /\ UNCHANGED <<watched, enqueued>> /\ writing \in FireJobs /\ writing \in enqueued
        /\ legs \in [Legs -> [status : Statuses, fireJob : FireJobs \cup {NoJob}]]
        /\ legs' = [legs EXCEPT ![writing.leg] = IF @.status = "armed" THEN marked ELSE @]
      BY <1>2, <1>4 DEF Invariant, Typed, TablesTypeOK, MarkedForItsJob
  <2>2. /\ legs' \in [Legs -> [status : Statuses, fireJob : FireJobs \cup {NoJob}]]
        /\ \A l \in Legs : legs'[l] =
              IF l = writing.leg /\ legs[l].status = "armed" THEN marked ELSE legs[l]
      BY <1>2, <2>1 DEF Statuses
  <2>3. MarkedForItsJob'
      BY <1>1, <1>2, <2>1, <2>2 DEF MarkedForItsJob, Invariant
  <2>4. RecordedExecutionIsReal'
      BY <1>1, <2>2 DEF RecordedExecutionIsReal, ActivatedLeg, Invariant
  <2> QED
      BY <1>1, <2>1, <2>2, <2>3, <2>4, TablesPreserve
         DEF Invariant, Typed, TablesTypeOK, ExecutedActivated
<1> QED
    BY <1>3, <1>4

\* What the id of a completed job finds.
LEMMA FiredLegs ==
    ASSUME Invariant, NEW j \in executed \cap FireJobs, NEW l \in FiredBy(j)
    PROVE  l = j.leg /\ ActivatedLeg(l) /\ legs[l].status \notin {"armed", "closed"}
<1>1. l \in Legs /\ legs[l].fireJob = j /\ j # NoJob
    BY JobsTell DEF FiredBy
<1> QED
    BY <1>1 DEF Invariant, MarkedForItsJob, ExecutedActivated

LEMMA StatusOnly ==
    ASSUME NEW l \in Legs, NEW s,
           legs \in [Legs -> [status : Statuses, fireJob : FireJobs \cup {NoJob}]]
    PROVE  /\ [legs[l] EXCEPT !.status = s].status = s
           /\ [legs[l] EXCEPT !.status = s].fireJob = legs[l].fireJob
    OBVIOUS

LEMMA FinishPreserves == ASSUME Invariant, NEW f \in finishing, Finish(f) PROVE Invariant'
<1> USE DEF Finish, chainVars, queueVars
<1> DEFINE j == f.job
<1>1. /\ f \in [job : FireJobs, next : 2 .. 4] /\ j \in executed \cap FireJobs
      /\ legs \in [Legs -> [status : Statuses, fireJob : FireJobs \cup {NoJob}]]
      /\ operations \in [Trades -> {"armed", "broadcast", "cancelled"}]
      /\ MarkedForItsJob /\ RecordedExecutionIsReal
    BY DEF Invariant, Typed, TablesTypeOK, ExecutedActivated
<1>2. /\ UNCHANGED <<block, closedGroups, activations, enqueued, executed, watched, cancelling,
                     listed, asOf, writing>>
      /\ finishing' \subseteq [job : FireJobs, next : 2 .. 4]
      /\ \A other \in finishing' : other.job \in executed
  <2>1. f.next < 4 => [f EXCEPT !.next = @ + 1] \in [job : FireJobs, next : 2 .. 4]
                      /\ [f EXCEPT !.next = @ + 1].job = j
      BY <1>1
  <2> QED
      BY <1>1, <2>1 DEF Invariant, Typed, TablesTypeOK, ExecutedActivated
<1>3. \A l \in FiredBy(j) : l \in Legs /\ ActivatedLeg(l) /\ legs[l].status \notin {"armed", "closed"}
    BY <1>1, FiredLegs DEF FiredBy
<1>4. CASE MarkExecuted(j)
  <2>1. /\ operations' = operations
        /\ legs' \in [Legs -> [status : Statuses, fireJob : FireJobs \cup {NoJob}]]
        /\ \A l \in Legs : legs'[l] =
              IF l \in FiredBy(j) THEN [legs[l] EXCEPT !.status = "executed"] ELSE legs[l]
      BY <1>1, <1>4 DEF MarkExecuted, Statuses
  <2>2. ASSUME NEW l \in Legs
        PROVE  legs'[l].fireJob = legs[l].fireJob
               /\ (legs'[l].status = legs[l].status
                   \/ (l \in FiredBy(j) /\ legs'[l].status = "executed"))
    <3>1. CASE l \in FiredBy(j)
        BY <1>1, <2>1, <3>1, StatusOnly
    <3>2. CASE l \notin FiredBy(j)
        BY <2>1, <3>2
    <3> QED
        BY <3>1, <3>2
  <2>3. MarkedForItsJob'
      BY <1>1, <1>2, <2>2, JobsTell DEF MarkedForItsJob, FiredBy
  <2>4. RecordedExecutionIsReal'
      BY <1>1, <1>2, <1>3, <2>1, <2>2 DEF RecordedExecutionIsReal, ActivatedLeg
  <2> QED
      BY <1>1, <1>2, <2>1, <2>3, <2>4, TablesPreserve
<1>5. CASE MarkBroadcast(j)
  <2>1. /\ legs' = legs
        /\ operations' \in [Trades -> {"armed", "broadcast", "cancelled"}]
        /\ \A t \in Trades : operations'[t] =
              IF \E l \in FiredBy(j) : TradeOf[l] = t THEN "broadcast" ELSE operations[t]
      BY <1>1, <1>5 DEF MarkBroadcast
  <2>2. MarkedForItsJob'
      BY <1>1, <1>2, <2>1 DEF MarkedForItsJob
  <2>3. RecordedExecutionIsReal'
      BY <1>1, <1>2, <1>3, <2>1 DEF RecordedExecutionIsReal, ActivatedLeg
  <2> QED
      BY <1>1, <1>2, <2>1, <2>2, <2>3, TablesPreserve
<1>6. CASE CloseOthers(j)
  <2> DEFINE closed(l) == l \in Armed \ FiredBy(j)
                          /\ \E other \in FiredBy(j) : TradeOf[other] = TradeOf[l]
  <2>1. /\ operations' = operations
        /\ legs' \in [Legs -> [status : Statuses, fireJob : FireJobs \cup {NoJob}]]
        /\ \A l \in Legs : legs'[l] =
              IF closed(l) THEN [legs[l] EXCEPT !.status = "closed"] ELSE legs[l]
      BY <1>1, <1>6 DEF CloseOthers, Statuses
  <2>2. ASSUME NEW l \in Legs
        PROVE  legs'[l].fireJob = legs[l].fireJob
               /\ (legs'[l].status = legs[l].status
                   \/ (closed(l) /\ legs[l].status = "armed" /\ legs'[l].status = "closed"))
    <3>1. CASE closed(l)
        BY <1>1, <2>1, <3>1, StatusOnly DEF Armed
    <3>2. CASE ~closed(l)
        BY <2>1, <3>2
    <3> QED
        BY <3>1, <3>2
  <2>3. MarkedForItsJob'
      BY <1>1, <1>2, <2>2 DEF MarkedForItsJob
  <2>4. RecordedExecutionIsReal'
      BY <1>1, <1>2, <1>3, <2>1, <2>2 DEF RecordedExecutionIsReal, ActivatedLeg
  <2> QED
      BY <1>1, <1>2, <2>1, <2>3, <2>4, TablesPreserve
<1> QED
    BY <1>4, <1>5, <1>6

LEMMA SubmitCancellationPreserves ==
    ASSUME Invariant, NEW t \in Trades, SubmitCancellation(t)
    PROVE  Invariant'
<1> USE DEF SubmitCancellation, chainVars, queueVars, workerVars
<1>1. /\ UNCHANGED <<block, closedGroups, activations, enqueued, executed, watched, cancelling,
                     listed, asOf, writing, finishing>>
      /\ legs \in [Legs -> [status : Statuses, fireJob : FireJobs \cup {NoJob}]]
      /\ finishing \subseteq [job : FireJobs, next : 2 .. 4]
      /\ \A f \in finishing : f.job \in executed
      /\ MarkedForItsJob /\ RecordedExecutionIsReal
    BY DEF Invariant, Typed, TablesTypeOK, ExecutedActivated
<1>2. /\ operations' \in [Trades -> {"armed", "broadcast", "cancelled"}]
      /\ \A other \in Trades : operations'[other] \in {operations[other], "cancelled"}
    BY DEF Invariant, Typed, TablesTypeOK
<1>3. /\ legs' \in [Legs -> [status : Statuses, fireJob : FireJobs \cup {NoJob}]]
      /\ \A l \in Legs : legs'[l].fireJob = legs[l].fireJob
                         /\ legs'[l].status \in {legs[l].status, "cancelled"}
    BY <1>1 DEF Statuses
<1>4. MarkedForItsJob'
    BY <1>1, <1>3 DEF MarkedForItsJob
<1>5. RecordedExecutionIsReal'
    BY <1>1, <1>2, <1>3 DEF RecordedExecutionIsReal, ActivatedLeg
<1> QED
    BY <1>1, <1>2, <1>3, <1>4, <1>5, TablesPreserve

-----------------------------------------------------------------------------
\* Steps of the controller: activations only grow, and by one leg of an open
\* trade, which is closed with it.
LEMMA ChainPreserves ==
    ASSUME Invariant, NEW j \in enqueued, Execute(j)
    PROVE  Invariant'
<1> USE DEF Execute, Call
<1>1. /\ j \in JobIds /\ j.leg \in Legs /\ j.leg \in DOMAIN TradeOf
      /\ (j.kind = "fire" <=> j \in FireJobs)
      /\ TradeOf \in [Legs -> Trades]
    BY JobsTell, ConditionalAssumption DEF Invariant, Typed, TablesTypeOK, ConditionalAssumption
<1>2. /\ UNCHANGED <<enqueued, tableVars, workerVars>> /\ block' = block
      /\ executed' = executed \cup {j}
    BY DEF Controller!Observe, Controller!Reset, FireBatch, Controller!Activate,
           Controller!chainVars
<1>3. CASE j \notin FireJobs
  <2>1. UNCHANGED <<activations, closedGroups>>
      BY <1>1, <1>3 DEF Controller!Observe, Controller!Reset
  <2>2. Typed' /\ OneLegActivates' /\ MarkedForItsJob' /\ RecordedExecutionIsReal'
      BY <1>2, <2>1 DEF Invariant, Typed, TablesTypeOK, tableVars, workerVars, OneLegActivates,
         ActivatedLeg, MarkedForItsJob, RecordedExecutionIsReal
  <2>3. ExecutedActivated'
      BY <1>2, <1>3, <2>1 DEF Invariant, ExecutedActivated, ActivatedLeg, workerVars
  <2> QED
      BY <2>2, <2>3 DEF Invariant
<1>4. CASE j \in FireJobs
  <2> DEFINE trade == TradeOf[j.leg]
  <2>1. /\ trade \notin closedGroups /\ closedGroups' = closedGroups \cup {trade}
        /\ activations' = [activations EXCEPT ![j.leg][trade] = @ + 1]
      BY <1>1, <1>4 DEF FireBatch, Controller!Activate, Controller!Activated
  <2>2. activations \in [Legs -> [Trades -> Nat]] /\ trade \in Trades
      BY <1>1 DEF Invariant, Typed
  <2>3. activations' \in [Legs -> [Trades -> Nat]]
    <3>1. [activations[j.leg] EXCEPT ![trade] = @ + 1] \in [Trades -> Nat]
        BY <1>1, <2>2
    <3>2. activations' = [activations EXCEPT ![j.leg] =
                            [activations[j.leg] EXCEPT ![trade] = @ + 1]]
        BY <2>1
    <3> QED
        BY <1>1, <2>2, <3>1, <3>2
  <2>4. /\ \A l \in Legs : ActivatedLeg(l)' <=> (ActivatedLeg(l) \/ l = j.leg)
        /\ \A l \in Legs : TradeOf[l] = trade => ~ActivatedLeg(l)
    <3>1. \A l \in Legs, t \in Trades : activations'[l][t] =
              IF l = j.leg /\ t = trade THEN activations[l][t] + 1 ELSE activations[l][t]
        BY <1>1, <2>1, <2>2
    <3>2. \A l \in Legs : activations[l][TradeOf[l]] \in Nat /\ TradeOf[l] \in Trades
        BY <1>1, <2>2
    <3>3. \A l \in Legs : TradeOf[l] = trade => ~ActivatedLeg(l)
        BY <2>1 DEF Invariant, OneLegActivates
    <3> QED
        BY <3>1, <3>2, <3>3 DEF ActivatedLeg
  <2>5. Typed'
      BY <1>2, <2>3 DEF Invariant, Typed, TablesTypeOK, tableVars, workerVars
  <2>6. OneLegActivates'
      BY <2>1, <2>4 DEF Invariant, OneLegActivates
  <2>7. ExecutedActivated'
      BY <1>1, <1>2, <2>4, JobsTell DEF Invariant, ExecutedActivated, workerVars, Typed, TablesTypeOK
  <2>8. MarkedForItsJob'
      BY <1>2 DEF Invariant, MarkedForItsJob, tableVars, workerVars
  <2>9. RecordedExecutionIsReal'
      BY <1>2, <2>4 DEF Invariant, RecordedExecutionIsReal, tableVars
  <2> QED
      BY <2>5, <2>6, <2>7, <2>8, <2>9 DEF Invariant
<1> QED
    BY <1>3, <1>4

LEMMA CompletePreserves ==
    ASSUME Invariant, NEW j \in FireJobs, Complete(j)
    PROVE  Invariant'
<1> USE DEF Complete, chainVars, queueVars, tableVars
<1>1. /\ [job |-> j, next |-> 2] \in [job : FireJobs, next : 2 .. 4]
      /\ finishing' = finishing \cup {[job |-> j, next |-> 2]}
    OBVIOUS
<1>2. /\ finishing' \subseteq [job : FireJobs, next : 2 .. 4]
      /\ \A f \in finishing' : f.job \in executed
    BY <1>1 DEF Invariant, Typed, TablesTypeOK, ExecutedActivated
<1>3. MarkedForItsJob' /\ RecordedExecutionIsReal'
    BY DEF Invariant, MarkedForItsJob, RecordedExecutionIsReal, ActivatedLeg
<1> QED
    BY <1>2, <1>3, TablesPreserve DEF Invariant, Typed, TablesTypeOK

LEMMA Invariance == Spec => []Invariant
<1>1. Init => Invariant
    BY InitEstablishes
<1>2. Invariant /\ [Next]_vars => Invariant'
  <2> SUFFICES ASSUME Invariant, [Next]_vars PROVE Invariant'
      OBVIOUS
  <2>1. CASE \E l \in Legs : Evaluate(l)
      BY <2>1, EvaluatePreserves
  <2>2. CASE SecondWrite
      BY <2>2, SecondWritePreserves
  <2>3. CASE \E j \in enqueued : Execute(j)
      BY <2>3, ChainPreserves
  <2>4. CASE \E j \in enqueued \cap FireJobs : Complete(j)
      BY <2>4, CompletePreserves
  <2>5. CASE \E f \in finishing : Finish(f)
      BY <2>5, FinishPreserves
  <2>6. CASE \E t \in Trades : SubmitCancellation(t)
      BY <2>6, SubmitCancellationPreserves
  <2>7. CASE \/ BeginCycle \/ NewBlock \/ (\E t \in Trades : CreateCancellation(t)) \/ Crash
             \/ UNCHANGED vars
      BY <2>7, OthersPreserve
  <2> QED
      BY <2>1, <2>2, <2>3, <2>4, <2>5, <2>6, <2>7 DEF Next
<1> QED
    BY <1>1, <1>2, PTL DEF Spec

-----------------------------------------------------------------------------
\* A recorded execution, broadcast or closure happened (markComplete and the
\* matcher's batch).
THEOREM RecordsAreTrue == Spec => []RecordedExecutionIsReal
<1>1. Invariant => RecordedExecutionIsReal
    BY DEF Invariant
<1> QED
    BY <1>1, Invariance, PTL

\* Two legs of a trade are never both recorded as executed (closedGroups in
\* activate, fire_job_id in markComplete).
THEOREM LegsExclude == Spec => []OneLegExecutes
<1>1. Invariant => OneLegExecutes
    BY DEF Invariant, OneLegActivates, RecordedExecutionIsReal, OneLegExecutes
<1> QED
    BY <1>1, Invariance, PTL

\* An executed or closed leg is never written again (the conditions of the
\* UPDATE statements on trade_triggers).
THEOREM SettledLegsRemain == Spec => SettledLegsStay
<1>1. Invariant /\ [Next]_vars =>
        [\A l \in Legs : legs[l].status \in {"executed", "closed"} =>
            legs'[l].status = legs[l].status]_vars
  <2> SUFFICES ASSUME Invariant, Next, NEW l \in Legs, legs[l].status \in {"executed", "closed"}
               PROVE  legs'[l].status = legs[l].status
      OBVIOUS
  <2>1. legs \in [Legs -> [status : Statuses, fireJob : FireJobs \cup {NoJob}]]
      BY DEF Invariant, Typed, TablesTypeOK
  <2>2. CASE SecondWrite
      BY <2>1, <2>2 DEF SecondWrite, MarkFiring, tableVars
  <2>3. ASSUME NEW f \in finishing, Finish(f) PROVE legs'[l].status = legs[l].status
    <3>1. f.job \in executed \cap FireJobs
        BY DEF Invariant, Typed, TablesTypeOK, ExecutedActivated
    <3>2. CASE l \in FiredBy(f.job)
      <4>1. legs[l].status = "executed" /\ l \notin Armed
          BY <3>1, <3>2, FiredLegs DEF Armed
      <4>2. legs'[l] \in {legs[l], [legs[l] EXCEPT !.status = "executed"]}
          BY <2>3, <4>1 DEF Finish, MarkExecuted, MarkBroadcast, CloseOthers
      <4> QED
          BY <2>1, <4>1, <4>2, StatusOnly
    <3>3. CASE l \notin FiredBy(f.job)
        BY <2>3, <3>3 DEF Finish, MarkExecuted, MarkBroadcast, CloseOthers, Armed
    <3> QED
        BY <3>2, <3>3
  <2>4. ASSUME NEW t \in Trades, SubmitCancellation(t) PROVE legs'[l].status = legs[l].status
      BY <2>4 DEF SubmitCancellation
  <2>5. legs' = legs \/ SecondWrite \/ (\E f \in finishing : Finish(f))
        \/ (\E t \in Trades : SubmitCancellation(t))
      BY DEF Next, BeginCycle, Evaluate, ConditionFalse, ConditionNew, ConditionStands,
         NothingNew, Execute, Complete, CreateCancellation, NewBlock, Crash, tableVars
  <2> QED
      BY <2>2, <2>3, <2>4, <2>5
<1> QED
    BY <1>1, Invariance, PTL DEF Spec, SettledLegsStay

-----------------------------------------------------------------------------
\* What is executed is recorded: the trace of a job through the tables.

\* A leg that was not marked for a job yet, or never will be.
Unsettled(l) == legs[l].fireJob = NoJob /\ legs[l].status \in {"armed", "closed", "cancelled"}

\* The evaluator's cycle is about legs not yet marked, each at most once.
CycleIsFresh ==
    /\ \A l \in listed : Unsettled(l)
    /\ writing \in FireJobs => Unsettled(writing.leg) /\ writing.leg \notin listed

CancelledTradesRest ==
    \A l \in Legs : legs[l].status = "cancelled" =>
        /\ operations[TradeOf[l]] # "armed"
        /\ \A other \in Armed : TradeOf[other] # TradeOf[l]

\* The leg of a queued job is marked for it, will be, or will not for a reason.
JobsAreTraced ==
    \A j \in enqueued \cap FireJobs :
        \/ legs[j.leg].fireJob = j
        \/ writing = j
        \/ j \in unmarked
        \/ legs[j.leg].fireJob = NoJob /\ legs[j.leg].status \in {"closed", "cancelled"}

FinishingIsRecorded ==
    \A f \in finishing : f.job \notin unmarked =>
        /\ f.next >= 3 => legs[f.job.leg].status \in {"executed", "cancelled"}
        /\ f.next = 4 => operations[TradeOf[f.job.leg]] # "armed"

HistoryTyped == completed \subseteq FireJobs /\ unmarked \subseteq FireJobs

RecordInvariant ==
    /\ HistoryTyped
    /\ CycleIsFresh
    /\ CancelledTradesRest
    /\ JobsAreTraced
    /\ FinishingIsRecorded
    /\ CompletionIsRecorded

LEMMA RecordInitially == ASSUME Init PROVE RecordInvariant
    BY JobsTell DEF Init, RecordInvariant, HistoryTyped, CycleIsFresh, CancelledTradesRest,
       JobsAreTraced, FinishingIsRecorded, CompletionIsRecorded

\* Steps that leave legs and operations alone.
LEMMA TablesAloneKeepRecord ==
    ASSUME RecordInvariant, UNCHANGED <<legs, operations, completed>>,
           unmarked \subseteq unmarked', unmarked' \subseteq FireJobs,
           \A f \in finishing' : f \in finishing \/ f.next = 2,
           CycleIsFresh', JobsAreTraced'
    PROVE  RecordInvariant'
<1> USE DEF RecordInvariant
<1>1. HistoryTyped'
    BY DEF HistoryTyped
<1>2. CancelledTradesRest'
    BY DEF CancelledTradesRest, Armed
<1>3. FinishingIsRecorded'
    BY DEF FinishingIsRecorded
<1>4. CompletionIsRecorded'
    BY DEF CompletionIsRecorded, Armed
<1> QED
    BY <1>1, <1>2, <1>3, <1>4

LEMMA EvaluateKeepsRecord ==
    ASSUME Invariant, RecordInvariant, NEW l \in Legs, Evaluate(l)
    PROVE  RecordInvariant'
<1> USE DEF LooksAt, chainVars, queueVars, Enqueue, history
<1>1. /\ l \in listed /\ listed' = listed \ {l} /\ writing = NoJob
      /\ UNCHANGED <<legs, operations, finishing, completed, unmarked>>
    BY DEF Evaluate, ConditionFalse, ConditionNew, ConditionStands, NothingNew
<1>2. /\ unmarked \subseteq FireJobs /\ NoJob \notin FireJobs /\ Unsettled(l)
      /\ \A other \in listed : Unsettled(other)
    BY <1>1, JobsTell DEF RecordInvariant, HistoryTyped, CycleIsFresh
<1>3. \A other : Unsettled(other)' <=> Unsettled(other)
    BY <1>1 DEF Unsettled
<1>4. /\ asOf \in 0 .. MaxBlock
      /\ \A p \in Proofs : /\ ObserveJob(l, p) \notin FireJobs
                           /\ FireJob(l, p) \in FireJobs /\ FireJob(l, p).leg = l
      /\ ResetJob(l, asOf) \notin FireJobs
    BY <1>1, ConfirmedBlock, JobsTell DEF Invariant
<1>5. CASE ConditionStands(l)
  <2> DEFINE j == FireJob(l, watched[l].proof)
  <2>1. watched[l].proof \in Proofs
      BY <1>5 DEF ConditionStands, Invariant, Typed, TablesTypeOK
  <2>2. /\ j \in FireJobs /\ j.leg = l /\ writing' = j
        /\ enqueued' = enqueued \cup {j}
      BY <1>4, <1>5, <2>1 DEF ConditionStands
  <2> HIDE DEF j
  <2>3. CycleIsFresh'
      BY <1>1, <1>2, <1>3, <2>2 DEF CycleIsFresh
  <2>4. JobsAreTraced'
      BY <1>1, <1>2, <2>2 DEF JobsAreTraced, RecordInvariant
  <2> QED
      BY <1>1, <1>2, <2>3, <2>4, TablesAloneKeepRecord
<1>6. ASSUME writing' \notin FireJobs, enqueued' \cap FireJobs = enqueued \cap FireJobs
      PROVE  RecordInvariant'
  <2>1. CycleIsFresh'
      BY <1>1, <1>2, <1>3, <1>6 DEF CycleIsFresh
  <2>2. JobsAreTraced'
      BY <1>1, <1>2, <1>6 DEF JobsAreTraced, RecordInvariant
  <2> QED
      BY <1>1, <1>2, <2>1, <2>2, TablesAloneKeepRecord
<1>7. CASE ConditionFalse(l)
    BY <1>4, <1>6, <1>7 DEF ConditionFalse
<1>8. CASE \E p \in Proofs : ConditionNew(l, p)
    BY <1>4, <1>6, <1>8 DEF ConditionNew
<1>9. CASE NothingNew(l)
    BY <1>1, <1>2, <1>6, <1>9 DEF NothingNew
<1> QED
    BY <1>5, <1>7, <1>8, <1>9 DEF Evaluate

\* The start of a cycle, a new block, a call, a completion's start, a
\* cancellation's preparation, a crash.
LEMMA OthersKeepRecord ==
    ASSUME Invariant, RecordInvariant,
           \/ BeginCycle \/ NewBlock \/ (\E t \in Trades : CreateCancellation(t)) \/ Crash
           \/ (\E j \in enqueued : Execute(j))
           \/ (\E j \in enqueued \cap FireJobs : Complete(j))
           \/ UNCHANGED vars
    PROVE  RecordInvariant'
<1> USE DEF chainVars, queueVars, tableVars, workerVars, history
<1>1. /\ UNCHANGED <<legs, operations, completed, enqueued>>
      /\ \A f \in finishing' : f \in finishing \/ f.next = 2
    BY DEF BeginCycle, NewBlock, CreateCancellation, Crash, Execute, Complete, vars
<1>2. /\ unmarked \subseteq FireJobs /\ NoJob \notin FireJobs
      /\ CycleIsFresh /\ JobsAreTraced
    BY JobsTell DEF RecordInvariant, HistoryTyped
<1>3. \A l : Unsettled(l)' <=> Unsettled(l)
    BY <1>1 DEF Unsettled
<1>4. CASE BeginCycle
  <2>1. /\ listed' = Armed /\ writing = NoJob /\ UNCHANGED <<writing, unmarked>>
      BY <1>4 DEF BeginCycle
  <2>2. \A l \in Armed : Unsettled(l)
      BY DEF Armed, Unsettled, Invariant, MarkedForItsJob
  <2>3. CycleIsFresh' /\ JobsAreTraced'
      BY <1>1, <1>2, <1>3, <2>1, <2>2 DEF CycleIsFresh, JobsAreTraced
  <2> QED
      BY <1>1, <1>2, <2>1, <2>3, TablesAloneKeepRecord
<1>5. CASE Crash
  <2>1. /\ listed' = {} /\ writing' = NoJob
        /\ unmarked' = unmarked \cup ({writing} \cap FireJobs)
      BY <1>5 DEF Crash
  <2>2. CycleIsFresh' /\ JobsAreTraced'
      BY <1>1, <1>2, <2>1 DEF CycleIsFresh, JobsAreTraced
  <2>3. unmarked \subseteq unmarked' /\ unmarked' \subseteq FireJobs
      BY <1>2, <2>1
  <2> QED
      BY <1>1, <2>2, <2>3, TablesAloneKeepRecord
<1>6. CASE UNCHANGED <<listed, writing, unmarked>>
  <2>1. CycleIsFresh' /\ JobsAreTraced'
      BY <1>1, <1>2, <1>3, <1>6 DEF CycleIsFresh, JobsAreTraced
  <2> QED
      BY <1>1, <1>2, <1>6, <2>1, TablesAloneKeepRecord
<1>7. BeginCycle \/ Crash \/ UNCHANGED <<listed, writing, unmarked>>
    BY DEF NewBlock, CreateCancellation, Execute, Complete, vars
<1> QED
    BY <1>4, <1>5, <1>6, <1>7

LEMMA SecondWriteKeepsRecord ==
    ASSUME Invariant, RecordInvariant, SecondWrite
    PROVE  RecordInvariant'
<1> USE DEF SecondWrite, MarkFiring, chainVars, queueVars, history, Enqueue
<1>1. /\ writing \in JobIds /\ writing' = NoJob
      /\ UNCHANGED <<operations, finishing, listed, completed, unmarked>>
      /\ NoJob \notin FireJobs /\ writing.leg \in Legs
      /\ (writing.kind = "fire" <=> writing \in FireJobs)
    BY JobsTell DEF Invariant, Typed, TablesTypeOK
<1>2. /\ unmarked \subseteq FireJobs
      /\ CycleIsFresh /\ JobsAreTraced
    BY DEF RecordInvariant, HistoryTyped
<1>3. CASE writing \notin FireJobs
  <2>1. legs' = legs /\ enqueued' \cap FireJobs = enqueued \cap FireJobs
      BY <1>1, <1>3
  <2>2. \A l : Unsettled(l)' <=> Unsettled(l)
      BY <2>1 DEF Unsettled
  <2>3. CycleIsFresh' /\ JobsAreTraced'
      BY <1>1, <1>2, <1>3, <2>1, <2>2 DEF CycleIsFresh, JobsAreTraced
  <2> QED
      BY <1>1, <1>2, <2>1, <2>3, TablesAloneKeepRecord
<1>4. CASE writing \in FireJobs
  <2> DEFINE marked == [status |-> "firing", fireJob |-> writing]
             own    == writing.leg
  <2>1. /\ enqueued' = enqueued
        /\ \A l \in Legs : legs'[l] =
              IF l = own /\ legs[l].status = "armed" THEN marked ELSE legs[l]
        /\ Unsettled(own) /\ own \notin listed /\ listed \subseteq Legs
      BY <1>1, <1>2, <1>4 DEF Invariant, Typed, TablesTypeOK, CycleIsFresh
  <2>2. \A l \in Legs : l # own => legs'[l] = legs[l]
      BY <2>1
  <2>3. \A l \in Legs : legs[l].status # "armed" => legs'[l] = legs[l]
      BY <2>1
  <2>4. Armed' \subseteq Armed
      BY <2>1 DEF Armed
  <2>5. CycleIsFresh'
      BY <1>1, <1>2, <2>1, <2>2 DEF CycleIsFresh, Unsettled
  <2>6. JobsAreTraced'
    <3> SUFFICES ASSUME NEW j \in enqueued' \cap FireJobs
                 PROVE  \/ legs'[j.leg].fireJob = j
                        \/ writing' = j
                        \/ j \in unmarked'
                        \/ /\ legs'[j.leg].fireJob = NoJob
                           /\ legs'[j.leg].status \in {"closed", "cancelled"}
        BY DEF JobsAreTraced
    <3>1. j \in enqueued \cap FireJobs /\ j \in JobIds /\ j.leg \in Legs /\ j # NoJob
        BY <2>1, JobsTell
    <3>2. CASE j = writing
        BY <2>1, <3>1, <3>2 DEF Unsettled
    <3>3. CASE j # writing
      <4>1. \/ legs[j.leg].fireJob = j \/ j \in unmarked
            \/ legs[j.leg].fireJob = NoJob /\ legs[j.leg].status \in {"closed", "cancelled"}
          BY <1>2, <3>1, <3>3 DEF JobsAreTraced
      <4>2. legs[j.leg].fireJob = j => j.leg # own
          BY <2>1, <3>1 DEF Unsettled
      <4> QED
          BY <1>1, <2>2, <2>3, <3>1, <4>1, <4>2
    <3> QED
        BY <3>2, <3>3
  <2>7. CancelledTradesRest'
      BY <1>1, <2>1, <2>3, <2>4 DEF CancelledTradesRest, RecordInvariant
  <2>8. FinishingIsRecorded'
    <3>1. \A f \in finishing : f.job.leg \in Legs
        BY DEF Invariant, Typed, TablesTypeOK, FireJobs
    <3> QED
        BY <1>1, <2>3, <3>1 DEF FinishingIsRecorded, RecordInvariant
  <2>9. CompletionIsRecorded'
    <3>1. \A j \in completed : j.leg \in Legs
        BY DEF RecordInvariant, HistoryTyped, FireJobs
    <3> QED
        BY <1>1, <2>3, <2>4, <3>1 DEF CompletionIsRecorded, RecordInvariant
  <2> QED
      BY <1>1, <2>5, <2>6, <2>7, <2>8, <2>9 DEF RecordInvariant, HistoryTyped
<1> QED
    BY <1>3, <1>4

\* Steps that write the tables after the evaluator has marked its legs: they arm
\* nothing, and give no leg another job.
LEMMA LaterWritesKeepRecord ==
    ASSUME RecordInvariant, Invariant,
           UNCHANGED <<listed, writing, enqueued>>,
           unmarked \subseteq unmarked', unmarked' \subseteq FireJobs, completed' \subseteq FireJobs,
           \A l \in Legs : legs'[l].fireJob = legs[l].fireJob,
           \A l \in Legs : Unsettled(l) => legs'[l].status \in {legs[l].status, "closed", "cancelled"},
           Armed' \subseteq Armed,
           CancelledTradesRest', FinishingIsRecorded', CompletionIsRecorded'
    PROVE  RecordInvariant'
<1>1. \A l \in Legs : Unsettled(l) => Unsettled(l)'
    BY DEF Unsettled
<1>2. listed \subseteq Legs /\ (writing \in FireJobs => writing.leg \in Legs)
    BY DEF Invariant, Typed, TablesTypeOK, FireJobs
<1>3. CycleIsFresh'
    BY <1>1, <1>2 DEF CycleIsFresh, RecordInvariant
<1>4. JobsAreTraced'
  <2>1. \A j \in FireJobs : j.leg \in Legs
      BY DEF FireJobs
  <2>2. \A l \in Legs : legs[l].fireJob = NoJob /\ legs[l].status \in {"closed", "cancelled"}
          => legs'[l].fireJob = NoJob /\ legs'[l].status \in {"closed", "cancelled"}
      BY DEF Unsettled
  <2> QED
      BY <2>1, <2>2 DEF JobsAreTraced, RecordInvariant
<1> QED
    BY <1>3, <1>4 DEF RecordInvariant, HistoryTyped

LEMMA SubmitCancellationKeepsRecord ==
    ASSUME Invariant, RecordInvariant, NEW t \in Trades, SubmitCancellation(t)
    PROVE  RecordInvariant'
<1> USE DEF SubmitCancellation, chainVars, queueVars, workerVars, history
<1>1. /\ UNCHANGED <<enqueued, listed, writing, finishing, completed, unmarked>>
      /\ legs \in [Legs -> [status : Statuses, fireJob : FireJobs \cup {NoJob}]]
      /\ operations \in [Trades -> {"armed", "broadcast", "cancelled"}]
      /\ TradeOf \in [Legs -> Trades]
      /\ HistoryTyped /\ CancelledTradesRest /\ FinishingIsRecorded /\ CompletionIsRecorded
    BY ConditionalAssumption
       DEF Invariant, Typed, TablesTypeOK, RecordInvariant, ConditionalAssumption
<1>2. /\ operations'[t] = "cancelled"
      /\ \A other \in Trades : operations'[other] # "armed" \/ operations'[other] = operations[other]
    BY <1>1
<1>3. \A l \in Legs :
        /\ legs'[l].fireJob = legs[l].fireJob
        /\ \/ legs'[l].status = legs[l].status
           \/ legs'[l].status = "cancelled" /\ TradeOf[l] = t
              /\ legs[l].status \in {"armed", "firing"}
        /\ TradeOf[l] = t => legs'[l].status # "armed"
    BY <1>1
<1>4. Armed' \subseteq Armed /\ \A l \in Armed' : TradeOf[l] # t
    BY <1>3 DEF Armed
<1>5. CancelledTradesRest'
  <2> SUFFICES ASSUME NEW l \in Legs, legs'[l].status = "cancelled"
               PROVE  /\ operations'[TradeOf[l]] # "armed"
                      /\ \A other \in Armed' : TradeOf[other] # TradeOf[l]
      BY DEF CancelledTradesRest
  <2>1. CASE TradeOf[l] = t
      BY <1>2, <1>4, <2>1
  <2>2. CASE TradeOf[l] # t
      BY <1>1, <1>2, <1>3, <1>4, <2>2 DEF CancelledTradesRest
  <2> QED
      BY <2>1, <2>2
<1>6. FinishingIsRecorded'
  <2>1. \A f \in finishing : f.job.leg \in Legs
      BY DEF Invariant, Typed, TablesTypeOK, FireJobs
  <2> QED
      BY <1>1, <1>2, <1>3, <2>1 DEF FinishingIsRecorded
<1>7. CompletionIsRecorded'
  <2>1. \A j \in completed : j.leg \in Legs
      BY <1>1 DEF HistoryTyped, FireJobs
  <2> QED
      BY <1>1, <1>2, <1>3, <1>4, <2>1 DEF CompletionIsRecorded
<1>8. \A l \in Legs : Unsettled(l) => legs'[l].status \in {legs[l].status, "closed", "cancelled"}
    BY <1>3
<1> QED
    BY <1>1, <1>3, <1>4, <1>5, <1>6, <1>7, <1>8, LaterWritesKeepRecord DEF HistoryTyped

\* A job that went through and whose leg is settled found that leg by its id.
LEMMA SettledByItsJob ==
    ASSUME Invariant, RecordInvariant, NEW j \in executed \cap FireJobs, j \notin unmarked,
           writing # j \/ legs[j.leg].status \in {"firing", "executed"}
    PROVE  j.leg \in Legs /\ (j.leg \in FiredBy(j) \/ legs[j.leg].status = "cancelled")
<1>1. j \in enqueued /\ j.leg \in Legs /\ j \in JobIds /\ j # NoJob
    BY JobsTell DEF Invariant, Typed, TablesTypeOK
<1>2. writing # j
  <2>1. CASE writing = j
      BY <1>1, <2>1 DEF RecordInvariant, CycleIsFresh, Unsettled
  <2> QED
      BY <2>1
<1>3. \/ legs[j.leg].fireJob = j
      \/ legs[j.leg].status \in {"closed", "cancelled"}
    BY <1>1, <1>2 DEF RecordInvariant, JobsAreTraced
<1>4. legs[j.leg].status # "closed"
    BY <1>1 DEF Invariant, ExecutedActivated, RecordedExecutionIsReal, OneLegActivates
<1> QED
    BY <1>1, <1>3, <1>4 DEF FiredBy

LEMMA FinishKeepsRecord ==
    ASSUME Invariant, RecordInvariant, NEW f \in finishing, Finish(f)
    PROVE  RecordInvariant'
<1> USE DEF Finish, chainVars, queueVars
<1> DEFINE j == f.job
           next == [f EXCEPT !.next = @ + 1]
<1>1. /\ f \in [job : FireJobs, next : 2 .. 4] /\ j \in executed \cap FireJobs
      /\ j \in FireJobs /\ j.leg \in Legs
      /\ legs \in [Legs -> [status : Statuses, fireJob : FireJobs \cup {NoJob}]]
      /\ operations \in [Trades -> {"armed", "broadcast", "cancelled"}]
      /\ TradeOf \in [Legs -> Trades]
      /\ \A other \in finishing : other.job \in FireJobs /\ other.job.leg \in Legs
    BY ConditionalAssumption
       DEF Invariant, Typed, TablesTypeOK, ExecutedActivated, FireJobs, ConditionalAssumption
<1>2. /\ HistoryTyped /\ CancelledTradesRest /\ FinishingIsRecorded /\ CompletionIsRecorded
      /\ \A c \in completed : c \in FireJobs /\ c.leg \in Legs
    BY DEF RecordInvariant, HistoryTyped, FireJobs
<1>3. UNCHANGED <<enqueued, listed, writing>>
    OBVIOUS
<1>4. /\ unmarked' = unmarked \cup (IF f.next = 2 /\ writing = j THEN {j} ELSE {})
      /\ completed' = completed \cup (IF f.next = 4 THEN {j} ELSE {})
      /\ finishing' = (finishing \ {f}) \cup (IF f.next < 4 THEN {next} ELSE {})
      /\ f.next < 4 => next.job = j /\ next.next = f.next + 1
    BY <1>1
<1>5. unmarked \subseteq unmarked' /\ unmarked' \subseteq FireJobs /\ completed' \subseteq FireJobs
    BY <1>1, <1>2, <1>4 DEF HistoryTyped
<1>6. \A l \in FiredBy(j) : /\ l = j.leg /\ l \in Legs
                            /\ legs[l].status \notin {"armed", "closed"}
                            /\ legs[l].fireJob # NoJob
  <2>1. j # NoJob
      BY <1>1, JobsTell
  <2> QED
      BY <1>1, <2>1, FiredLegs DEF FiredBy
<1> HIDE DEF j, next
<1>7. CASE f.next = 2
  <2>1. MarkExecuted(j) /\ completed' = completed
      BY <1>4, <1>7 DEF j
  <2>2. /\ operations' = operations
        /\ \A l \in Legs : /\ legs'[l].fireJob = legs[l].fireJob
                           /\ l \in FiredBy(j) => legs'[l].status = "executed"
                           /\ l \notin FiredBy(j) => legs'[l] = legs[l]
    <3>1. /\ operations' = operations
          /\ \A l \in Legs : legs'[l] =
                IF l \in FiredBy(j) THEN [legs[l] EXCEPT !.status = "executed"] ELSE legs[l]
        BY <2>1 DEF MarkExecuted
    <3>2. \A l \in Legs : l \in FiredBy(j) => legs'[l] = [legs[l] EXCEPT !.status = "executed"]
        BY <3>1
    <3>3. \A l \in Legs : l \notin FiredBy(j) => legs'[l] = legs[l]
        BY <3>1
    <3>4. ASSUME NEW l \in Legs
          PROVE  /\ legs'[l].fireJob = legs[l].fireJob
                 /\ l \in FiredBy(j) => legs'[l].status = "executed"
      <4>1. CASE l \in FiredBy(j)
        <5>1. legs'[l] = [legs[l] EXCEPT !.status = "executed"]
            BY <3>2, <4>1
        <5>2. /\ [legs[l] EXCEPT !.status = "executed"].status = "executed"
              /\ [legs[l] EXCEPT !.status = "executed"].fireJob = legs[l].fireJob
            BY <1>1
        <5> QED
            BY <5>1, <5>2
      <4>2. CASE l \notin FiredBy(j)
          BY <3>3, <4>2
      <4> QED
          BY <4>1, <4>2
    <3> QED
        BY <3>1, <3>3, <3>4
  <2>3. Armed' \subseteq Armed
      BY <2>2 DEF Armed
  <2>4. \A l \in Legs : legs[l].status \in {"executed", "cancelled"} =>
            legs'[l].status \in {"executed", "cancelled"}
      BY <2>2
  <2>5. CancelledTradesRest'
    <3>1. \A l \in Legs : legs'[l].status = "cancelled" => legs[l].status = "cancelled"
        BY <2>2
    <3> QED
        BY <1>2, <2>2, <2>3, <3>1 DEF CancelledTradesRest
  <2>6. FinishingIsRecorded'
    <3>1. \A other \in finishing' : other \in finishing \/ (other.job = j /\ other.next = 3)
        BY <1>4, <1>7
    <3>2. j \notin unmarked' => legs'[j.leg].status \in {"executed", "cancelled"}
      <4> SUFFICES ASSUME j \notin unmarked'
                   PROVE  legs'[j.leg].status \in {"executed", "cancelled"}
          OBVIOUS
      <4>1. j \notin unmarked /\ writing # j
          BY <1>4, <1>7
      <4>2. j \in executed \cap FireJobs
          BY <1>1 DEF j
      <4>3. j.leg \in Legs /\ (j.leg \in FiredBy(j) \/ legs[j.leg].status = "cancelled")
          BY <4>1, <4>2, SettledByItsJob
      <4> QED
          BY <2>2, <2>4, <4>3
    <3> QED
        BY <1>1, <1>2, <1>5, <2>2, <2>4, <3>1, <3>2 DEF FinishingIsRecorded
  <2>7. CompletionIsRecorded'
      BY <1>2, <1>5, <2>1, <2>2, <2>3, <2>4 DEF CompletionIsRecorded
  <2>8. \A l \in Legs : Unsettled(l) => legs'[l].status \in {legs[l].status, "closed", "cancelled"}
      BY <1>6, <2>2 DEF Unsettled
  <2> QED
      BY <1>3, <1>5, <2>2, <2>3, <2>5, <2>6, <2>7, <2>8, LaterWritesKeepRecord
<1>8. CASE f.next = 3
  <2>1. MarkBroadcast(j) /\ completed' = completed /\ unmarked' = unmarked
      BY <1>4, <1>8 DEF j
  <2>2. /\ legs' = legs
        /\ \A t \in Trades : operations'[t] =
              IF \E l \in FiredBy(j) : TradeOf[l] = t THEN "broadcast" ELSE operations[t]
      BY <2>1 DEF MarkBroadcast
  <2>3. Armed' = Armed
      BY <2>2 DEF Armed
  <2>4. \A t \in Trades : operations[t] # "armed" => operations'[t] # "armed"
      BY <2>2
  <2>5. CancelledTradesRest'
      BY <1>1, <1>2, <2>2, <2>3, <2>4 DEF CancelledTradesRest
  <2>6. FinishingIsRecorded'
    <3>1. \A other \in finishing' : other \in finishing \/ (other.job = j /\ other.next = 4)
        BY <1>4, <1>8
    <3>2. j \notin unmarked =>
            /\ legs[j.leg].status \in {"executed", "cancelled"}
            /\ operations'[TradeOf[j.leg]] # "armed"
      <4> SUFFICES ASSUME j \notin unmarked
                   PROVE  /\ legs[j.leg].status \in {"executed", "cancelled"}
                          /\ operations'[TradeOf[j.leg]] # "armed"
          OBVIOUS
      <4>1. legs[j.leg].status \in {"executed", "cancelled"} /\ j.leg \in Legs
            /\ j \in executed \cap FireJobs
          BY <1>1, <1>2, <1>8 DEF FinishingIsRecorded, j
      <4>2. CASE legs[j.leg].status = "cancelled"
          BY <1>1, <1>2, <2>4, <4>1, <4>2 DEF CancelledTradesRest
      <4>3. CASE legs[j.leg].status = "executed"
        <5>1. j.leg \in FiredBy(j)
            BY <4>1, <4>3, SettledByItsJob
        <5> QED
            BY <1>1, <2>2, <4>1, <5>1
      <4> QED
          BY <4>1, <4>2, <4>3
    <3> QED
        BY <1>1, <1>2, <2>1, <2>2, <2>4, <3>1, <3>2 DEF FinishingIsRecorded
  <2>7. CompletionIsRecorded'
      BY <1>1, <1>2, <2>1, <2>2, <2>3, <2>4 DEF CompletionIsRecorded
  <2> QED
      BY <1>3, <1>5, <2>2, <2>3, <2>5, <2>6, <2>7, LaterWritesKeepRecord
<1>9. CASE f.next = 4
  <2>1. CloseOthers(j) /\ unmarked' = unmarked /\ completed' = completed \cup {j}
      BY <1>4, <1>9 DEF j
  <2> DEFINE closed(l) == l \in Armed \ FiredBy(j)
                          /\ \E other \in FiredBy(j) : TradeOf[other] = TradeOf[l]
  <2>2. /\ operations' = operations
        /\ \A l \in Legs : /\ legs'[l].fireJob = legs[l].fireJob
                           /\ closed(l) => legs'[l].status = "closed"
                           /\ ~closed(l) => legs'[l] = legs[l]
    <3>1. /\ operations' = operations
          /\ \A l \in Legs : legs'[l] =
                IF closed(l) THEN [legs[l] EXCEPT !.status = "closed"] ELSE legs[l]
        BY <2>1 DEF CloseOthers
    <3> HIDE DEF closed
    <3>2. \A l \in Legs : closed(l) => legs'[l] = [legs[l] EXCEPT !.status = "closed"]
        BY <3>1
    <3>3. \A l \in Legs : ~closed(l) => legs'[l] = legs[l]
        BY <3>1
    <3>4. ASSUME NEW l \in Legs
          PROVE  /\ legs'[l].fireJob = legs[l].fireJob
                 /\ closed(l) => legs'[l].status = "closed"
      <4>1. CASE closed(l)
        <5>1. legs'[l] = [legs[l] EXCEPT !.status = "closed"]
            BY <3>2, <4>1
        <5>2. /\ [legs[l] EXCEPT !.status = "closed"].status = "closed"
              /\ [legs[l] EXCEPT !.status = "closed"].fireJob = legs[l].fireJob
            BY <1>1
        <5> QED
            BY <5>1, <5>2
      <4>2. CASE ~closed(l)
          BY <3>3, <4>2
      <4> QED
          BY <4>1, <4>2
    <3> QED
        BY <3>1, <3>3, <3>4
  <2>3. Armed' \subseteq Armed
      BY <2>2 DEF Armed
  <2>4. \A l \in Legs : legs[l].status # "armed" => legs'[l] = legs[l]
      BY <2>2 DEF Armed
  <2>5. CancelledTradesRest'
    <3>1. \A l \in Legs : legs'[l].status = "cancelled" => legs[l].status = "cancelled"
        BY <2>2
    <3> QED
        BY <1>2, <2>2, <2>3, <3>1 DEF CancelledTradesRest
  <2>6. FinishingIsRecorded'
    <3>1. finishing' \subseteq finishing
        BY <1>4, <1>9
    <3> QED
        BY <1>1, <1>2, <2>1, <2>2, <2>4, <3>1 DEF FinishingIsRecorded
  <2>7. j \notin unmarked =>
          /\ legs[j.leg].status \in {"executed", "cancelled"} /\ j.leg \in Legs
          /\ operations[TradeOf[j.leg]] # "armed"
          /\ \A l \in Armed' : TradeOf[l] # TradeOf[j.leg]
    <3> SUFFICES ASSUME j \notin unmarked
                 PROVE  /\ legs[j.leg].status \in {"executed", "cancelled"} /\ j.leg \in Legs
                        /\ operations[TradeOf[j.leg]] # "armed"
                        /\ \A l \in Armed' : TradeOf[l] # TradeOf[j.leg]
        OBVIOUS
    <3>1. /\ legs[j.leg].status \in {"executed", "cancelled"} /\ j.leg \in Legs
          /\ operations[TradeOf[j.leg]] # "armed" /\ j \in executed \cap FireJobs
        BY <1>1, <1>2, <1>9 DEF FinishingIsRecorded, j
    <3>2. CASE legs[j.leg].status = "cancelled"
        BY <1>2, <2>3, <3>1, <3>2 DEF CancelledTradesRest
    <3>3. CASE legs[j.leg].status = "executed"
      <4>1. j.leg \in FiredBy(j)
          BY <3>1, <3>3, SettledByItsJob
      <4>2. \A l \in Armed' : l \in Legs /\ legs'[l].status = "armed"
          BY DEF Armed
      <4>3. \A l \in Armed' : ~closed(l)
          BY <2>2, <4>2
      <4>4. \A l \in Armed : l \notin FiredBy(j)
          BY <1>6 DEF Armed
      <4>5. \A l \in Armed' : TradeOf[l] # TradeOf[j.leg]
          BY <2>3, <4>1, <4>3, <4>4
      <4> QED
          BY <1>1, <3>1, <4>5 DEF j
    <3> QED
        BY <3>1, <3>2, <3>3
  <2>8. CompletionIsRecorded'
    <3> SUFFICES ASSUME NEW c \in completed' \ unmarked'
                 PROVE  /\ legs'[c.leg].status \in {"executed", "cancelled"}
                        /\ operations'[TradeOf[c.leg]] # "armed"
                        /\ \A l \in Armed' : TradeOf[l] # TradeOf[c.leg]
        BY DEF CompletionIsRecorded
    <3>1. CASE c = j
        BY <2>1, <2>2, <2>4, <2>7, <3>1
    <3>2. CASE c # j
      <4>1. c \in completed \ unmarked /\ c.leg \in Legs
          BY <1>2, <2>1, <3>2
      <4> QED
          BY <1>2, <2>2, <2>3, <2>4, <4>1 DEF CompletionIsRecorded
    <3> QED
        BY <3>1, <3>2
  <2>9. \A l \in Legs : Unsettled(l) => legs'[l].status \in {legs[l].status, "closed", "cancelled"}
      BY <2>2
  <2> QED
      BY <1>3, <1>5, <2>2, <2>3, <2>5, <2>6, <2>8, <2>9, LaterWritesKeepRecord
<1> QED
    BY <1>1, <1>7, <1>8, <1>9

LEMMA RecordInvariance == Spec => []RecordInvariant
<1>1. Init => RecordInvariant
    BY RecordInitially
<1>2. Invariant /\ RecordInvariant /\ [Next]_vars => RecordInvariant'
  <2> SUFFICES ASSUME Invariant, RecordInvariant, [Next]_vars PROVE RecordInvariant'
      OBVIOUS
  <2>1. CASE \E l \in Legs : Evaluate(l)
      BY <2>1, EvaluateKeepsRecord
  <2>2. CASE SecondWrite
      BY <2>2, SecondWriteKeepsRecord
  <2>3. CASE \E f \in finishing : Finish(f)
      BY <2>3, FinishKeepsRecord
  <2>4. CASE \E t \in Trades : SubmitCancellation(t)
      BY <2>4, SubmitCancellationKeepsRecord
  <2>5. CASE \/ BeginCycle \/ NewBlock \/ (\E t \in Trades : CreateCancellation(t)) \/ Crash
             \/ (\E j \in enqueued : Execute(j))
             \/ (\E j \in enqueued \cap FireJobs : Complete(j))
             \/ UNCHANGED vars
      BY <2>5, OthersKeepRecord
  <2> QED
      BY <2>1, <2>2, <2>3, <2>4, <2>5 DEF Next
<1> QED
    BY <1>1, <1>2, Invariance, PTL DEF Spec

\* The tables, the queue, the worker's and the history variables keep their
\* types, and what is remembered of a condition is of a confirmed block.
THEOREM TablesTyped == Spec => []TypeOK
<1>1. Invariant /\ RecordInvariant => TypeOK
    BY DEF Invariant, Typed, RecordInvariant, HistoryTyped, TypeOK
<1> QED
    BY <1>1, Invariance, RecordInvariance, PTL

\* When the statements of markComplete have all run for a job, its leg, its trade
\* and the other legs tell of it, unless the evaluator died between enqueue and
\* markFiring or was overtaken there.
THEOREM CompletionsAreRecorded == Spec => []CompletionIsRecorded
<1>1. RecordInvariant => CompletionIsRecorded
    BY DEF RecordInvariant
<1> QED
    BY <1>1, RecordInvariance, PTL

-----------------------------------------------------------------------------
\* A log of reports says of proof p that it stood since the block and time of an
\* observation.
Logs == Seq([proof : Proofs, block : Nat, time : Nat])

Stood(log, observation) ==
    \E k \in 1 .. Len(log) :
        /\ \A j \in k .. Len(log) : log[j].proof = observation.proofHash
        /\ log[k].block = observation.firstBlock
        /\ log[k].time = observation.firstTimestamp

\* The controller's record is the first of the reports that stand.
ReportsStand ==
    /\ block \in Nat /\ time \in Nat
    /\ reports \in [Legs -> Logs]
    /\ observations \in [Legs -> [firstTimestamp : Nat, firstBlock : Nat,
                                  proofHash : Proofs \cup {NoProof}]]
    /\ \A l \in Legs : observations[l].proofHash # NoProof => Stood(reports[l], observations[l])

LEMMA StoodSinceReport ==
    ASSUME NEW log \in Logs, NEW p \in Proofs, NEW b \in Nat, NEW t \in Nat
    PROVE  LET last == Append(log, [proof |-> p, block |-> b, time |-> t])
           IN  /\ last \in Logs
               /\ Stood(last, [firstTimestamp |-> t, firstBlock |-> b, proofHash |-> p])
<1> DEFINE last == Append(log, [proof |-> p, block |-> b, time |-> t])
<1>1. last \in Logs /\ Len(last) \in 1 .. Len(last)
    BY DEF Logs
<1>2. last[Len(last)] = [proof |-> p, block |-> b, time |-> t]
    BY DEF Logs
<1>3. \A j \in Len(last) .. Len(last) : last[j].proof = p
    BY <1>1, <1>2
<1> QED
    BY <1>1, <1>2, <1>3 DEF Stood

LEMMA StoodThroughReport ==
    ASSUME NEW log \in Logs, NEW observation, observation.proofHash \in Proofs,
           Stood(log, observation), NEW b \in Nat, NEW t \in Nat
    PROVE  LET last == Append(log, [proof |-> observation.proofHash, block |-> b, time |-> t])
           IN  last \in Logs /\ Stood(last, observation)
<1> DEFINE last == Append(log, [proof |-> observation.proofHash, block |-> b, time |-> t])
<1>1. /\ last \in Logs /\ Len(last) = Len(log) + 1 /\ Len(log) \in Nat
      /\ \A j \in 1 .. Len(log) : last[j] = log[j]
      /\ last[Len(log) + 1].proof = observation.proofHash
    BY DEF Logs
<1>2. PICK k \in 1 .. Len(log) :
        /\ \A j \in k .. Len(log) : log[j].proof = observation.proofHash
        /\ log[k].block = observation.firstBlock
        /\ log[k].time = observation.firstTimestamp
    BY DEF Stood
<1>3. \A j \in k .. Len(last) : last[j].proof = observation.proofHash
  <2> SUFFICES ASSUME NEW j \in k .. Len(last) PROVE last[j].proof = observation.proofHash
      OBVIOUS
  <2>1. j = Len(log) + 1 \/ (j \in k .. Len(log) /\ j \in 1 .. Len(log))
      BY <1>1
  <2> QED
      BY <1>1, <1>2, <2>1
<1>4. k \in 1 .. Len(last) /\ last[k] = log[k]
    BY <1>1
<1> QED
    BY <1>1, <1>2, <1>3, <1>4 DEF Stood

LEMMA ReportsKeepStanding == Spec => []ReportsStand
<1>1. Init => ReportsStand
  <2> SUFFICES ASSUME Init PROVE ReportsStand
      OBVIOUS
  <2>1. << >> \in Logs
      BY DEF Logs
  <2> QED
      BY <2>1 DEF Init, Controller!InitBoundTo, Controller!NoObservation, ReportsStand
<1>2. ReportsStand /\ Invariant /\ [Next]_vars => ReportsStand'
  <2> SUFFICES ASSUME ReportsStand, Invariant, [Next]_vars PROVE ReportsStand'
      OBVIOUS
  <2> USE DEF ReportsStand
  <2>1. CASE UNCHANGED <<block, time, reports, observations>>
      BY <2>1
  <2>2. CASE NewBlock
      BY <2>2 DEF NewBlock, Controller!NewBlock, Controller!historyVars
  <2>3. ASSUME NEW l \in Legs, NEW p \in Proofs, Controller!Observe(Keeper, l, p)
        PROVE  ReportsStand'
    <3> DEFINE last  == Append(reports[l], [proof |-> p, block |-> block, time |-> time])
               first == [firstTimestamp |-> time, firstBlock |-> block, proofHash |-> p]
    <3>1. /\ block' = block /\ time' = time
          /\ reports' = [reports EXCEPT ![l] = last]
          /\ observations' = [observations EXCEPT ![l] = IF @.proofHash = p THEN @ ELSE first]
        BY <2>3 DEF Controller!Observe, Controller!Reported, Controller!Report,
           Controller!chainVars
    <3>2. last \in Logs /\ Stood(last, first)
        BY StoodSinceReport
    <3>3. p # NoProof
        BY ConditionalAssumption DEF ConditionalAssumption
    <3>4. observations[l].proofHash = p => Stood(last, observations[l])
        BY <3>3, StoodThroughReport
    <3>5. Stood(reports'[l], observations'[l])
        BY <3>1, <3>2, <3>4
    <3>6. \A other \in Legs \ {l} :
              reports'[other] = reports[other] /\ observations'[other] = observations[other]
        BY <3>1
    <3>7. /\ reports' \in [Legs -> Logs]
          /\ observations' \in [Legs -> [firstTimestamp : Nat, firstBlock : Nat,
                                         proofHash : Proofs \cup {NoProof}]]
        BY <3>1, <3>2
    <3> QED
        BY <3>1, <3>5, <3>6, <3>7
  <2>4. ASSUME NEW l \in Legs, UNCHANGED <<block, time>>,
               observations' = [observations EXCEPT ![l] = Controller!NoObservation],
               Controller!Forgotten(l)
        PROVE  ReportsStand'
    <3>1. << >> \in Logs
        BY DEF Logs
    <3> QED
        BY <2>4, <3>1 DEF Controller!NoObservation, Controller!Forgotten
  <2>5. CASE \E j \in enqueued : Execute(j)
    <3>1. PICK j \in enqueued : Execute(j)
        BY <2>5
    <3>2. j.leg \in Legs /\ (j.kind = "observe" => j.arg \in Proofs)
        BY DEF Invariant, Typed, TablesTypeOK, JobIds, FireJobs
    <3> QED
        BY <2>3, <2>4, <3>1, <3>2 DEF Execute, Call, FireBatch, Controller!Activate,
           Controller!Reset, Controller!chainVars
  <2>6. \/ UNCHANGED <<block, time, reports, observations>>
        \/ NewBlock \/ (\E j \in enqueued : Execute(j))
      BY DEF Next, BeginCycle, Evaluate, LooksAt, ConditionFalse, ConditionNew, ConditionStands,
         NothingNew, SecondWrite, Complete, Finish, CreateCancellation, SubmitCancellation, Crash,
         chainVars, vars
  <2> QED
      BY <2>1, <2>2, <2>5, <2>6
<1> QED
    BY <1>1, <1>2, Invariance, PTL DEF Spec

\* A batch goes through only for a proof the controller was told of persistently
\* (activate and the matcher's execute), whatever the worker did.
THEOREM BatchesArePersistent == Spec => BatchIsPersistent
<1>1. ReportsStand /\ Invariant /\ [Next]_vars =>
        [\A j \in FireJobs : j \in executed' \ executed =>
            Controller!Persistent(j.leg, j.arg)]_vars
  <2> SUFFICES ASSUME ReportsStand, Invariant, Next,
                      NEW j \in FireJobs, j \in executed' \ executed
               PROVE  Controller!Persistent(j.leg, j.arg)
      OBVIOUS
  <2>1. Execute(j)
      BY DEF Next, BeginCycle, Evaluate, LooksAt, ConditionFalse, ConditionNew, ConditionStands,
         NothingNew, SecondWrite, Enqueue, Complete, Finish, CreateCancellation,
         SubmitCancellation, NewBlock, Crash, Execute, queueVars, vars
  <2>2. j.kind = "fire" /\ j.leg \in Legs /\ j.arg \in Proofs /\ j.arg # NoProof
      BY ConditionalAssumption DEF FireJobs, ConditionalAssumption
  <2>3. /\ observations[j.leg].proofHash = j.arg
        /\ block >= observations[j.leg].firstBlock + MinimumBlocks
        /\ time >= observations[j.leg].firstTimestamp + MinimumDelay
      BY <2>1, <2>2 DEF Execute, Call, FireBatch, Controller!Activate, Controller!Due
  <2>4. PICK k \in 1 .. Len(reports[j.leg]) :
            /\ \A n \in k .. Len(reports[j.leg]) : reports[j.leg][n].proof = j.arg
            /\ reports[j.leg][k].block = observations[j.leg].firstBlock
            /\ reports[j.leg][k].time = observations[j.leg].firstTimestamp
      BY <2>2, <2>3 DEF ReportsStand, Stood
  <2> QED
      BY <2>3, <2>4 DEF Controller!Persistent
<1> QED
    BY <1>1, Invariance, ReportsKeepStanding, PTL DEF Spec, BatchIsPersistent

=============================================================================
