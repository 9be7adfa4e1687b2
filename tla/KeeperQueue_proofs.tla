-------------------------- MODULE KeeperQueue_proofs --------------------------
(***************************************************************************)
(* Safety of the keeper's queue for any jobs, workers, quotes and limits,  *)
(* and any number of crashes and lost leases.                              *)
(***************************************************************************)
EXTENDS KeeperQueue, TLAPS

\* A row names only transactions made for its job, and the lease of a settled
\* job was given up with the write that settled it.
RowsAreSound ==
    \A j \in Jobs :
        /\ jobs[j].tx # NoTx => jobs[j].tx.job = j
        /\ jobs[j].state \in {"complete", "failed"} => jobs[j].owner = NoWorker

\* A busy worker works on a job, with what its row said at the claim: it looks
\* for the receipt of a transaction made for that job, and prepares another.
ClaimsAreSound ==
    \A w \in Workers : at[w] # "idle" =>
        /\ Job(w) \in Jobs /\ Row(w) \in Rows
        /\ Row(w).tx # NoTx => Row(w).tx.job = Job(w)
        /\ at[w] = "receipt" => Row(w).tx # NoTx
        /\ at[w] \in {"estimating", "sending", "sent"} =>
              draft[w] \in Tx /\ draft[w].job = Job(w) /\ draft[w].fee <= MaxFeePerGas

\* A worker about to complete its job has seen the receipt of a success.
CompletingHasReceipt ==
    \A w \in Workers : at[w] = "completing" => Job(w) \in Succeeded

KeeperInvariant ==
    /\ TypeOK
    /\ RowsAreSound /\ ClaimsAreSound
    /\ CompletingHasReceipt /\ CompleteMeansExecuted

-----------------------------------------------------------------------------
LEMMA AbsentIsRow == Absent \in Rows /\ Absent.state = "absent" /\ Absent.tx = NoTx
    BY KeeperAssumption DEF Absent, Rows, KeeperAssumption

LEMMA InitSound == ASSUME Init PROVE KeeperInvariant
<1> USE AbsentIsRow, KeeperAssumption DEF Init, KeeperAssumption
<1>1. TypeOK
    BY DEF TypeOK, Places
<1>2. RowsAreSound /\ ClaimsAreSound /\ CompletingHasReceipt /\ CompleteMeansExecuted
    BY DEF RowsAreSound, ClaimsAreSound, CompletingHasReceipt, CompleteMeansExecuted, Absent
<1> QED
    BY <1>1, <1>2 DEF KeeperInvariant

\* What Succeeded says, as a fact about receipts.
LEMMA SucceededByReceipt ==
    \A j : j \in Succeeded <=> \E n \in 1 .. Len(mined) : mined[n].ok /\ mined[n].tx.job = j
    BY DEF Succeeded

\* A write changes one row at most, and only a row the worker leases.
LEMMA WriteEffect ==
    ASSUME KeeperInvariant, NEW w \in Workers, at[w] # "idle", NEW row \in Rows, Write(w, row)
    PROVE  /\ jobs' \in [Jobs -> Rows]
           /\ \A j \in Jobs : jobs'[j] = IF j = Job(w) /\ jobs[j].owner = w
                                           THEN Unleased(row) ELSE jobs[j]
           /\ Unleased(row) \in Rows
           /\ at' \in [Workers -> Places] /\ at'[w] = "idle"
           /\ claimed' \in [Workers -> [job : Jobs, row : Rows] \cup {NoClaim}]
           /\ draft' \in [Workers -> Tx \cup {NoTx}]
           /\ \A v \in Workers \ {w} :
                 at'[v] = at[v] /\ claimed'[v] = claimed[v] /\ draft'[v] = draft[v]
<1> USE DEF KeeperInvariant, TypeOK, Write
<1>1. Job(w) \in Jobs
    BY DEF ClaimsAreSound
<1>2. Unleased(row) \in Rows
    BY DEF Unleased, Rows
<1>3. /\ jobs' \in [Jobs -> Rows]
      /\ \A j \in Jobs : jobs'[j] = IF j = Job(w) /\ jobs[j].owner = w
                                      THEN Unleased(row) ELSE jobs[j]
    BY <1>1, <1>2 DEF Leases
<1>4. /\ at' \in [Workers -> Places] /\ at'[w] = "idle"
      /\ claimed' \in [Workers -> [job : Jobs, row : Rows] \cup {NoClaim}]
      /\ draft' \in [Workers -> Tx \cup {NoTx}]
      /\ \A v \in Workers \ {w} :
            at'[v] = at[v] /\ claimed'[v] = claimed[v] /\ draft'[v] = draft[v]
    BY DEF Places
<1> QED
    BY <1>2, <1>3, <1>4

\* The last write of a run keeps the invariant if the row it leaves is sound.
LEMMA WriteSound ==
    ASSUME KeeperInvariant, NEW w \in Workers, at[w] # "idle", NEW row \in Rows, Write(w, row),
           row.tx # NoTx => row.tx.job = Job(w),
           row.state = "submitted" => row.tx # NoTx,
           row.state = "complete" => Job(w) \in Succeeded
    PROVE  KeeperInvariant'
<1>1. /\ jobs' \in [Jobs -> Rows]
      /\ \A j \in Jobs : jobs'[j] = IF j = Job(w) /\ jobs[j].owner = w
                                      THEN Unleased(row) ELSE jobs[j]
      /\ Unleased(row) \in Rows
      /\ at' \in [Workers -> Places] /\ at'[w] = "idle"
      /\ claimed' \in [Workers -> [job : Jobs, row : Rows] \cup {NoClaim}]
      /\ draft' \in [Workers -> Tx \cup {NoTx}]
      /\ \A v \in Workers \ {w} :
            at'[v] = at[v] /\ claimed'[v] = claimed[v] /\ draft'[v] = draft[v]
    BY WriteEffect
<1>2. /\ Unleased(row).tx = row.tx /\ Unleased(row).state = row.state
      /\ Unleased(row).owner = NoWorker
    BY DEF Unleased, Rows
<1>3. UNCHANGED <<pool, mined, mishaps>> /\ Succeeded' = Succeeded
    BY DEF Write, chainVars, Succeeded
<1>4. TypeOK'
    BY <1>1, <1>2, <1>3 DEF KeeperInvariant, TypeOK
<1>5. RowsAreSound'
    BY <1>1, <1>2 DEF KeeperInvariant, RowsAreSound
<1>6. ClaimsAreSound'
    BY <1>1 DEF KeeperInvariant, ClaimsAreSound, Job, Row
<1>7. CompletingHasReceipt'
    BY <1>1, <1>3 DEF KeeperInvariant, CompletingHasReceipt, Job
<1>8. CompleteMeansExecuted'
    BY <1>1, <1>2, <1>3 DEF KeeperInvariant, CompleteMeansExecuted
<1> QED
    BY <1>4, <1>5, <1>6, <1>7, <1>8 DEF KeeperInvariant

LEMMA WritesSound ==
    ASSUME KeeperInvariant, NEW w \in Workers,
           MarkSubmitted(w) \/ MarkComplete(w) \/ MarkFailed(w) \/ Release(w)
    PROVE  KeeperInvariant'
<1>1. /\ Job(w) \in Jobs /\ Current(w) \in Rows /\ at[w] # "idle"
      /\ Current(w).tx # NoTx => Current(w).tx.job = Job(w)
    BY DEF MarkSubmitted, MarkComplete, MarkFailed, Release, KeeperInvariant, TypeOK,
           ClaimsAreSound, RowsAreSound, Current
<1>2. CASE MarkSubmitted(w)
  <2>1. draft[w] \in Tx /\ draft[w].job = Job(w)
      BY <1>2 DEF MarkSubmitted, KeeperInvariant, ClaimsAreSound
  <2> DEFINE row == [Current(w) EXCEPT !.state = "submitted", !.tx = draft[w], !.old = FALSE]
  <2>2. row \in Rows /\ row.tx = draft[w] /\ row.state = "submitted"
      BY <1>1, <2>1 DEF Rows
  <2>3. draft[w] # NoTx
      BY <2>1, KeeperAssumption DEF KeeperAssumption
  <2> QED
      BY <1>1, <1>2, <2>1, <2>2, <2>3, WriteSound DEF MarkSubmitted
<1>3. CASE MarkComplete(w)
  <2> DEFINE row == [Current(w) EXCEPT !.state = "complete"]
  <2>1. row \in Rows /\ row.tx = Current(w).tx /\ row.state = "complete"
      BY <1>1 DEF Rows
  <2>2. Job(w) \in Succeeded
      BY <1>3 DEF MarkComplete, KeeperInvariant, CompletingHasReceipt
  <2> QED
      BY <1>1, <1>3, <2>1, <2>2, WriteSound DEF MarkComplete
<1>4. CASE MarkFailed(w)
  <2> DEFINE row == [Current(w) EXCEPT !.state = "failed"]
  <2>1. row \in Rows /\ row.tx = Current(w).tx /\ row.state = "failed"
      BY <1>1 DEF Rows
  <2> QED
      BY <1>1, <1>4, <2>1, WriteSound DEF MarkFailed
<1>5. CASE Release(w)
  <2> DEFINE row == [Current(w) EXCEPT !.state = "ready"]
  <2>1. row \in Rows /\ row.tx = Current(w).tx /\ row.state = "ready"
      BY <1>1 DEF Rows
  <2> QED
      BY <1>1, <1>5, <2>1, WriteSound DEF Release
<1> QED
    BY <1>2, <1>3, <1>4, <1>5

-----------------------------------------------------------------------------
\* Steps of a run that touch no row: the worker goes on with the same claim, or
\* stops, and what it stands for at its next place holds.
LEMMA StepSound ==
    ASSUME KeeperInvariant, NEW w \in Workers, at[w] # "idle",
           NEW place \in Places, at' = [at EXCEPT ![w] = place],
           \/ claimed' = claimed
           \/ place = "idle" /\ claimed' = [claimed EXCEPT ![w] = NoClaim],
           \/ draft' = draft
           \/ \E tx \in Tx : /\ draft' = [draft EXCEPT ![w] = tx]
                             /\ tx.job = Job(w) /\ tx.fee <= MaxFeePerGas
           ,
           place = "receipt" => Row(w).tx # NoTx,
           place \in {"estimating", "sending", "sent"} =>
              draft'[w] \in Tx /\ draft'[w].job = Job(w) /\ draft'[w].fee <= MaxFeePerGas,
           place = "completing" => Job(w) \in Succeeded,
           pool' \subseteq {tx \in Tx : tx.fee <= MaxFeePerGas},
           UNCHANGED <<jobs, mined, mishaps>>
    PROVE  KeeperInvariant'
<1> USE DEF KeeperInvariant
<1>1. /\ at' \in [Workers -> Places] /\ at'[w] = place
      /\ claimed' \in [Workers -> [job : Jobs, row : Rows] \cup {NoClaim}]
      /\ draft' \in [Workers -> Tx \cup {NoTx}]
      /\ \A v \in Workers \ {w} :
            at'[v] = at[v] /\ claimed'[v] = claimed[v] /\ draft'[v] = draft[v]
      /\ place # "idle" => claimed'[w] = claimed[w]
    BY DEF TypeOK
<1>2. TypeOK'
    BY <1>1 DEF TypeOK
<1>3. RowsAreSound' /\ CompleteMeansExecuted' /\ Succeeded' = Succeeded
    BY DEF RowsAreSound, CompleteMeansExecuted, Succeeded
<1>4. ClaimsAreSound'
    BY <1>1 DEF ClaimsAreSound, Job, Row
<1>5. CompletingHasReceipt'
    BY <1>1, <1>3 DEF CompletingHasReceipt, Job
<1> QED
    BY <1>2, <1>3, <1>4, <1>5

LEMMA ClaimSound ==
    ASSUME KeeperInvariant, NEW w \in Workers, NEW j \in Jobs, Claim(w, j)
    PROVE  KeeperInvariant'
<1> USE DEF KeeperInvariant
<1> DEFINE attempts == IF jobs[j].attempts < RetryLimit THEN jobs[j].attempts + 1
                                                      ELSE jobs[j].attempts
<1> DEFINE row == [jobs[j] EXCEPT !.owner = w, !.lapsed = FALSE,
                     !.attempts = IF @ < RetryLimit THEN @ + 1 ELSE @]
<1>1. /\ row \in Rows /\ row.tx = jobs[j].tx /\ row.state = jobs[j].state
      /\ jobs[j].state \in {"ready", "submitted"}
  <2>1. jobs[j] \in Rows /\ jobs[j].attempts \in 0 .. RetryLimit
      BY DEF TypeOK, Rows
  <2>2. attempts \in 0 .. RetryLimit
      BY <2>1, KeeperAssumption DEF KeeperAssumption
  <2>3. row = [jobs[j] EXCEPT !.owner = w, !.lapsed = FALSE, !.attempts = attempts]
      BY <2>1
  <2> HIDE DEF attempts
  <2>4. row \in Rows /\ row.tx = jobs[j].tx /\ row.state = jobs[j].state
      BY <2>1, <2>2, <2>3 DEF Rows
  <2> QED
      BY <2>4 DEF Claim, Claimable
<1>2. /\ jobs' \in [Jobs -> Rows] /\ jobs'[j] = row
      /\ \A other \in Jobs \ {j} : jobs'[other] = jobs[other]
    BY <1>1 DEF Claim, TypeOK
<1>3. /\ claimed' \in [Workers -> [job : Jobs, row : Rows] \cup {NoClaim}]
      /\ claimed'[w] = [job |-> j, row |-> row]
      /\ \A v \in Workers \ {w} : claimed'[v] = claimed[v]
    BY <1>1 DEF Claim, TypeOK
<1>4. /\ at' \in [Workers -> Places]
      /\ at'[w] \in {"failing", "receipt", "pricing"}
      /\ at'[w] = "receipt" => jobs[j].state = "submitted"
      /\ \A v \in Workers \ {w} : at'[v] = at[v]
    BY DEF Claim, Validate, Goes, TypeOK, Places
<1>5. UNCHANGED <<draft, pool, mined, mishaps>> /\ Succeeded' = Succeeded
    BY DEF Claim, chainVars, Succeeded
<1> HIDE DEF row, attempts
<1>6. TypeOK'
    BY <1>1, <1>2, <1>3, <1>4, <1>5 DEF TypeOK
<1>7. RowsAreSound'
    BY <1>1, <1>2 DEF RowsAreSound
<1>8. ClaimsAreSound'
  <2>1. row.tx # NoTx => row.tx.job = j
      BY <1>1 DEF RowsAreSound
  <2>2. at'[w] = "receipt" => row.tx # NoTx
      BY <1>1, <1>4 DEF TypeOK
  <2>3. Job(w)' = j /\ Row(w)' = row
      BY <1>3 DEF Job, Row
  <2>4. \A v \in Workers \ {w} : Job(v)' = Job(v) /\ Row(v)' = Row(v)
      BY <1>3 DEF Job, Row
  <2> QED
      BY <1>1, <1>4, <1>5, <2>1, <2>2, <2>3, <2>4 DEF ClaimsAreSound
<1>9. CompletingHasReceipt' /\ CompleteMeansExecuted'
    BY <1>1, <1>2, <1>3, <1>4, <1>5 DEF CompletingHasReceipt, CompleteMeansExecuted, Job
<1> QED
    BY <1>6, <1>7, <1>8, <1>9

LEMMA RunSound ==
    ASSUME KeeperInvariant, NEW w \in Workers, Run(w)
    PROVE  KeeperInvariant'
<1> USE DEF KeeperInvariant, queueVars, chainVars, Goes
<1>1. ASSUME NEW j \in Jobs, Claim(w, j) PROVE KeeperInvariant'
    BY <1>1, ClaimSound
<1>2. CASE MarkSubmitted(w) \/ MarkComplete(w) \/ MarkFailed(w) \/ Release(w)
    BY <1>2, WritesSound
<1>3. CASE CheckReceipt(w)
  <2>1. /\ at[w] # "idle" /\ UNCHANGED <<jobs, draft, pool, mined, mishaps>>
        /\ pool' \subseteq {tx \in Tx : tx.fee <= MaxFeePerGas}
      BY <1>3 DEF CheckReceipt, TypeOK
  <2>2. Row(w).tx # NoTx => Row(w).tx.job = Job(w)
      BY <2>1 DEF ClaimsAreSound
  <2>3. Row(w).tx # NoTx
      BY <1>3 DEF CheckReceipt, ClaimsAreSound
  <2>4. CASE Receipt(Row(w).tx, TRUE) /\ Goes(w, "completing") /\ UNCHANGED claimed
    <3>1. Job(w) \in Succeeded
        BY <2>2, <2>3, <2>4, SucceededByReceipt DEF Receipt
    <3> QED
        BY <2>1, <2>4, <3>1, StepSound DEF Places
  <2>5. CASE Receipt(Row(w).tx, FALSE) /\ Goes(w, "failing") /\ UNCHANGED claimed
      BY <2>1, <2>5, StepSound DEF Places
  <2>6. CASE Goes(w, "pricing") /\ UNCHANGED claimed
      BY <2>1, <2>6, StepSound DEF Places
  <2>7. CASE Goes(w, "idle") /\ claimed' = [claimed EXCEPT ![w] = NoClaim]
      BY <2>1, <2>7, StepSound DEF Places
  <2> QED
      BY <1>3, <2>4, <2>5, <2>6, <2>7 DEF CheckReceipt
<1>4. ASSUME NEW nonce \in Nonces, NEW quote \in Quotes, Price(w, nonce, quote)
      PROVE  KeeperInvariant'
  <2>1. /\ at[w] = "pricing" /\ UNCHANGED <<jobs, claimed, pool, mined, mishaps>>
        /\ pool' \subseteq {tx \in Tx : tx.fee <= MaxFeePerGas}
      BY <1>4 DEF Price, TypeOK
  <2>2. Job(w) \in Jobs /\ Row(w).tx \in Tx \cup {NoTx}
      BY <2>1 DEF ClaimsAreSound, Rows
  <2>3. nonce \in Nat
      BY <1>4 DEF Price, TransactionCount, Nonces
  <2>4. Fee(quote, Row(w).tx) \in Nat
    <3>1. quote \in Nat
        BY KeeperAssumption DEF KeeperAssumption
    <3>2. Replacement(Row(w).tx) \in Nat
        BY <2>2 DEF Replacement, Tx
    <3> QED
        BY <3>1, <3>2 DEF Fee
  <2> DEFINE tx == [job |-> Job(w), nonce |-> nonce, fee |-> Fee(quote, Row(w).tx)]
  <2>5. tx \in Tx /\ tx.job = Job(w)
      BY <2>2, <2>3, <2>4 DEF Tx
  <2>6. CASE Goes(w, "failing") /\ UNCHANGED draft
      BY <2>1, <2>6, StepSound DEF Places
  <2>7. CASE /\ tx.fee <= MaxFeePerGas /\ Goes(w, "estimating")
             /\ draft' = [draft EXCEPT ![w] = tx]
    <3>1. draft'[w] = tx
        BY <2>7 DEF TypeOK
    <3> HIDE DEF tx
    <3> QED
        BY <2>1, <2>5, <2>7, <3>1, StepSound DEF Places
  <2> QED
      BY <1>4, <2>6, <2>7 DEF Price
<1>5. CASE Estimate(w) \/ SendKnown(w) \/ Caught(w)
  <2>1. /\ at[w] # "idle" /\ UNCHANGED <<jobs, claimed, draft, pool, mined, mishaps>>
        /\ pool' \subseteq {tx \in Tx : tx.fee <= MaxFeePerGas}
      BY <1>5 DEF Estimate, SendKnown, Caught, TypeOK
  <2>2. CASE Goes(w, "releasing") \/ Goes(w, "failing")
      BY <2>1, <2>2, StepSound DEF Places
  <2>3. CASE (Estimate(w) \/ SendKnown(w)) /\ (Goes(w, "sending") \/ Goes(w, "sent"))
    <3>1. draft[w] \in Tx /\ draft[w].job = Job(w) /\ draft[w].fee <= MaxFeePerGas
        BY <2>3 DEF Estimate, SendKnown, ClaimsAreSound
    <3> QED
        BY <2>1, <2>3, <3>1, StepSound DEF Places
  <2> QED
      BY <1>5, <2>2, <2>3 DEF Caught, Estimate, SendKnown
<1>6. CASE Send(w)
  <2>1. /\ at[w] = "sending" /\ UNCHANGED <<jobs, claimed, draft, mined, mishaps>>
        /\ pool' = {tx \in pool : tx.nonce # draft[w].nonce} \cup {draft[w]}
        /\ Goes(w, "sent") \/ Goes(w, "releasing") \/ Goes(w, "failing")
      BY <1>6 DEF Send
  <2>2. draft[w] \in Tx /\ draft[w].job = Job(w) /\ draft[w].fee <= MaxFeePerGas
      BY <2>1 DEF ClaimsAreSound
  <2>3. pool' \subseteq {tx \in Tx : tx.fee <= MaxFeePerGas}
      BY <2>1, <2>2 DEF TypeOK
  <2> QED
      BY <2>1, <2>2, <2>3, StepSound DEF Places
<1> QED
    BY <1>1, <1>2, <1>3, <1>4, <1>5, <1>6 DEF Run

-----------------------------------------------------------------------------
\* Steps of the queue alone: the rows stay sound, nothing else moves.
LEMMA RowStepSound ==
    ASSUME KeeperInvariant, NEW j \in Jobs, NEW row \in Rows,
           jobs' = [jobs EXCEPT ![j] = row],
           row.tx = jobs[j].tx, row.owner = jobs[j].owner,
           row.state = jobs[j].state \/ row.state = "ready",
           mishaps' \in 0 .. MaxMishaps,
           UNCHANGED <<at, claimed, draft, pool, mined>>
    PROVE  KeeperInvariant'
<1> USE DEF KeeperInvariant
<1>1. /\ jobs' \in [Jobs -> Rows] /\ jobs'[j] = row
      /\ \A other \in Jobs \ {j} : jobs'[other] = jobs[other]
    BY DEF TypeOK
<1>2. TypeOK'
    BY <1>1 DEF TypeOK
<1>3. RowsAreSound'
    BY <1>1 DEF RowsAreSound
<1>4. Succeeded' = Succeeded /\ ClaimsAreSound' /\ CompletingHasReceipt'
    BY DEF Succeeded, ClaimsAreSound, CompletingHasReceipt, Job, Row
<1>5. CompleteMeansExecuted'
    BY <1>1, <1>4 DEF CompleteMeansExecuted
<1> QED
    BY <1>2, <1>3, <1>4, <1>5

\* What was mined stays mined.
LEMMA MineSound == ASSUME KeeperInvariant, Mine PROVE KeeperInvariant'
<1> USE DEF KeeperInvariant
<1>1. PICK tx \in pool, ok \in BOOLEAN :
         /\ mined' = Append(mined, [tx |-> tx, ok |-> ok])
         /\ pool' = {other \in pool : other.nonce # tx.nonce}
    BY DEF Mine
<1>2. UNCHANGED <<jobs, at, claimed, draft, mishaps>>
    BY DEF Mine, queueVars, workerVars
<1>3. mined \in Seq([tx : Tx, ok : BOOLEAN]) /\ [tx |-> tx, ok |-> ok] \in [tx : Tx, ok : BOOLEAN]
    BY DEF TypeOK
<1>4. /\ mined' \in Seq([tx : Tx, ok : BOOLEAN])
      /\ Len(mined) \in Nat /\ Len(mined') = Len(mined) + 1
      /\ \A n \in 1 .. Len(mined) : mined'[n] = mined[n]
    BY <1>1, <1>3
<1>5. Succeeded \subseteq Succeeded'
  <2> SUFFICES ASSUME NEW j \in Succeeded PROVE j \in Succeeded'
      OBVIOUS
  <2>1. PICK n \in 1 .. Len(mined) : mined[n].ok /\ mined[n].tx.job = j
      BY SucceededByReceipt
  <2>2. n \in 1 .. Len(mined') /\ mined'[n] = mined[n]
      BY <1>4, <2>1
  <2> QED
      BY <2>1, <2>2 DEF Succeeded
<1>6. TypeOK'
    BY <1>1, <1>2, <1>4 DEF TypeOK
<1>7. RowsAreSound' /\ ClaimsAreSound'
    BY <1>2 DEF RowsAreSound, ClaimsAreSound, Job, Row
<1>8. CompletingHasReceipt' /\ CompleteMeansExecuted'
    BY <1>2, <1>5 DEF CompletingHasReceipt, CompleteMeansExecuted, Job
<1> QED
    BY <1>6, <1>7, <1>8

LEMMA OthersSound ==
    ASSUME KeeperInvariant,
           \/ \E j \in Jobs : Enqueue(j) \/ Lapse(j) \/ Age(j)
           \/ \E w \in Workers : Crash(w)
           \/ Evict
           \/ UNCHANGED vars
    PROVE  KeeperInvariant'
<1> USE DEF queueVars, workerVars, chainVars
<1>1. ASSUME NEW j \in Jobs, Enqueue(j) PROVE KeeperInvariant'
  <2> DEFINE row == [jobs[j] EXCEPT !.state = "ready"]
  <2>1. row \in Rows /\ row.tx = jobs[j].tx /\ row.owner = jobs[j].owner /\ row.state = "ready"
      BY DEF KeeperInvariant, TypeOK, Rows
  <2>2. jobs' = [jobs EXCEPT ![j] = row] /\ UNCHANGED <<at, claimed, draft, pool, mined, mishaps>>
      BY <1>1 DEF Enqueue
  <2>3. mishaps' \in 0 .. MaxMishaps
      BY <2>2 DEF KeeperInvariant, TypeOK
  <2> HIDE DEF row
  <2> QED
      BY <2>1, <2>2, <2>3, RowStepSound
<1>2. ASSUME NEW j \in Jobs, Lapse(j) PROVE KeeperInvariant'
  <2> DEFINE row == [jobs[j] EXCEPT !.lapsed = TRUE]
  <2>1. /\ row \in Rows /\ row.tx = jobs[j].tx
        /\ row.owner = jobs[j].owner /\ row.state = jobs[j].state
      BY DEF KeeperInvariant, TypeOK, Rows
  <2>2. jobs' = [jobs EXCEPT ![j] = row] /\ UNCHANGED <<at, claimed, draft, pool, mined>>
      BY <1>2 DEF Lapse
  <2>3. mishaps' \in 0 .. MaxMishaps
      BY <1>2, KeeperAssumption DEF Lapse, KeeperInvariant, TypeOK, KeeperAssumption
  <2> HIDE DEF row
  <2> QED
      BY <2>1, <2>2, <2>3, RowStepSound
<1>3. ASSUME NEW j \in Jobs, Age(j) PROVE KeeperInvariant'
  <2> DEFINE row == [jobs[j] EXCEPT !.old = TRUE]
  <2>1. /\ row \in Rows /\ row.tx = jobs[j].tx
        /\ row.owner = jobs[j].owner /\ row.state = jobs[j].state
      BY DEF KeeperInvariant, TypeOK, Rows
  <2>2. jobs' = [jobs EXCEPT ![j] = row] /\ UNCHANGED <<at, claimed, draft, pool, mined, mishaps>>
      BY <1>3 DEF Age
  <2>3. mishaps' \in 0 .. MaxMishaps
      BY <2>2 DEF KeeperInvariant, TypeOK
  <2> HIDE DEF row
  <2> QED
      BY <2>1, <2>2, <2>3, RowStepSound
<1>4. ASSUME NEW w \in Workers, Crash(w) PROVE KeeperInvariant'
  <2> USE DEF KeeperInvariant
  <2>1. /\ at' = [at EXCEPT ![w] = "idle"]
        /\ claimed' = [claimed EXCEPT ![w] = NoClaim]
        /\ draft' = [draft EXCEPT ![w] = NoTx]
        /\ UNCHANGED <<jobs, pool, mined>>
        /\ mishaps < MaxMishaps /\ mishaps' = mishaps + 1
      BY <1>4 DEF Crash
  <2>2. mishaps' \in 0 .. MaxMishaps
      BY <2>1, KeeperAssumption DEF TypeOK, KeeperAssumption
  <2>3. /\ at' \in [Workers -> Places] /\ at'[w] = "idle"
        /\ claimed' \in [Workers -> [job : Jobs, row : Rows] \cup {NoClaim}]
        /\ draft' \in [Workers -> Tx \cup {NoTx}]
        /\ \A v \in Workers \ {w} :
              at'[v] = at[v] /\ claimed'[v] = claimed[v] /\ draft'[v] = draft[v]
      BY <2>1 DEF TypeOK, Places
  <2>4. TypeOK'
      BY <2>1, <2>2, <2>3 DEF TypeOK
  <2>5. RowsAreSound' /\ CompleteMeansExecuted' /\ Succeeded' = Succeeded
      BY <2>1 DEF RowsAreSound, CompleteMeansExecuted, Succeeded
  <2>6. ClaimsAreSound' /\ CompletingHasReceipt'
      BY <2>3, <2>5 DEF ClaimsAreSound, CompletingHasReceipt, Job, Row
  <2> QED
      BY <2>4, <2>5, <2>6
<1>5. CASE Evict \/ UNCHANGED vars
  <2> USE DEF KeeperInvariant
  <2>1. UNCHANGED <<jobs, at, claimed, draft, mined, mishaps>> /\ pool' \subseteq pool
      BY <1>5 DEF Evict, vars
  <2>2. TypeOK' /\ Succeeded' = Succeeded
      BY <2>1 DEF TypeOK, Succeeded
  <2> QED
      BY <2>1, <2>2 DEF RowsAreSound, ClaimsAreSound, CompletingHasReceipt,
                        CompleteMeansExecuted, Job, Row
<1> QED
    BY <1>1, <1>2, <1>3, <1>4, <1>5

LEMMA KeeperInvariance == Spec => []KeeperInvariant
<1>1. Init => KeeperInvariant
    BY InitSound
<1>2. KeeperInvariant /\ [Next]_vars => KeeperInvariant'
    BY RunSound, MineSound, OthersSound DEF Next
<1> QED
    BY <1>1, <1>2, PTL DEF Spec

\* Rows, claims and transactions have their types, and whatever the keeper
\* hands to the chain keeps the fee ceiling (keeper.ts, feesFor).
THEOREM KeeperTyping == Spec => []TypeOK
BY KeeperInvariance, PTL DEF KeeperInvariant

\* A job is complete only if it has executed, with any number of workers,
\* crashes and lost leases.
THEOREM CompletionIsTrue == Spec => []CompleteMeansExecuted
BY KeeperInvariance, PTL DEF KeeperInvariant

\* A settled job stays settled as it is: a write needs the lease, and the lease
\* of a settled job is never given out again.
THEOREM TerminalStays == Spec => TerminalIsFinal
<1> DEFINE Final == \A j \in Jobs :
              jobs[j].state \in {"complete", "failed"} => jobs'[j].state = jobs[j].state
<1>1. KeeperInvariant /\ [Next]_vars => [Final]_vars
  <2> SUFFICES ASSUME KeeperInvariant, Next, NEW j \in Jobs,
                      jobs[j].state \in {"complete", "failed"}
               PROVE  jobs'[j].state = jobs[j].state
      OBVIOUS
  <2> USE DEF queueVars
  <2>1. jobs[j].owner = NoWorker /\ jobs \in [Jobs -> Rows]
      BY DEF KeeperInvariant, RowsAreSound, TypeOK
  <2>2. ASSUME NEW i \in Jobs, Enqueue(i) \/ Lapse(i) \/ Age(i) PROVE jobs'[j].state = jobs[j].state
      BY <2>1, <2>2, AbsentIsRow DEF Enqueue, Lapse, Age, Rows
  <2>3. ASSUME NEW w \in Workers, Crash(w) PROVE jobs'[j].state = jobs[j].state
      BY <2>3 DEF Crash
  <2>4. ASSUME NEW w \in Workers, Run(w) PROVE jobs'[j].state = jobs[j].state
    <3>1. ASSUME NEW i \in Jobs, Claim(w, i) PROVE jobs'[j].state = jobs[j].state
      <4>1. i # j
          BY <3>1 DEF Claim, Claimable
      <4> QED
          BY <2>1, <3>1, <4>1 DEF Claim
    <3>2. CASE MarkSubmitted(w) \/ MarkComplete(w) \/ MarkFailed(w) \/ Release(w)
      <4>1. PICK row : Write(w, row)
          BY <3>2 DEF MarkSubmitted, MarkComplete, MarkFailed, Release
      <4>2. ~Leases(w, j)
          BY <2>1, KeeperAssumption DEF Leases, KeeperAssumption
      <4> QED
          BY <2>1, <4>1, <4>2 DEF Write, Leases
    <3> QED
        BY <2>4, <3>1, <3>2 DEF Run, CheckReceipt, Price, Estimate, Send, SendKnown, Caught
  <2> QED
      BY <2>2, <2>3, <2>4 DEF Next, Mine, Evict
<1> QED
    BY <1>1, KeeperInvariance, PTL DEF Spec, TerminalIsFinal

=============================================================================
