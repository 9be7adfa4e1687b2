---------------------------- MODULE KeeperQueue ----------------------------
(***************************************************************************)
(* The keeper (packages/orderbook/src/keeper.ts) over its leased job queue *)
(* in PostgreSQL (packages/adapters/src/keeper.ts) and the chain it sends  *)
(* transactions to.  A worker claims one job at a time and then works on   *)
(* the row it read at the claim; every await is a step, so leases run out, *)
(* workers crash, replies get lost and blocks are mined in between.        *)
(*                                                                         *)
(* There is no clock.  Of a lease only matters whether it ran out, of a    *)
(* submission whether it is older than replacementSeconds.  A transaction  *)
(* is its own hash, and a row carries hash, nonce and fee together because *)
(* markSubmitted writes them together and nothing clears them.             *)
(***************************************************************************)
EXTENDS Integers, Sequences, FiniteSets

CONSTANTS
    Jobs,          \* job ids, claimed in their order
    Workers,
    NoWorker,      \* lease_owner IS NULL
    NoTx,          \* transaction_hash IS NULL
    Refused,       \* jobs not on the allowlists
    Repeatable,    \* jobs whose call succeeds again (observe)
    RetryLimit,    \* attempts after which an error is final (10 in the code)
    Quotes,        \* twice the gas price plus the priority fee, as quoted
    MaxFeePerGas,  \* the fee ceiling
    MaxMishaps     \* bound on crashes and on leases lost while working

\* A transaction of the keeper's account.
Tx == [job : Jobs, nonce : Nat, fee : Nat]

ASSUME KeeperAssumption ==
    /\ Jobs \subseteq Nat
    /\ NoWorker \notin Workers /\ NoTx \notin Tx
    /\ Refused \subseteq Jobs /\ Repeatable \subseteq Jobs
    /\ RetryLimit \in Nat \ {0}
    /\ Quotes \subseteq Nat \ {0}
    /\ MaxFeePerGas \in Nat /\ MaxMishaps \in Nat

VARIABLES
    jobs,      \* keeper_jobs
    at,        \* per worker: where its run stands
    claimed,   \* per worker: the row its claim returned, and the job's id
    draft,     \* per worker: the transaction being prepared
    pool,      \* transactions waiting to be mined
    mined,     \* the account's transactions in nonce order, with their status
    mishaps    \* how many crashes and lost leases there were

queueVars  == jobs
workerVars == <<at, claimed, draft>>
chainVars  == <<pool, mined>>
vars       == <<queueVars, workerVars, chainVars, mishaps>>

Absent  == [state |-> "absent", attempts |-> 0, tx |-> NoTx, old |-> FALSE,
            owner |-> NoWorker, lapsed |-> FALSE]
NoClaim == [job |-> 0, row |-> Absent]

Job(w) == claimed[w].job
Row(w) == claimed[w].row

Init ==
    /\ jobs = [j \in Jobs |-> Absent]
    /\ at = [w \in Workers |-> "idle"]
    /\ claimed = [w \in Workers |-> NoClaim]
    /\ draft = [w \in Workers |-> NoTx]
    /\ pool = {}
    /\ mined = << >>
    /\ mishaps = 0

-----------------------------------------------------------------------------
(* The chain.                                                               *)

Succeeded == {mined[n].tx.job : n \in {m \in 1 .. Len(mined) : mined[m].ok}}

\* Whether a job's call can go through now: the controller and the factory
\* reject a second activation or a used nonce.
MayGoThrough(j) == j \in Repeatable \/ j \notin Succeeded

\* The receipt of a mined transaction.
Receipt(tx, ok) == \E n \in 1 .. Len(mined) : mined[n] = [tx |-> tx, ok |-> ok]
NotMined(tx)    == \A n \in 1 .. Len(mined) : mined[n].tx # tx

\* Nonces count from 0: the next one to be mined is Len(mined).
Waiting(nonce) == \E tx \in pool : tx.nonce = nonce
\* eth_getTransactionCount(keeper, "pending")
TransactionCount(nonce) ==
    /\ nonce >= Len(mined)
    /\ \A n \in Len(mined) .. nonce - 1 : Waiting(n)
    /\ ~Waiting(nonce)

\* A call may also revert for reasons of its own, such as a lapsed policy.
Mine ==
    \E tx \in pool, ok \in BOOLEAN :
        /\ tx.nonce = Len(mined)
        /\ ok => MayGoThrough(tx.job)
        /\ mined' = Append(mined, [tx |-> tx, ok |-> ok])
        /\ pool' = {other \in pool : other.nonce # tx.nonce}
        /\ UNCHANGED <<queueVars, workerVars, mishaps>>

\* Nodes evict transactions.
Evict ==
    \E tx \in pool :
        /\ pool' = pool \ {tx}
        /\ UNCHANGED <<queueVars, workerVars, mined, mishaps>>

-----------------------------------------------------------------------------
(* The queue.  Every write but the claim is addressed to the rows that the  *)
(* worker still leases, and does nothing when it lost the lease.            *)

\* enqueue: ON CONFLICT DO NOTHING
Enqueue(j) ==
    /\ jobs[j] = Absent
    /\ jobs' = [jobs EXCEPT ![j].state = "ready"]
    /\ UNCHANGED <<workerVars, chainVars, mishaps>>

Claimable(j) ==
    /\ jobs[j].state \in {"ready", "submitted"}
    /\ jobs[j].owner = NoWorker \/ jobs[j].lapsed

Unleased(row) == [row EXCEPT !.owner = NoWorker, !.lapsed = FALSE]

Leases(w, j) == jobs[j].owner = w

\* The last write of a run; the worker is idle afterwards.  (markComplete goes
\* on to the tables of the trade, which are not part of this module.)
Write(w, row) ==
    /\ jobs' = IF Leases(w, Job(w)) THEN [jobs EXCEPT ![Job(w)] = Unleased(row)] ELSE jobs
    /\ at' = [at EXCEPT ![w] = "idle"]
    /\ claimed' = [claimed EXCEPT ![w] = NoClaim]
    /\ draft' = [draft EXCEPT ![w] = NoTx]
    /\ UNCHANGED <<chainVars, mishaps>>

Current(w) == jobs[Job(w)]

MarkSubmitted(w) ==
    /\ at[w] = "sent"
    /\ Write(w, [Current(w) EXCEPT !.state = "submitted", !.tx = draft[w], !.old = FALSE])
MarkComplete(w) == at[w] = "completing" /\ Write(w, [Current(w) EXCEPT !.state = "complete"])
MarkFailed(w)   == at[w] = "failing" /\ Write(w, [Current(w) EXCEPT !.state = "failed"])
Release(w)      == at[w] = "releasing" /\ Write(w, [Current(w) EXCEPT !.state = "ready"])

-----------------------------------------------------------------------------
(* One run of a worker.                                                     *)

Goes(w, place) == at' = [at EXCEPT ![w] = place]

\* Target, selector and value of a job are as configured.
Validate(j) == j \notin Refused

\* (mutant) attempts are not counted
ClaimUncounted(w, j) ==
    /\ at[w] = "idle"
    /\ Claimable(j) /\ \A other \in Jobs : Claimable(other) => j <= other
    /\ LET row == [jobs[j] EXCEPT !.owner = w, !.lapsed = FALSE]
       IN  /\ jobs' = [jobs EXCEPT ![j] = row]
           /\ claimed' = [claimed EXCEPT ![w] = [job |-> j, row |-> row]]
    /\ Goes(w, IF ~Validate(j) THEN "failing"
               ELSE IF jobs[j].state = "submitted" THEN "receipt" ELSE "pricing")
    /\ UNCHANGED <<draft, chainVars, mishaps>>

\* claim, and validate which throws for a refused job.  Attempts are only
\* ever compared with the limit, so they are counted up to it.
Claim(w, j) ==
    /\ at[w] = "idle"
    /\ Claimable(j) /\ \A other \in Jobs : Claimable(other) => j <= other
    /\ LET row == [jobs[j] EXCEPT !.owner = w, !.lapsed = FALSE,
                     !.attempts = IF @ < RetryLimit THEN @ + 1 ELSE @]
       IN  /\ jobs' = [jobs EXCEPT ![j] = row]
           /\ claimed' = [claimed EXCEPT ![w] = [job |-> j, row |-> row]]
    /\ Goes(w, IF ~Validate(j) THEN "failing"
               ELSE IF jobs[j].state = "submitted" THEN "receipt" ELSE "pricing")
    /\ UNCHANGED <<draft, chainVars, mishaps>>

\* (mutant) any receipt completes the job
CheckReceiptMined(w) ==
    /\ at[w] = "receipt"
    /\ \/ ~NotMined(Row(w).tx) /\ Goes(w, "completing") /\ UNCHANGED claimed
       \/ NotMined(Row(w).tx) /\ Row(w).old /\ Goes(w, "pricing") /\ UNCHANGED claimed
       \/ /\ NotMined(Row(w).tx) /\ ~Row(w).old /\ Goes(w, "idle")
          /\ claimed' = [claimed EXCEPT ![w] = NoClaim]
    /\ UNCHANGED <<queueVars, draft, chainVars, mishaps>>

\* A young submission without a receipt is left alone, with its lease; an old
\* one is replaced.
CheckReceipt(w) ==
    /\ at[w] = "receipt"
    /\ \/ Receipt(Row(w).tx, TRUE) /\ Goes(w, "completing") /\ UNCHANGED claimed
       \/ Receipt(Row(w).tx, FALSE) /\ Goes(w, "failing") /\ UNCHANGED claimed
       \/ NotMined(Row(w).tx) /\ Row(w).old /\ Goes(w, "pricing") /\ UNCHANGED claimed
       \/ /\ NotMined(Row(w).tx) /\ ~Row(w).old /\ Goes(w, "idle")
          /\ claimed' = [claimed EXCEPT ![w] = NoClaim]
    /\ UNCHANGED <<queueVars, draft, chainVars, mishaps>>

\* A replacement pays an eighth more, rounded up.
Replacement(tx) == IF tx = NoTx THEN 0 ELSE tx.fee + (tx.fee + 7) \div 8
Fee(quote, tx)  == IF quote > Replacement(tx) THEN quote ELSE Replacement(tx)

\* The nonce a job was submitted with is kept, a new one is read from the node.
Price(w, nonce, quote) ==
    /\ at[w] = "pricing"
    /\ IF Row(w).tx = NoTx THEN TransactionCount(nonce) ELSE nonce = Row(w).tx.nonce
    /\ LET tx == [job |-> Job(w), nonce |-> nonce, fee |-> Fee(quote, Row(w).tx)]
       IN  \/ tx.fee > MaxFeePerGas /\ Goes(w, "failing") /\ UNCHANGED draft
           \/ /\ tx.fee <= MaxFeePerGas /\ Goes(w, "estimating")
              /\ draft' = [draft EXCEPT ![w] = tx]
    /\ UNCHANGED <<queueVars, claimed, chainVars, mishaps>>

\* estimateGas runs the call on the latest block; the gas ceiling is final.
Estimate(w) ==
    /\ at[w] = "estimating"
    /\ MayGoThrough(Job(w))
    /\ Goes(w, "sending") \/ Goes(w, "failing")
    /\ UNCHANGED <<queueVars, claimed, draft, chainVars, mishaps>>

\* The node takes the transaction, in place of one with its nonce and a lower
\* fee; the reply may get lost.
Send(w) ==
    /\ at[w] = "sending"
    /\ draft[w].nonce >= Len(mined)
    /\ \A tx \in pool : tx.nonce = draft[w].nonce => tx.fee < draft[w].fee
    /\ pool' = {tx \in pool : tx.nonce # draft[w].nonce} \cup {draft[w]}
    /\ \/ Goes(w, "sent")
       \/ Row(w).attempts < RetryLimit /\ Goes(w, "releasing")
       \/ Row(w).attempts = RetryLimit /\ Goes(w, "failing")
    /\ UNCHANGED <<queueVars, claimed, draft, mined, mishaps>>

\* The answers "already known", "nonce too low" and "replacement transaction
\* underpriced" all count as sent.  The last is also given for a replacement
\* that raises the fee but not the priority fee.
SendKnown(w) ==
    /\ at[w] = "sending"
    /\ draft[w].nonce < Len(mined) \/ Waiting(draft[w].nonce)
    /\ Goes(w, "sent")
    /\ UNCHANGED <<queueVars, claimed, draft, chainVars, mishaps>>

\* Any call to the node or the database may fail, and estimateGas fails when the
\* call reverts; the error is caught and is final after the last attempt.
Caught(w) ==
    /\ at[w] \in {"receipt", "completing", "pricing", "estimating", "sending", "sent"}
    /\ \/ Row(w).attempts < RetryLimit /\ Goes(w, "releasing")
       \/ Row(w).attempts = RetryLimit /\ Goes(w, "failing")
    /\ UNCHANGED <<queueVars, claimed, draft, chainVars, mishaps>>

-----------------------------------------------------------------------------
(* Time and failures.                                                       *)

WorkedOn(j) == \E w \in Workers : at[w] # "idle" /\ Job(w) = j /\ Leases(w, j)

\* lease_until passes.
Lapse(j) ==
    /\ jobs[j].owner # NoWorker /\ ~jobs[j].lapsed
    /\ jobs' = [jobs EXCEPT ![j].lapsed = TRUE]
    /\ IF WorkedOn(j) THEN mishaps < MaxMishaps /\ mishaps' = mishaps + 1
                      ELSE UNCHANGED mishaps
    /\ UNCHANGED <<workerVars, chainVars>>

\* replacementSeconds pass since the submission.
Age(j) ==
    /\ jobs[j].state = "submitted" /\ ~jobs[j].old
    /\ jobs' = [jobs EXCEPT ![j].old = TRUE]
    /\ UNCHANGED <<workerVars, chainVars, mishaps>>

\* The worker process dies and is started again.
Crash(w) ==
    /\ at[w] # "idle" /\ mishaps < MaxMishaps
    /\ mishaps' = mishaps + 1
    /\ at' = [at EXCEPT ![w] = "idle"]
    /\ claimed' = [claimed EXCEPT ![w] = NoClaim]
    /\ draft' = [draft EXCEPT ![w] = NoTx]
    /\ UNCHANGED <<queueVars, chainVars>>

-----------------------------------------------------------------------------
Nonces == 0 .. Len(mined) + Cardinality(pool)

Run(w) ==
    \/ \E j \in Jobs : Claim(w, j)
    \/ CheckReceipt(w)
    \/ \E nonce \in Nonces, quote \in Quotes : Price(w, nonce, quote)
    \/ Estimate(w) \/ Send(w) \/ SendKnown(w) \/ Caught(w)
    \/ MarkSubmitted(w) \/ MarkComplete(w) \/ MarkFailed(w) \/ Release(w)

Next ==
    \/ \E j \in Jobs : Enqueue(j) \/ Lapse(j) \/ Age(j)
    \/ \E w \in Workers : Run(w) \/ Crash(w)
    \/ Mine \/ Evict

Spec == Init /\ [][Next]_vars

\* The worker's loop goes on, leases run out and submissions grow old.  The
\* chain owes nothing: transactions may never be mined and calls may fail.
Fairness ==
    /\ \A w \in Workers : WF_vars(Run(w))
    /\ \A j \in Jobs : WF_vars(Lapse(j)) /\ WF_vars(Age(j))

FairSpec == Spec /\ Fairness

-----------------------------------------------------------------------------
(* Properties.                                                              *)

Rows == [state : {"absent", "ready", "submitted", "complete", "failed"},
         attempts : 0 .. RetryLimit, tx : Tx \cup {NoTx}, old : BOOLEAN,
         owner : Workers \cup {NoWorker}, lapsed : BOOLEAN]
Places == {"idle", "receipt", "pricing", "estimating", "sending", "sent",
           "completing", "failing", "releasing"}

\* Every variable stays within its type; a row that is submitted names its
\* transaction, and nothing above the fee ceiling is ever signed.
TypeOK ==
    /\ jobs \in [Jobs -> Rows]
    /\ at \in [Workers -> Places]
    /\ claimed \in [Workers -> [job : Jobs, row : Rows] \cup {NoClaim}]
    /\ draft \in [Workers -> Tx \cup {NoTx}]
    /\ pool \subseteq {tx \in Tx : tx.fee <= MaxFeePerGas}
    /\ mined \in Seq([tx : Tx, ok : BOOLEAN])
    /\ mishaps \in 0 .. MaxMishaps
    /\ \A j \in Jobs : jobs[j].state = "submitted" => jobs[j].tx # NoTx

\* A job recorded as complete has executed on the chain: no revert, lost
\* transaction or stale worker is mistaken for a success.
CompleteMeansExecuted ==
    \A j \in Jobs : jobs[j].state = "complete" => j \in Succeeded

\* A job that was completed or failed stays so and is never sent again by a
\* worker that claims it later, whatever a worker that lost its lease does.
TerminalIsFinal ==
    [][\A j \in Jobs :
         jobs[j].state \in {"complete", "failed"} => jobs'[j].state = jobs[j].state]_vars

\* Every job is settled in the end, even when nothing it sends is mined.
EventuallySettled ==
    \A j \in Jobs : jobs[j].state = "ready" ~> jobs[j].state \in {"complete", "failed"}

\* A job recorded as failed did not execute (README: the worker follows
\* receipts, and records terminal reverts).
FailedMeansNotExecuted ==
    \A j \in Jobs : jobs[j].state = "failed" => j \notin Succeeded

=============================================================================
