--------------------------- MODULE StandingIntents ---------------------------
(***************************************************************************)
(* A conditional order placed with the order book: the challenge that its  *)
(* maker signs and the request that brings the signature                   *)
(* (packages/orderbook/src/authorization.ts, service.ts), and the          *)
(* evaluator that watches the standing intent (triggers.ts) until the      *)
(* intent controller (AquaIntentController) lets it activate.              *)
(*                                                                         *)
(* A behaviour has one intent, with any of the given commands.  Statements *)
(* of the database are steps of their own; the worker and requests may die *)
(* between two.  The controller knows the intent by the hash of its        *)
(* command and closes the group of its nonce; both exits of an oco or a    *)
(* bracket share the two.  Blocks are one unit of time apart.              *)
(***************************************************************************)
EXTENDS Integers, Sequences, FiniteSets

CONSTANTS
    Commands,        \* what may be asked for, see Exits and Trigger
    BestPrices,      \* best prices that the book may show
    NoPrice,
    OrderSets,       \* hashes of the orders that make a condition true
    NoHash,
    Validity,        \* validitySeconds
    Confirmations,   \* blocks until one is confirmed
    WaitBlocks, WaitTime,
    LastBlock, MostJobs, MostReports, MostRequests \* bounds

ASSUME IntentAssumption ==
    /\ NoHash \notin OrderSets /\ NoPrice \notin BestPrices /\ BestPrices \subseteq Nat
    /\ Validity \in Nat \ {0} /\ Confirmations \in Nat
    /\ LastBlock \in Nat /\ MostJobs \in Nat /\ MostRequests \in Nat \ {0}

VARIABLES
    block, time, matcher, nonceUsed, observations, closedGroups,
    reports, activations, consumed,   \* the controller
    command,
    intent,        \* its row in trading_intents: status and valid_before
    signed,        \* has the maker signed the challenge?
    requests,      \* authorize requests between their two statements
    acceptances,   \* how often an authorize request was answered with 202
    highWater,     \* trigger_high_water
    watched,       \* trigger_observations
    jobs,          \* keeper_jobs
    evaluator      \* where the evaluator's cycle is

ObservationIds == {"", ":sl", ":tp"}
Controller == INSTANCE AquaIntentController WITH
    Senders <- {"keeper"}, Operator <- "keeper", Deployer <- "keeper", NoMatcher <- "none",
    IntentHashes <- {"commandHash"}, Groups <- {"nonce"} \union ObservationIds,
    Proofs <- OrderSets, NoProof <- NoHash, SignedIntents <- {},
    MinimumBlocks <- WaitBlocks, MinimumDelay <- WaitTime,
    MaxBlock <- LastBlock, MaxTime <- LastBlock, MaxReports <- MostReports

controllerVars == <<block, time, matcher, nonceUsed, observations, closedGroups,
                    reports, activations, consumed>>
requestVars == <<command, intent, signed, requests, acceptances>>
workerVars == <<highWater, watched, evaluator>>
intentVars == <<controllerVars, requestVars, workerVars, jobs>>

Unwatched == [proof |-> NoHash, firstBlock |-> 0]
Idle == [at |-> "idle", asOf |-> 0, todo |-> <<>>, second |-> <<>>]

IntentsInit ==
    /\ Controller!InitBoundTo("keeper")
    /\ command \in Commands
    /\ intent = [status |-> "none", validBefore |-> 0]
    /\ signed = FALSE /\ requests = 0 /\ acceptances = 0
    /\ highWater = NoPrice
    /\ watched = [o \in ObservationIds |-> Unwatched]
    /\ jobs = {} /\ evaluator = Idle

-----------------------------------------------------------------------------
(* Authorization.                                                           *)

\* The command without an authorization is answered with a challenge.
Challenge ==
    /\ intent.status = "none"
    /\ intent' = [status |-> "awaitingAuthorization", validBefore |-> time + Validity]
    /\ UNCHANGED <<controllerVars, command, signed, requests, acceptances, workerVars, jobs>>

SignTypedData ==
    /\ intent.status # "none" /\ signed' = TRUE
    /\ UNCHANGED <<controllerVars, command, intent, requests, acceptances, workerVars, jobs>>

\* (mutant) the update does not ask for the status
ConsumableAgain == intent.status # "none" /\ intent.validBefore > time

Consumable == intent.status = "awaitingAuthorization" /\ intent.validBefore > time

\* An EOA's signature is recovered, a contract asked (EIP-1271): it is good if it
\* is the maker's.
VerifySignature(genuine) == genuine /\ signed

\* The first half of authorize: getRequirement and the signature.  A request that
\* is refused leaves nothing behind.
Authorize(genuine) ==
    /\ Consumable /\ VerifySignature(genuine)
    /\ requests < MostRequests
    /\ requests' = requests + 1
    /\ UNCHANGED <<controllerVars, command, intent, signed, acceptances, workerVars, jobs>>

\* The second half, an update guarded by status and validity; the request that
\* finds nothing to update is refused.
ConsumeRequirement ==
    /\ requests > 0 /\ requests' = requests - 1
    /\ IF Consumable
         THEN intent' = [intent EXCEPT !.status = "active"] /\ acceptances' = acceptances + 1
         ELSE UNCHANGED <<intent, acceptances>>
    /\ UNCHANGED <<controllerVars, command, signed, workerVars, jobs>>

-----------------------------------------------------------------------------
(* The evaluator.  Prices of triggers are in ten thousandths.               *)

Stop(side) == IF side = "sell" THEN "atMost" ELSE "atLeast"
TakeProfit(side) == IF side = "sell" THEN "atLeast" ELSE "atMost"
ExitAt(id, price, comparison) == [id |-> id, price |-> price * 10000, comparison |-> comparison]

\* triggerPrice and evaluateIntent: what is watched for a command
Exits(c) ==
    IF c.kind = "stop" THEN <<ExitAt("", c.triggerPrice, Stop(c.side))>>
    ELSE IF c.kind = "takeProfit" THEN <<ExitAt("", c.triggerPrice, TakeProfit(c.side))>>
    ELSE <<ExitAt(IF c.kind = "oco" THEN "" ELSE ":sl", c.stopLossPrice, Stop(c.side)),
           ExitAt(":tp", c.takeProfitPrice, TakeProfit(c.side))>>

\* trailTrigger: applyBps or subtractPrice
TrailTrigger(high, trail) ==
    IF trail.unit = "bps" THEN high * (10000 - trail.value)
    ELSE IF high > trail.value THEN (high - trail.value) * 10000 ELSE 0

\* runOnce: listActiveIntents, at the confirmed block of this cycle
RunOnce ==
    /\ evaluator = Idle /\ block >= Confirmations
    /\ intent.status = "active" /\ intent.validBefore > time
    /\ evaluator' = [Idle EXCEPT !.at = IF command.kind = "trailingStop" THEN "track" ELSE "evaluate",
                                 !.asOf = block - Confirmations,
                                 !.todo = IF command.kind = "trailingStop" THEN <<>> ELSE Exits(command)]
    /\ UNCHANGED <<controllerVars, requestVars, highWater, watched, jobs>>

Higher(best) == IF highWater = NoPrice \/ best > highWater THEN best ELSE highWater

\* trackHighWater, with the best price that the book shows now
TrackHighWater(best) ==
    /\ evaluator.at = "track"
    /\ IF \/ best = NoPrice
          \/ command.activationPrice # NoPrice /\ highWater = NoPrice /\ best < command.activationPrice
         THEN evaluator' = Idle /\ UNCHANGED highWater
         ELSE /\ highWater' = Higher(best)
              /\ evaluator' = [evaluator EXCEPT !.at = "evaluate", !.todo =
                   <<[id |-> "", price |-> TrailTrigger(highWater', command.trail),
                      comparison |-> Stop(command.side)]>>]
    /\ UNCHANGED <<controllerVars, requestVars, watched, jobs>>

\* The controller's group of an exit is the nonce of the intent.

\* (mutant) each exit is a group of its own
GroupOfExit(id) == IF id = "" THEN "nonce" ELSE id

Group(id) == "nonce"

ObserveIntent(id, p) == [id |-> id, kind |-> "observe", arg |-> p]
ResetIntent(id, b)   == [id |-> id, kind |-> "reset", arg |-> b]
ActivateIntent(id, p) == [id |-> id, kind |-> "activate", arg |-> p]

Meets(best, exit) ==
    IF exit.comparison = "atMost" THEN best * 10000 <= exit.price ELSE best * 10000 >= exit.price

\* enqueue: ON CONFLICT DO NOTHING
EnqueueIntent(j) ==
    /\ j \in jobs \/ Cardinality(jobs) < MostJobs
    /\ jobs' = jobs \union {j}

\* The next exit, or the cycle's end; second is the statement to come first.
Proceed(second) ==
    LET rest == Tail(evaluator.todo)
    IN  evaluator' = IF second = <<>> /\ rest = <<>> THEN Idle
                     ELSE [evaluator EXCEPT !.todo = rest, !.second = second]

\* evaluateCondition: the book shows a best price, deep enough or not, made by
\* the orders of p.
EvaluateCondition(best, deep, p) ==
    /\ evaluator.at = "evaluate" /\ evaluator.second = <<>>
    /\ LET exit      == Head(evaluator.todo)
           existing  == watched[exit.id]
           condition == best # NoPrice /\ deep /\ Meets(best, exit)
           due       == /\ evaluator.asOf >= existing.firstBlock + WaitBlocks
                        /\ evaluator.asOf >= existing.firstBlock + WaitTime
       IN  \/ /\ ~condition /\ existing # Unwatched
              /\ EnqueueIntent(ResetIntent(exit.id, evaluator.asOf))
              /\ Proceed(<<ResetIntent(exit.id, evaluator.asOf)>>)
              /\ UNCHANGED watched
           \/ /\ condition /\ existing.proof # p
              /\ watched' = [watched EXCEPT ![exit.id] = [proof |-> p, firstBlock |-> evaluator.asOf]]
              /\ Proceed(<<ObserveIntent(exit.id, p)>>)
              /\ UNCHANGED jobs
           \/ /\ condition /\ existing.proof = p /\ due
              /\ EnqueueIntent(ActivateIntent(exit.id, p))
              /\ Proceed(<<>>)
              /\ UNCHANGED watched
           \/ /\ IF condition THEN existing.proof = p /\ ~due ELSE existing = Unwatched
              /\ Proceed(<<>>)
              /\ UNCHANGED <<watched, jobs>>
    /\ UNCHANGED <<controllerVars, requestVars, highWater>>

\* deleteObservation, or enqueue after saveObservation
SecondStatement ==
    /\ evaluator.second # <<>>
    /\ LET job == Head(evaluator.second)
       IN  IF job.kind = "reset"
             THEN watched' = [watched EXCEPT ![job.id] = Unwatched] /\ UNCHANGED jobs
             ELSE EnqueueIntent(job) /\ UNCHANGED watched
    /\ evaluator' = IF evaluator.todo = <<>> THEN Idle ELSE [evaluator EXCEPT !.second = <<>>]
    /\ UNCHANGED <<controllerVars, requestVars, highWater>>

\* The call of a job is mined, late, again or never.
MineCall(j) ==
    /\ j \in jobs
    /\ \/ /\ j.kind = "observe" /\ Len(reports["commandHash"]) < MostReports
          /\ Controller!Observe("keeper", "commandHash", j.arg)
       \/ j.kind = "reset" /\ Controller!Reset("keeper", "commandHash")
       \/ j.kind = "activate" /\ Controller!Activate("keeper", "commandHash", Group(j.id), j.arg)
    /\ UNCHANGED <<requestVars, workerVars, jobs>>

NextBlock ==
    /\ Controller!NewBlock(time + 1)
    /\ UNCHANGED <<requestVars, workerVars, jobs>>

\* The services restart: requests and the cycle are lost, and initialize deletes
\* what has lapsed.
RestartServices ==
    /\ evaluator' = Idle /\ requests' = 0
    /\ intent' = IF intent.status # "none" /\ intent.validBefore <= time
                   THEN [intent EXCEPT !.status = "deleted"] ELSE intent
    /\ UNCHANGED <<controllerVars, command, signed, acceptances, highWater, watched, jobs>>

IntentsNext ==
    \/ Challenge \/ SignTypedData \/ ConsumeRequirement
    \/ \E genuine \in BOOLEAN : Authorize(genuine)
    \/ RunOnce \/ SecondStatement
    \/ \E best \in BestPrices \union {NoPrice} : TrackHighWater(best)
    \/ \E best \in BestPrices \union {NoPrice}, deep \in BOOLEAN, p \in OrderSets :
         EvaluateCondition(best, deep, p)
    \/ \E j \in jobs : MineCall(j)
    \/ NextBlock \/ RestartServices

IntentsSpec == IntentsInit /\ [][IntentsNext]_intentVars

-----------------------------------------------------------------------------
(* Properties.                                                              *)

\* An intent stands, is watched, tracked or acted for only when its maker signed
\* the challenge and one request brought the signature in time; of several that
\* bring it at once, one is accepted.
StandingIsAuthorized ==
    /\ acceptances <= 1
    /\ \/ intent.status = "active" \/ jobs # {} \/ highWater # NoPrice
       \/ \E o \in ObservationIds : watched[o] # Unwatched
       => signed /\ acceptances = 1

\* Of the two exits of an intent at most one activates, and once, though the
\* evaluator goes on watching both and enqueues an activation whenever it sees one
\* due, and both report under one hash.
OneExit ==
    LET done == activations["commandHash"]
    IN  /\ \A g \in DOMAIN done : done[g] <= 1
        /\ \A g, h \in DOMAIN done : done[g] = 1 /\ done[h] = 1 => g = h

=============================================================================
