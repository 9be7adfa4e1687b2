--------------------------- MODULE TradeSubmission ---------------------------
(***************************************************************************)
(* The trade service (packages/trade-api/src/index.ts): a trade is         *)
(* previewed, simulated (safety.ts) and submitted; a submission checks the *)
(* delegation as the API knows it, has the facilitator (apps/facilitator)  *)
(* settle an x402 payment into the trade's own vault, and activates the    *)
(* vault, by a transaction or by arming triggers.                          *)
(*                                                                         *)
(* Every await of a submission is a place where other requests, the chain  *)
(* and crashes come in between: a request is a process whose steps are its *)
(* statements.  A trade is its preview, its operation and its vault; they  *)
(* share the id, and the salt makes the vault's address unique.            *)
(***************************************************************************)
EXTENDS Integers, Sequences, FiniteSets

CONSTANTS
    Trade,
    Amount,          \* [Trade -> Nat], what the reviewed plan sells
    Wishes,          \* what agents ask a preview for, see CreatePreview
    Request,         \* submissions under way at once
    Payment,         \* signed Permit2 payloads, each used for one request
    Delegations,     \* the limits an owner signs: perOrder, perDay, until
    MaxDelegations,  \* bound on registrations
    MaxDay,          \* bound on the day number
    ArmedDays,       \* the days an armed trade waits
    Scenes,          \* which trade each request is about
    None

\* The rows of the two tables.
Previews == [state : {"ready", "unsafe", "submitted"}, kind : {"resting", "market", "armed"},
             legs : Nat, deadline : Nat, expired : BOOLEAN]
Operations == [state : {"fundedActivationPending", "broadcast", "armed", "cancelled"},
               payment : Payment, lifecycle : Request \union {None}]
Projections == [perOrder : {d.perOrder : d \in Delegations}, perDay : {d.perDay : d \in Delegations},
                until : {d.until : d \in Delegations}, spent : Nat, day : Nat]

ASSUME SubmissionAssumption ==
    /\ IsFiniteSet(Trade) /\ Amount \in [Trade -> Nat]
    /\ Scenes \subseteq [Request -> Trade]
    /\ ArmedDays \in Nat /\ MaxDay \in Nat
    /\ None \notin Request \union Payment \union Previews \union Operations \union Projections

VARIABLES
    preview,     \* trade_previews: state, plan and age
    operation,   \* agent_order_operations
    settlement,  \* x402_settlements
    legs,        \* trade_triggers: how many rows watch for the trade
    projection,  \* delegation_projections, of one owner, agent and token
    request,     \* per request: where it is, and what it has read
    payment,     \* per payload: its trade and what became of it
    vault,       \* on the chain: balance, who deployed it, what it executed
    relayed,     \* transactions handed to the chain and not mined
    mandate,     \* whether the chain has a delegation, and how many were sent
    cancelling,  \* trade_cancellations, one per trade
    today,
    scene,       \* fixed from the start
    acted,       \* history: trades with a leg inserted or an activation sent, this
                 \* day and under this registration
    cut          \* history: trades of which a request was cut off after that and
                 \* before its charge, and that no later request charged

apiVars   == <<preview, operation, settlement, legs, projection, cancelling>>
chainVars == <<vault, relayed, mandate>>
history   == <<acted, cut>>
vars == <<apiVars, chainVars, request, payment, today, scene, history>>

(***************************************************************************)
(* Previews.                                                               *)
(***************************************************************************)
Rests(wish) == wish.policy = "limit" /\ wish.waits /\ wish.outcome # "fillsNow"

\* buildVaultAction: what the vault will do, or None when there is no such plan.
Kind(wish) ==
    CASE wish.policy \in {"market", "limit"} /\ Rests(wish) -> "resting"
      [] wish.policy \in {"market", "limit"} -> IF wish.routes = 1 THEN "market" ELSE None
      [] OTHER -> "armed"

Roles(wish) ==
    CASE wish.policy \in {"oco", "bracket"} -> <<"stop", "takeProfit">>
      [] wish.policy \in {"stopMarket", "stopLimit"} -> <<"stop">>
      [] wish.policy \in {"takeProfitMarket", "takeProfitLimit"} -> <<"takeProfit">>
      [] wish.policy = "trailingStop" -> <<"trailing">>
      [] OTHER -> <<>>

\* simulateFundedCalls: the calls of the plan, run on a funded state, and what
\* they approve; only a plan for now has calls.
Safe(wish) ==
    /\ \A call \in wish.calls :
         /\ call.runs
         /\ call.approves # "nobody" => call.approves = "reviewed" /\ call.size = "fits"
    /\ wish.output # "predatory"
    /\ wish.affordable

CreatePreview(t, wish) ==
    /\ preview[t] = None /\ \E r \in Request : scene[r] = t
    /\ Kind(wish) # None
    /\ preview' = [preview EXCEPT ![t] =
         [state |-> IF Safe(wish) THEN "ready" ELSE "unsafe", kind |-> Kind(wish),
          legs |-> Len(Roles(wish)), deadline |-> today + ArmedDays, expired |-> FALSE]]
    /\ UNCHANGED <<operation, settlement, legs, projection, cancelling, chainVars, request,
                   payment, today, scene, history>>

(***************************************************************************)
(* Delegations: the registration is relayed, and the projection is written *)
(* without waiting for it; a crash in between leaves the projection as it  *)
(* was.                                                                    *)
(***************************************************************************)
Init ==
    /\ preview = [t \in Trade |-> None]
    /\ operation = [t \in Trade |-> None]
    /\ settlement = [t \in Trade |-> [state |-> "none", payment |-> None]]
    /\ legs = [t \in Trade |-> 0]
    /\ projection = None
    /\ request = [r \in Request |-> [at |-> "idle", payment |-> None, before |-> 0, leg |-> 0]]
    /\ payment = [p \in Payment |-> [trade |-> None, state |-> "new"]]
    /\ vault = [t \in Trade |-> [balance |-> 0, deployer |-> None, executed |-> FALSE]]
    /\ relayed = {}
    /\ mandate = [active |-> FALSE, sent |-> 0]
    /\ cancelling = [t \in Trade |-> "none"]
    /\ today = 0
    /\ scene \in Scenes
    /\ acted = {} /\ cut = {}

\* Once the chain has a delegation, mining another changes nothing that matters here.
SubmitDelegation(d) ==
    /\ mandate.sent < MaxDelegations
    /\ d.perDay >= d.perOrder /\ d.until > today
    /\ mandate' = [mandate EXCEPT !.sent = @ + 1]
    /\ relayed' = IF mandate.active THEN relayed ELSE relayed \union {<<"register", None>>}
    /\ \/ /\ projection' = [perOrder |-> d.perOrder, perDay |-> d.perDay, until |-> d.until,
                            spent |-> 0, day |-> today]
          /\ acted' = {} /\ cut' = {}
       \/ UNCHANGED <<projection, history>>
    /\ UNCHANGED <<preview, operation, settlement, legs, cancelling, request, payment, vault, today, scene>>

Spent == IF projection.day = today THEN projection.spent ELSE 0

Allowed(t) ==
    /\ projection # None /\ projection.until > today
    /\ Amount[t] <= projection.perOrder /\ Spent + Amount[t] <= projection.perDay
    /\ preview[t].kind = "armed" => projection.until >= preview[t].deadline

(***************************************************************************)
(* A submission, from its first statement to the recorded payment.         *)
(***************************************************************************)
Goto(r, place) == request' = [request EXCEPT ![r].at = place]
End(r) == request' = [request EXCEPT ![r] = [at |-> "idle", payment |-> None, before |-> 0, leg |-> 0]]
At(r, place) == request[r].at = place

\* Permit2 payloads carry a nonce of their own: none is used for two requests.
Fresh(p) == payment[p].state = "new"

\* The first of the two requests of a client carries no payment, the second a
\* fresh one.  What is read of the operation decides later whether to pay.
Submit(r, p) ==
    LET t == scene[r] IN
    /\ At(r, "idle") /\ preview[t] # None /\ preview[t].state # "unsafe" /\ ~preview[t].expired
    /\ p # None => Fresh(p)
    /\ operation[t] # None => operation[t].lifecycle = None
    /\ operation[t] = None => p # None
    /\ request' = [request EXCEPT ![r].at = IF operation[t] = None THEN "unpaid" ELSE "paid",
                                  ![r].payment = p]
    /\ payment' = IF p = None THEN payment
                  ELSE [payment EXCEPT ![p] = [trade |-> t, state |-> "signed"]]
    /\ UNCHANGED <<apiVars, chainVars, today, scene, history>>

CheckDelegation(r) ==
    LET t == scene[r] IN
    /\ request[r].at \in {"unpaid", "paid"}
    /\ IF ~Allowed(t) THEN End(r)
       ELSE Goto(r, IF At(r, "paid") THEN "activate" ELSE "verify")
    /\ UNCHANGED <<apiVars, chainVars, payment, today, scene, history>>

\* verify and the balance before; the payer's signature may also be refused.
Verify(r) ==
    /\ At(r, "verify")
    /\ \/ request' = [request EXCEPT ![r].at = "settling", ![r].before = vault[scene[r]].balance]
       \/ End(r)
    /\ UNCHANGED <<apiVars, chainVars, payment, today, scene, history>>

\* recordSettlement keeps an older transaction when it is given none.
Settlement(t, state, p) ==
    settlement' = [settlement EXCEPT ![t] = [state |-> state, payment |-> IF p = None THEN @.payment ELSE p]]

StartSettlement(r) ==
    /\ At(r, "settling")
    /\ Settlement(scene[r], "settling", None)
    /\ payment' = [payment EXCEPT ![request[r].payment].state = "asked"]
    /\ Goto(r, "settle")
    /\ UNCHANGED <<preview, operation, legs, projection, cancelling, chainVars, today, scene, history>>

\* Mutant: an answer that does not come in time counts as a settlement.
SettleTimeoutAccepted(r) ==
    /\ At(r, "settle")
    /\ Goto(r, "after") /\ UNCHANGED <<apiVars, chainVars, payment, today, scene, history>>

\* The facilitator's answer, or none within the client's thirty seconds.
SettleAnswer(r) ==
    LET state == payment[request[r].payment].state IN
    /\ At(r, "settle")
    /\ \/ state = "mined"   /\ Goto(r, "after") /\ UNCHANGED settlement
       \/ state = "refused" /\ End(r) /\ UNCHANGED settlement
       \/ Settlement(scene[r], "pending", None) /\ End(r)
    /\ UNCHANGED <<preview, operation, legs, projection, cancelling, chainVars, payment, today, scene, history>>

\* The balance after; a difference that is not exact blocks the activation.
RecordSettlement(r) ==
    LET t == scene[r]
        exact == vault[t].balance - request[r].before = Amount[t]
    IN  /\ At(r, "after")
        /\ Settlement(t, IF exact THEN "settled" ELSE "failed", request[r].payment)
        /\ IF exact THEN Goto(r, "insert") ELSE End(r)
        /\ UNCHANGED <<preview, operation, legs, projection, cancelling, chainVars, payment, today, scene, history>>

\* Mutant: the row of a conflicting insert is replaced and not updated.
InsertReplacing(r) ==
    LET t == scene[r] IN
    /\ At(r, "insert")
    /\ operation' = [operation EXCEPT ![t] = [state |-> "fundedActivationPending",
                        payment |-> request[r].payment, lifecycle |-> None]]
    /\ preview' = [preview EXCEPT ![t].state = "submitted"]
    /\ Goto(r, "activate")
    /\ UNCHANGED <<settlement, legs, projection, cancelling, chainVars, payment, today, scene, history>>

\* The operation, inserted or on conflict updated, and the preview.
InsertOperation(r) ==
    LET t == scene[r] IN
    /\ At(r, "insert")
    /\ operation' = [operation EXCEPT ![t] =
         [state |-> "fundedActivationPending", payment |-> request[r].payment,
          lifecycle |-> IF @ = None THEN None ELSE @.lifecycle]]
    /\ preview' = [preview EXCEPT ![t].state = "submitted"]
    /\ Goto(r, "activate")
    /\ UNCHANGED <<settlement, legs, projection, cancelling, chainVars, payment, today, scene, history>>

(***************************************************************************)
(* activateFunded.  Every call to the chain may fail, which is caught.     *)
(***************************************************************************)
FindCode(r) ==
    LET t == scene[r] IN
    /\ At(r, "activate")
    /\ \/ vault[t].deployer # None /\ Goto(r, "balance") /\ UNCHANGED relayed
       \/ /\ vault[t].deployer = None
          /\ relayed' = relayed \union {<<"deploy", r>>} /\ Goto(r, "deploying")
       \/ Goto(r, "caught") /\ UNCHANGED relayed
    /\ UNCHANGED <<apiVars, vault, mandate, payment, today, scene, history>>

\* A receipt that does not come within thirty seconds ends the request.
AwaitDeployment(r) ==
    LET deployer == vault[scene[r]].deployer IN
    /\ At(r, "deploying")
    /\ \/ deployer # None /\ Goto(r, IF deployer = r THEN "balance" ELSE "caught")
       \/ End(r)
    /\ UNCHANGED <<apiVars, chainVars, payment, today, scene, history>>

CheckFunds(r) ==
    LET t == scene[r] IN
    /\ At(r, "balance")
    /\ Goto(r, CASE vault[t].balance < Amount[t] -> "caught"
                 [] preview[t].kind = "armed"    -> "legs"
                 [] OTHER                        -> "relay")
    /\ UNCHANGED <<apiVars, chainVars, payment, today, scene, history>>

\* The legs are inserted one by one, whatever rows there are already; more
\* than all of them twice is counted as that.
InsertLeg(r) ==
    LET t == scene[r] IN
    /\ At(r, "legs")
    /\ legs' = [legs EXCEPT ![t] = IF @ < 2 * preview[t].legs THEN @ + 1 ELSE @]
    /\ request' = [request EXCEPT ![r].leg = @ + 1,
                                  ![r].at = IF request[r].leg + 1 = preview[t].legs THEN "commit" ELSE @]
    /\ acted' = acted \union {t}
    /\ UNCHANGED <<preview, operation, settlement, projection, cancelling, chainVars, payment, today, scene, cut>>

\* The contract takes a request once, for a funded vault, under a delegation.
Executable(t) ==
    /\ vault[t].deployer # None /\ ~vault[t].executed
    /\ vault[t].balance >= Amount[t] /\ mandate.active

\* The simulation, which must succeed, and the broadcast, whose answer may be
\* lost though the chain has the transaction.
RelayActivation(r) ==
    LET t == scene[r] IN
    /\ At(r, "relay")
    /\ \/ /\ Executable(t)
          /\ relayed' = relayed \union {<<"activate", t>>}
          /\ acted' = acted \union {t}
          /\ \/ Goto(r, "commit") /\ UNCHANGED cut
             \/ Goto(r, "caught") /\ cut' = cut \union {t}
       \/ Goto(r, "caught") /\ UNCHANGED <<relayed, history>>
    /\ UNCHANGED <<apiVars, vault, mandate, payment, today, scene>>

\* Whether a request has left its mark and has not charged it.
UnderWay(r) == At(r, "commit") \/ (At(r, "legs") /\ request[r].leg > 0)
CutOff(r) == cut' = cut \union (IF UnderWay(r) THEN {scene[r]} ELSE {})

\* An insert or the last transaction fails, and is rolled back and caught.
StatementFails(r) ==
    /\ request[r].at \in {"legs", "commit"}
    /\ Goto(r, "caught") /\ CutOff(r)
    /\ UNCHANGED <<apiVars, chainVars, payment, today, scene, acted>>

\* Mutant: an armed trade is not charged.
CommitCharging(t) == preview[t].kind # "armed"

\* Every activation is charged, again if it is repeated.
Charges(t) == TRUE

\* The last transaction: the state of the operation, and the charge.
Commit(r) ==
    LET t == scene[r]
        armed == preview[t].kind = "armed"
        recorded == armed \/ operation[t].lifecycle = None
    IN  /\ At(r, "commit")
        /\ operation' = [operation EXCEPT ![t] =
             IF armed THEN [@ EXCEPT !.state = "armed"]
             ELSE IF recorded THEN [@ EXCEPT !.state = "broadcast", !.lifecycle = r] ELSE @]
        /\ projection' = [projection EXCEPT !.spent = Spent + (IF Charges(t) THEN Amount[t] ELSE 0),
                                            !.day = today]
        /\ cut' = cut \ {t}
        /\ End(r)
        /\ UNCHANGED <<preview, settlement, legs, cancelling, chainVars, payment, today, scene, acted>>

Caught(r) ==
    /\ At(r, "caught")
    /\ operation' = [operation EXCEPT ![scene[r]].state = "fundedActivationPending"]
    /\ End(r)
    /\ UNCHANGED <<preview, settlement, legs, projection, cancelling, chainVars, payment, today, scene, history>>

\* The process dies, or the connection to the database does.
Crash(r) ==
    /\ ~At(r, "idle")
    /\ End(r) /\ CutOff(r)
    /\ UNCHANGED <<apiVars, chainVars, payment, today, scene, acted>>

(***************************************************************************)
(* Cancellations: the state is checked when the document is made, and not  *)
(* when its signature comes back.                                          *)
(***************************************************************************)
CreateCancellation(t) ==
    /\ operation[t] # None /\ cancelling[t] = "none"
    /\ operation[t].state = IF preview[t].kind = "armed" THEN "armed" ELSE "broadcast"
    /\ cancelling' = [cancelling EXCEPT ![t] = "offered"]
    /\ UNCHANGED <<preview, operation, settlement, legs, projection, chainVars, request, payment, today, scene, history>>

SubmitCancellation(t) ==
    /\ cancelling[t] = "offered" /\ mandate.active
    /\ preview[t].kind = "armed" \/ vault[t].executed
    /\ relayed' = relayed \union {<<"cancel", t>>}
    /\ cancelling' = [cancelling EXCEPT ![t] = "used"]
    /\ operation' = [operation EXCEPT ![t].state = "cancelled"]
    /\ legs' = [legs EXCEPT ![t] = 0]
    /\ UNCHANGED <<preview, settlement, projection, vault, mandate, request, payment, today, scene, history>>

(***************************************************************************)
(* The facilitator and the chain.                                          *)
(***************************************************************************)
\* The requirement a payment answers: the exact amount, to the trade's vault.
Funded(t) == [vault EXCEPT ![t].balance = @ + Amount[t]]

\* settle: simulated, sent and mined, or refused; it goes on when the client
\* has given up waiting.
Settle(p) ==
    LET t == payment[p].trade IN
    /\ payment[p].state = "asked"
    /\ \/ /\ payment' = [payment EXCEPT ![p].state = "mined"]
          /\ vault' = Funded(t)
       \/ payment' = [payment EXCEPT ![p].state = "refused"] /\ UNCHANGED vault
    /\ UNCHANGED <<apiVars, relayed, mandate, request, today, scene, history>>

\* Of several deployments of a vault the first succeeds, and the others revert.
Mine(tx) ==
    /\ tx \in relayed
    /\ relayed' = {other \in relayed \ {tx} :
                     tx[1] = "deploy" /\ other[1] = "deploy" => scene[other[2]] # scene[tx[2]]}
    /\ mandate' = IF tx[1] = "register" THEN [mandate EXCEPT !.active = TRUE] ELSE mandate
    /\ vault' =
         CASE tx[1] = "deploy" -> [vault EXCEPT ![scene[tx[2]]].deployer = tx[2]]
           [] tx[1] = "activate" /\ Executable(tx[2]) ->
                [vault EXCEPT ![tx[2]].executed = TRUE,
                   ![tx[2]].balance = IF preview[tx[2]].kind = "market" THEN @ - Amount[tx[2]] ELSE @]
           [] tx[1] = "cancel" /\ preview[tx[2]].kind = "armed" -> [vault EXCEPT ![tx[2]].balance = 0]
           [] OTHER -> vault
    /\ UNCHANGED <<apiVars, request, payment, today, scene, history>>

\* Previews last five minutes, so none of them lives on.
NewDay ==
    /\ today < MaxDay /\ today' = today + 1
    /\ preview' = [t \in Trade |-> IF preview[t] = None THEN None ELSE [preview[t] EXCEPT !.expired = TRUE]]
    /\ acted' = {} /\ cut' = {}
    /\ UNCHANGED <<operation, settlement, legs, projection, cancelling, chainVars, request,
                   payment, scene>>

Next ==
    \/ \E t \in Trade, wish \in Wishes : CreatePreview(t, wish)
    \/ \E t \in Trade : CreateCancellation(t) \/ SubmitCancellation(t)
    \/ \E d \in Delegations : SubmitDelegation(d)
    \/ \E r \in Request, p \in Payment \union {None} : Submit(r, p)
    \/ \E r \in Request :
         \/ CheckDelegation(r) \/ Verify(r) \/ StartSettlement(r) \/ SettleAnswer(r)
         \/ RecordSettlement(r) \/ InsertOperation(r) \/ FindCode(r) \/ AwaitDeployment(r)
         \/ CheckFunds(r) \/ InsertLeg(r) \/ RelayActivation(r) \/ StatementFails(r)
         \/ Commit(r) \/ Caught(r) \/ Crash(r)
    \/ \E p \in Payment : Settle(p)
    \/ \E tx \in relayed : Mine(tx)
    \/ NewDay

Spec == Init /\ [][Next]_vars

(***************************************************************************)
(* Properties.                                                             *)
(***************************************************************************)
TypeOK ==
    /\ preview \in [Trade -> Previews \union {None}]
    /\ operation \in [Trade -> Operations \union {None}]
    /\ settlement \in [Trade -> [state : {"none", "settling", "pending", "settled", "failed"},
                                 payment : Payment \union {None}]]
    /\ legs \in [Trade -> Nat]
    /\ vault \in [Trade -> [balance : Nat, deployer : Request \union {None}, executed : BOOLEAN]]

\* What the tables say was paid has been paid: an operation, and a settlement
\* that is called settled or failed, name a transfer of this trade that the
\* chain has made, whatever timed out, crashed, or was paid twice.
RecordedPaymentIsReal ==
    \A t \in Trade :
        LET Real(p) == payment[p].trade = t /\ payment[p].state = "mined" IN
        /\ operation[t] # None => Real(operation[t].payment)
        /\ settlement[t].payment # None => Real(settlement[t].payment)
        /\ settlement[t].state \in {"settled", "failed"} => settlement[t].payment # None

\* Triggers watch, and activations are sent, only for a vault that exists and
\* was paid for: otherwise the keeper would fire at an address with no code.
\* The receipt, the code and the balance are read at different times, by
\* requests that may each be the one that deploys.
LegsHaveVault ==
    \A t \in Trade :
        legs[t] > 0 \/ (operation[t] # None /\ operation[t].lifecycle # None) =>
            /\ vault[t].deployer # None
            /\ \E p \in Payment : payment[p].trade = t /\ payment[p].state = "mined"

\* What the service records has happened on the chain: the payments, and the vaults
\* it watches and activates orders of (submit and activateFunded).
RecordsAreReal == TypeOK /\ RecordedPaymentIsReal /\ LegsHaveVault

\* What the plans of a set of trades sell.
Total[S \in SUBSET Trade] ==
    IF S = {} THEN 0 ELSE LET t == CHOOSE x \in S : TRUE IN Amount[t] + Total[S \ {t}]

\* Trades that left their mark, and whose requests came to their charge.
Accountable == acted \ (cut \union {scene[r] : r \in {q \in Request : UnderWay(q)}})

\* What was spent of the day's limit covers every trade that a leg was inserted for
\* or an activation sent, however many requests of it interleave, are retried or
\* race with a registration that sets the spending back; but for a trade that some
\* request has yet to charge, or was cut off before it could, with nobody after it.
SpentCoversActivations == projection # None => Total[Accountable] <= Spent

LifecycleStays ==
    \A t \in Trade : operation[t] # None /\ operation[t].lifecycle # None =>
        operation'[t].lifecycle = operation[t].lifecycle

\* The transaction a client was told of stays the one on record, through late
\* retries, second payments, failures and cancellations.
LifecycleIsFinal == [][LifecycleStays]_vars
=============================================================================
