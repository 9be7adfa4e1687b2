----------------------- MODULE AquaOrderVaultFactory -----------------------
(***************************************************************************)
(* The vault factory (contracts/src/AquaOrderVaultFactory.sol) composed    *)
(* with the vaults it drives: Ledger owners delegate a bounded budget to   *)
(* an agent by an EIP-712 signature anyone may relay, and the agent's      *)
(* signed lifecycle requests reach a vault only through execute, which     *)
(* spends a nonce and charges the budget in the same transaction.          *)
(***************************************************************************)
EXTENDS AquaOrderVault

CONSTANTS
    Delegates,      \* agent accounts
    DelegateOf,     \* immutable delegate of a vault
    Nonces,         \* nonzero nonces of lifecycle requests
    Deadlines,      \* their deadlines
    Offers,         \* what owners may sign: key, maxPerOrder, maxPerDay, validUntil
    DayLength,      \* 1 days
    StartTime,      \* block.timestamp of the first block
    MaxTime,        \* bound on block.timestamp
    MaxDelegations  \* bound on the delegations of one owner

ASSUME FactoryAssumption ==
    /\ DelegateOf \in [Vaults -> Delegates]
    /\ Offers \subseteq [key : Owners \X Delegates \X Tokens, maxPerOrder : Nat,
                        maxPerDay : Nat, validUntil : Nat]
    /\ DayLength \in Nat \ {0}
    /\ StartTime \in Nat /\ MaxTime \in Nat /\ MaxDelegations \in Nat

VARIABLES
    now,               \* block.timestamp
    signed,            \* delegations owners signed, whoever holds them
    delegationNonces,  \* per owner
    policies,          \* per policy key
    dailySpend,        \* per policy key: the day last charged, and its amount
    actionNonceUsed,   \* per delegate: nonces executed
    vaults,            \* vaults deployed by this factory
    placed,            \* history: what agents placed under a key today
    granted,           \* history: the limits of today's mandates under a key
    honoured           \* history: delegations registered so far

policyVars  == <<signed, delegationNonces, policies>>
factoryVars == <<now, policyVars, dailySpend, actionNonceUsed, vaults>>
history     == <<placed, granted, honoured>>
vars        == <<vaultVars, factoryVars, history>>

\* _policyKey, and the key under which a vault is charged.
Keys     == Owners \X Delegates \X Tokens
KeyOf(v) == <<OwnerOf[v], DelegateOf[v], Sell(v)>>

Delegation(offer, nonce) ==
    [key |-> offer.key, maxPerOrder |-> offer.maxPerOrder,
     maxPerDay |-> offer.maxPerDay, validUntil |-> offer.validUntil, nonce |-> nonce]

Today == now \div DayLength

PolicyActive(k) == policies[k].active /\ policies[k].validUntil >= now

\* What the budget counts against today: the stored amount is from the day of
\* the last charge and is void on any other day.
SpentToday(k) == IF dailySpend[k].day = Today THEN dailySpend[k].amount ELSE 0

Init ==
    /\ VaultInit
    /\ now = StartTime
    /\ signed = {}
    /\ delegationNonces = [owner \in Owners |-> 0]
    /\ policies = [k \in Keys |-> [maxPerOrder |-> 0, maxPerDay |-> 0,
                                   validUntil |-> 0, active |-> FALSE]]
    /\ dailySpend = [k \in Keys |-> [day |-> 0, amount |-> 0]]
    /\ actionNonceUsed = [d \in Delegates |-> {}]
    /\ vaults = {}
    /\ placed = [k \in Keys |-> 0]
    /\ granted = [k \in Keys |-> 0]
    /\ honoured = {}

-----------------------------------------------------------------------------
(* Delegations.                                                             *)

\* The owner's Ledger signs the typed data the trade API prepared with the
\* owner's nonce read from the chain.
SignDelegation(offer) ==
    LET owner == offer.key[1]
        delegation == Delegation(offer, delegationNonces[owner])
    IN  /\ delegationNonces[owner] < MaxDelegations
        /\ delegation \notin signed
        /\ signed' = signed \cup {delegation}
        /\ UNCHANGED <<vaultVars, now, delegationNonces, policies, dailySpend,
                       actionNonceUsed, vaults, history>>

\* A registration adds its limit to the mandates of the day, once.
Grants(delegation) ==
    /\ granted' = [granted EXCEPT ![delegation.key] =
                     @ + (IF delegation \in honoured THEN 0 ELSE delegation.maxPerDay)]
    /\ honoured' = honoured \cup {delegation}
    /\ UNCHANGED placed

\* (mutant) registering leaves the owner's nonce where it was
RegisterKeepingNonce(delegation) ==
    LET k == delegation.key
        owner == k[1]
    IN  /\ delegation.maxPerOrder # 0
        /\ delegation.maxPerDay >= delegation.maxPerOrder
        /\ delegation.validUntil > now
        /\ delegation.nonce = delegationNonces[owner]
        /\ policies' = [policies EXCEPT ![k] =
             [maxPerOrder |-> delegation.maxPerOrder, maxPerDay |-> delegation.maxPerDay,
              validUntil |-> delegation.validUntil, active |-> TRUE]]
        /\ dailySpend' = [dailySpend EXCEPT ![k] = [day |-> 0, amount |-> 0]]
        /\ Grants(delegation)
        /\ UNCHANGED <<vaultVars, now, signed, delegationNonces, actionNonceUsed, vaults>>

\* Anyone relays a signature; it recovers to the owner only for a delegation
\* signed with the owner's current nonce.
RegisterDelegation(delegation) ==
    LET k == delegation.key
        owner == k[1]
    IN  /\ delegation.maxPerOrder # 0
        /\ delegation.maxPerDay >= delegation.maxPerOrder
        /\ delegation.validUntil > now
        /\ delegation.nonce = delegationNonces[owner]
        /\ delegationNonces' = [delegationNonces EXCEPT ![owner] = @ + 1]
        /\ policies' = [policies EXCEPT ![k] =
             [maxPerOrder |-> delegation.maxPerOrder, maxPerDay |-> delegation.maxPerDay,
              validUntil |-> delegation.validUntil, active |-> TRUE]]
        /\ dailySpend' = [dailySpend EXCEPT ![k] = [day |-> 0, amount |-> 0]]
        /\ Grants(delegation)
        /\ UNCHANGED <<vaultVars, now, signed, actionNonceUsed, vaults>>

RevokeDelegation(k) ==
    /\ policies' = [policies EXCEPT ![k].active = FALSE]
    /\ UNCHANGED <<vaultVars, now, signed, delegationNonces, dailySpend,
                   actionNonceUsed, vaults, history>>

\* CREATE2 fails when the address already has code.
DeployVault(v) ==
    /\ PolicyActive(KeyOf(v))
    /\ v \notin vaults
    /\ vaults' = vaults \cup {v}
    /\ UNCHANGED <<vaultVars, now, policyVars, dailySpend, actionNonceUsed, history>>

-----------------------------------------------------------------------------
(* Requests signed by the vault's delegate, relayed by anyone.              *)

\* (mutant) only the increase is held against the daily limit
ChargeIncreaseOnly(k, orderAmount, increase) ==
    /\ PolicyActive(k)
    /\ orderAmount <= policies[k].maxPerOrder
    /\ increase <= policies[k].maxPerDay
    /\ dailySpend' = [dailySpend EXCEPT ![k] =
                        [day |-> Today, amount |-> SpentToday(k) + increase]]

\* _charge
Charge(k, orderAmount, increase) ==
    /\ PolicyActive(k)
    /\ orderAmount <= policies[k].maxPerOrder
    /\ SpentToday(k) + increase <= policies[k].maxPerDay
    /\ dailySpend' = [dailySpend EXCEPT ![k] =
                        [day |-> Today, amount |-> SpentToday(k) + increase]]

Increase(v, amount) ==
    IF amount > committedAmount[v] THEN amount - committedAmount[v] ELSE 0

ActivateRequest(v, o, amount) ==
    Charge(KeyOf(v), amount, Increase(v, amount)) /\ ActivateOrder(v, o, amount)

AmendRequest(v, o, amount) ==
    Charge(KeyOf(v), amount, Increase(v, amount)) /\ Amend(v, o, amount)

CancelRequest(v) == Cancel(v) /\ UNCHANGED dailySpend

\* (mutant) the minimum output is charged instead of the amount sold
SwapChargingMinimum(v, buy, minimum, amount, used, output) ==
    /\ Charge(KeyOf(v), minimum, minimum)
    /\ ExecuteSwap(v, buy, minimum, amount, used, output)

SwapRequest(v, buy, minimum, amount, used, output) ==
    /\ Charge(KeyOf(v), amount, amount)
    /\ ExecuteSwap(v, buy, minimum, amount, used, output)

ReturnRequest(v, tokens) == ReturnToOwner(v, tokens) /\ UNCHANGED dailySpend

Request(v) ==
    \/ \E o \in Orders, amount \in Amounts :
          ActivateRequest(v, o, amount) \/ AmendRequest(v, o, amount)
    \/ CancelRequest(v)
    \/ \E buy \in Tokens, minimum, amount, used, output \in Amounts :
          SwapRequest(v, buy, minimum, amount, used, output)
    \/ \E tokens \in SUBSET Tokens : ReturnRequest(v, tokens)

\* What a request of the agent commits more than before, or has the market take.
Placed(v) ==
    IF committedAmount'[v] > committedAmount[v] THEN committedAmount'[v] - committedAmount[v]
    ELSE IF MarketTakes(v) THEN Lost(v, Sell(v)) ELSE 0

Places(v) ==
    /\ placed' = [placed EXCEPT ![KeyOf(v)] = @ + Placed(v)]
    /\ UNCHANGED <<granted, honoured>>

\* (mutant) a used nonce is accepted again
ExecuteReplayed(v, nonce, deadline) ==
    /\ v \in vaults
    /\ now <= deadline
    /\ actionNonceUsed' = [actionNonceUsed EXCEPT ![DelegateOf[v]] = @ \cup {nonce}]
    /\ Request(v)
    /\ Places(v)
    /\ UNCHANGED <<now, policyVars, vaults>>

\* execute: a revert in the vault takes the nonce and the charge back with it.
Execute(v, nonce, deadline) ==
    /\ v \in vaults
    /\ now <= deadline
    /\ nonce \notin actionNonceUsed[DelegateOf[v]]
    /\ actionNonceUsed' = [actionNonceUsed EXCEPT ![DelegateOf[v]] = @ \cup {nonce}]
    /\ Request(v)
    /\ Places(v)
    /\ UNCHANGED <<now, policyVars, vaults>>

-----------------------------------------------------------------------------
\* The owner's own calls need a deployed vault; tokens may arrive before.
OwnerStep(v)   == v \in vaults /\ OwnerCall(v) /\ UNCHANGED <<factoryVars, history>>
OutsideStep(v) == Outside(v) /\ UNCHANGED <<factoryVars, history>>

\* A day begins with nothing placed, under the mandates that still stand.
Tick ==
    /\ now < MaxTime
    /\ now' = now + 1
    /\ UNCHANGED <<vaultVars, policyVars, dailySpend, actionNonceUsed, vaults, honoured>>
    /\ IF Today' = Today THEN UNCHANGED <<placed, granted>>
       ELSE /\ placed' = [k \in Keys |-> 0]
            /\ granted' = [k \in Keys |-> IF PolicyActive(k)' THEN policies[k].maxPerDay ELSE 0]

Next ==
    \/ \E offer \in Offers : SignDelegation(offer)
    \/ \E delegation \in signed : RegisterDelegation(delegation)
    \/ \E k \in Keys : RevokeDelegation(k)
    \/ \E v \in Vaults : DeployVault(v) \/ OwnerStep(v) \/ OutsideStep(v)
    \/ \E v \in Vaults, nonce \in Nonces, deadline \in Deadlines : Execute(v, nonce, deadline)
    \/ Tick

Spec == Init /\ [][Next]_vars

-----------------------------------------------------------------------------
(* Properties.                                                              *)

FactoryTypeOK ==
    /\ now \in Nat
    /\ signed \subseteq [key : Keys, maxPerOrder : Nat, maxPerDay : Nat,
                         validUntil : Nat, nonce : Nat]
    /\ delegationNonces \in [Owners -> Nat]
    /\ policies \in [Keys -> [maxPerOrder : Nat, maxPerDay : Nat,
                              validUntil : Nat, active : BOOLEAN]]
    /\ dailySpend \in [Keys -> [day : Nat, amount : Nat]]
    /\ actionNonceUsed \in [Delegates -> SUBSET Nonces]
    /\ vaults \subseteq Vaults

HistoryTypeOK ==
    /\ placed \in [Keys -> Nat] /\ granted \in [Keys -> Nat]
    /\ honoured \subseteq signed

\* Every variable stays within its type; no charge drives a budget below zero.
TypeOK == VaultTypeOK /\ FactoryTypeOK /\ HistoryTypeOK

\* What the factory's state says of the budgets delegated.
Mandates   == {Delegation(offer, nonce) : offer \in Offers, nonce \in 0 .. MaxDelegations}
Usable     == {s \in signed : s.nonce = delegationNonces[s.key[1]]}
LiveKeys   == {k \in Keys : PolicyActive(k)}
DailyLimit == [k \in Keys |-> policies[k].maxPerDay]
DailySpent == [k \in Keys |-> SpentToday(k)]

\* The factory keeps the promise a delegation makes: a signed delegation takes
\* effect at most once and only before its successor, nothing is charged under
\* a key that was revoked or expired, and the charges of all vaults of a key
\* on one day stay within the limit then in force.
Budget == INSTANCE DelegatedBudget
            WITH day <- Today, issued <- signed, usable <- Usable, live <- LiveKeys,
                 limit <- DailyLimit, spent <- DailySpent

BudgetKept == Budget!Spec

\* A newly signed policy is a fresh daily budget, and nothing else is one: what
\* the agent places on one day under a key, committing it to orders or selling
\* it at market, is at most the limits of the distinct delegations its owner
\* signed that were in force on that day, summed, whatever was registered,
\* revoked, relayed again or let lapse in between.
PlacedWithinMandates == \A k \in Keys : placed[k] <= granted[k]

ReachMandated ==
    \A v \in Vaults :
       \/ committedAmount'[v] > committedAmount[v]
       \/ aquaAllowance'[v] > aquaAllowance[v]
       => /\ v \in vaults
          /\ PolicyActive(KeyOf(v))
          /\ committedAmount'[v] <= policies[KeyOf(v)].maxPerOrder
          /\ \E nonce \in Nonces \ actionNonceUsed[DelegateOf[v]] :
                actionNonceUsed'[DelegateOf[v]] =
                   actionNonceUsed[DelegateOf[v]] \cup {nonce}

\* The agent's reach over a vault grows only by a request with a nonce its
\* delegate had not used, on a deployed vault, under a policy active at that
\* moment and within its order limit; a lapsed or revoked agent can only
\* unwind, and no request works twice.
ReachNeedsMandate == [][ReachMandated]_vars

Charged(v) == SpentToday(KeyOf(v))' - SpentToday(KeyOf(v))

SaleCharged ==
    \A v \in Vaults :
       /\ committedAmount'[v] > committedAmount[v] =>
             committedAmount'[v] - committedAmount[v] <= Charged(v)
       /\ ~Active(v) /\ MarketTakes(v) => Lost(v, Sell(v)) <= Charged(v)

\* What an order commits more than before, and what a swap sells, is charged
\* to the vault's key by at least as much in the same step.
SalesAreCharged == [][SaleCharged]_vars

=============================================================================
