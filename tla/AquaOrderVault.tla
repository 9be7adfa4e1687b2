--------------------------- MODULE AquaOrderVault ---------------------------
(***************************************************************************)
(* The order vault (contracts/src/AquaOrderVault.sol) with the two things  *)
(* it works on: the Aqua order book it ships its order to and the ERC-20   *)
(* tokens it holds.  A vault is a maker of at most one order at a time.    *)
(* Lifecycle calls come from the factory, emergencyCancel and withdraw     *)
(* from the owner; takers fill a shipped order inside Aqua, without the    *)
(* vault being called at all.                                              *)
(*                                                                         *)
(* A call that reverts changes nothing and is not a step.  `entered` is    *)
(* false between transactions, so the nonReentrant modifier leaves one     *)
(* atomic step per call.                                                   *)
(***************************************************************************)
EXTENDS Integers, FiniteSets

CONSTANTS
    Vaults,        \* vault addresses, known (CREATE2) before deployment
    Owners,        \* owner accounts
    Market,        \* the app, its pools and the takers, as one account
    Tokens,        \* ERC-20 tokens
    OwnerOf,       \* immutable owner of a vault
    SellTokenOf,   \* immutable sellToken of a vault
    Orders,        \* strategy hashes
    MakerOf,       \* the maker a strategy names
    NoOrder,       \* bytes32(0)
    Amounts,       \* the amounts calls are made with
    Recipients,    \* where owners withdraw to
    Holdings       \* what each account holds before the first step

Accounts == Vaults \cup Owners \cup {Market}

ASSUME VaultAssumption ==
    /\ OwnerOf \in [Vaults -> Owners]
    /\ SellTokenOf \in [Vaults -> Tokens]
    /\ MakerOf \in [Orders -> Vaults]
    /\ NoOrder \notin Orders
    /\ Amounts \subseteq Nat
    /\ Recipients \subseteq Accounts
    /\ Holdings \in [Accounts -> [Tokens -> Nat]]
    /\ Vaults \cap Owners = {} /\ Market \notin Vaults \cup Owners

VARIABLES
    activeOrderHash,   \* per vault: the shipped order, or NoOrder
    committedAmount,   \* per vault: the sell amount the order was shipped with
    inventory,         \* Aqua: sell inventory left in each vault's orders
    aquaAllowance,     \* sell token allowance of a vault to Aqua
    balance            \* ERC-20 balances

orderVars == <<activeOrderHash, committedAmount>>
aquaVars  == <<inventory, aquaAllowance>>
vaultVars == <<activeOrderHash, committedAmount, inventory, aquaAllowance, balance>>

Sell(v)   == SellTokenOf[v]
Active(v) == activeOrderHash[v] # NoOrder

\* A transfer of x from one account to another; the token reverts when the
\* sender holds less than x, which callers state as a guard.
Moved(funds, t, from, to, x) ==
    LET debited == [funds EXCEPT ![from][t] = @ - x]
    IN  [debited EXCEPT ![to][t] = @ + x]

\* A vault gives `given` of its sell token to the market, which gives `taken`
\* of another token to the payee.
Traded(v, given, payee, buy, taken) ==
    Moved(Moved(balance, Sell(v), v, Market, given), buy, Market, payee, taken)

VaultInit ==
    /\ activeOrderHash = [v \in Vaults |-> NoOrder]
    /\ committedAmount = [v \in Vaults |-> 0]
    /\ inventory = [v \in Vaults |-> [o \in Orders |-> 0]]
    /\ aquaAllowance = [v \in Vaults |-> 0]
    /\ balance = Holdings

-----------------------------------------------------------------------------
(* Calls from the factory.                                                  *)

\* _validate: the strategy names this vault as its maker and its sell amount
\* is not zero.  The shape checks on arrays select what an Order stands for.
Valid(v, o, amount) == MakerOf[o] = v /\ amount > 0

\* Aqua opens the inventory of a shipped order and closes it when docked.
Ship(v, o, amount) == inventory' = [inventory EXCEPT ![v][o] = amount]
Dock(v, o)         == inventory' = [inventory EXCEPT ![v][o] = 0]
DockAndShip(v, previous, o, amount) ==
    inventory' = [inventory EXCEPT ![v] = [@ EXCEPT ![previous] = 0, ![o] = amount]]
ApproveAqua(v, amount) == aquaAllowance' = [aquaAllowance EXCEPT ![v] = amount]

Commit(v, o, amount) ==
    /\ activeOrderHash' = [activeOrderHash EXCEPT ![v] = o]
    /\ committedAmount' = [committedAmount EXCEPT ![v] = amount]
    /\ ApproveAqua(v, amount)

ActivateOrder(v, o, amount) ==
    /\ ~Active(v)
    /\ Valid(v, o, amount)
    /\ balance[v][Sell(v)] >= amount
    /\ Commit(v, o, amount)
    /\ Ship(v, o, amount)
    /\ UNCHANGED balance

Amend(v, o, amount) ==
    /\ Active(v)
    /\ Valid(v, o, amount)
    /\ balance[v][Sell(v)] >= amount
    /\ Commit(v, o, amount)
    /\ DockAndShip(v, activeOrderHash[v], o, amount)
    /\ UNCHANGED balance

\* (mutant) the allowance given to Aqua outlives the order
CancelKeepingAllowance(v) ==
    /\ Active(v)
    /\ activeOrderHash' = [activeOrderHash EXCEPT ![v] = NoOrder]
    /\ committedAmount' = [committedAmount EXCEPT ![v] = 0]
    /\ Dock(v, activeOrderHash[v])
    /\ UNCHANGED <<aquaAllowance, balance>>

Cancel(v) ==
    /\ Active(v)
    /\ activeOrderHash' = [activeOrderHash EXCEPT ![v] = NoOrder]
    /\ committedAmount' = [committedAmount EXCEPT ![v] = 0]
    /\ Dock(v, activeOrderHash[v])
    /\ ApproveAqua(v, 0)
    /\ UNCHANGED balance

\* (mutant) the output of a swap stays in the vault
ExecuteSwapKeepingOutput(v, buy, minimum, amount, used, output) ==
    /\ ~Active(v)
    /\ buy # Sell(v) /\ minimum > 0 /\ amount > 0
    /\ used <= amount /\ used <= balance[v][Sell(v)]
    /\ minimum <= output /\ output <= balance[Market][buy]
    /\ balance' = Traded(v, used, v, buy, output)
    /\ UNCHANGED <<orderVars, aquaVars>>

\* The app takes at most the exact approval, `amount`, of the sell token and
\* pays `output` of the buy token, which all goes on to the owner.
ExecuteSwap(v, buy, minimum, amount, used, output) ==
    /\ ~Active(v)
    /\ buy # Sell(v) /\ minimum > 0 /\ amount > 0
    /\ used <= amount /\ used <= balance[v][Sell(v)]
    /\ minimum <= output /\ output <= balance[Market][buy]
    /\ balance' = Traded(v, used, OwnerOf[v], buy, output)
    /\ UNCHANGED <<orderVars, aquaVars>>

ReturnToOwner(v, tokens) ==
    /\ ~Active(v)
    /\ tokens # {}
    /\ balance' = [balance EXCEPT
         ![v]          = [t \in Tokens |-> IF t \in tokens THEN 0 ELSE @[t]],
         ![OwnerOf[v]] = [t \in Tokens |->
                            IF t \in tokens THEN @[t] + balance[v][t] ELSE @[t]]]
    /\ UNCHANGED <<orderVars, aquaVars>>

-----------------------------------------------------------------------------
(* Calls from the owner.                                                    *)

EmergencyCancel(v) == Cancel(v)

\* (mutant) withdraw overlooks the committed amount
AvailableUncommitted(v) == balance[v][Sell(v)]

Available(v) == IF balance[v][Sell(v)] > committedAmount[v]
                  THEN balance[v][Sell(v)] - committedAmount[v]
                  ELSE 0

Withdraw(v, t, recipient, amount) ==
    /\ t = Sell(v) /\ Active(v) => amount <= Available(v)
    /\ amount <= balance[v][t]
    /\ balance' = Moved(balance, t, v, recipient, amount)
    /\ UNCHANGED <<orderVars, aquaVars>>

-----------------------------------------------------------------------------
(* The environment: anyone may send tokens to a vault, and takers fill the  *)
(* shipped order.  Neither calls the vault, so committedAmount stays.       *)

Deposit(v, t, from, amount) ==
    /\ amount <= balance[from][t]
    /\ balance' = Moved(balance, t, from, v, amount)
    /\ UNCHANGED <<orderVars, aquaVars>>

\* Aqua pulls the sell token against the inventory and the allowance; what
\* the taker pays is pushed to the maker, the vault.
Fill(v, o, amount, buy, payment) ==
    /\ amount > 0 /\ buy # Sell(v)
    /\ amount <= inventory[v][o] /\ amount <= aquaAllowance[v]
    /\ amount <= balance[v][Sell(v)] /\ payment <= balance[Market][buy]
    /\ inventory' = [inventory EXCEPT ![v][o] = @ - amount]
    /\ aquaAllowance' = [aquaAllowance EXCEPT ![v] = @ - amount]
    /\ balance' = Traded(v, amount, v, buy, payment)
    /\ UNCHANGED orderVars

-----------------------------------------------------------------------------
FactoryCall(v) ==
    \/ \E o \in Orders, amount \in Amounts : ActivateOrder(v, o, amount) \/ Amend(v, o, amount)
    \/ Cancel(v)
    \/ \E buy \in Tokens, minimum, amount, used, output \in Amounts :
          ExecuteSwap(v, buy, minimum, amount, used, output)
    \/ \E tokens \in SUBSET Tokens : ReturnToOwner(v, tokens)

OwnerCall(v) ==
    \/ EmergencyCancel(v)
    \/ \E t \in Tokens, recipient \in Recipients, amount \in Amounts :
          Withdraw(v, t, recipient, amount)

Outside(v) ==
    \/ \E t \in Tokens, from \in Owners, amount \in Amounts : Deposit(v, t, from, amount)
    \/ \E o \in Orders, amount, payment \in Amounts, buy \in Tokens :
          Fill(v, o, amount, buy, payment)

VaultNext == \E v \in Vaults : FactoryCall(v) \/ OwnerCall(v) \/ Outside(v)

VaultSpec == VaultInit /\ [][VaultNext]_vaultVars

-----------------------------------------------------------------------------
(* Properties.                                                              *)

\* Every variable stays within its type; no balance, allowance or inventory
\* is ever driven below zero by the calls of the contract.
VaultTypeOK ==
    /\ activeOrderHash \in [Vaults -> Orders \cup {NoOrder}]
    /\ committedAmount \in [Vaults -> Nat]
    /\ inventory \in [Vaults -> [Orders -> Nat]]
    /\ aquaAllowance \in [Vaults -> Nat]
    /\ balance \in [Accounts -> [Tokens -> Nat]]

\* What Aqua can pull from a vault is exactly its one active order: no docked
\* or replaced order keeps inventory, the allowance never outlives or exceeds
\* the order it was given for, and a vault without an order has none of it.
BookMirrorsVault ==
    \A v \in Vaults :
        /\ \A o \in Orders : o # activeOrderHash[v] => inventory[v][o] = 0
        /\ Active(v) => aquaAllowance[v] = inventory[v][activeOrderHash[v]]
        /\ ~Active(v) => aquaAllowance[v] = 0 /\ committedAmount[v] = 0

\* A live order can always be settled: whatever the owner withdrew, takers
\* filled and the delegate amended, the vault holds the inventory still on
\* offer, and that inventory is within the committed amount.
OrderBacked ==
    \A v \in Vaults : Active(v) =>
        /\ inventory[v][activeOrderHash[v]] <= committedAmount[v]
        /\ inventory[v][activeOrderHash[v]] <= balance[v][Sell(v)]

Lost(v, t) == balance[v][t] - balance'[v][t]

\* The market takes some of a vault's sell token.
MarketTakes(v) ==
    Lost(v, Sell(v)) > 0 /\ balance'[Market][Sell(v)] > balance[Market][Sell(v)]

PaysForWhatItTakes ==
    \A v \in Vaults : MarketTakes(v) =>
       \/ /\ Active(v)
          /\ Lost(v, Sell(v)) <= inventory[v][activeOrderHash[v]]
                                    - inventory'[v][activeOrderHash[v]]
       \/ /\ ~Active(v)
          /\ \E t \in Tokens \ {Sell(v)} :
                balance'[OwnerOf[v]][t] > balance[OwnerOf[v]][t]

\* The market gets a vault's sell token in two ways only: it fills the order
\* on offer, by no more than its inventory drops, or it pays the owner in
\* another token in the same step while no order is open.
MarketPaysForWhatItTakes == [][PaysForWhatItTakes]_vaultVars

=============================================================================
