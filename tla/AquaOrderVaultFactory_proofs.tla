-------------------- MODULE AquaOrderVaultFactory_proofs --------------------
(***************************************************************************)
(* The safety of the vaults and of the factory that drives them, for any   *)
(* owners, agents, vaults, tokens, orders, offers and amounts.             *)
(*                                                                         *)
(* The vault.  Its three state invariants are inductive together: that an  *)
(* order is backed survives a fill because its allowance is exactly its    *)
(* inventory, and that needs every other order's inventory to be closed.   *)
(*                                                                         *)
(* The factory.  Every step of the system is a vault step or leaves the    *)
(* vaults alone, so what is proved of the vaults carries over.  Over the   *)
(* factory's own state the invariant says that no signed delegation is     *)
(* ahead of its owner's nonce, so that one registration voids all others   *)
(* of that nonce; that no charge is dated in the future, so that a new day *)
(* starts at zero; and that today's charges are within the limit.  What was *)
(* placed on a day and what may still be placed are together within the    *)
(* limits of the day's mandates: that is kept when a registration opens a  *)
(* new budget, because the one before it is gone and no delegation is      *)
(* honoured twice.                                                         *)
(***************************************************************************)
EXTENDS AquaOrderVaultFactory, TLAPS

VaultInvariant == VaultTypeOK /\ BookMirrorsVault /\ OrderBacked

Funds == [Accounts -> [Tokens -> Nat]]

\* What a transfer leaves each account with.
LEMMA MovedValue ==
    ASSUME NEW funds \in Funds, NEW t \in Tokens, NEW from \in Accounts,
           NEW to \in Accounts, NEW x \in Nat, x <= funds[from][t]
    PROVE  /\ Moved(funds, t, from, to, x) \in Funds
           /\ from = to => Moved(funds, t, from, to, x) = funds
           /\ \A a \in Accounts, u \in Tokens :
                /\ u # t => Moved(funds, t, from, to, x)[a][u] = funds[a][u]
                /\ a \notin {from, to} => Moved(funds, t, from, to, x)[a][u] = funds[a][u]
                /\ a # from => Moved(funds, t, from, to, x)[a][u] >= funds[a][u]
           /\ from # to => /\ Moved(funds, t, from, to, x)[from][t] = funds[from][t] - x
                           /\ Moved(funds, t, from, to, x)[to][t] = funds[to][t] + x
<1> DEFINE debited == [funds EXCEPT ![from][t] = @ - x]
           moved   == [debited EXCEPT ![to][t] = @ + x]
<1>1. /\ debited \in Funds
      /\ debited[from][t] = funds[from][t] - x
      /\ \A a \in Accounts, u \in Tokens :
            (a # from \/ u # t) => debited[a][u] = funds[a][u]
  BY DEF Funds
<1>2. Moved(funds, t, from, to, x) = moved
  BY DEF Moved
<1>3. /\ moved \in Funds
      /\ moved[to][t] = debited[to][t] + x
      /\ \A a \in Accounts, u \in Tokens :
            (a # to \/ u # t) => moved[a][u] = debited[a][u]
  <2> HIDE DEF debited
  <2> QED BY <1>1 DEF Funds
<1>4. \A a \in Accounts, u \in Tokens : funds[a][u] \in Nat
  BY DEF Funds
<1>5. ASSUME from = to PROVE moved = funds
  <2>1. \A a \in Accounts, u \in Tokens : moved[a][u] = funds[a][u]
    <3> HIDE DEF debited, moved
    <3> QED BY <1>1, <1>3, <1>4, <1>5
  <2>2. \A a \in Accounts : moved[a] = funds[a]
    <3> HIDE DEF moved
    <3> QED BY <1>3, <2>1 DEF Funds
  <2> HIDE DEF moved
  <2> QED BY <1>3, <2>2 DEF Funds
<1> HIDE DEF debited, moved
<1> QED BY <1>1, <1>2, <1>3, <1>4, <1>5

-----------------------------------------------------------------------------
(* Calls from the factory.                                                  *)

LEMMA VaultParties ==
    /\ \A v \in Vaults : /\ OwnerOf[v] \in Accounts /\ v \in Accounts
                         /\ OwnerOf[v] # v /\ v # Market
                         /\ Sell(v) \in Tokens
                         /\ OwnerOf[v] \notin Vaults
    /\ Market \in Accounts /\ Market \notin Vaults
    /\ Owners \subseteq Accounts /\ Recipients \subseteq Accounts
    /\ Owners \cap Vaults = {}
    /\ NoOrder \notin Orders
    /\ Amounts \subseteq Nat
BY VaultAssumption DEF Accounts, Sell

LEMMA ActivatePreserves ==
    ASSUME VaultInvariant, NEW v \in Vaults, NEW o \in Orders, NEW amount \in Amounts,
           ActivateOrder(v, o, amount)
    PROVE  VaultInvariant'
<1> USE VaultParties DEF VaultInvariant, ActivateOrder, Commit, Ship, ApproveAqua, Active, Valid
<1>1. VaultTypeOK'
  BY DEF VaultTypeOK
<1>2. BookMirrorsVault'
  BY DEF VaultTypeOK, BookMirrorsVault
<1>3. OrderBacked'
  BY DEF VaultTypeOK, OrderBacked, Sell
<1> QED BY <1>1, <1>2, <1>3

LEMMA AmendPreserves ==
    ASSUME VaultInvariant, NEW v \in Vaults, NEW o \in Orders, NEW amount \in Amounts,
           Amend(v, o, amount)
    PROVE  VaultInvariant'
<1> USE VaultParties DEF VaultInvariant, Amend, Commit, DockAndShip, ApproveAqua, Active, Valid
<1>1. VaultTypeOK'
  BY DEF VaultTypeOK
<1>2. BookMirrorsVault'
  BY DEF VaultTypeOK, BookMirrorsVault
<1>3. OrderBacked'
  BY DEF VaultTypeOK, OrderBacked, Sell
<1> QED BY <1>1, <1>2, <1>3

LEMMA CancelPreserves ==
    ASSUME VaultInvariant, NEW v \in Vaults, Cancel(v)
    PROVE  VaultInvariant'
<1> USE VaultParties DEF VaultInvariant, Cancel, Dock, ApproveAqua, Active
<1>1. VaultTypeOK'
  BY DEF VaultTypeOK
<1>2. BookMirrorsVault'
  BY DEF VaultTypeOK, BookMirrorsVault
<1>3. OrderBacked'
  BY DEF VaultTypeOK, OrderBacked, Sell
<1> QED BY <1>1, <1>2, <1>3

\* A step that moves only balances keeps the invariant when every vault with
\* an open order still holds its committed amount or lost none of its sell
\* token.
LEMMA BalanceStepPreserves ==
    ASSUME VaultInvariant, UNCHANGED <<orderVars, aquaVars>>, balance' \in Funds,
           \A w \in Vaults : Active(w) =>
              \/ balance'[w][Sell(w)] >= balance[w][Sell(w)]
              \/ balance'[w][Sell(w)] >= committedAmount[w]
    PROVE  VaultInvariant'
<1> USE DEF VaultInvariant, orderVars, aquaVars, Active
<1>1. VaultTypeOK'
  BY DEF VaultTypeOK, Funds
<1>2. BookMirrorsVault'
  BY DEF BookMirrorsVault
<1>3. OrderBacked'
  <2> SUFFICES ASSUME NEW w \in Vaults, Active(w)
               PROVE  /\ inventory[w][activeOrderHash[w]] <= committedAmount[w]
                      /\ inventory[w][activeOrderHash[w]] <= balance'[w][Sell(w)]
    BY DEF OrderBacked, Sell
  <2>1. /\ inventory[w][activeOrderHash[w]] \in Nat
        /\ committedAmount[w] \in Nat
        /\ balance[w][Sell(w)] \in Nat /\ balance'[w][Sell(w)] \in Nat
    BY VaultParties DEF VaultTypeOK, Funds
  <2> QED BY <2>1 DEF OrderBacked
<1> QED BY <1>1, <1>2, <1>3

\* A trade takes what the vault gives off its sell balance, and touches no
\* vault but it.
LEMMA TradedValue ==
    ASSUME balance \in Funds, NEW v \in Vaults, NEW given \in Nat, NEW payee \in Accounts,
           payee = v \/ payee \in Owners,
           NEW buy \in Tokens, NEW taken \in Nat, buy # Sell(v),
           given <= balance[v][Sell(v)], taken <= balance[Market][buy]
    PROVE  /\ Traded(v, given, payee, buy, taken) \in Funds
           /\ Traded(v, given, payee, buy, taken)[v][Sell(v)] = balance[v][Sell(v)] - given
           /\ \A w \in Vaults \ {v}, u \in Tokens :
                 Traded(v, given, payee, buy, taken)[w][u] = balance[w][u]
<1> DEFINE t == Sell(v)
           pulled == Moved(balance, t, v, Market, given)
           paid == Moved(pulled, buy, Market, payee, taken)
<1>1. /\ t \in Tokens /\ v \in Accounts /\ payee \in Accounts /\ Market \in Accounts
      /\ v # Market /\ payee # Market
      /\ \A w \in Vaults \ {v} : w \in Accounts /\ w \notin {v, Market, payee}
  BY VaultParties, VaultAssumption
<1>2. Traded(v, given, payee, buy, taken) = paid
  BY DEF Traded
<1> HIDE DEF t
<1>3. given <= balance[v][t] /\ buy # t
  BY DEF t
<1>4. /\ pulled \in Funds
      /\ \A a \in Accounts, u \in Tokens :
            /\ u # t => pulled[a][u] = balance[a][u]
            /\ a \notin {v, Market} => pulled[a][u] = balance[a][u]
      /\ pulled[v][t] = balance[v][t] - given
  BY <1>1, <1>3, MovedValue
<1> HIDE DEF pulled
<1>5. pulled[Market][buy] = balance[Market][buy]
  BY <1>1, <1>3, <1>4
<1>6. /\ paid \in Funds
      /\ \A a \in Accounts, u \in Tokens :
            /\ u # buy => paid[a][u] = pulled[a][u]
            /\ a \notin {Market, payee} => paid[a][u] = pulled[a][u]
  BY <1>1, <1>4, <1>5, MovedValue
<1> HIDE DEF paid
<1>7. paid[v][t] = balance[v][t] - given
  BY <1>1, <1>3, <1>4, <1>6
<1>8. \A w \in Vaults \ {v}, u \in Tokens : paid[w][u] = balance[w][u]
  BY <1>1, <1>4, <1>6
<1> QED BY <1>2, <1>6, <1>7, <1>8 DEF t

LEMMA ExecuteSwapPreserves ==
    ASSUME VaultInvariant, NEW v \in Vaults, NEW buy \in Tokens, NEW minimum \in Amounts,
           NEW amount \in Amounts, NEW used \in Amounts, NEW output \in Amounts,
           ExecuteSwap(v, buy, minimum, amount, used, output)
    PROVE  VaultInvariant'
<1>1. /\ balance \in Funds /\ used \in Nat /\ output \in Nat /\ OwnerOf[v] \in Owners /\ OwnerOf[v] \in Accounts
      /\ used <= balance[v][Sell(v)] /\ output <= balance[Market][buy] /\ buy # Sell(v)
      /\ balance' = Traded(v, used, OwnerOf[v], buy, output)
  BY VaultParties, VaultAssumption DEF VaultInvariant, VaultTypeOK, Funds, ExecuteSwap
<1>2. /\ balance' \in Funds
      /\ \A w \in Vaults \ {v}, u \in Tokens : balance'[w][u] = balance[w][u]
  BY <1>1, TradedValue
<1>3. ASSUME NEW w \in Vaults, Active(w)
      PROVE  balance'[w][Sell(w)] >= balance[w][Sell(w)]
  <2>1. w # v
    BY <1>3 DEF ExecuteSwap
  <2>2. balance'[w][Sell(w)] = balance[w][Sell(w)] /\ balance[w][Sell(w)] \in Nat
    BY <1>1, <1>2, <2>1, VaultParties DEF Funds
  <2> QED BY <2>2
<1>4. UNCHANGED <<orderVars, aquaVars>>
  BY DEF ExecuteSwap
<1> QED BY <1>2, <1>3, <1>4, BalanceStepPreserves

LEMMA ReturnToOwnerPreserves ==
    ASSUME VaultInvariant, NEW v \in Vaults, NEW tokens \in SUBSET Tokens,
           ReturnToOwner(v, tokens)
    PROVE  VaultInvariant'
<1>1. balance \in Funds
  BY DEF VaultInvariant, VaultTypeOK, Funds
<1> DEFINE emptied == [t \in Tokens |-> IF t \in tokens THEN 0 ELSE balance[v][t]]
           credited == [t \in Tokens |-> IF t \in tokens
                                         THEN balance[OwnerOf[v]][t] + balance[v][t]
                                         ELSE balance[OwnerOf[v]][t]]
<1>2. emptied \in [Tokens -> Nat] /\ credited \in [Tokens -> Nat]
  BY <1>1, VaultParties DEF Funds
<1>3. balance' = [balance EXCEPT ![v] = emptied, ![OwnerOf[v]] = credited]
  BY DEF ReturnToOwner
<1> HIDE DEF emptied, credited
<1>4. /\ balance' \in Funds
      /\ \A w \in Vaults : w # v => balance'[w] = balance[w]
  BY <1>1, <1>2, <1>3, VaultParties DEF Funds
<1>5. ASSUME NEW w \in Vaults, Active(w)
      PROVE  balance'[w][Sell(w)] >= balance[w][Sell(w)]
  <2>1. w # v
    BY <1>5 DEF ReturnToOwner
  <2>2. balance'[w] = balance[w] /\ balance[w][Sell(w)] \in Nat
    BY <1>1, <1>4, <2>1, VaultParties DEF Funds
  <2> QED BY <2>2
<1>6. UNCHANGED <<orderVars, aquaVars>>
  BY DEF ReturnToOwner
<1> QED BY <1>4, <1>5, <1>6, BalanceStepPreserves

-----------------------------------------------------------------------------
(* Calls from the owner, and the environment.                               *)

LEMMA WithdrawPreserves ==
    ASSUME VaultInvariant, NEW v \in Vaults, NEW t \in Tokens,
           NEW recipient \in Recipients, NEW amount \in Amounts,
           Withdraw(v, t, recipient, amount)
    PROVE  VaultInvariant'
<1>1. /\ balance \in Funds /\ amount \in Nat /\ recipient \in Accounts /\ v \in Accounts
      /\ amount <= balance[v][t]
      /\ balance' = Moved(balance, t, v, recipient, amount)
      /\ committedAmount \in [Vaults -> Nat]
  BY VaultParties DEF VaultInvariant, VaultTypeOK, Funds, Withdraw
<1>2. balance' \in Funds
  BY <1>1, MovedValue
<1>3. ASSUME NEW w \in Vaults, Active(w)
      PROVE  \/ balance'[w][Sell(w)] >= balance[w][Sell(w)]
             \/ balance'[w][Sell(w)] >= committedAmount[w]
  <2>1. /\ w \in Accounts /\ Sell(w) \in Tokens
        /\ balance[w][Sell(w)] \in Nat /\ balance'[w][Sell(w)] \in Nat
        /\ committedAmount[w] \in Nat
    BY <1>1, <1>2, VaultParties DEF Funds
  <2>2. CASE w # v
    BY <1>1, <2>1, <2>2, MovedValue
  <2>3. CASE w = v /\ t # Sell(v)
    BY <1>1, <2>1, <2>3, MovedValue
  <2>4. CASE w = v /\ recipient = v
    BY <1>1, <2>1, <2>4, MovedValue
  <2>5. CASE w = v /\ t = Sell(v) /\ recipient # v
    <3>1. balance'[v][t] = balance[v][t] - amount
      BY <1>1, <2>5, MovedValue
    <3>2. amount <= Available(v)
      BY <1>3, <2>5 DEF Withdraw
    <3> QED BY <1>1, <2>1, <2>5, <3>1, <3>2 DEF Available
  <2> QED BY <2>2, <2>3, <2>4, <2>5
<1>4. UNCHANGED <<orderVars, aquaVars>>
  BY DEF Withdraw
<1> QED BY <1>2, <1>3, <1>4, BalanceStepPreserves

LEMMA DepositPreserves ==
    ASSUME VaultInvariant, NEW v \in Vaults, NEW t \in Tokens, NEW from \in Owners,
           NEW amount \in Amounts, Deposit(v, t, from, amount)
    PROVE  VaultInvariant'
<1>1. /\ balance \in Funds /\ amount \in Nat /\ from \in Accounts /\ v \in Accounts
      /\ amount <= balance[from][t]
      /\ balance' = Moved(balance, t, from, v, amount)
  BY VaultParties DEF VaultInvariant, VaultTypeOK, Funds, Deposit
<1>2. balance' \in Funds
  BY <1>1, MovedValue
<1>3. ASSUME NEW w \in Vaults
      PROVE  balance'[w][Sell(w)] >= balance[w][Sell(w)]
  <2>1. w # from /\ w \in Accounts /\ Sell(w) \in Tokens
    BY VaultParties
  <2> QED BY <1>1, <2>1, MovedValue
<1>4. UNCHANGED <<orderVars, aquaVars>>
  BY DEF Deposit
<1> QED BY <1>2, <1>3, <1>4, BalanceStepPreserves

\* A fill can only be of the active order, and takes the same amount off its
\* inventory, the allowance and the sell balance.
LEMMA FillPreserves ==
    ASSUME VaultInvariant, NEW v \in Vaults, NEW o \in Orders, NEW amount \in Amounts,
           NEW buy \in Tokens, NEW payment \in Amounts, Fill(v, o, amount, buy, payment)
    PROVE  VaultInvariant'
<1>1. /\ balance \in Funds /\ Sell(v) \in Tokens /\ amount \in Nat /\ payment \in Nat
      /\ amount > 0 /\ amount <= balance[v][Sell(v)] /\ payment <= balance[Market][buy]
      /\ buy # Sell(v) /\ inventory \in [Vaults -> [Orders -> Nat]]
      /\ aquaAllowance \in [Vaults -> Nat]
      /\ amount <= inventory[v][o] /\ amount <= aquaAllowance[v]
  BY VaultParties DEF VaultInvariant, VaultTypeOK, Funds, Fill
<1>2. v \in Accounts
  BY VaultParties
<1>3. balance' = Traded(v, amount, v, buy, payment)
  BY DEF Fill
<1>4. /\ balance' \in Funds
      /\ balance'[v][Sell(v)] = balance[v][Sell(v)] - amount
      /\ \A w \in Vaults \ {v}, u \in Tokens : balance'[w][u] = balance[w][u]
  BY <1>1, <1>2, <1>3, TradedValue
<1>5. o = activeOrderHash[v] /\ Active(v)
  BY <1>1, VaultParties DEF VaultInvariant, BookMirrorsVault, Active
<1>6. /\ UNCHANGED orderVars
      /\ inventory' = [inventory EXCEPT ![v][o] = @ - amount]
      /\ aquaAllowance' = [aquaAllowance EXCEPT ![v] = @ - amount]
  BY DEF Fill
<1>7. VaultTypeOK'
  BY <1>1, <1>4, <1>6 DEF VaultInvariant, VaultTypeOK, Funds, orderVars
<1>8. BookMirrorsVault'
  BY <1>1, <1>5, <1>6 DEF VaultInvariant, VaultTypeOK, BookMirrorsVault, Active, orderVars
<1>9. OrderBacked'
  <2> SUFFICES ASSUME NEW w \in Vaults, Active(w)
               PROVE  /\ inventory'[w][activeOrderHash[w]] <= committedAmount[w]
                      /\ inventory'[w][activeOrderHash[w]] <= balance'[w][Sell(w)]
    BY <1>6 DEF OrderBacked, Sell, Active, orderVars
  <2>1. /\ activeOrderHash[w] \in Orders
        /\ inventory[w][activeOrderHash[w]] \in Nat /\ committedAmount[w] \in Nat
        /\ Sell(w) \in Tokens /\ balance[w][Sell(w)] \in Nat
        /\ inventory[w][activeOrderHash[w]] <= committedAmount[w]
        /\ inventory[w][activeOrderHash[w]] <= balance[w][Sell(w)]
    BY VaultParties DEF VaultInvariant, VaultTypeOK, OrderBacked, Active
  <2>2. CASE w = v
    BY <1>1, <1>4, <1>5, <1>6, <2>1, <2>2
  <2>3. CASE w # v
    BY <1>1, <1>4, <1>6, <2>1, <2>3
  <2> QED BY <2>2, <2>3
<1> QED BY <1>7, <1>8, <1>9 DEF VaultInvariant

-----------------------------------------------------------------------------
LEMMA VaultInitially == VaultInit => VaultInvariant
BY VaultAssumption
   DEF VaultInit, VaultInvariant, VaultTypeOK, BookMirrorsVault, OrderBacked, Active

LEMMA VaultStep ==
    ASSUME VaultInvariant, VaultNext
    PROVE  VaultInvariant'
<1>1. PICK v \in Vaults : FactoryCall(v) \/ OwnerCall(v) \/ Outside(v)
  BY DEF VaultNext
<1>2. CASE FactoryCall(v)
  BY <1>2, ActivatePreserves, AmendPreserves, CancelPreserves, ExecuteSwapPreserves,
     ReturnToOwnerPreserves DEF FactoryCall
<1>3. CASE OwnerCall(v)
  BY <1>3, CancelPreserves, WithdrawPreserves DEF OwnerCall, EmergencyCancel
<1>4. CASE Outside(v)
  BY <1>4, DepositPreserves, FillPreserves DEF Outside
<1> QED BY <1>1, <1>2, <1>3, <1>4

LEMMA VaultStutter ==
    ASSUME VaultInvariant, UNCHANGED vaultVars
    PROVE  VaultInvariant'
BY DEF VaultInvariant, VaultTypeOK, BookMirrorsVault, OrderBacked, Active, Sell, vaultVars

LEMMA VaultInvariance == VaultSpec => []VaultInvariant
BY VaultInitially, VaultStep, VaultStutter, PTL DEF VaultSpec

-----------------------------------------------------------------------------
(* What the market takes from a vault, call by call.                        *)

LEMMA BalancesTyped ==
    ASSUME VaultInvariant
    PROVE  /\ balance \in Funds
           /\ \A a \in Accounts, t \in Tokens : balance[a][t] \in Nat
BY DEF VaultInvariant, VaultTypeOK, Funds

\* The market takes nothing by a step in which its own balances stay, or in
\* which no vault has less of what it sells.
LEMMA NothingTaken ==
    ASSUME VaultInvariant, NEW v \in Vaults,
           \/ balance' = balance
           \/ balance'[Market] = balance[Market]
           \/ balance'[v][Sell(v)] >= balance[v][Sell(v)] /\ balance'[v][Sell(v)] \in Nat
    PROVE  ~MarketTakes(v)
<1>1. /\ balance[v][Sell(v)] \in Nat /\ balance[Market][Sell(v)] \in Nat
      /\ balance[Market][Sell(v)] - 0 = balance[Market][Sell(v)]
  BY BalancesTyped, VaultParties
<1> QED BY <1>1 DEF MarketTakes, Lost

LEMMA OrderCallTakesNothing ==
    ASSUME VaultInvariant, NEW v \in Vaults, NEW w \in Vaults,
           \/ \E o \in Orders, amount \in Amounts :
                 ActivateOrder(w, o, amount) \/ Amend(w, o, amount)
           \/ Cancel(w)
    PROVE  ~MarketTakes(v)
<1>1. balance' = balance
  BY DEF ActivateOrder, Amend, Cancel
<1> QED BY <1>1, NothingTaken

LEMMA ReturnTakesNothing ==
    ASSUME VaultInvariant, NEW v \in Vaults, NEW w \in Vaults,
           NEW tokens \in SUBSET Tokens, ReturnToOwner(w, tokens)
    PROVE  ~MarketTakes(v)
<1>1. balance \in Funds /\ Market \in Accounts /\ Market # w /\ Market # OwnerOf[w]
  BY BalancesTyped, VaultParties, VaultAssumption
<1>2. balance'[Market] = balance[Market]
  BY <1>1 DEF ReturnToOwner, Funds
<1> QED BY <1>2, NothingTaken

LEMMA WithdrawalTakesNothing ==
    ASSUME VaultInvariant, Market \notin Recipients, NEW v \in Vaults, NEW w \in Vaults,
           NEW t \in Tokens, NEW recipient \in Recipients, NEW amount \in Amounts,
           Withdraw(w, t, recipient, amount)
    PROVE  ~MarketTakes(v)
<1>1. /\ balance \in Funds /\ amount \in Nat /\ recipient \in Accounts /\ w \in Accounts
      /\ amount <= balance[w][t] /\ Market \in Accounts /\ Market \notin {w, recipient}
      /\ balance' = Moved(balance, t, w, recipient, amount)
      /\ Sell(v) \in Tokens
  BY BalancesTyped, VaultParties DEF Withdraw
<1>2. balance'[Market][Sell(v)] = balance[Market][Sell(v)] /\ balance[Market][Sell(v)] \in Nat
  BY <1>1, MovedValue DEF Funds
<1> QED BY <1>2 DEF MarketTakes

LEMMA DepositTakesNothing ==
    ASSUME VaultInvariant, NEW v \in Vaults, NEW w \in Vaults, NEW t \in Tokens,
           NEW from \in Owners, NEW amount \in Amounts, Deposit(w, t, from, amount)
    PROVE  ~MarketTakes(v)
<1>1. /\ balance \in Funds /\ amount \in Nat /\ from \in Accounts /\ w \in Accounts
      /\ amount <= balance[from][t] /\ v # from /\ v \in Accounts /\ Sell(v) \in Tokens
      /\ balance' = Moved(balance, t, from, w, amount)
  BY BalancesTyped, VaultParties DEF Deposit
<1>2. balance'[v][Sell(v)] >= balance[v][Sell(v)] /\ balance'[v][Sell(v)] \in Nat
  BY <1>1, MovedValue DEF Funds
<1> QED BY <1>2, NothingTaken

\* A swap takes `used` from its vault, nothing from another, and pays the owner.
LEMMA SwapTakes ==
    ASSUME VaultInvariant, NEW v \in Vaults, NEW w \in Vaults, NEW buy \in Tokens,
           NEW minimum \in Amounts, NEW amount \in Amounts, NEW used \in Amounts,
           NEW output \in Amounts, ExecuteSwap(w, buy, minimum, amount, used, output)
    PROVE  /\ v # w => ~MarketTakes(v)
           /\ Lost(w, Sell(w)) = used
           /\ balance'[OwnerOf[w]][buy] > balance[OwnerOf[w]][buy]
<1> DEFINE owner == OwnerOf[w]
           pulled == Moved(balance, Sell(w), w, Market, used)
<1>1. /\ balance \in Funds /\ used \in Nat /\ output \in Nat /\ output > 0
      /\ owner \in Owners /\ owner \in Accounts /\ owner # Market /\ owner # w
      /\ w \in Accounts /\ Market \in Accounts /\ w # Market /\ Sell(w) \in Tokens
      /\ used <= balance[w][Sell(w)] /\ output <= balance[Market][buy] /\ buy # Sell(w)
      /\ balance' = Traded(w, used, owner, buy, output)
      /\ balance[w][Sell(w)] \in Nat /\ balance[owner][buy] \in Nat
  BY BalancesTyped, VaultParties, VaultAssumption DEF ExecuteSwap
<1>2. /\ balance' \in Funds
      /\ balance'[w][Sell(w)] = balance[w][Sell(w)] - used
      /\ \A u \in Vaults \ {w}, t \in Tokens : balance'[u][t] = balance[u][t]
  <2> HIDE DEF owner
  <2> QED BY <1>1, TradedValue
<1>3. Lost(w, Sell(w)) = used
  BY <1>1, <1>2 DEF Lost
<1>4. v # w => ~MarketTakes(v)
  <2> SUFFICES ASSUME v # w PROVE ~MarketTakes(v)
    OBVIOUS
  <2>1. Sell(v) \in Tokens /\ v \in Accounts
    BY VaultParties
  <2>2. balance'[v][Sell(v)] = balance[v][Sell(v)] /\ balance[v][Sell(v)] \in Nat
    BY <1>1, <1>2, <2>1 DEF Funds
  <2> QED BY <2>2, NothingTaken
<1> HIDE DEF owner, pulled
<1>5. /\ pulled \in Funds
      /\ pulled[owner][buy] = balance[owner][buy]
      /\ pulled[Market][buy] = balance[Market][buy]
  BY <1>1, MovedValue DEF pulled
<1>6. balance' = Moved(pulled, buy, Market, owner, output)
  BY <1>1 DEF Traded, pulled
<1>7. balance'[owner][buy] = balance[owner][buy] + output
  <2>1. /\ Market \in Accounts /\ owner \in Accounts /\ Market # owner
        /\ output \in Nat /\ output <= pulled[Market][buy]
    BY <1>1, <1>5
  <2>2. Moved(pulled, buy, Market, owner, output)[owner][buy] = pulled[owner][buy] + output
    BY <1>5, <2>1, MovedValue
  <2> QED BY <1>5, <1>6, <2>2
<1>8. balance'[owner][buy] > balance[owner][buy]
  BY <1>1, <1>7
<1> QED BY <1>3, <1>4, <1>8 DEF owner

\* A fill takes from its vault, whose order is open, what its inventory drops.
LEMMA FillTakes ==
    ASSUME VaultInvariant, NEW v \in Vaults, NEW w \in Vaults, NEW o \in Orders,
           NEW amount \in Amounts, NEW buy \in Tokens, NEW payment \in Amounts,
           Fill(w, o, amount, buy, payment)
    PROVE  /\ v # w => ~MarketTakes(v)
           /\ Active(w)
           /\ Lost(w, Sell(w)) <= inventory[w][activeOrderHash[w]]
                                    - inventory'[w][activeOrderHash[w]]
<1>1. /\ balance \in Funds /\ Sell(w) \in Tokens /\ amount \in Nat /\ payment \in Nat
      /\ w \in Accounts /\ w # Market
      /\ amount > 0 /\ amount <= balance[w][Sell(w)] /\ payment <= balance[Market][buy]
      /\ buy # Sell(w) /\ inventory \in [Vaults -> [Orders -> Nat]]
      /\ aquaAllowance \in [Vaults -> Nat]
      /\ amount <= inventory[w][o] /\ amount <= aquaAllowance[w]
      /\ balance[w][Sell(w)] \in Nat
      /\ inventory' = [inventory EXCEPT ![w][o] = @ - amount]
  BY VaultParties, BalancesTyped DEF VaultInvariant, VaultTypeOK, Fill
<1>2. /\ balance' \in Funds
      /\ balance'[w][Sell(w)] = balance[w][Sell(w)] - amount
      /\ \A u \in Vaults \ {w}, t \in Tokens : balance'[u][t] = balance[u][t]
  <2>1. balance' = Traded(w, amount, w, buy, payment)
    BY DEF Fill
  <2>2. /\ Traded(w, amount, w, buy, payment) \in Funds
        /\ Traded(w, amount, w, buy, payment)[w][Sell(w)] = balance[w][Sell(w)] - amount
        /\ \A u \in Vaults \ {w}, t \in Tokens :
              Traded(w, amount, w, buy, payment)[u][t] = balance[u][t]
    BY <1>1, TradedValue
  <2> QED BY <2>1, <2>2
<1>3. o = activeOrderHash[w] /\ Active(w)
  BY <1>1, VaultParties DEF VaultInvariant, BookMirrorsVault, Active
<1>4. Lost(w, Sell(w)) = amount
  BY <1>1, <1>2 DEF Lost
<1>5. inventory[w][o] - inventory'[w][o] = amount
  <2>1. inventory[w] \in [Orders -> Nat] /\ inventory[w][o] \in Nat
    BY <1>1
  <2>2. inventory'[w][o] = inventory[w][o] - amount
    BY <1>1, <2>1
  <2> QED BY <1>1, <2>1, <2>2
<1>6. v # w => ~MarketTakes(v)
  <2> SUFFICES ASSUME v # w PROVE ~MarketTakes(v)
    OBVIOUS
  <2>1. Sell(v) \in Tokens /\ v \in Accounts
    BY VaultParties
  <2>2. balance'[v][Sell(v)] = balance[v][Sell(v)] /\ balance[v][Sell(v)] \in Nat
    BY <1>1, <1>2, <2>1 DEF Funds
  <2> QED BY <2>2, NothingTaken
<1> QED BY <1>1, <1>3, <1>4, <1>5, <1>6

LEMMA VaultStepPays ==
    ASSUME VaultInvariant, Market \notin Recipients, VaultNext
    PROVE  PaysForWhatItTakes
<1> SUFFICES ASSUME NEW v \in Vaults, MarketTakes(v)
             PROVE  \/ /\ Active(v)
                       /\ Lost(v, Sell(v)) <= inventory[v][activeOrderHash[v]]
                                                - inventory'[v][activeOrderHash[v]]
                    \/ /\ ~Active(v)
                       /\ \E t \in Tokens \ {Sell(v)} :
                             balance'[OwnerOf[v]][t] > balance[OwnerOf[v]][t]
  BY DEF MarketTakes, PaysForWhatItTakes
<1>1. PICK w \in Vaults : FactoryCall(w) \/ OwnerCall(w) \/ Outside(w)
  BY DEF VaultNext
<1>2. ASSUME NEW buy \in Tokens, NEW minimum \in Amounts, NEW amount \in Amounts,
             NEW used \in Amounts, NEW output \in Amounts,
             ExecuteSwap(w, buy, minimum, amount, used, output)
      PROVE  /\ ~Active(v)
             /\ \E t \in Tokens \ {Sell(v)} :
                   balance'[OwnerOf[v]][t] > balance[OwnerOf[v]][t]
  <2>1. v = w
    BY <1>2, SwapTakes
  <2>2. balance'[OwnerOf[v]][buy] > balance[OwnerOf[v]][buy]
    BY <1>2, <2>1, SwapTakes
  <2>3. ~Active(v) /\ buy \in Tokens \ {Sell(v)}
    BY <1>2, <2>1 DEF ExecuteSwap
  <2> QED BY <2>2, <2>3
<1>3. CASE FactoryCall(w)
  BY <1>2, <1>3, OrderCallTakesNothing, ReturnTakesNothing DEF FactoryCall
<1>4. CASE OwnerCall(w)
  BY <1>4, OrderCallTakesNothing, WithdrawalTakesNothing DEF OwnerCall, EmergencyCancel
<1>5. CASE Outside(w)
  BY <1>5, DepositTakesNothing, FillTakes DEF Outside
<1> QED BY <1>1, <1>3, <1>4, <1>5

-----------------------------------------------------------------------------
\* Every variable of the vault, the book and the tokens keeps its type: no
\* call of the contract drives a balance or an allowance below zero.
THEOREM VaultTyping == VaultSpec => []VaultTypeOK
BY VaultInvariance, PTL DEF VaultInvariant

\* Aqua can pull from a vault exactly what its one active order still offers.
THEOREM BookAlwaysMirrorsVault == VaultSpec => []BookMirrorsVault
BY VaultInvariance, PTL DEF VaultInvariant

\* The inventory on offer is always in the vault, within the committed amount.
THEOREM OrdersAlwaysBacked == VaultSpec => []OrderBacked
BY VaultInvariance, PTL DEF VaultInvariant

\* The market takes a vault's sell token only by filling the order on offer, by
\* no more than its inventory drops, or against payment to the owner in the same
\* step.  Owners may withdraw to anyone but the market: what they give to it
\* themselves is not a sale.
THEOREM MarketAlwaysPays ==
    ASSUME Market \notin Recipients
    PROVE  VaultSpec => MarketPaysForWhatItTakes
<1>1. ASSUME VaultInvariant, UNCHANGED vaultVars PROVE PaysForWhatItTakes
  <2>1. \A v \in Vaults : ~MarketTakes(v)
    BY <1>1, NothingTaken DEF vaultVars
  <2> QED BY <2>1 DEF MarketTakes, PaysForWhatItTakes
<1>2. VaultInvariant /\ [VaultNext]_vaultVars => [PaysForWhatItTakes]_vaultVars
  BY VaultStepPays
<1> QED BY <1>2, VaultInvariance, PTL
        DEF VaultSpec, MarketPaysForWhatItTakes

-----------------------------------------------------------------------------
(* The invariant of the factory.                                            *)

SignedNotAhead ==
    /\ signed \subseteq Mandates
    /\ \A s \in signed : s.nonce <= delegationNonces[s.key[1]]

ChargedByToday == \A k \in Keys : dailySpend[k].day <= Today

WithinDailyLimit == \A k \in Keys : SpentToday(k) <= policies[k].maxPerDay

FactoryInvariant ==
    /\ FactoryTypeOK
    /\ SignedNotAhead
    /\ ChargedByToday
    /\ WithinDailyLimit

-----------------------------------------------------------------------------
(* The system drives the vaults by vault steps only.                        *)

LEMMA RequestIsFactoryCall ==
    ASSUME NEW v \in Vaults, Request(v)
    PROVE  FactoryCall(v)
BY DEF Request, FactoryCall, ActivateRequest, AmendRequest, CancelRequest,
       SwapRequest, ReturnRequest

LEMMA StepDrivesVaults == [Next]_vars => [VaultNext]_vaultVars
<1> SUFFICES ASSUME [Next]_vars PROVE [VaultNext]_vaultVars
  OBVIOUS
<1>1. ASSUME NEW offer \in Offers, SignDelegation(offer) PROVE UNCHANGED vaultVars
  BY <1>1 DEF SignDelegation
<1>2. ASSUME NEW delegation \in signed, RegisterDelegation(delegation)
      PROVE UNCHANGED vaultVars
  BY <1>2 DEF RegisterDelegation
<1>3. ASSUME NEW k \in Keys, RevokeDelegation(k) PROVE UNCHANGED vaultVars
  BY <1>3 DEF RevokeDelegation
<1>4. ASSUME NEW v \in Vaults, DeployVault(v) PROVE UNCHANGED vaultVars
  BY <1>4 DEF DeployVault
<1>5. ASSUME NEW v \in Vaults, OwnerStep(v) \/ OutsideStep(v) PROVE VaultNext
  BY <1>5 DEF OwnerStep, OutsideStep, VaultNext
<1>6. ASSUME NEW v \in Vaults, NEW nonce \in Nonces, NEW deadline \in Deadlines,
             Execute(v, nonce, deadline)
      PROVE VaultNext
  BY <1>6, RequestIsFactoryCall DEF Execute, VaultNext
<1>7. ASSUME Tick PROVE UNCHANGED vaultVars
  BY <1>7 DEF Tick
<1>8. ASSUME UNCHANGED vars PROVE UNCHANGED vaultVars
  BY <1>8 DEF vars
<1> QED BY <1>1, <1>2, <1>3, <1>4, <1>5, <1>6, <1>7, <1>8 DEF Next

\* The system behaves, seen from the vaults, as the vault specification.
THEOREM FactoryDrivesVaults == Spec => VaultSpec
<1>1. Init => VaultInit
  BY DEF Init
<1> QED BY <1>1, StepDrivesVaults, PTL DEF Spec, VaultSpec

LEMMA VaultsInvariant == Spec => []VaultInvariant
BY FactoryDrivesVaults, VaultInvariance, PTL

-----------------------------------------------------------------------------
(* Days, keys and charges.                                                  *)

LEMMA DayLaws ==
    ASSUME NEW n \in Nat
    PROVE  /\ n \div DayLength \in Nat
           /\ (n + 1) \div DayLength \in Nat
           /\ (n + 1) \div DayLength >= n \div DayLength
<1>1. DayLength \in Nat \ {0} /\ n + 1 \in Nat
  BY FactoryAssumption
<1>2. \A m \in Nat, d \in Nat \ {0} : m \div d \in Nat
  BY SMT
<1>3. \A m \in Nat, d \in Nat \ {0} : (m + 1) \div d >= m \div d
  BY SMT
<1> QED BY <1>1, <1>2, <1>3

LEMMA KeyLaws ==
    /\ \A k \in Keys : k[1] \in Owners
    /\ \A v \in Vaults : KeyOf(v) \in Keys
BY VaultAssumption, FactoryAssumption DEF Keys, KeyOf, Sell

LEMMA SpentTodayTyped ==
    ASSUME FactoryTypeOK, NEW k \in Keys
    PROVE  /\ SpentToday(k) \in Nat /\ Today \in Nat
           /\ policies[k].maxPerDay \in Nat
BY DayLaws DEF FactoryTypeOK, SpentToday, Today

\* A charge adds the increase to what the key spent today, keeps it within the
\* limit, and leaves the other keys alone.
LEMMA ChargeValue ==
    ASSUME FactoryInvariant, NEW k \in Keys, NEW orderAmount \in Nat, NEW increase \in Nat,
           Charge(k, orderAmount, increase), UNCHANGED now
    PROVE  /\ dailySpend' \in [Keys -> [day : Nat, amount : Nat]]
           /\ \A j \in Keys : dailySpend'[j].day <= Today
           /\ SpentToday(k)' = SpentToday(k) + increase
           /\ SpentToday(k)' <= policies[k].maxPerDay
           /\ \A j \in Keys \ {k} : SpentToday(j)' = SpentToday(j)
<1>1. /\ SpentToday(k) \in Nat /\ Today \in Nat /\ Today' = Today
      /\ dailySpend \in [Keys -> [day : Nat, amount : Nat]]
  BY SpentTodayTyped DEF FactoryInvariant, FactoryTypeOK, Today
<1> DEFINE total == SpentToday(k) + increase
<1>2. /\ total \in Nat
      /\ total <= policies[k].maxPerDay
      /\ dailySpend' = [dailySpend EXCEPT ![k] = [day |-> Today, amount |-> total]]
  BY <1>1 DEF Charge
<1> HIDE DEF total
<1>3. dailySpend' \in [Keys -> [day : Nat, amount : Nat]]
  BY <1>1, <1>2
<1>4. \A j \in Keys : dailySpend'[j].day <= Today
  BY <1>1, <1>2 DEF FactoryInvariant, ChargedByToday
<1>5. SpentToday(k)' = total
  BY <1>1, <1>2 DEF SpentToday
<1>6. \A j \in Keys \ {k} : SpentToday(j)' = SpentToday(j)
  BY <1>1, <1>2 DEF SpentToday
<1> QED BY <1>2, <1>3, <1>4, <1>5, <1>6 DEF total

LEMMA IncreaseTyped ==
    ASSUME VaultTypeOK, NEW v \in Vaults, NEW amount \in Nat
    PROVE  Increase(v, amount) \in Nat
BY DEF VaultTypeOK, Increase

\* A request either leaves the budgets alone or charges its vault's key.
LEMMA RequestCharges ==
    ASSUME VaultTypeOK, NEW v \in Vaults, Request(v)
    PROVE  \/ UNCHANGED dailySpend
           \/ \E orderAmount, increase \in Nat : Charge(KeyOf(v), orderAmount, increase)
<1>1. Amounts \subseteq Nat
  BY VaultAssumption
<1>2. ASSUME NEW o \in Orders, NEW amount \in Amounts,
             ActivateRequest(v, o, amount) \/ AmendRequest(v, o, amount)
      PROVE  \E orderAmount, increase \in Nat : Charge(KeyOf(v), orderAmount, increase)
  BY <1>1, <1>2, IncreaseTyped DEF ActivateRequest, AmendRequest
<1>3. ASSUME NEW buy \in Tokens, NEW minimum \in Amounts, NEW amount \in Amounts,
             NEW used \in Amounts, NEW output \in Amounts,
             SwapRequest(v, buy, minimum, amount, used, output)
      PROVE  \E orderAmount, increase \in Nat : Charge(KeyOf(v), orderAmount, increase)
  BY <1>1, <1>3 DEF SwapRequest
<1>4. ASSUME CancelRequest(v) \/ \E tokens \in SUBSET Tokens : ReturnRequest(v, tokens)
      PROVE  UNCHANGED dailySpend
  BY <1>4 DEF CancelRequest, ReturnRequest
<1> QED BY <1>2, <1>3, <1>4 DEF Request

-----------------------------------------------------------------------------
(* The invariant of the factory's own state.                                *)

LEMMA SignPreserves ==
    ASSUME FactoryInvariant, NEW offer \in Offers, SignDelegation(offer)
    PROVE  FactoryInvariant'
<1> DEFINE owner == offer.key[1]
           delegation == Delegation(offer, delegationNonces[owner])
<1>1. /\ offer \in [key : Keys, maxPerOrder : Nat, maxPerDay : Nat, validUntil : Nat]
      /\ owner \in Owners
      /\ delegationNonces \in [Owners -> Nat]
  BY FactoryAssumption, KeyLaws DEF Keys, FactoryInvariant, FactoryTypeOK
<1>2. /\ delegation \in [key : Keys, maxPerOrder : Nat, maxPerDay : Nat,
                        validUntil : Nat, nonce : Nat]
      /\ delegation.nonce = delegationNonces[delegation.key[1]]
  BY <1>1 DEF Delegation
<1>3. /\ signed' = signed \cup {delegation}
      /\ UNCHANGED <<now, delegationNonces, policies, dailySpend, actionNonceUsed, vaults>>
  BY DEF SignDelegation
<1> HIDE DEF delegation
<1>4. FactoryTypeOK'
  BY <1>2, <1>3 DEF FactoryInvariant, FactoryTypeOK
<1>5. SignedNotAhead'
  <2>1. delegation \in Mandates
    <3>1. delegationNonces[owner] \in 0 .. MaxDelegations
      BY <1>1, FactoryAssumption DEF SignDelegation
    <3> QED BY <3>1 DEF delegation, Mandates
  <2> QED BY <1>1, <1>2, <1>3, <2>1 DEF FactoryInvariant, SignedNotAhead
<1>6. ChargedByToday'
  BY <1>3 DEF FactoryInvariant, ChargedByToday, Today
<1>7. WithinDailyLimit'
  BY <1>3 DEF FactoryInvariant, WithinDailyLimit, SpentToday, Today
<1> QED BY <1>4, <1>5, <1>6, <1>7 DEF FactoryInvariant

LEMMA RegisterPreserves ==
    ASSUME FactoryInvariant, NEW delegation \in signed, RegisterDelegation(delegation)
    PROVE  FactoryInvariant'
<1> DEFINE k == delegation.key
           owner == k[1]
<1>1. /\ delegation \in [key : Keys, maxPerOrder : Nat, maxPerDay : Nat,
                        validUntil : Nat, nonce : Nat]
      /\ k \in Keys /\ owner \in Owners
      /\ delegation.maxPerOrder \in Nat /\ delegation.maxPerDay \in Nat
      /\ delegation.validUntil \in Nat
      /\ Today \in Nat
  BY KeyLaws, SpentTodayTyped DEF FactoryInvariant, FactoryTypeOK
<1>2. /\ delegationNonces' = [delegationNonces EXCEPT ![owner] = @ + 1]
      /\ policies' = [policies EXCEPT ![k] =
             [maxPerOrder |-> delegation.maxPerOrder, maxPerDay |-> delegation.maxPerDay,
              validUntil |-> delegation.validUntil, active |-> TRUE]]
      /\ dailySpend' = [dailySpend EXCEPT ![k] = [day |-> 0, amount |-> 0]]
      /\ UNCHANGED <<now, signed, actionNonceUsed, vaults>>
  BY DEF RegisterDelegation
<1> HIDE DEF k, owner
<1>3. FactoryTypeOK'
  BY <1>1, <1>2 DEF FactoryInvariant, FactoryTypeOK
<1>4. SignedNotAhead'
  <2>1. \A s \in signed : s.key[1] \in Owners /\ s.nonce \in Nat
    BY KeyLaws DEF FactoryInvariant, FactoryTypeOK
  <2>2. delegationNonces \in [Owners -> Nat]
    BY DEF FactoryInvariant, FactoryTypeOK
  <2> QED BY <1>1, <1>2, <2>1, <2>2 DEF FactoryInvariant, SignedNotAhead
<1>5. ChargedByToday'
  BY <1>1, <1>2 DEF FactoryInvariant, FactoryTypeOK, ChargedByToday, Today
<1>6. WithinDailyLimit'
  BY <1>1, <1>2 DEF FactoryInvariant, FactoryTypeOK, WithinDailyLimit, SpentToday, Today
<1> QED BY <1>3, <1>4, <1>5, <1>6 DEF FactoryInvariant

LEMMA RevokePreserves ==
    ASSUME FactoryInvariant, NEW k \in Keys, RevokeDelegation(k)
    PROVE  FactoryInvariant'
<1>1. /\ policies' = [policies EXCEPT ![k] = [@ EXCEPT !.active = FALSE]]
      /\ UNCHANGED <<now, signed, delegationNonces, dailySpend, actionNonceUsed, vaults>>
  BY DEF RevokeDelegation
<1>2. /\ policies \in [Keys -> [maxPerOrder : Nat, maxPerDay : Nat,
                               validUntil : Nat, active : BOOLEAN]]
      /\ \A j \in Keys : policies'[j].maxPerDay = policies[j].maxPerDay
  BY <1>1 DEF FactoryInvariant, FactoryTypeOK
<1>3. FactoryTypeOK'
  BY <1>1, <1>2 DEF FactoryInvariant, FactoryTypeOK
<1>4. SignedNotAhead' /\ ChargedByToday'
  BY <1>1 DEF FactoryInvariant, SignedNotAhead, ChargedByToday, Today
<1>5. WithinDailyLimit'
  BY <1>1, <1>2 DEF FactoryInvariant, WithinDailyLimit, SpentToday, Today
<1> QED BY <1>3, <1>4, <1>5 DEF FactoryInvariant

LEMMA ExecutePreserves ==
    ASSUME FactoryInvariant, VaultTypeOK, NEW v \in Vaults, NEW nonce \in Nonces,
           NEW deadline \in Deadlines, Execute(v, nonce, deadline)
    PROVE  FactoryInvariant'
<1>1. /\ actionNonceUsed' = [actionNonceUsed EXCEPT ![DelegateOf[v]] = @ \cup {nonce}]
      /\ Request(v)
      /\ UNCHANGED <<now, signed, delegationNonces, policies, vaults>>
  BY DEF Execute, policyVars
<1>2. actionNonceUsed' \in [Delegates -> SUBSET Nonces]
  BY <1>1, FactoryAssumption DEF FactoryInvariant, FactoryTypeOK
<1>3. Today' = Today
  BY <1>1 DEF Today
<1>4. SignedNotAhead'
  BY <1>1 DEF FactoryInvariant, SignedNotAhead
<1>5. CASE UNCHANGED dailySpend
  <2>1. FactoryTypeOK'
    BY <1>1, <1>2, <1>5 DEF FactoryInvariant, FactoryTypeOK
  <2>2. ChargedByToday' /\ WithinDailyLimit'
    BY <1>1, <1>3, <1>5
       DEF FactoryInvariant, ChargedByToday, WithinDailyLimit, SpentToday
  <2> QED BY <1>4, <2>1, <2>2 DEF FactoryInvariant
<1>6. ASSUME NEW orderAmount \in Nat, NEW increase \in Nat,
             Charge(KeyOf(v), orderAmount, increase)
      PROVE  FactoryInvariant'
  <2>1. /\ KeyOf(v) \in Keys
        /\ dailySpend' \in [Keys -> [day : Nat, amount : Nat]]
        /\ \A j \in Keys : dailySpend'[j].day <= Today
        /\ SpentToday(KeyOf(v))' <= policies[KeyOf(v)].maxPerDay
        /\ \A j \in Keys \ {KeyOf(v)} : SpentToday(j)' = SpentToday(j)
    BY <1>1, <1>6, KeyLaws, ChargeValue
  <2>2. FactoryTypeOK'
    BY <1>1, <1>2, <2>1 DEF FactoryInvariant, FactoryTypeOK
  <2>3. ChargedByToday'
    BY <1>3, <2>1 DEF ChargedByToday
  <2>4. WithinDailyLimit'
    <3> SUFFICES ASSUME NEW j \in Keys
                 PROVE  SpentToday(j)' <= policies'[j].maxPerDay
      BY DEF WithinDailyLimit
    <3> QED BY <1>1, <2>1 DEF FactoryInvariant, WithinDailyLimit
  <2> QED BY <1>4, <2>2, <2>3, <2>4 DEF FactoryInvariant
<1> QED BY <1>1, <1>5, <1>6, RequestCharges

LEMMA TickPreserves ==
    ASSUME FactoryInvariant, Tick
    PROVE  /\ FactoryInvariant'
           /\ Today' >= Today
           /\ \A k \in Keys : SpentToday(k)' = IF Today' = Today THEN SpentToday(k) ELSE 0
<1>1. /\ now' = now + 1 /\ now \in Nat
      /\ UNCHANGED <<signed, delegationNonces, policies, dailySpend, actionNonceUsed, vaults>>
  BY DEF Tick, policyVars, FactoryInvariant, FactoryTypeOK
<1>2. Today \in Nat /\ Today' \in Nat /\ Today' >= Today
  BY <1>1, DayLaws DEF Today
<1>3. \A k \in Keys : dailySpend[k].day \in Nat /\ dailySpend[k].day <= Today
  BY DEF FactoryInvariant, FactoryTypeOK, ChargedByToday
<1>4. \A k \in Keys : SpentToday(k)' = IF Today' = Today THEN SpentToday(k) ELSE 0
  BY <1>1, <1>2, <1>3 DEF SpentToday
<1>5. FactoryTypeOK'
  BY <1>1 DEF FactoryInvariant, FactoryTypeOK
<1>6. SignedNotAhead'
  BY <1>1 DEF FactoryInvariant, SignedNotAhead
<1>7. ChargedByToday'
  BY <1>1, <1>2, <1>3 DEF ChargedByToday
<1>8. WithinDailyLimit'
  <2>1. \A k \in Keys : policies[k].maxPerDay \in Nat
    BY DEF FactoryInvariant, FactoryTypeOK
  <2> QED BY <1>1, <1>4, <2>1 DEF FactoryInvariant, WithinDailyLimit
<1> QED BY <1>2, <1>4, <1>5, <1>6, <1>7, <1>8 DEF FactoryInvariant

LEMMA FactoryStutter ==
    ASSUME FactoryInvariant, UNCHANGED factoryVars
    PROVE  FactoryInvariant'
<1>1. UNCHANGED <<now, signed, delegationNonces, policies, dailySpend, actionNonceUsed, vaults>>
  BY DEF factoryVars, policyVars
<1> QED BY <1>1 DEF FactoryInvariant, FactoryTypeOK, SignedNotAhead, ChargedByToday,
                    WithinDailyLimit, SpentToday, Today

LEMMA DeployPreserves ==
    ASSUME FactoryInvariant, NEW v \in Vaults, DeployVault(v)
    PROVE  FactoryInvariant'
<1>1. /\ vaults' = vaults \cup {v}
      /\ UNCHANGED <<now, signed, delegationNonces, policies, dailySpend, actionNonceUsed>>
  BY DEF DeployVault, policyVars
<1> QED BY <1>1 DEF FactoryInvariant, FactoryTypeOK, SignedNotAhead, ChargedByToday,
                    WithinDailyLimit, SpentToday, Today

LEMMA FactoryInitially == Init => FactoryInvariant
<1> SUFFICES ASSUME Init PROVE FactoryInvariant
  OBVIOUS
<1>1. FactoryTypeOK
  BY FactoryAssumption DEF Init, FactoryTypeOK
<1>2. Today \in Nat
  BY <1>1, DayLaws DEF FactoryTypeOK, Today
<1> QED BY <1>1, <1>2 DEF Init, FactoryInvariant, SignedNotAhead, ChargedByToday,
                          WithinDailyLimit, SpentToday

LEMMA FactoryStep ==
    ASSUME FactoryInvariant, VaultTypeOK, [Next]_vars
    PROVE  FactoryInvariant'
<1>1. CASE UNCHANGED vars
  BY <1>1, FactoryStutter DEF vars
<1>2. ASSUME NEW v \in Vaults, OwnerStep(v) \/ OutsideStep(v) PROVE FactoryInvariant'
  BY <1>2, FactoryStutter DEF OwnerStep, OutsideStep
<1> QED BY <1>1, <1>2, SignPreserves, RegisterPreserves, RevokePreserves, DeployPreserves,
           ExecutePreserves, TickPreserves DEF Next

LEMMA FactoryInvariance == Spec => []FactoryInvariant
<1>1. VaultInvariant => VaultTypeOK
  BY DEF VaultInvariant
<1> QED BY <1>1, FactoryInitially, FactoryStep, VaultsInvariant, PTL DEF Spec

-----------------------------------------------------------------------------
(* The factory implements the delegated budget.                             *)

BudgetStep == [Budget!Next]_(Budget!budgetVars)

LEMMA SignIssues ==
    ASSUME FactoryInvariant, NEW offer \in Offers, SignDelegation(offer)
    PROVE  Budget!Next
<1> DEFINE owner == offer.key[1]
           delegation == Delegation(offer, delegationNonces[owner])
<1>1. /\ delegation.nonce = delegationNonces[delegation.key[1]]
      /\ delegation \notin signed
      /\ signed' = signed \cup {delegation}
      /\ UNCHANGED <<now, delegationNonces, policies, dailySpend>>
  BY DEF Delegation, SignDelegation
<1>2. delegation \in Mandates
  <2>1. SignedNotAhead'
    BY SignPreserves DEF FactoryInvariant
  <2> QED BY <1>1, <2>1 DEF SignedNotAhead, Mandates
<1> HIDE DEF delegation
<1>3. Usable' = Usable \cup {delegation}
  BY <1>1 DEF Usable
<1>4. UNCHANGED <<Today, LiveKeys, DailyLimit, DailySpent>>
  BY <1>1 DEF Today, LiveKeys, PolicyActive, DailyLimit, DailySpent, SpentToday
<1>5. Budget!Issue(delegation)
  BY <1>1, <1>3, <1>4 DEF Budget!Issue
<1> QED BY <1>2, <1>5 DEF Budget!Next

LEMMA RegisterGrants ==
    ASSUME FactoryInvariant, NEW delegation \in signed, RegisterDelegation(delegation)
    PROVE  Budget!Next
<1> DEFINE k == delegation.key
           owner == k[1]
<1>1. /\ k \in Keys /\ owner \in Owners
      /\ delegationNonces \in [Owners -> Nat]
      /\ policies \in [Keys -> [maxPerOrder : Nat, maxPerDay : Nat,
                               validUntil : Nat, active : BOOLEAN]]
      /\ dailySpend \in [Keys -> [day : Nat, amount : Nat]]
      /\ delegation.validUntil \in Nat /\ now \in Nat
      /\ delegation \in Mandates
      /\ \A s \in signed : /\ s.key[1] \in Owners /\ s.nonce \in Nat
                           /\ s.nonce <= delegationNonces[s.key[1]]
  BY KeyLaws DEF FactoryInvariant, FactoryTypeOK, SignedNotAhead
<1>2. /\ delegation.validUntil > now
      /\ delegation.nonce = delegationNonces[owner]
      /\ delegationNonces' = [delegationNonces EXCEPT ![owner] = @ + 1]
      /\ policies' = [policies EXCEPT ![k] =
             [maxPerOrder |-> delegation.maxPerOrder, maxPerDay |-> delegation.maxPerDay,
              validUntil |-> delegation.validUntil, active |-> TRUE]]
      /\ dailySpend' = [dailySpend EXCEPT ![k] = [day |-> 0, amount |-> 0]]
      /\ UNCHANGED <<now, signed>>
  BY DEF RegisterDelegation
<1>3. delegation \in Usable
  BY <1>2 DEF Usable
<1>4. Usable' \subseteq Usable \ {delegation}
  BY <1>1, <1>2 DEF Usable
<1> HIDE DEF k, owner
<1>5. LiveKeys' = LiveKeys \cup {k}
  BY <1>1, <1>2 DEF LiveKeys, PolicyActive
<1>6. DailyLimit' = [DailyLimit EXCEPT ![k] = delegation.maxPerDay]
  BY <1>1, <1>2 DEF DailyLimit
<1>7. DailySpent' = [DailySpent EXCEPT ![k] = 0]
  BY <1>1, <1>2 DEF DailySpent, SpentToday, Today
<1>8. UNCHANGED <<Today, signed>>
  BY <1>2 DEF Today
<1>9. Budget!Grant(delegation)
  BY <1>3, <1>4, <1>5, <1>6, <1>7, <1>8 DEF Budget!Grant, k
<1> QED BY <1>1, <1>9 DEF Budget!Next

LEMMA RevokeRevokes ==
    ASSUME FactoryInvariant, NEW k \in Keys, RevokeDelegation(k)
    PROVE  Budget!Next
<1>1. /\ policies' = [policies EXCEPT ![k] = [@ EXCEPT !.active = FALSE]]
      /\ UNCHANGED <<now, signed, delegationNonces, dailySpend>>
  BY DEF RevokeDelegation
<1>2. policies \in [Keys -> [maxPerOrder : Nat, maxPerDay : Nat,
                           validUntil : Nat, active : BOOLEAN]]
  BY DEF FactoryInvariant, FactoryTypeOK
<1>3. LiveKeys' = LiveKeys \ {k}
  BY <1>1, <1>2 DEF LiveKeys, PolicyActive
<1>4. DailyLimit' = DailyLimit
  BY <1>1, <1>2 DEF DailyLimit
<1>5. UNCHANGED <<Today, signed, Usable, DailySpent>>
  BY <1>1 DEF Today, Usable, DailySpent, SpentToday
<1>6. Budget!Revoke(k)
  BY <1>3, <1>4, <1>5 DEF Budget!Revoke
<1> QED BY <1>6 DEF Budget!Next

LEMMA QuietStep ==
    ASSUME UNCHANGED <<now, signed, delegationNonces, policies, dailySpend>>
    PROVE  UNCHANGED Budget!budgetVars
BY DEF Budget!budgetVars, Today, Usable, LiveKeys, PolicyActive, DailyLimit, DailySpent,
       SpentToday

LEMMA ExecuteSpends ==
    ASSUME FactoryInvariant, VaultTypeOK, NEW v \in Vaults, NEW nonce \in Nonces,
           NEW deadline \in Deadlines, Execute(v, nonce, deadline)
    PROVE  BudgetStep
<1>1. Request(v) /\ UNCHANGED <<now, signed, delegationNonces, policies>>
  BY DEF Execute, policyVars
<1>2. CASE UNCHANGED dailySpend
  BY <1>1, <1>2, QuietStep DEF BudgetStep
<1>3. ASSUME NEW orderAmount \in Nat, NEW increase \in Nat,
             Charge(KeyOf(v), orderAmount, increase)
      PROVE  Budget!Next
  <2> DEFINE k == KeyOf(v)
             total == SpentToday(k) + increase
  <2>1. /\ k \in Keys /\ SpentToday(k) \in Nat /\ policies[k].maxPerDay \in Nat
    BY KeyLaws, SpentTodayTyped DEF FactoryInvariant
  <2>2. /\ SpentToday(k)' = total /\ total <= policies[k].maxPerDay
        /\ \A j \in Keys \ {k} : SpentToday(j)' = SpentToday(j)
    BY <1>1, <1>3, <2>1, ChargeValue
  <2>3. k \in LiveKeys
    BY <1>3, <2>1 DEF Charge, LiveKeys
  <2> HIDE DEF k
  <2>4. DailySpent[k] = SpentToday(k) /\ DailyLimit[k] = policies[k].maxPerDay
    BY <2>1 DEF DailySpent, DailyLimit
  <2>5. total \in DailySpent[k] .. DailyLimit[k]
    BY <2>1, <2>2, <2>4
  <2> HIDE DEF total
  <2>6. DailySpent' = [DailySpent EXCEPT ![k] = total]
    BY <2>1, <2>2 DEF DailySpent
  <2>7. UNCHANGED <<Today, signed, Usable, LiveKeys, DailyLimit>>
    BY <1>1 DEF Today, Usable, LiveKeys, PolicyActive, DailyLimit
  <2>8. Budget!Spend(k)
    BY <2>3, <2>5, <2>6, <2>7 DEF Budget!Spend
  <2> QED BY <2>1, <2>8 DEF Budget!Next
<1> QED BY <1>1, <1>2, <1>3, RequestCharges DEF BudgetStep

LEMMA TickTicks ==
    ASSUME FactoryInvariant, Tick
    PROVE  Budget!Next
<1>1. /\ now' = now + 1 /\ now \in Nat
      /\ UNCHANGED <<signed, delegationNonces, policies>>
  BY DEF Tick, policyVars, FactoryInvariant, FactoryTypeOK
<1>2. \A k \in Keys : policies[k].validUntil \in Nat
  BY DEF FactoryInvariant, FactoryTypeOK
<1>3. LiveKeys' \subseteq LiveKeys
  BY <1>1, <1>2 DEF LiveKeys, PolicyActive
<1>4. DailySpent' = IF Today' = Today THEN DailySpent ELSE [k \in Keys |-> 0]
  BY TickPreserves DEF DailySpent
<1>5. UNCHANGED <<signed, Usable, DailyLimit>> /\ Today' >= Today
  BY <1>1, TickPreserves DEF Usable, DailyLimit
<1>6. Budget!Tick
  BY <1>3, <1>4, <1>5 DEF Budget!Tick
<1> QED BY <1>6 DEF Budget!Next

LEMMA StepKeepsBudget ==
    ASSUME FactoryInvariant, VaultTypeOK, [Next]_vars
    PROVE  BudgetStep
<1>1. CASE UNCHANGED vars
  BY <1>1, QuietStep DEF vars, factoryVars, policyVars, BudgetStep
<1>2. ASSUME NEW v \in Vaults, OwnerStep(v) \/ OutsideStep(v) PROVE BudgetStep
  BY <1>2, QuietStep DEF OwnerStep, OutsideStep, factoryVars, policyVars, BudgetStep
<1>3. ASSUME NEW v \in Vaults, DeployVault(v) PROVE BudgetStep
  BY <1>3, QuietStep DEF DeployVault, policyVars, BudgetStep
<1>4. ASSUME Budget!Next PROVE BudgetStep
  BY <1>4 DEF BudgetStep
<1> QED BY <1>1, <1>2, <1>3, <1>4, SignIssues, RegisterGrants, RevokeRevokes, ExecuteSpends,
           TickTicks DEF Next

LEMMA BudgetInitially == Init => Budget!Init
<1> SUFFICES ASSUME Init PROVE Budget!Init
  OBVIOUS
<1>1. Today \in Nat
  BY FactoryInitially, DayLaws DEF FactoryInvariant, FactoryTypeOK, Today
<1>2. signed = {} /\ Usable = {} /\ LiveKeys = {}
  BY DEF Init, Usable, LiveKeys, PolicyActive
<1>3. DailyLimit = [k \in Keys |-> 0] /\ DailySpent = [k \in Keys |-> 0]
  BY DEF Init, DailyLimit, DailySpent, SpentToday
<1> QED BY <1>1, <1>2, <1>3 DEF Budget!Init

\* The factory, for any number of owners, agents, vaults and offers, keeps the
\* budget a delegation promises its owner.
THEOREM FactoryKeepsBudget == Spec => BudgetKept
<1>1. FactoryInvariant /\ VaultInvariant /\ [Next]_vars => [Budget!Next]_(Budget!budgetVars)
  BY StepKeepsBudget DEF VaultInvariant, BudgetStep
<1> QED BY <1>1, BudgetInitially, FactoryInvariance, VaultsInvariant, PTL
        DEF Spec, BudgetKept, Budget!Spec

-----------------------------------------------------------------------------
(* The agent's reach.                                                       *)

\* More of the vault is committed, or approved to Aqua, than before.
ReachGrows(v) ==
    \/ committedAmount'[v] > committedAmount[v]
    \/ aquaAllowance'[v] > aquaAllowance[v]

LEMMA ReachKept ==
    ASSUME VaultInvariant, NEW v \in Vaults,
           UNCHANGED <<orderVars, aquaVars>>
    PROVE  ~ReachGrows(v)
BY DEF VaultInvariant, VaultTypeOK, ReachGrows, orderVars, aquaVars

LEMMA CancelReleases ==
    ASSUME VaultInvariant, NEW v \in Vaults, NEW w \in Vaults, Cancel(w)
    PROVE  ~ReachGrows(v)
BY DEF VaultInvariant, VaultTypeOK, ReachGrows, Cancel, ApproveAqua

LEMMA FillReleases ==
    ASSUME VaultInvariant, NEW v \in Vaults, NEW w \in Vaults, NEW o \in Orders,
           NEW amount \in Amounts, NEW buy \in Tokens, NEW payment \in Amounts,
           Fill(w, o, amount, buy, payment)
    PROVE  ~ReachGrows(v)
<1>1. amount \in Nat
  BY VaultParties
<1> QED BY <1>1 DEF VaultInvariant, VaultTypeOK, ReachGrows, Fill, orderVars

\* Owners and the environment do not extend the reach.
LEMMA OthersDoNotExtend ==
    ASSUME VaultInvariant, NEW v \in Vaults, NEW w \in Vaults, OwnerCall(w) \/ Outside(w)
    PROVE  ~ReachGrows(v)
<1>1. CASE OwnerCall(w)
  BY <1>1, CancelReleases, ReachKept DEF OwnerCall, EmergencyCancel, Withdraw
<1>2. CASE Outside(w)
  BY <1>2, FillReleases, ReachKept DEF Outside, Deposit
<1> QED BY <1>1, <1>2

\* An order request commits, and approves, its amount in its own vault only.
LEMMA OrderCommits ==
    ASSUME VaultInvariant, NEW w \in Vaults, NEW o \in Orders, NEW amount \in Amounts,
           ActivateOrder(w, o, amount) \/ Amend(w, o, amount)
    PROVE  /\ committedAmount'[w] = amount
           /\ \A v \in Vaults \ {w} : ~ReachGrows(v)
<1>1. /\ committedAmount' = [committedAmount EXCEPT ![w] = amount]
      /\ aquaAllowance' = [aquaAllowance EXCEPT ![w] = amount]
  BY DEF ActivateOrder, Amend, Commit, ApproveAqua
<1> QED BY <1>1 DEF VaultInvariant, VaultTypeOK, ReachGrows

LEMMA RequestNeedsMandate ==
    ASSUME VaultInvariant, NEW v \in Vaults, NEW w \in Vaults, Request(w), ReachGrows(v)
    PROVE  /\ v = w
           /\ PolicyActive(KeyOf(v))
           /\ committedAmount'[v] <= policies[KeyOf(v)].maxPerOrder
<1>1. PICK o \in Orders, amount \in Amounts :
         ActivateRequest(w, o, amount) \/ AmendRequest(w, o, amount)
  BY CancelReleases, ReachKept
     DEF Request, CancelRequest, SwapRequest, ExecuteSwap, ReturnRequest, ReturnToOwner
<1>2. v = w /\ committedAmount'[v] = amount
  BY <1>1, OrderCommits DEF ActivateRequest, AmendRequest
<1> QED BY <1>1, <1>2 DEF ActivateRequest, AmendRequest, Charge

LEMMA StepReachMandated ==
    ASSUME VaultInvariant, FactoryInvariant, Next
    PROVE  ReachMandated
<1> SUFFICES ASSUME NEW v \in Vaults, ReachGrows(v)
             PROVE  /\ v \in vaults
                    /\ PolicyActive(KeyOf(v))
                    /\ committedAmount'[v] <= policies[KeyOf(v)].maxPerOrder
                    /\ \E nonce \in Nonces \ actionNonceUsed[DelegateOf[v]] :
                          actionNonceUsed'[DelegateOf[v]] =
                             actionNonceUsed[DelegateOf[v]] \cup {nonce}
  BY DEF ReachMandated, ReachGrows
<1>1. PICK w \in Vaults, nonce \in Nonces, deadline \in Deadlines : Execute(w, nonce, deadline)
  <2>1. ASSUME UNCHANGED vaultVars PROVE FALSE
    BY <2>1, ReachKept DEF vaultVars, orderVars, aquaVars
  <2>2. ASSUME NEW w \in Vaults, OwnerStep(w) \/ OutsideStep(w) PROVE FALSE
    BY <2>2, OthersDoNotExtend DEF OwnerStep, OutsideStep
  <2> QED BY <2>1, <2>2 DEF Next, SignDelegation, RegisterDelegation, RevokeDelegation,
                            DeployVault, Tick
<1>2. /\ v = w
      /\ PolicyActive(KeyOf(v))
      /\ committedAmount'[v] <= policies[KeyOf(v)].maxPerOrder
  BY <1>1, RequestNeedsMandate DEF Execute
<1>3. /\ DelegateOf[v] \in Delegates
      /\ actionNonceUsed \in [Delegates -> SUBSET Nonces]
  BY FactoryAssumption DEF FactoryInvariant, FactoryTypeOK
<1> QED BY <1>1, <1>2, <1>3 DEF Execute

\* The reach of an agent over a vault grows only by a fresh request on a
\* deployed vault, under a policy active at that moment and within its order
\* limit (execute, _charge and the vault's activate and amend).
THEOREM ReachIsMandated == Spec => ReachNeedsMandate
<1>1. ASSUME VaultInvariant, UNCHANGED vars PROVE ReachMandated
  BY <1>1, ReachKept
     DEF vars, vaultVars, orderVars, aquaVars, ReachMandated, ReachGrows
<1>2. VaultInvariant /\ FactoryInvariant /\ [Next]_vars => [ReachMandated]_vars
  BY StepReachMandated
<1> QED BY <1>2, VaultsInvariant, FactoryInvariance, PTL DEF Spec, ReachNeedsMandate

-----------------------------------------------------------------------------
(* What is sold is charged.                                                 *)

LEMMA ChargedIncrease ==
    ASSUME FactoryInvariant, NEW w \in Vaults, NEW orderAmount \in Nat, NEW increase \in Nat,
           Charge(KeyOf(w), orderAmount, increase), UNCHANGED now
    PROVE  Charged(w) = increase
<1>1. KeyOf(w) \in Keys /\ SpentToday(KeyOf(w)) \in Nat
  BY KeyLaws, SpentTodayTyped DEF FactoryInvariant
<1>2. SpentToday(KeyOf(w))' = SpentToday(KeyOf(w)) + increase
  BY <1>1, ChargeValue
<1>3. \A x, y, z : x \in Nat /\ y \in Nat /\ z = x + y => z - x = y
  OBVIOUS
<1> QED BY <1>1, <1>2, <1>3 DEF Charged

\* No vault's commitment rises and the market takes nothing without an order.
NothingSold ==
    \A v \in Vaults : /\ ~(committedAmount'[v] > committedAmount[v])
                      /\ Active(v) \/ ~MarketTakes(v)

LEMMA QuietSales ==
    ASSUME VaultInvariant, NothingSold
    PROVE  SaleCharged
BY DEF NothingSold, SaleCharged

LEMMA OrderRequestCharges ==
    ASSUME VaultInvariant, FactoryInvariant, UNCHANGED now, NEW w \in Vaults,
           NEW o \in Orders, NEW amount \in Amounts,
           ActivateRequest(w, o, amount) \/ AmendRequest(w, o, amount)
    PROVE  SaleCharged
<1>1. ActivateOrder(w, o, amount) \/ Amend(w, o, amount)
  BY DEF ActivateRequest, AmendRequest
<1>2. /\ amount \in Nat /\ committedAmount[w] \in Nat /\ Increase(w, amount) \in Nat
      /\ Charge(KeyOf(w), amount, Increase(w, amount))
  BY VaultParties, IncreaseTyped
     DEF VaultInvariant, VaultTypeOK, ActivateRequest, AmendRequest
<1>3. Charged(w) = Increase(w, amount)
  BY <1>2, ChargedIncrease
<1>4. \A v \in Vaults : ~MarketTakes(v)
  BY <1>1, OrderCallTakesNothing
<1>5. committedAmount'[w] = amount /\ \A v \in Vaults \ {w} : ~ReachGrows(v)
  BY <1>1, OrderCommits
<1>6. committedAmount'[w] > committedAmount[w] =>
         committedAmount'[w] - committedAmount[w] <= Charged(w)
  BY <1>2, <1>3, <1>5 DEF Increase
<1> QED BY <1>4, <1>5, <1>6 DEF SaleCharged, ReachGrows

LEMMA SwapRequestCharges ==
    ASSUME VaultInvariant, FactoryInvariant, UNCHANGED now, NEW w \in Vaults,
           NEW buy \in Tokens, NEW minimum \in Amounts, NEW amount \in Amounts,
           NEW used \in Amounts, NEW output \in Amounts,
           SwapRequest(w, buy, minimum, amount, used, output)
    PROVE  SaleCharged
<1>1. /\ ExecuteSwap(w, buy, minimum, amount, used, output)
      /\ Charge(KeyOf(w), amount, amount)
      /\ amount \in Nat /\ used \in Nat /\ used <= amount
  BY VaultParties DEF SwapRequest, ExecuteSwap
<1>2. Charged(w) = amount
  BY <1>1, ChargedIncrease
<1>3. \A v \in Vaults : ~ReachGrows(v)
  BY <1>1, ReachKept DEF ExecuteSwap
<1>4. Lost(w, Sell(w)) = used /\ \A v \in Vaults \ {w} : ~MarketTakes(v)
  BY <1>1, SwapTakes
<1> QED BY <1>1, <1>2, <1>3, <1>4 DEF SaleCharged, ReachGrows

LEMMA OtherStepsSellNothing ==
    ASSUME VaultInvariant, Market \notin Recipients,
           \/ UNCHANGED vaultVars
           \/ \E w \in Vaults : \/ OwnerCall(w) \/ Outside(w)
                                \/ CancelRequest(w)
                                \/ \E tokens \in SUBSET Tokens : ReturnRequest(w, tokens)
    PROVE  NothingSold
<1>1. CASE UNCHANGED vaultVars
  BY <1>1, ReachKept, NothingTaken DEF vaultVars, orderVars, aquaVars, NothingSold, ReachGrows
<1>2. ASSUME NEW w \in Vaults, CancelRequest(w) PROVE NothingSold
  BY <1>2, CancelReleases, OrderCallTakesNothing DEF CancelRequest, NothingSold, ReachGrows
<1>3. ASSUME NEW w \in Vaults, NEW tokens \in SUBSET Tokens, ReturnRequest(w, tokens)
      PROVE  NothingSold
  BY <1>3, ReachKept, ReturnTakesNothing
     DEF ReturnRequest, ReturnToOwner, NothingSold, ReachGrows
<1>4. ASSUME NEW w \in Vaults, OwnerCall(w) PROVE NothingSold
  <2>1. \A v \in Vaults : ~MarketTakes(v)
    BY <1>4, OrderCallTakesNothing, WithdrawalTakesNothing DEF OwnerCall, EmergencyCancel
  <2> QED BY <1>4, <2>1, OthersDoNotExtend DEF NothingSold, ReachGrows
<1>5. ASSUME NEW w \in Vaults, Outside(w) PROVE NothingSold
  <2>1. \A v \in Vaults : Active(v) \/ ~MarketTakes(v)
    BY <1>5, DepositTakesNothing, FillTakes DEF Outside
  <2> QED BY <1>5, <2>1, OthersDoNotExtend DEF NothingSold, ReachGrows
<1> QED BY <1>1, <1>2, <1>3, <1>4, <1>5

LEMMA StepSaleCharged ==
    ASSUME VaultInvariant, FactoryInvariant, Market \notin Recipients, [Next]_vars
    PROVE  SaleCharged
<1>1. CASE UNCHANGED vaultVars
  BY <1>1, OtherStepsSellNothing, QuietSales
<1>2. ASSUME NEW w \in Vaults, OwnerStep(w) \/ OutsideStep(w) PROVE SaleCharged
  BY <1>2, OtherStepsSellNothing, QuietSales DEF OwnerStep, OutsideStep
<1>3. ASSUME NEW w \in Vaults, NEW nonce \in Nonces, NEW deadline \in Deadlines,
             Execute(w, nonce, deadline)
      PROVE  SaleCharged
  <2>1. Request(w) /\ UNCHANGED now
    BY <1>3 DEF Execute
  <2>2. CASE CancelRequest(w) \/ \E tokens \in SUBSET Tokens : ReturnRequest(w, tokens)
    BY <2>2, OtherStepsSellNothing, QuietSales
  <2> QED BY <2>1, <2>2, OrderRequestCharges, SwapRequestCharges DEF Request
<1> QED BY <1>1, <1>2, <1>3 DEF Next, SignDelegation, RegisterDelegation, RevokeDelegation,
                              DeployVault, Tick, vars

\* What an order commits more than before, and what the market takes in a swap,
\* is charged to the vault's key by at least as much in the same step (_charge
\* before the vault is called).
THEOREM SalesAlwaysCharged ==
    ASSUME Market \notin Recipients
    PROVE  Spec => SalesAreCharged
<1>1. VaultInvariant /\ FactoryInvariant /\ [Next]_vars => [SaleCharged]_vars
  BY StepSaleCharged
<1> QED BY <1>1, VaultsInvariant, FactoryInvariance, PTL DEF Spec, SalesAreCharged

-----------------------------------------------------------------------------
(* What the agent places on a day.                                          *)

\* What may still be placed under a key today.
Left(k) == IF PolicyActive(k) THEN policies[k].maxPerDay - SpentToday(k) ELSE 0

HonouredAreUsedUp == \A s \in honoured : s.nonce < delegationNonces[s.key[1]]

LeftWithinMandates == \A k \in Keys : placed[k] + Left(k) <= granted[k]

DayInvariant == HistoryTypeOK /\ HonouredAreUsedUp /\ LeftWithinMandates

LEMMA LeftTyped ==
    ASSUME FactoryInvariant, NEW k \in Keys
    PROVE  Left(k) \in Nat
<1>1. SpentToday(k) \in Nat /\ policies[k].maxPerDay \in Nat
      /\ SpentToday(k) <= policies[k].maxPerDay
  BY SpentTodayTyped DEF FactoryInvariant, WithinDailyLimit
<1> QED BY <1>1 DEF Left

LEMMA DayInitially == Init => DayInvariant
<1> SUFFICES ASSUME Init PROVE DayInvariant
  OBVIOUS
<1>1. \A k \in Keys : Left(k) = 0
  BY DEF Init, Left, PolicyActive
<1> QED BY <1>1 DEF Init, DayInvariant, HistoryTypeOK, HonouredAreUsedUp, LeftWithinMandates

\* Steps that leave the budgets alone, and those that only add signatures.
LEMMA DayKept ==
    ASSUME DayInvariant, signed \subseteq signed',
           UNCHANGED <<now, delegationNonces, policies, dailySpend, history>>
    PROVE  DayInvariant'
BY DEF DayInvariant, HistoryTypeOK, HonouredAreUsedUp, LeftWithinMandates, Left,
       PolicyActive, SpentToday, Today, history

\* A registration grants its own limit, for the first time, and leaves no other
\* budget under its key.
LEMMA RegisterKeepsDay ==
    ASSUME FactoryInvariant, DayInvariant, NEW delegation \in signed,
           RegisterDelegation(delegation)
    PROVE  DayInvariant'
<1> DEFINE k == delegation.key
           owner == k[1]
           limit == delegation.maxPerDay
<1>1. /\ k \in Keys /\ owner \in Owners /\ limit \in Nat
      /\ delegationNonces \in [Owners -> Nat]
      /\ policies \in [Keys -> [maxPerOrder : Nat, maxPerDay : Nat,
                               validUntil : Nat, active : BOOLEAN]]
      /\ dailySpend \in [Keys -> [day : Nat, amount : Nat]]
      /\ \A s \in signed : s.key[1] \in Owners /\ s.nonce \in Nat
  BY KeyLaws DEF FactoryInvariant, FactoryTypeOK
<1>2. /\ delegation.nonce = delegationNonces[owner]
      /\ delegationNonces' = [delegationNonces EXCEPT ![owner] = @ + 1]
      /\ policies' = [policies EXCEPT ![k] =
             [maxPerOrder |-> delegation.maxPerOrder, maxPerDay |-> limit,
              validUntil |-> delegation.validUntil, active |-> TRUE]]
      /\ dailySpend' = [dailySpend EXCEPT ![k] = [day |-> 0, amount |-> 0]]
      /\ UNCHANGED <<now, signed>>
  BY DEF RegisterDelegation
<1>3. /\ honoured \subseteq signed
      /\ placed \in [Keys -> Nat] /\ granted \in [Keys -> Nat]
      /\ \A s \in honoured : s.nonce < delegationNonces[s.key[1]]
      /\ \A j \in Keys : placed[j] + Left(j) <= granted[j]
  BY DEF DayInvariant, HistoryTypeOK, HonouredAreUsedUp, LeftWithinMandates
<1>4. delegation \notin honoured
  BY <1>1, <1>2, <1>3
<1>5. /\ granted' = [granted EXCEPT ![k] = @ + limit]
      /\ honoured' = honoured \cup {delegation}
      /\ placed' = placed
  BY <1>4 DEF RegisterDelegation, Grants
<1>6. HistoryTypeOK'
  BY <1>1, <1>2, <1>3, <1>5 DEF HistoryTypeOK
<1>7. HonouredAreUsedUp'
  <2> SUFFICES ASSUME NEW s \in honoured' PROVE s.nonce < delegationNonces'[s.key[1]]
    BY DEF HonouredAreUsedUp
  <2>1. s \in signed /\ s.key[1] \in Owners /\ s.nonce \in Nat
    BY <1>1, <1>3, <1>5
  <2> QED BY <1>1, <1>2, <1>3, <1>5, <2>1
<1> HIDE DEF k, owner, limit
<1>8. ASSUME NEW j \in Keys PROVE placed'[j] + Left(j)' <= granted'[j]
  <2>1. Left(j) \in Nat /\ placed[j] \in Nat /\ granted[j] \in Nat
        /\ placed[j] + Left(j) <= granted[j]
    BY <1>3, LeftTyped
  <2>2. CASE j = k
    <3>1. SpentToday(k)' = 0 /\ policies'[k].maxPerDay = limit
      BY <1>1, <1>2 DEF SpentToday, Today
    <3>2. Left(k)' <= limit
      BY <1>1, <3>1 DEF Left
    <3>3. Left(k)' \in Nat
      BY <1>1, <3>1 DEF Left
    <3> QED BY <1>1, <1>3, <1>5, <2>1, <2>2, <3>2, <3>3
  <2>3. CASE j # k
    <3>1. policies'[j] = policies[j] /\ dailySpend'[j] = dailySpend[j] /\ now' = now
      BY <1>1, <1>2, <2>3
    <3>2. Left(j)' = Left(j)
      BY <3>1 DEF Left, PolicyActive, SpentToday, Today
    <3>3. granted'[j] = granted[j] /\ placed'[j] = placed[j]
      BY <1>3, <1>5, <2>3
    <3> QED BY <2>1, <3>2, <3>3
  <2> QED BY <2>2, <2>3
<1>9. LeftWithinMandates'
  BY <1>8 DEF LeftWithinMandates
<1> QED BY <1>6, <1>7, <1>9 DEF DayInvariant

LEMMA RevokeKeepsDay ==
    ASSUME FactoryInvariant, DayInvariant, NEW k \in Keys, RevokeDelegation(k)
    PROVE  DayInvariant'
<1>1. /\ policies' = [policies EXCEPT ![k] = [@ EXCEPT !.active = FALSE]]
      /\ UNCHANGED <<now, signed, delegationNonces, dailySpend, placed, granted, honoured>>
  BY DEF RevokeDelegation, history
<1>2. policies \in [Keys -> [maxPerOrder : Nat, maxPerDay : Nat,
                           validUntil : Nat, active : BOOLEAN]]
  BY DEF FactoryInvariant, FactoryTypeOK
<1>3. HistoryTypeOK' /\ HonouredAreUsedUp'
  BY <1>1 DEF DayInvariant, HistoryTypeOK, HonouredAreUsedUp
<1>4. ASSUME NEW j \in Keys PROVE placed'[j] + Left(j)' <= granted'[j]
  <2>1. Left(j) \in Nat /\ placed[j] \in Nat /\ granted[j] \in Nat
        /\ placed[j] + Left(j) <= granted[j]
    BY LeftTyped DEF DayInvariant, HistoryTypeOK, LeftWithinMandates
  <2>2. Left(j)' = Left(j) \/ Left(j)' = 0
    BY <1>1, <1>2 DEF Left, PolicyActive, SpentToday, Today
  <2> QED BY <1>1, <2>1, <2>2
<1> QED BY <1>3, <1>4 DEF DayInvariant, LeftWithinMandates

\* What a request places, it has charged.
LEMMA RequestPlaces ==
    ASSUME VaultInvariant, NEW w \in Vaults, Request(w)
    PROVE  \/ UNCHANGED dailySpend /\ Placed(w) = 0
           \/ \E orderAmount, increase \in Nat :
                 /\ Charge(KeyOf(w), orderAmount, increase)
                 /\ Placed(w) \in 0 .. increase
<1>1. ASSUME NEW o \in Orders, NEW amount \in Amounts,
             ActivateRequest(w, o, amount) \/ AmendRequest(w, o, amount)
      PROVE  \E orderAmount, increase \in Nat :
                 /\ Charge(KeyOf(w), orderAmount, increase)
                 /\ Placed(w) \in 0 .. increase
  <2>1. ActivateOrder(w, o, amount) \/ Amend(w, o, amount)
    BY <1>1 DEF ActivateRequest, AmendRequest
  <2>2. /\ amount \in Nat /\ committedAmount[w] \in Nat /\ Increase(w, amount) \in Nat
        /\ Charge(KeyOf(w), amount, Increase(w, amount))
    BY <1>1, VaultParties, IncreaseTyped
       DEF VaultInvariant, VaultTypeOK, ActivateRequest, AmendRequest
  <2>3. committedAmount'[w] = amount /\ ~MarketTakes(w)
    BY <2>1, OrderCommits, OrderCallTakesNothing
  <2>4. Placed(w) \in 0 .. Increase(w, amount)
    BY <2>2, <2>3 DEF Placed, Increase
  <2> QED BY <2>2, <2>4
<1>2. ASSUME NEW buy \in Tokens, NEW minimum \in Amounts, NEW amount \in Amounts,
             NEW used \in Amounts, NEW output \in Amounts,
             SwapRequest(w, buy, minimum, amount, used, output)
      PROVE  \E orderAmount, increase \in Nat :
                 /\ Charge(KeyOf(w), orderAmount, increase)
                 /\ Placed(w) \in 0 .. increase
  <2>1. /\ ExecuteSwap(w, buy, minimum, amount, used, output)
        /\ Charge(KeyOf(w), amount, amount)
        /\ amount \in Nat /\ used \in Nat /\ used <= amount
    BY <1>2, VaultParties DEF SwapRequest, ExecuteSwap
  <2>2. Lost(w, Sell(w)) = used /\ ~ReachGrows(w)
    BY <2>1, SwapTakes, ReachKept DEF ExecuteSwap
  <2>3. Placed(w) \in 0 .. amount
    BY <2>1, <2>2 DEF Placed, ReachGrows
  <2> QED BY <2>1, <2>3
<1>3. ASSUME CancelRequest(w) \/ \E tokens \in SUBSET Tokens : ReturnRequest(w, tokens)
      PROVE  UNCHANGED dailySpend /\ Placed(w) = 0
  <2>1. UNCHANGED dailySpend
    BY <1>3 DEF CancelRequest, ReturnRequest
  <2>2. ~ReachGrows(w) /\ ~MarketTakes(w)
    BY <1>3, CancelReleases, ReachKept, OrderCallTakesNothing, ReturnTakesNothing
       DEF CancelRequest, ReturnRequest, ReturnToOwner
  <2> QED BY <2>1, <2>2 DEF Placed, ReachGrows
<1> QED BY <1>1, <1>2, <1>3 DEF Request

LEMMA ExecuteKeepsDay ==
    ASSUME VaultInvariant, FactoryInvariant, DayInvariant, NEW w \in Vaults,
           NEW nonce \in Nonces, NEW deadline \in Deadlines, Execute(w, nonce, deadline)
    PROVE  DayInvariant'
<1> DEFINE k == KeyOf(w)
           amount == Placed(w)
<1>1. /\ Request(w)
      /\ placed' = [placed EXCEPT ![k] = @ + amount]
      /\ UNCHANGED <<now, signed, delegationNonces, policies, granted, honoured>>
      /\ k \in Keys
  BY KeyLaws DEF Execute, Places, policyVars
<1>2. /\ placed \in [Keys -> Nat] /\ granted \in [Keys -> Nat]
      /\ \A j \in Keys : placed[j] + Left(j) <= granted[j]
  BY DEF DayInvariant, HistoryTypeOK, LeftWithinMandates
<1>3. HonouredAreUsedUp'
  BY <1>1 DEF DayInvariant, HonouredAreUsedUp
<1>4. CASE UNCHANGED dailySpend /\ amount = 0
  <2>1. placed' = placed
    BY <1>1, <1>2, <1>4
  <2> QED BY <1>1, <1>4, <2>1, DayKept DEF history
<1>5. ASSUME NEW orderAmount \in Nat, NEW increase \in Nat,
             Charge(k, orderAmount, increase), amount \in 0 .. increase
      PROVE  DayInvariant'
  <2>1. /\ SpentToday(k)' = SpentToday(k) + increase
        /\ SpentToday(k)' <= policies[k].maxPerDay
        /\ \A j \in Keys \ {k} : SpentToday(j)' = SpentToday(j)
        /\ PolicyActive(k)
    BY <1>1, <1>5, ChargeValue DEF Charge
  <2>2. SpentToday(k) \in Nat /\ policies[k].maxPerDay \in Nat
    BY <1>1, SpentTodayTyped DEF FactoryInvariant
  <2>3. \A j \in Keys : PolicyActive(j)' <=> PolicyActive(j)
    BY <1>1 DEF PolicyActive
  <2> HIDE DEF k, amount
  <2>4. HistoryTypeOK'
    BY <1>1, <1>2, <1>5 DEF DayInvariant, HistoryTypeOK
  <2>5. ASSUME NEW j \in Keys PROVE placed'[j] + Left(j)' <= granted'[j]
    <3>1. CASE j = k
      <4>1. placed'[k] = placed[k] + amount /\ placed[k] \in Nat /\ granted[k] \in Nat
        BY <1>1, <1>2
      <4>2. /\ Left(k) = policies[k].maxPerDay - SpentToday(k)
            /\ Left(k)' = policies[k].maxPerDay - (SpentToday(k) + increase)
        BY <1>1, <2>1, <2>3 DEF Left
      <4>3. placed[k] + Left(k) <= granted[k] /\ granted' = granted
        BY <1>1, <1>2
      <4> QED BY <1>5, <2>2, <3>1, <4>1, <4>2, <4>3
    <3>2. CASE j # k
      <4>1. Left(j)' = Left(j)
        BY <1>1, <2>1, <2>3, <3>2 DEF Left
      <4>2. placed'[j] = placed[j] /\ granted' = granted
        BY <1>1, <1>2, <3>2
      <4> QED BY <1>2, <4>1, <4>2
    <3> QED BY <3>1, <3>2
  <2> QED BY <1>3, <2>4, <2>5 DEF DayInvariant, LeftWithinMandates
<1> QED BY <1>1, <1>4, <1>5, RequestPlaces

LEMMA TickKeepsDay ==
    ASSUME FactoryInvariant, DayInvariant, Tick
    PROVE  DayInvariant'
<1>1. /\ now' = now + 1 /\ now \in Nat
      /\ UNCHANGED <<signed, delegationNonces, policies, honoured>>
  BY DEF Tick, policyVars, FactoryInvariant, FactoryTypeOK
<1>2. \A k \in Keys : /\ policies[k].validUntil \in Nat /\ policies[k].maxPerDay \in Nat
                      /\ SpentToday(k) \in Nat
                      /\ SpentToday(k) <= policies[k].maxPerDay
                      /\ SpentToday(k)' = IF Today' = Today THEN SpentToday(k) ELSE 0
  BY TickPreserves, SpentTodayTyped DEF FactoryInvariant, FactoryTypeOK, WithinDailyLimit
<1>3. HonouredAreUsedUp'
  BY <1>1 DEF DayInvariant, HonouredAreUsedUp
<1>4. CASE Today' = Today
  <2>1. placed' = placed /\ granted' = granted
    BY <1>4 DEF Tick
  <2>2. HistoryTypeOK'
    BY <1>1, <2>1 DEF DayInvariant, HistoryTypeOK
  <2>3. ASSUME NEW k \in Keys PROVE placed'[k] + Left(k)' <= granted'[k]
    <3>1. placed[k] + Left(k) <= granted[k] /\ placed[k] \in Nat /\ granted[k] \in Nat
      BY DEF DayInvariant, HistoryTypeOK, LeftWithinMandates
    <3>2. Left(k)' = Left(k) \/ Left(k)' = 0
      BY <1>1, <1>2, <1>4 DEF Left, PolicyActive
    <3> QED BY <2>1, <3>1, <3>2, LeftTyped
  <2> QED BY <1>3, <2>2, <2>3 DEF DayInvariant, LeftWithinMandates
<1>5. CASE Today' # Today
  <2>1. /\ placed' = [k \in Keys |-> 0]
        /\ granted' = [k \in Keys |-> IF PolicyActive(k)' THEN policies[k].maxPerDay ELSE 0]
    BY <1>5 DEF Tick
  <2>2. HistoryTypeOK'
    BY <1>1, <1>2, <2>1 DEF DayInvariant, HistoryTypeOK
  <2>3. ASSUME NEW k \in Keys PROVE placed'[k] + Left(k)' <= granted'[k]
    <3>1. SpentToday(k)' = 0 /\ policies' = policies /\ policies[k].maxPerDay \in Nat
      BY <1>1, <1>2, <1>5
    <3>2. placed'[k] = 0 /\ granted'[k] = Left(k)' /\ granted'[k] \in Nat
      BY <2>1, <3>1 DEF Left
    <3> QED BY <3>2
  <2> QED BY <1>3, <2>2, <2>3 DEF DayInvariant, LeftWithinMandates
<1> QED BY <1>4, <1>5

LEMMA DayStep ==
    ASSUME VaultInvariant, FactoryInvariant, DayInvariant, [Next]_vars
    PROVE  DayInvariant'
<1>1. CASE UNCHANGED vars
  BY <1>1, DayKept DEF vars, factoryVars, policyVars
<1>2. ASSUME NEW offer \in Offers, SignDelegation(offer) PROVE DayInvariant'
  BY <1>2, DayKept DEF SignDelegation
<1>3. ASSUME NEW v \in Vaults, DeployVault(v) \/ OwnerStep(v) \/ OutsideStep(v)
      PROVE  DayInvariant'
  BY <1>3, DayKept DEF DeployVault, OwnerStep, OutsideStep, factoryVars, policyVars
<1> QED BY <1>1, <1>2, <1>3, RegisterKeepsDay, RevokeKeepsDay, ExecuteKeepsDay, TickKeepsDay
        DEF Next

LEMMA DayInvariance == Spec => []DayInvariant
BY DayInitially, DayStep, FactoryInvariance, VaultsInvariant, PTL DEF Spec

\* Every variable of the composed system keeps its type.
THEOREM Typing == Spec => []TypeOK
<1>1. VaultInvariant /\ FactoryInvariant /\ DayInvariant => TypeOK
  BY DEF VaultInvariant, FactoryInvariant, DayInvariant, TypeOK
<1> QED BY <1>1, VaultsInvariant, FactoryInvariance, DayInvariance, PTL

\* What an agent places under a key on one day, in any order of registrations,
\* revocations, lapses, relayed requests and days, is covered by the limits of
\* distinct delegations that were in force on that day.
THEOREM DaysStayMandated == Spec => []PlacedWithinMandates
<1>1. FactoryInvariant /\ DayInvariant => PlacedWithinMandates
  <2> SUFFICES ASSUME FactoryInvariant, DayInvariant, NEW k \in Keys
               PROVE  placed[k] <= granted[k]
    BY DEF PlacedWithinMandates
  <2>1. /\ placed[k] \in Nat /\ granted[k] \in Nat /\ Left(k) \in Nat
        /\ placed[k] + Left(k) <= granted[k]
    BY LeftTyped DEF DayInvariant, HistoryTypeOK, LeftWithinMandates
  <2> QED BY <2>1
<1> QED BY <1>1, FactoryInvariance, DayInvariance, PTL

=============================================================================
