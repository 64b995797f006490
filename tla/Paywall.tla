------------------------------ MODULE Paywall ------------------------------
(***************************************************************************)
(* The contracts that split the money: paywall_core and                    *)
(* verivyx_pay_adapter, on one USDC token with balances and allowances.    *)
(*                                                                         *)
(* A contract call is one step: it happens whole or, when a check or a     *)
(* transfer fails, not at all.  Every call carries the one account that    *)
(* signed it.  The keeper is the payment-relayer: as proved of it          *)
(* (DistributionBacked), it distributes each deposit at most once, for its *)
(* domain and amount.  Other tokens are refused by both contracts and move *)
(* nothing here; amounts stay far below the width of i128.                 *)
(***************************************************************************)
EXTENDS Naturals, Integers, FiniteSets, Functions

CONSTANTS
  Domains,
  Accounts,    \* creators and payers
  Deposits,    \* identifiers: bounds the transfers waiting for a distribute
  Amounts,     \* prices, fees and deposits that may be asked for
  Platform, Keeper, Treasury, Contract,
  Funds,       \* what each account owns at first
  FeeAtomic,   \* the flat fee of the adapter
  None

ASSUME AmountsAssumption == Amounts \subseteq Nat /\ Funds \in Nat /\ FeeAtomic \in Nat
ASSUME AddressesAssumption ==
  /\ {Platform, Keeper, Treasury, Contract, None} \cap Accounts = {}
  /\ Contract \notin {Platform, Treasury}
  /\ Keeper # Contract
ASSUME NoneAssumption == None \notin [domain : Domains, amount : Nat]

VARIABLES
  initialized,  \* paywall_core has its platform, keeper and token
  creators,     \* creators[d]: the CreatorData of d
  balance,      \* USDC
  allowance,    \* allowance[a]: what a lets the adapter draw
  waiting,      \* waiting[n]: a transfer to the contract, not yet distributed
  signer        \* who signed the last call

vars == <<initialized, creators, balance, allowance, waiting, signer>>

Holders == Accounts \cup {Platform, Treasury, Contract}
CreatorData == [address : Accounts, price : Int, platform_fee : Int, enabled : BOOLEAN]

TypeOK == /\ initialized \in BOOLEAN
          /\ creators \in [Domains -> CreatorData \cup {None}]
          /\ balance \in [Holders -> Nat]
          /\ allowance \in [Accounts -> Nat]
          /\ waiting \in [Deposits -> [domain : Domains, amount : Nat] \cup {None}]
          /\ signer \in Accounts \cup {Keeper, None}

Init == /\ initialized = FALSE
        /\ creators = [d \in Domains |-> None]
        /\ balance = [h \in Holders |-> IF h \in Accounts THEN Funds ELSE 0]
        /\ allowance = [a \in Accounts |-> 0]
        /\ waiting = [n \in Deposits |-> None]
        /\ signer = None

Registered(d) == creators[d] # None
Move(b, from, to, n) == [b EXCEPT ![from] = @ - n, ![to] = @ + n]
ValidPrice(price, fee) == price > 0 /\ fee >= 0 /\ fee < price

\* Two transfers in a row, each of what is then there; the token refuses
\* negative amounts.
MoveTwice(from, to1, n1, to2, n2) ==
  LET first == Move(balance, from, to1, n1) IN
  /\ n1 >= 0 /\ n2 >= 0
  /\ balance[from] >= n1
  /\ first[from] >= n2
  /\ balance' = Move(first, from, to2, n2)

-----------------------------------------------------------------------------
(* paywall_core *)

Initialize ==
  /\ ~initialized
  /\ initialized' = TRUE
  /\ signer' = None
  /\ UNCHANGED <<creators, balance, allowance, waiting>>

Data(creator, price, fee) ==
  [address |-> creator, price |-> price, platform_fee |-> fee, enabled |-> TRUE]

\* A creator registers a domain for itself, taken or not.
Register(creator, d, price, fee) ==
  /\ ValidPrice(price, fee)
  /\ creators' = [creators EXCEPT ![d] = Data(creator, price, fee)]
  /\ signer' = creator
  /\ UNCHANGED <<initialized, balance, allowance, waiting>>

\* A plausible mistake: the fee may be the whole price.
KeeperRegistersFeeAtPrice(d, creator, price, fee) ==
  /\ initialized
  /\ price > 0 /\ fee >= 0 /\ fee <= price
  /\ Registered(d) => creators[d].address = creator
  /\ creators' = [creators EXCEPT ![d] = Data(creator, price, fee)]
  /\ signer' = Keeper
  /\ UNCHANGED <<initialized, balance, allowance, waiting>>

\* A plausible mistake: the creator already registered is not looked at.
KeeperOverwrites(d, creator, price, fee) ==
  /\ initialized
  /\ ValidPrice(price, fee)
  /\ creators' = [creators EXCEPT ![d] = Data(creator, price, fee)]
  /\ signer' = Keeper
  /\ UNCHANGED <<initialized, balance, allowance, waiting>>

RegisterByKeeper(d, creator, price, fee) ==
  /\ initialized
  /\ ValidPrice(price, fee)
  /\ Registered(d) => creators[d].address = creator
  /\ creators' = [creators EXCEPT ![d] = Data(creator, price, fee)]
  /\ signer' = Keeper
  /\ UNCHANGED <<initialized, balance, allowance, waiting>>

SetEnabled(creator, d, enabled) ==
  /\ Registered(d)
  /\ creators[d].address = creator
  /\ creators' = [creators EXCEPT ![d].enabled = enabled]
  /\ signer' = creator
  /\ UNCHANGED <<initialized, balance, allowance, waiting>>

Pay(payer, d) ==
  LET data == creators[d] IN
  /\ initialized
  /\ Registered(d) /\ data.enabled
  /\ MoveTwice(payer, data.address, data.price - data.platform_fee, Platform, data.platform_fee)
  /\ signer' = payer
  /\ UNCHANGED <<initialized, creators, allowance, waiting>>

\* A plausible mistake: the creator gets the amount, and the fee comes on top.
DistributeFeeOnTop(n) ==
  LET deposit == waiting[n]
      data    == creators[deposit.domain]
  IN
  /\ initialized
  /\ deposit # None
  /\ Registered(deposit.domain) /\ data.enabled
  /\ deposit.amount > 0 /\ deposit.amount >= data.platform_fee
  /\ MoveTwice(Contract, data.address, deposit.amount, Platform, data.platform_fee)
  /\ waiting' = [waiting EXCEPT ![n] = None]
  /\ signer' = Keeper
  /\ UNCHANGED <<initialized, creators, allowance>>

\* The config is the one of the moment of the distribute, not of the deposit.
Distribute(n) ==
  LET deposit == waiting[n]
      data    == creators[deposit.domain]
  IN
  /\ initialized
  /\ deposit # None
  /\ Registered(deposit.domain) /\ data.enabled
  /\ deposit.amount > 0 /\ deposit.amount >= data.platform_fee
  /\ MoveTwice(Contract, data.address, deposit.amount - data.platform_fee,
               Platform, data.platform_fee)
  /\ waiting' = [waiting EXCEPT ![n] = None]
  /\ signer' = Keeper
  /\ UNCHANGED <<initialized, creators, allowance>>

-----------------------------------------------------------------------------
(* verivyx_pay_adapter *)

\* Three transfer_from of the allowance of the owner, at the price on chain; the
\* creator's share is positive by PriceCoversFee.
ThreeWaySplit(owner, d) ==
  LET data  == creators[d]
      total == data.price + FeeAtomic
      first == Move(balance, owner, data.address, data.price - data.platform_fee)
  IN
  /\ Registered(d) /\ data.enabled
  /\ allowance[owner] >= total
  /\ balance[owner] >= data.price - data.platform_fee
  /\ first[owner] >= data.platform_fee + FeeAtomic
  /\ balance' = Move(Move(first, owner, Platform, data.platform_fee), owner, Treasury, FeeAtomic)
  /\ allowance' = [allowance EXCEPT ![owner] = @ - total]
  /\ UNCHANGED <<initialized, creators, waiting>>

\* A plausible mistake: the adapter does not ask for the owner's signature.
AdapterPayUnsigned(owner, d) ==
  /\ ThreeWaySplit(owner, d)
  /\ signer' \in Accounts

AdapterPay(owner, d) ==
  /\ ThreeWaySplit(owner, d)
  /\ signer' = owner

-----------------------------------------------------------------------------
(* The token (external) *)

\* The transfer of a pooled payment; the amount is what its payer was quoted.
Deposit(n, payer, d, amount) ==
  /\ waiting[n] = None
  /\ amount > 0 /\ balance[payer] >= amount
  /\ balance' = Move(balance, payer, Contract, amount)
  /\ waiting' = [waiting EXCEPT ![n] = [domain |-> d, amount |-> amount]]
  /\ signer' = payer
  /\ UNCHANGED <<initialized, creators, allowance>>

Approve(owner, amount) ==
  /\ allowance' = [allowance EXCEPT ![owner] = amount]
  /\ signer' = owner
  /\ UNCHANGED <<initialized, creators, balance, waiting>>

Next ==
  \/ Initialize
  \/ \E a \in Accounts, d \in Domains :
       \/ \E price, fee \in Amounts : Register(a, d, price, fee) \/ RegisterByKeeper(d, a, price, fee)
       \/ \E enabled \in BOOLEAN : SetEnabled(a, d, enabled)
       \/ Pay(a, d)
       \/ AdapterPay(a, d)
       \/ \E n \in Deposits, amount \in Amounts : Deposit(n, a, d, amount)
  \/ \E n \in Deposits : Distribute(n)
  \/ \E a \in Accounts, amount \in Amounts : Approve(a, amount)

Spec == Init /\ [][Next]_vars

-----------------------------------------------------------------------------
(* Properties *)

\* The adapter subtracts the fee from the price of another contract's record
\* without a check: it relies on every way to write a record keeping
\* 0 <= platform_fee < price.
PriceCoversFee ==
  \A d \in Domains : Registered(d) =>
    0 <= creators[d].platform_fee /\ creators[d].platform_fee < creators[d].price

\* The contract's balance is what was deposited and not yet distributed: a
\* distribute never spends the deposit of another payment, and a direct payment
\* never goes through the pool.
Open == {n \in Deposits : waiting[n] # None}
Pooled == [n \in Open |-> waiting[n].amount]
PoolIsDeposits == balance[Contract] = SumFunction(Pooled)

\* Once a domain is registered, its earnings change hands only with the signature
\* of whoever gets them: the keeper updates a record but never reassigns it.
RecipientConsents ==
  [][\A d \in Domains :
       (Registered(d) /\ creators'[d].address # creators[d].address) =>
         signer' = creators'[d].address]_vars

\* No account loses money in a call it did not sign, whatever allowances, prices
\* and records were set before.
DebitsAreSigned ==
  [][\A a \in Accounts : balance'[a] < balance[a] => signer' = a]_vars
=============================================================================
