--------------------------- MODULE PaywallProofs ----------------------------
(***************************************************************************)
(* Proofs about Paywall, for any domains, accounts, deposits and amounts.  *)
(*                                                                         *)
(* The adapter subtracts a fee that another contract wrote, so that types  *)
(* (no balance below zero) and prices (no fee above the price) hold only   *)
(* together: IInv is their conjunction.  Who is debited, and whose the     *)
(* earnings are, then follows from each call by itself.                    *)
(* That the pool is the sum of the deposits needs to know of sums that     *)
(* they may be taken in any order, for any number of deposits: the lemmas  *)
(* before the last section.                                                *)
(***************************************************************************)
EXTENDS Paywall, FiniteSetTheorems, WellFoundedInduction, TLAPS

IInv == TypeOK /\ PriceCoversFee

\* A move of no negative amount, by a holder that owns it, keeps the balances
\* natural, and takes from nobody else.
LEMMA MoveType ==
  ASSUME NEW b \in [Holders -> Nat], NEW from \in Holders, NEW to \in Holders,
         NEW n \in Int, n >= 0, b[from] >= n
  PROVE  /\ Move(b, from, to, n) \in [Holders -> Nat]
         /\ \A h \in Holders \ {from} : Move(b, from, to, n)[h] >= b[h]
<1>1. [b EXCEPT ![from] = @ - n] \in [Holders -> Nat]
  OBVIOUS
<1>2. QED
  BY <1>1 DEF Move

\* So does the pair of moves of a contract call.
LEMMA MoveTwiceType ==
  ASSUME TypeOK, NEW from \in Holders, NEW x \in Holders, NEW y \in Holders,
         NEW n \in Int, NEW m \in Int, MoveTwice(from, x, n, y, m)
  PROVE  /\ balance' \in [Holders -> Nat]
         /\ \A h \in Holders \ {from} : balance'[h] >= balance[h]
<1> DEFINE first == Move(balance, from, x, n)
<1>1. /\ n >= 0 /\ m >= 0
      /\ balance[from] >= n
      /\ first[from] >= m
      /\ balance' = Move(first, from, y, m)
  BY DEF MoveTwice
<1>2. balance \in [Holders -> Nat]
  BY DEF TypeOK
<1>3. /\ first \in [Holders -> Nat]
      /\ \A h \in Holders \ {from} : first[h] >= balance[h]
  BY <1>1, <1>2, MoveType
<1> HIDE DEF first
<1>4. /\ balance' \in [Holders -> Nat]
      /\ \A h \in Holders \ {from} : balance'[h] >= first[h]
  BY <1>1, <1>3, MoveType
<1>5. QED
  BY <1>2, <1>3, <1>4

\* What a registered record holds.
LEMMA RecordType ==
  ASSUME IInv, NEW d \in Domains, Registered(d)
  PROVE  /\ creators[d] \in CreatorData
         /\ creators[d].address \in Accounts
         /\ creators[d].price \in Int /\ creators[d].platform_fee \in Int
         /\ 0 <= creators[d].platform_fee /\ creators[d].platform_fee < creators[d].price
BY DEF IInv, TypeOK, PriceCoversFee, Registered, CreatorData

\* The initial state satisfies the invariant.
LEMMA Initial == Init => IInv
<1> SUFFICES ASSUME Init
             PROVE  IInv
  OBVIOUS
<1>1. balance \in [Holders -> Nat] /\ allowance \in [Accounts -> Nat]
  BY AmountsAssumption DEF Init
<1>2. /\ initialized \in BOOLEAN
      /\ creators \in [Domains -> CreatorData \cup {None}]
      /\ waiting \in [Deposits -> [domain : Domains, amount : Nat] \cup {None}]
      /\ signer \in Accounts \cup {Keeper, None}
  BY DEF Init
<1>3. PriceCoversFee
  BY DEF Init, PriceCoversFee, Registered
<1>4. QED
  BY <1>1, <1>2, <1>3 DEF IInv, TypeOK

\* Balances stay natural, and nobody but a is debited.
Debits(a) == /\ balance' \in [Holders -> Nat]
             /\ \A h \in Holders \ {a} : balance'[h] >= balance[h]

\* A direct payment debits its payer.
LEMMA PayDebits ==
  ASSUME IInv, NEW a \in Accounts, NEW d \in Domains, Pay(a, d)
  PROVE  Debits(a)
<1>1. Registered(d)
  BY DEF Pay
<1> DEFINE data == creators[d]
<1>2. /\ data.address \in Accounts
      /\ data.price \in Int /\ data.platform_fee \in Int
      /\ data.price - data.platform_fee \in Int
  BY <1>1, RecordType
<1>3. MoveTwice(a, data.address, data.price - data.platform_fee, Platform, data.platform_fee)
  BY DEF Pay
<1>4. a \in Holders /\ data.address \in Holders /\ Platform \in Holders
  BY <1>2 DEF Holders
<1> HIDE DEF data
<1>5. QED
  BY <1>2, <1>3, <1>4, MoveTwiceType DEF Debits, IInv

\* A distribute debits the contract.
LEMMA DistributeDebits ==
  ASSUME IInv, NEW n \in Deposits, Distribute(n)
  PROVE  Debits(Contract)
<1>1. waiting[n].domain \in Domains /\ waiting[n].amount \in Int
  BY DEF Distribute, IInv, TypeOK
<1> DEFINE data == creators[waiting[n].domain]
           amount == waiting[n].amount
<1>2. Registered(waiting[n].domain)
  BY DEF Distribute
<1>3. /\ data.address \in Accounts
      /\ data.platform_fee \in Int
      /\ amount - data.platform_fee \in Int
  BY <1>1, <1>2, RecordType
<1>4. MoveTwice(Contract, data.address, amount - data.platform_fee, Platform, data.platform_fee)
  BY DEF Distribute
<1>5. Contract \in Holders /\ data.address \in Holders /\ Platform \in Holders
  BY <1>3 DEF Holders
<1> HIDE DEF data, amount
<1>6. QED
  BY <1>3, <1>4, <1>5, MoveTwiceType DEF Debits, IInv

\* The adapter debits the owner, three times, and within the allowance.
LEMMA AdapterDebits ==
  ASSUME IInv, NEW a \in Accounts, NEW d \in Domains, AdapterPay(a, d)
  PROVE  Debits(a) /\ allowance' \in [Accounts -> Nat]
<1> DEFINE data   == creators[d]
           share  == data.price - data.platform_fee
           first  == Move(balance, a, data.address, share)
           second == Move(first, a, Platform, data.platform_fee)
<1>1. Registered(d)
  BY DEF AdapterPay, ThreeWaySplit
<1>2. /\ data.address \in Accounts
      /\ data.price \in Int /\ data.platform_fee \in Int
      /\ 0 <= data.platform_fee /\ data.platform_fee < data.price
  BY <1>1, RecordType
<1>3. share \in Int /\ share >= 0 /\ FeeAtomic \in Nat
  BY <1>2, AmountsAssumption
<1>4. /\ a \in Holders /\ data.address \in Holders
      /\ Platform \in Holders /\ Treasury \in Holders
  BY <1>2 DEF Holders
<1>5. /\ allowance[a] >= data.price + FeeAtomic
      /\ balance[a] >= share
      /\ first[a] >= data.platform_fee + FeeAtomic
      /\ balance' = Move(second, a, Treasury, FeeAtomic)
      /\ allowance' = [allowance EXCEPT ![a] = @ - (data.price + FeeAtomic)]
  BY DEF AdapterPay, ThreeWaySplit
<1>6. balance \in [Holders -> Nat] /\ allowance \in [Accounts -> Nat]
  BY DEF IInv, TypeOK
<1> HIDE DEF data, share
<1>7. /\ first \in [Holders -> Nat]
      /\ \A h \in Holders \ {a} : first[h] >= balance[h]
  BY <1>3, <1>4, <1>5, <1>6, MoveType
<1> HIDE DEF first
<1>8. first[a] \in Nat /\ first[a] >= data.platform_fee
  BY <1>2, <1>3, <1>4, <1>5, <1>7
<1>9. /\ second \in [Holders -> Nat]
      /\ \A h \in Holders \ {a} : second[h] >= first[h]
  BY <1>2, <1>4, <1>7, <1>8, MoveType
<1>10. second[a] >= FeeAtomic
  BY <1>2, <1>3, <1>4, <1>5, <1>7 DEF Move
<1> HIDE DEF second
<1>11. /\ balance' \in [Holders -> Nat]
       /\ \A h \in Holders \ {a} : balance'[h] >= second[h]
  BY <1>3, <1>4, <1>5, <1>9, <1>10, MoveType
<1>12. Debits(a)
  BY <1>6, <1>7, <1>9, <1>11 DEF Debits
<1>13. allowance' \in [Accounts -> Nat]
  BY <1>2, <1>3, <1>5, <1>6
<1>14. QED
  BY <1>12, <1>13

\* The transfer of a pooled payment debits its payer.
LEMMA DepositDebits ==
  ASSUME IInv, NEW n \in Deposits, NEW a \in Accounts, NEW d \in Domains, NEW amount \in Amounts,
         Deposit(n, a, d, amount)
  PROVE  Debits(a)
<1>1. /\ amount \in Int /\ amount >= 0 /\ balance[a] >= amount
      /\ balance' = Move(balance, a, Contract, amount)
  BY AmountsAssumption DEF Deposit
<1>2. balance \in [Holders -> Nat] /\ a \in Holders /\ Contract \in Holders
  BY DEF IInv, TypeOK, Holders
<1>3. QED
  BY <1>1, <1>2, MoveType DEF Debits

\* What a call writes of the records is a price that covers its fee.
LEMMA RegisterData ==
  ASSUME NEW a \in Accounts, NEW price \in Amounts, NEW fee \in Amounts, ValidPrice(price, fee)
  PROVE  /\ Data(a, price, fee) \in CreatorData
         /\ Data(a, price, fee).address = a
         /\ 0 <= Data(a, price, fee).platform_fee
         /\ Data(a, price, fee).platform_fee < Data(a, price, fee).price
BY AmountsAssumption DEF Data, CreatorData, ValidPrice

\* Every call, and every operation of the token, keeps types and prices.
LEMMA Step == IInv /\ [Next]_vars => IInv'
<1> SUFFICES ASSUME IInv, [Next]_vars
             PROVE  IInv'
  OBVIOUS
<1>t. TypeOK /\ PriceCoversFee
  BY DEF IInv
<1>a. ASSUME UNCHANGED creators
      PROVE  PriceCoversFee'
  BY <1>a, <1>t DEF PriceCoversFee, Registered
<1>1. CASE Initialize
  BY <1>1, <1>a, <1>t DEF Initialize, IInv, TypeOK
<1>2. ASSUME NEW a \in Accounts, NEW d \in Domains, NEW price \in Amounts, NEW fee \in Amounts,
             Register(a, d, price, fee) \/ RegisterByKeeper(d, a, price, fee)
      PROVE  IInv'
  <2> DEFINE data == Data(a, price, fee)
  <2>1. /\ ValidPrice(price, fee)
        /\ creators' = [creators EXCEPT ![d] = data]
        /\ signer' \in {a, Keeper}
        /\ UNCHANGED <<initialized, balance, allowance, waiting>>
    BY <1>2 DEF Register, RegisterByKeeper
  <2>2. /\ data \in CreatorData
        /\ 0 <= data.platform_fee /\ data.platform_fee < data.price
    BY <2>1, RegisterData
  <2> HIDE DEF data
  <2>3. TypeOK'
    BY <1>t, <2>1, <2>2 DEF TypeOK
  <2>4. PriceCoversFee'
    BY <1>t, <2>1, <2>2 DEF PriceCoversFee, Registered, TypeOK
  <2>5. QED
    BY <2>3, <2>4 DEF IInv
<1>3. ASSUME NEW a \in Accounts, NEW d \in Domains, NEW enabled \in BOOLEAN, SetEnabled(a, d, enabled)
      PROVE  IInv'
  <2> DEFINE data == [creators[d] EXCEPT !.enabled = enabled]
  <2>1. /\ Registered(d)
        /\ creators' = [creators EXCEPT ![d] = data]
        /\ signer' = a
        /\ UNCHANGED <<initialized, balance, allowance, waiting>>
    BY <1>3 DEF SetEnabled
  <2>2. creators[d] \in CreatorData
    BY <2>1, RecordType
  <2>3. /\ data \in CreatorData
        /\ data.price = creators[d].price
        /\ data.platform_fee = creators[d].platform_fee
    BY <2>2 DEF CreatorData
  <2> HIDE DEF data
  <2>4. TypeOK'
    BY <1>t, <2>1, <2>3 DEF TypeOK
  <2>5. PriceCoversFee'
    BY <1>t, <2>1, <2>3 DEF PriceCoversFee, Registered, TypeOK
  <2>6. QED
    BY <2>4, <2>5 DEF IInv
<1>4. ASSUME NEW a \in Accounts, NEW d \in Domains, Pay(a, d)
      PROVE  IInv'
  BY <1>4, <1>a, <1>t, PayDebits DEF Pay, Debits, IInv, TypeOK
<1>5. ASSUME NEW a \in Accounts, NEW d \in Domains, AdapterPay(a, d)
      PROVE  IInv'
  <2>1. Debits(a) /\ allowance' \in [Accounts -> Nat]
    BY <1>5, AdapterDebits
  <2>2. signer' = a /\ UNCHANGED <<initialized, creators, waiting>>
    BY <1>5 DEF AdapterPay, ThreeWaySplit
  <2>3. QED
    BY <2>1, <2>2, <1>a, <1>t DEF Debits, IInv, TypeOK
<1>6. ASSUME NEW n \in Deposits, NEW a \in Accounts, NEW d \in Domains, NEW amount \in Amounts,
             Deposit(n, a, d, amount)
      PROVE  IInv'
  <2>1. waiting' \in [Deposits -> [domain : Domains, amount : Nat] \cup {None}]
    BY <1>6, <1>t, AmountsAssumption DEF Deposit, TypeOK
  <2>2. QED
    BY <1>6, <2>1, <1>a, <1>t, DepositDebits DEF Deposit, Debits, IInv, TypeOK
<1>7. ASSUME NEW n \in Deposits, Distribute(n)
      PROVE  IInv'
  <2>1. Debits(Contract)
    BY <1>7, DistributeDebits
  <2>2. /\ waiting' = [waiting EXCEPT ![n] = None]
        /\ signer' = Keeper
        /\ UNCHANGED <<initialized, creators, allowance>>
    BY <1>7 DEF Distribute
  <2>3. QED
    BY <2>1, <2>2, <1>a, <1>t DEF Debits, IInv, TypeOK
<1>8. ASSUME NEW a \in Accounts, NEW amount \in Amounts, Approve(a, amount)
      PROVE  IInv'
  BY <1>8, <1>a, <1>t, AmountsAssumption DEF Approve, IInv, TypeOK
<1>9. CASE UNCHANGED vars
  BY <1>9, <1>a, <1>t DEF vars, IInv, TypeOK
<1>10. QED
  BY <1>1, <1>2, <1>3, <1>4, <1>5, <1>6, <1>7, <1>8, <1>9 DEF Next

\* Balances and allowances never go below zero, and records are well formed,
\* whatever calls of both contracts and of the token follow each other.
THEOREM PaywallTypeCorrect == Spec => []TypeOK
<1>1. IInv => TypeOK
  BY DEF IInv
<1>2. QED
  BY <1>1, Initial, Step, PTL DEF Spec

\* The fee that the adapter subtracts without a check is always below the price,
\* and never negative: register, register_by_keeper and set_enabled keep it so.
THEOREM FeesAreCovered == Spec => []PriceCoversFee
<1>1. IInv => PriceCoversFee
  BY DEF IInv
<1>2. QED
  BY <1>1, Initial, Step, PTL DEF Spec

\* The earnings of a registered domain go to another address only in a call which
\* that address signed.
THEOREM RecipientsConsent == Spec => RecipientConsents
<1> DEFINE A == \A d \in Domains :
                  (Registered(d) /\ creators'[d].address # creators[d].address) =>
                    signer' = creators'[d].address
<1>1. IInv /\ [Next]_vars => [A]_vars
  <2> SUFFICES ASSUME IInv, Next
               PROVE  A
    OBVIOUS
  <2>1. creators \in [Domains -> CreatorData \cup {None}]
    BY DEF IInv, TypeOK
  <2>2. ASSUME NEW a \in Accounts, NEW d \in Domains, NEW price \in Amounts, NEW fee \in Amounts,
               Register(a, d, price, fee)
        PROVE  A
    BY <2>1, <2>2 DEF Register, Data
  <2>3. ASSUME NEW a \in Accounts, NEW d \in Domains, NEW price \in Amounts, NEW fee \in Amounts,
               RegisterByKeeper(d, a, price, fee)
        PROVE  A
    BY <2>1, <2>3 DEF RegisterByKeeper, Data
  <2>4. ASSUME NEW a \in Accounts, NEW d \in Domains, NEW enabled \in BOOLEAN, SetEnabled(a, d, enabled)
        PROVE  A
    <3> DEFINE data == [creators[d] EXCEPT !.enabled = enabled]
    <3>1. creators' = [creators EXCEPT ![d] = data]
      BY <2>4 DEF SetEnabled
    <3>2. data.address = creators[d].address
      BY <2>4, RecordType DEF SetEnabled, CreatorData
    <3> HIDE DEF data
    <3>3. QED
      BY <2>1, <3>1, <3>2
  <2>5. CASE UNCHANGED creators
    BY <2>5
  <2>6. QED
    BY <2>2, <2>3, <2>4, <2>5
       DEF Next, Initialize, Pay, AdapterPay, ThreeWaySplit, Deposit, Distribute, Approve
<1>2. QED
  BY <1>1, Initial, Step, PTL DEF Spec, RecipientConsents

\* No account loses money in a call it did not sign.
THEOREM DebitsSigned == Spec => DebitsAreSigned
<1> DEFINE A == \A a \in Accounts : balance'[a] < balance[a] => signer' = a
<1>1. IInv /\ [Next]_vars => [A]_vars
  <2> SUFFICES ASSUME IInv, Next
               PROVE  A
    OBVIOUS
  <2>1. /\ balance \in [Holders -> Nat]
        /\ Accounts \subseteq Holders
        /\ Contract \notin Accounts
    BY AddressesAssumption DEF IInv, TypeOK, Holders
  <2>2. ASSUME NEW s \in Accounts, Debits(s), signer' = s
        PROVE  A
    BY <2>1, <2>2 DEF Debits
  <2>3. ASSUME NEW n \in Deposits, Distribute(n)
        PROVE  A
    BY <2>1, <2>3, DistributeDebits DEF Debits
  <2>4. ASSUME NEW s \in Accounts, NEW d \in Domains, Pay(s, d)
        PROVE  A
    BY <2>2, <2>4, PayDebits DEF Pay
  <2>5. ASSUME NEW s \in Accounts, NEW d \in Domains, AdapterPay(s, d)
        PROVE  A
    BY <2>2, <2>5, AdapterDebits DEF AdapterPay
  <2>6. ASSUME NEW n \in Deposits, NEW s \in Accounts, NEW d \in Domains, NEW amount \in Amounts,
               Deposit(n, s, d, amount)
        PROVE  A
    BY <2>2, <2>6, DepositDebits DEF Deposit
  <2>7. CASE UNCHANGED balance
    BY <2>1, <2>7
  <2>8. QED
    BY <2>3, <2>4, <2>5, <2>6, <2>7
       DEF Next, Initialize, Register, RegisterByKeeper, SetEnabled, Approve
<1>2. QED
  BY <1>1, Initial, Step, PTL DEF Spec, DebitsAreSigned

-----------------------------------------------------------------------------
(* Sums.  The library's theorems on induction take an operator; what they  *)
(* say of a set is derived from the least element of a well-founded        *)
(* relation, and the recursion of SumFunction from that.                   *)

LEMMA SetOfAllNaturals ==
  ASSUME NEW T \in SUBSET Nat, 0 \in T, \A n \in T : n + 1 \in T
  PROVE  T = Nat
<1> SUFFICES ASSUME Nat \ T # {}
             PROVE  FALSE
  OBVIOUS
<1> DEFINE before == OpToRel(<, Nat)
<1>1. IsWellFoundedOn(before, Nat)
  BY NatLessThanWellFounded
<1>2. \A i, j \in Nat : <<i, j>> \in before <=> i < j
  BY DEF OpToRel
<1> HIDE DEF before
<1>3. PICK m \in Nat \ T : \A n \in Nat \ T : ~ (<<n, m>> \in before)
  BY <1>1, WFMin
<1>4. m # 0 /\ m - 1 \in Nat /\ m - 1 < m
  BY <1>3
<1>5. m - 1 \in T
  BY <1>2, <1>3, <1>4
<1>6. (m - 1) + 1 \in T
  BY <1>5
<1>7. QED
  BY <1>3, <1>6

\* The recursion that SumFunction is defined by.
Chosen(s) == CHOOSE x \in s : TRUE
Sums(f, iter, sets) ==
  iter = [s \in sets |-> IF s = {} THEN 0 ELSE f[Chosen(s)] + iter[s \ {Chosen(s)}]]
TheSums(f) == CHOOSE iter : Sums(f, iter, SUBSET DOMAIN f)

LEMMA SumIsRecursive ==
  ASSUME NEW f
  PROVE  SumFunction(f) = TheSums(f)[DOMAIN f]
BY DEF SumFunction, SumFunctionOnSet, FoldFunctionOnSet, MapThenFoldSet, TheSums, Sums, Chosen

\* The subsets of S with at most n members.
UpTo(S, n) == {s \in SUBSET S : Cardinality(s) <= n}

LEMMA Smaller ==
  ASSUME NEW S, IsFiniteSet(S), NEW s \in SUBSET S
  PROVE  /\ IsFiniteSet(s) /\ Cardinality(s) \in Nat /\ Cardinality(s) <= Cardinality(S)
         /\ s # {} => Chosen(s) \in s
         /\ \A x \in s : s \ {x} \in SUBSET S /\ Cardinality(s \ {x}) = Cardinality(s) - 1
<1>1. IsFiniteSet(s) /\ Cardinality(s) <= Cardinality(S)
  BY FS_Subset
<1>2. Cardinality(s) \in Nat
  BY <1>1, FS_CardinalityType
<1>3. \A x \in s : Cardinality(s \ {x}) = Cardinality(s) - 1
  BY <1>1, FS_RemoveElement
<1>4. QED
  BY <1>1, <1>2, <1>3 DEF Chosen

\* There is a function that satisfies the recursion.
LEMMA SumsExist ==
  ASSUME NEW f, IsFiniteSet(DOMAIN f), \A x \in DOMAIN f : f[x] \in Int
  PROVE  \E iter \in [SUBSET DOMAIN f -> Int] : Sums(f, iter, SUBSET DOMAIN f)
<1> PICK S : S = DOMAIN f
  OBVIOUS
<1> DEFINE T == {n \in Nat : \E iter \in [UpTo(S, n) -> Int] : Sums(f, iter, UpTo(S, n))}
<1>1. 0 \in T
  <2> DEFINE iter == [s \in UpTo(S, 0) |-> 0]
  <2>1. \A s \in UpTo(S, 0) : s = {}
    <3> TAKE s \in UpTo(S, 0)
    <3>1. IsFiniteSet(s) /\ Cardinality(s) = 0
      BY Smaller DEF UpTo
    <3>2. QED
      BY <3>1, FS_EmptySet
  <2>2. Sums(f, iter, UpTo(S, 0)) /\ iter \in [UpTo(S, 0) -> Int]
    BY <2>1 DEF Sums
  <2> HIDE DEF iter
  <2>3. QED
    BY <2>2
<1>2. ASSUME NEW n \in T
      PROVE  n + 1 \in T
  <2>1. PICK old \in [UpTo(S, n) -> Int] : Sums(f, old, UpTo(S, n))
    OBVIOUS
  <2> DEFINE sum(s, it) == IF s = {} THEN 0 ELSE f[Chosen(s)] + it[s \ {Chosen(s)}]
             new == [s \in UpTo(S, n + 1) |-> sum(s, old)]
  <2>2. \A s \in UpTo(S, n + 1) : s = {} \/ (Chosen(s) \in S /\ s \ {Chosen(s)} \in UpTo(S, n))
    <3> TAKE s \in UpTo(S, n + 1)
    <3>1. s # {} => Chosen(s) \in s /\ s \ {Chosen(s)} \in SUBSET S
                    /\ Cardinality(s \ {Chosen(s)}) = Cardinality(s) - 1
      BY Smaller DEF UpTo
    <3>2. Cardinality(s) \in Nat /\ Cardinality(s) <= n + 1
      BY Smaller DEF UpTo
    <3>3. QED
      BY <3>1, <3>2 DEF UpTo
  <2>3. UpTo(S, n) \subseteq UpTo(S, n + 1)
    BY Smaller DEF UpTo
  <2>4. \A s \in UpTo(S, n + 1) : sum(s, old) \in Int
    BY <2>1, <2>2
  <2>5. \A s \in UpTo(S, n) : old[s] = sum(s, old)
    BY <2>1 DEF Sums
  <2>6. \A s \in UpTo(S, n) : new[s] = old[s]
    BY <2>3, <2>5
  <2>7. \A s \in UpTo(S, n + 1) : sum(s, new) = sum(s, old)
    <3> HIDE DEF new
    <3>1. QED
      BY <2>2, <2>6
  <2>8. new \in [UpTo(S, n + 1) -> Int]
    BY <2>4
  <2>9. new = [s \in UpTo(S, n + 1) |-> sum(s, new)]
    <3>1. \A s \in UpTo(S, n + 1) : new[s] = sum(s, old)
      OBVIOUS
    <3>2. \A s \in UpTo(S, n + 1) : new[s] = sum(s, new)
      BY <2>7, <3>1
    <3>3. \E g : g = new /\ g \in [UpTo(S, n + 1) -> Int] /\ \A s \in UpTo(S, n + 1) : g[s] = sum(s, new)
      BY <2>8, <3>2
    <3> HIDE DEF new
    <3>4. QED
      BY <3>3
  <2>10. Sums(f, new, UpTo(S, n + 1))
    BY <2>9 DEF Sums
  <2> HIDE DEF new
  <2>11. QED
    BY <2>8, <2>10
<1> HIDE DEF T
<1>3. T \in SUBSET Nat
  BY DEF T
<1>4. T = Nat
  BY <1>1, <1>2, <1>3, SetOfAllNaturals
<1>5. Cardinality(S) \in T
  BY <1>4, FS_CardinalityType
<1>6. UpTo(S, Cardinality(S)) = SUBSET S
  BY Smaller DEF UpTo
<1>7. QED
  BY <1>5, <1>6 DEF T

LEMMA TheSumsAre ==
  ASSUME NEW f, IsFiniteSet(DOMAIN f), \A x \in DOMAIN f : f[x] \in Int
  PROVE  \A s \in SUBSET DOMAIN f :
           TheSums(f)[s] = IF s = {} THEN 0 ELSE f[Chosen(s)] + TheSums(f)[s \ {Chosen(s)}]
<1> PICK iter : iter = TheSums(f)
  OBVIOUS
<1>1. Sums(f, iter, SUBSET DOMAIN f)
  BY SumsExist DEF TheSums
<1>2. QED
  BY <1>1 DEF Sums

\* What holds of a set when it holds of it without any one of its members, holds of
\* every subset of a finite set.
LEMMA SetsByMembers ==
  ASSUME NEW S, IsFiniteSet(S), NEW P \in SUBSET SUBSET S,
         \A s \in SUBSET S : (\A x \in s : s \ {x} \in P) => s \in P
  PROVE  P = SUBSET S
<1> DEFINE T == {n \in Nat : UpTo(S, n) \subseteq P}
<1>1. 0 \in T
  <2>1. \A s \in UpTo(S, 0) : s = {}
    <3> TAKE s \in UpTo(S, 0)
    <3>1. IsFiniteSet(s) /\ Cardinality(s) = 0
      BY Smaller DEF UpTo
    <3>2. QED
      BY <3>1, FS_EmptySet
  <2>2. {} \in P
    OBVIOUS
  <2>3. QED
    BY <2>1, <2>2
<1>2. ASSUME NEW n \in T
      PROVE  n + 1 \in T
  <2>1. ASSUME NEW s \in UpTo(S, n + 1)
        PROVE  s \in P
    <3>1. s \in SUBSET S /\ Cardinality(s) \in Nat /\ Cardinality(s) <= n + 1
      BY Smaller DEF UpTo
    <3>2. ASSUME NEW x \in s
          PROVE  s \ {x} \in P
      <4>1. s \ {x} \in SUBSET S /\ Cardinality(s \ {x}) = Cardinality(s) - 1
        BY <3>1, Smaller
      <4>2. s \ {x} \in UpTo(S, n)
        BY <3>1, <4>1 DEF UpTo
      <4>3. QED
        BY <4>2
    <3>3. QED
      BY <3>1, <3>2
  <2>2. QED
    BY <2>1
<1> HIDE DEF T
<1>3. T \in SUBSET Nat
  BY DEF T
<1>4. T = Nat
  BY <1>1, <1>2, <1>3, SetOfAllNaturals
<1>5. Cardinality(S) \in T
  BY <1>4, FS_CardinalityType
<1>6. UpTo(S, Cardinality(S)) = SUBSET S
  BY Smaller DEF UpTo
<1>7. QED
  BY <1>5, <1>6 DEF T

\* A sum is an integer, and takes its members in any order.
LEMMA SumIsInteger ==
  ASSUME NEW f, IsFiniteSet(DOMAIN f), \A x \in DOMAIN f : f[x] \in Int
  PROVE  \A s \in SUBSET DOMAIN f : TheSums(f)[s] \in Int
<1> PICK S, sum : S = DOMAIN f /\ sum = TheSums(f)
  OBVIOUS
<1> DEFINE P == {s \in SUBSET S : sum[s] \in Int}
<1>1. \A s \in SUBSET S : sum[s] = IF s = {} THEN 0 ELSE f[Chosen(s)] + sum[s \ {Chosen(s)}]
  BY TheSumsAre
<1>2. ASSUME NEW s \in SUBSET S, \A x \in s : s \ {x} \in P
      PROVE  s \in P
  <2>1. CASE s = {}
    <3>1. sum[s] = 0
      BY <1>1, <2>1
    <3>2. QED
      BY <3>1
  <2>2. CASE s # {}
    <3> PICK y : y = Chosen(s)
      OBVIOUS
    <3>1. y \in s
      BY <2>2 DEF Chosen
    <3>2. sum[s] = f[y] + sum[s \ {y}]
      BY <1>1, <2>2
    <3>3. f[y] \in Int /\ sum[s \ {y}] \in Int
      BY <1>2, <3>1
    <3>4. QED
      BY <3>2, <3>3
  <2>3. QED
    BY <2>1, <2>2
<1> HIDE DEF P
<1>3. P \in SUBSET SUBSET S
  BY DEF P
<1>4. P = SUBSET S
  BY <1>2, <1>3, SetsByMembers
<1>5. QED
  BY <1>4 DEF P

LEMMA AnyOrder ==
  ASSUME NEW f, IsFiniteSet(DOMAIN f), \A x \in DOMAIN f : f[x] \in Int
  PROVE  \A s \in SUBSET DOMAIN f : \A x \in s : TheSums(f)[s] = f[x] + TheSums(f)[s \ {x}]
<1> PICK S, sum : S = DOMAIN f /\ sum = TheSums(f)
  OBVIOUS
<1> DEFINE P == {s \in SUBSET S : \A x \in s : sum[s] = f[x] + sum[s \ {x}]}
<1>1. \A s \in SUBSET S : sum[s] = IF s = {} THEN 0 ELSE f[Chosen(s)] + sum[s \ {Chosen(s)}]
  BY TheSumsAre
<1>2. \A s \in SUBSET S : sum[s] \in Int
  BY SumIsInteger
<1>3. ASSUME NEW s \in SUBSET S, \A x \in s : s \ {x} \in P
      PROVE  s \in P
  <2> SUFFICES ASSUME NEW x \in s
               PROVE  sum[s] = f[x] + sum[s \ {x}]
    OBVIOUS
  <2> PICK y, r : y = Chosen(s) /\ r = s \ {x, y}
    OBVIOUS
  <2>1. y \in s /\ r \in SUBSET S
    BY DEF Chosen
  <2>2. sum[s] = f[y] + sum[s \ {y}]
    BY <1>1
  <2>3. CASE x # y
    <3>1. (s \ {y}) \ {x} = r /\ (s \ {x}) \ {y} = r /\ x \in s \ {y} /\ y \in s \ {x}
      BY <2>1, <2>3
    <3>2. s \ {y} \in P /\ s \ {x} \in P
      BY <1>3, <2>1
    <3>3. sum[s \ {y}] = f[x] + sum[r]
      BY <3>1, <3>2
    <3>4. sum[s \ {x}] = f[y] + sum[r]
      BY <3>1, <3>2
    <3>5. f[x] \in Int /\ f[y] \in Int /\ sum[r] \in Int
      BY <1>2, <2>1
    <3>6. QED
      BY <2>2, <3>3, <3>4, <3>5
  <2>4. QED
    BY <2>2, <2>3
<1> HIDE DEF P
<1>4. P \in SUBSET SUBSET S
  BY DEF P
<1>5. P = SUBSET S
  BY <1>3, <1>4, SetsByMembers
<1>6. QED
  BY <1>5 DEF P

\* The sum of a set depends on what its members count for only.
LEMMA SameSums ==
  ASSUME NEW f, IsFiniteSet(DOMAIN f), \A x \in DOMAIN f : f[x] \in Int,
         NEW g, IsFiniteSet(DOMAIN g), \A x \in DOMAIN g : g[x] \in Int,
         NEW S, S \subseteq DOMAIN f, S \subseteq DOMAIN g, \A x \in S : f[x] = g[x]
  PROVE  TheSums(f)[S] = TheSums(g)[S]
<1> DEFINE P == {s \in SUBSET S : TheSums(f)[s] = TheSums(g)[s]}
<1>1. IsFiniteSet(S)
  BY FS_Subset
<1>2. ASSUME NEW s \in SUBSET S, \A x \in s : s \ {x} \in P
      PROVE  s \in P
  <2>1. s \in SUBSET DOMAIN f /\ s \in SUBSET DOMAIN g
    OBVIOUS
  <2>2. CASE s = {}
    <3>1. TheSums(f)[s] = 0 /\ TheSums(g)[s] = 0
      BY <2>1, <2>2, TheSumsAre
    <3>2. QED
      BY <3>1
  <2>3. CASE s # {}
    <3>1. PICK x : x \in s
      BY <2>3
    <3>2. TheSums(f)[s] = f[x] + TheSums(f)[s \ {x}]
      BY <2>1, <3>1, AnyOrder
    <3>3. TheSums(g)[s] = g[x] + TheSums(g)[s \ {x}]
      BY <2>1, <3>1, AnyOrder
    <3>4. TheSums(f)[s \ {x}] = TheSums(g)[s \ {x}] /\ f[x] = g[x]
      BY <1>2, <3>1
    <3>5. QED
      BY <3>2, <3>3, <3>4
  <2>4. QED
    BY <2>2, <2>3
<1> HIDE DEF P
<1>3. P \in SUBSET SUBSET S
  BY DEF P
<1>4. P = SUBSET S
  BY <1>1, <1>2, <1>3, SetsByMembers
<1>5. QED
  BY <1>4 DEF P

\* What a member more, or less, makes of the sum of a function.
LEMMA SumWithout ==
  ASSUME NEW f, IsFiniteSet(DOMAIN f), \A x \in DOMAIN f : f[x] \in Int,
         NEW x \in DOMAIN f, NEW g, g = [y \in DOMAIN f \ {x} |-> f[y]]
  PROVE  SumFunction(f) = f[x] + SumFunction(g) /\ SumFunction(g) \in Int
<1> PICK S, r : S = DOMAIN f /\ r = DOMAIN f \ {x}
  OBVIOUS
<1>1. DOMAIN g = r /\ IsFiniteSet(r) /\ (\A y \in r : g[y] = f[y])
  BY FS_Subset
<1>2. TheSums(f)[S] = f[x] + TheSums(f)[r]
  BY AnyOrder
<1>3. TheSums(f)[r] = TheSums(g)[r]
  BY <1>1, SameSums
<1>4. TheSums(g)[r] \in Int
  BY <1>1, SumIsInteger
<1>5. QED
  BY <1>1, <1>2, <1>3, <1>4, SumIsRecursive

LEMMA SumOfNothing ==
  ASSUME NEW f, DOMAIN f = {}
  PROVE  SumFunction(f) = 0
<1>1. IsFiniteSet(DOMAIN f)
  BY FS_EmptySet
<1>2. TheSums(f)[{}] = 0
  BY <1>1, TheSumsAre
<1>3. QED
  BY <1>2, SumIsRecursive

-----------------------------------------------------------------------------
(* The pool. *)

PoolInv == IInv /\ IsFiniteSet(Open) /\ PoolIsDeposits

\* A move between others leaves the pool.
LEMMA MoveElsewhere ==
  ASSUME NEW b, Contract \in DOMAIN b, NEW from, NEW to, NEW n, from # Contract, to # Contract
  PROVE  /\ Contract \in DOMAIN Move(b, from, to, n)
         /\ Move(b, from, to, n)[Contract] = b[Contract]
BY DEF Move

\* A call that moves nothing in or out of the contract, and takes no deposit.
LEMMA PoolStays ==
  ASSUME PoolInv, IInv', UNCHANGED waiting, balance'[Contract] = balance[Contract]
  PROVE  PoolInv'
<1>1. Open' = Open /\ Pooled' = Pooled
  BY DEF Open, Pooled
<1>2. QED
  BY <1>1 DEF PoolInv, PoolIsDeposits

LEMMA PooledType ==
  ASSUME TypeOK
  PROVE  Open \subseteq Deposits /\ DOMAIN Pooled = Open
         /\ \A n \in Open : waiting[n].amount \in Nat /\ Pooled[n] = waiting[n].amount
BY DEF TypeOK, Open, Pooled

\* What is deposited is waiting, and in the pool.
LEMMA DepositPools ==
  ASSUME PoolInv, IInv', NEW n \in Deposits, NEW a \in Accounts, NEW d \in Domains, NEW amount \in Amounts,
         Deposit(n, a, d, amount)
  PROVE  PoolInv'
<1>1. TypeOK /\ TypeOK' /\ IsFiniteSet(Open) /\ balance[Contract] = SumFunction(Pooled)
  BY DEF PoolInv, IInv, PoolIsDeposits
<1>2. /\ waiting[n] = None /\ waiting' = [waiting EXCEPT ![n] = [domain |-> d, amount |-> amount]]
      /\ balance' = Move(balance, a, Contract, amount) /\ amount \in Nat
  BY AmountsAssumption DEF Deposit
<1>3. [domain |-> d, amount |-> amount] # None /\ waiting'[n].amount = amount
  BY <1>1, <1>2, NoneAssumption DEF TypeOK
<1>4. n \notin Open /\ Open' = Open \cup {n} /\ \A m \in Open : waiting'[m] = waiting[m]
  BY <1>1, <1>2, <1>3 DEF Open, TypeOK
<1>5. IsFiniteSet(Open')
  BY <1>1, <1>4, FS_AddElement
<1>6. /\ DOMAIN Pooled' = Open' /\ n \in Open' /\ Pooled'[n] = amount
      /\ \A m \in Open' : Pooled'[m] \in Int
  BY <1>1, <1>3, <1>4, PooledType DEF Pooled, Open, TypeOK
<1>7. Pooled = [m \in DOMAIN Pooled' \ {n} |-> Pooled'[m]]
  BY <1>4, <1>6 DEF Pooled
<1>8. SumFunction(Pooled') = amount + SumFunction(Pooled) /\ SumFunction(Pooled) \in Int
  BY <1>5, <1>6, <1>7, SumWithout
<1>9. balance'[Contract] = balance[Contract] + amount
  BY <1>1, <1>2, AddressesAssumption DEF Move, TypeOK, Holders
<1>10. balance'[Contract] = SumFunction(Pooled')
  BY <1>1, <1>2, <1>8, <1>9
<1>11. QED
  BY <1>5, <1>10 DEF PoolInv, PoolIsDeposits

\* What is distributed no longer waits, and leaves the pool.
LEMMA DistributeDraws ==
  ASSUME PoolInv, IInv', NEW n \in Deposits, Distribute(n)
  PROVE  PoolInv'
<1>1. TypeOK /\ TypeOK' /\ IInv /\ IsFiniteSet(Open) /\ balance[Contract] = SumFunction(Pooled)
  BY DEF PoolInv, IInv, PoolIsDeposits
<1> DEFINE data == creators[waiting[n].domain]
           amount == waiting[n].amount
           first == Move(balance, Contract, data.address, amount - data.platform_fee)
<1>2. /\ waiting[n] # None /\ Registered(waiting[n].domain) /\ waiting' = [waiting EXCEPT ![n] = None]
      /\ balance' = Move(first, Contract, Platform, data.platform_fee)
  BY DEF Distribute, MoveTwice
<1>3. waiting[n].domain \in Domains /\ amount \in Nat
  BY <1>1, <1>2 DEF TypeOK
<1>4. data.address \in Accounts /\ data.platform_fee \in Int
  BY <1>1, <1>2, <1>3, RecordType
<1>5. Contract # data.address /\ Contract # Platform /\ Contract \in DOMAIN balance /\ balance[Contract] \in Int
  BY <1>1, <1>4, AddressesAssumption DEF TypeOK, Holders
<1> HIDE DEF data, amount
<1>6. first[Contract] = balance[Contract] - (amount - data.platform_fee) /\ Contract \in DOMAIN first
  BY <1>5 DEF Move
<1> HIDE DEF first
<1>7. balance'[Contract] = first[Contract] - data.platform_fee
  BY <1>2, <1>5, <1>6 DEF Move
<1>8. balance'[Contract] = balance[Contract] - amount
  BY <1>3, <1>4, <1>5, <1>6, <1>7
<1>9. n \in Open /\ Open' = Open \ {n} /\ \A m \in Open' : waiting'[m] = waiting[m]
  BY <1>1, <1>2 DEF Open, TypeOK
<1>10. IsFiniteSet(Open')
  BY <1>1, <1>9, FS_Subset
<1>11. DOMAIN Pooled = Open /\ Pooled[n] = amount /\ \A m \in Open : Pooled[m] \in Int
  BY <1>1, <1>9, PooledType DEF amount
<1>12. Pooled' = [m \in DOMAIN Pooled \ {n} |-> Pooled[m]]
  BY <1>9, <1>11 DEF Pooled
<1>13. SumFunction(Pooled) = amount + SumFunction(Pooled') /\ SumFunction(Pooled') \in Int
  BY <1>1, <1>9, <1>11, <1>12, SumWithout
<1>14. balance'[Contract] = SumFunction(Pooled')
  BY <1>1, <1>3, <1>8, <1>13
<1>15. QED
  BY <1>10, <1>14 DEF PoolInv, PoolIsDeposits

\* Who pays directly, with or without the adapter, passes by the contract.
LEMMA PayPassesBy ==
  ASSUME IInv, NEW a \in Accounts, NEW d \in Domains, Pay(a, d) \/ ThreeWaySplit(a, d)
  PROVE  balance'[Contract] = balance[Contract] /\ UNCHANGED waiting
<1> DEFINE data == creators[d]
<1>1. Registered(d) /\ UNCHANGED waiting
  BY DEF Pay, ThreeWaySplit
<1>2. data.address \in Accounts
  BY <1>1, RecordType
<1>3. a # Contract /\ data.address # Contract /\ Platform # Contract /\ Treasury # Contract
      /\ Contract \in DOMAIN balance
  BY <1>2, AddressesAssumption DEF IInv, TypeOK, Holders
<1>4. CASE Pay(a, d)
  <2>1. balance' = Move(Move(balance, a, data.address, data.price - data.platform_fee), a, Platform, data.platform_fee)
    BY <1>4 DEF Pay, MoveTwice
  <2> HIDE DEF data
  <2>2. QED
    BY <1>1, <1>3, <2>1, MoveElsewhere
<1>5. CASE ThreeWaySplit(a, d)
  <2> DEFINE first == Move(balance, a, data.address, data.price - data.platform_fee)
             second == Move(first, a, Platform, data.platform_fee)
  <2>1. balance' = Move(second, a, Treasury, FeeAtomic)
    BY <1>5 DEF ThreeWaySplit
  <2> HIDE DEF data
  <2>2. first[Contract] = balance[Contract] /\ Contract \in DOMAIN first
    BY <1>3, MoveElsewhere
  <2> HIDE DEF first
  <2>3. second[Contract] = first[Contract] /\ Contract \in DOMAIN second
    BY <1>3, <2>2, MoveElsewhere
  <2> HIDE DEF second
  <2>4. QED
    BY <1>1, <1>3, <2>1, <2>2, <2>3, MoveElsewhere
<1>6. QED
  BY <1>4, <1>5

\* The contract holds what waits to be distributed, and nothing else, whatever is paid
\* into it, through it, or past it (paywall_core, distribute; pay_adapter, pay).
THEOREM PoolBacked == Spec => []PoolIsDeposits
<1>1. Init => PoolInv
  <2> SUFFICES ASSUME Init
               PROVE  PoolInv
    OBVIOUS
  <2>1. Open = {} /\ DOMAIN Pooled = {}
    BY DEF Init, Open, Pooled
  <2>2. balance[Contract] = 0
    BY AddressesAssumption DEF Init, Holders
  <2>3. IsFiniteSet(Open) /\ SumFunction(Pooled) = 0
    BY <2>1, SumOfNothing, FS_EmptySet
  <2>4. QED
    BY <2>2, <2>3, Initial DEF PoolInv, PoolIsDeposits
<1>2. PoolInv /\ [Next]_vars => PoolInv'
  <2> SUFFICES ASSUME PoolInv, [Next]_vars
               PROVE  PoolInv'
    OBVIOUS
  <2>1. IInv /\ IInv'
    BY Step DEF PoolInv
  <2>2. CASE UNCHANGED <<balance, waiting>>
    BY <2>1, <2>2, PoolStays
  <2>3. ASSUME NEW a \in Accounts, NEW d \in Domains, Pay(a, d) \/ AdapterPay(a, d)
        PROVE  PoolInv'
    BY <2>1, <2>3, PayPassesBy, PoolStays DEF AdapterPay
  <2>4. ASSUME NEW n \in Deposits, NEW a \in Accounts, NEW d \in Domains, NEW amount \in Amounts,
               Deposit(n, a, d, amount)
        PROVE  PoolInv'
    BY <2>1, <2>4, DepositPools
  <2>5. ASSUME NEW n \in Deposits, Distribute(n)
        PROVE  PoolInv'
    BY <2>1, <2>5, DistributeDraws
  <2>6. QED
    BY <2>2, <2>3, <2>4, <2>5
       DEF Next, Initialize, Register, RegisterByKeeper, SetEnabled, Approve, vars
<1>3. PoolInv => PoolIsDeposits
  BY DEF PoolInv
<1>4. QED
  BY <1>1, <1>2, <1>3, PTL DEF Spec

=============================================================================
