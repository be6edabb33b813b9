-------------------------- MODULE ConverterProofs --------------------------
(* Proofs about Converter, for any accounts, shares, fees and amounts. *)
EXTENDS Converter, SumsAndArrays

-----------------------------------------------------------------------------
(* The payees, their shares and the total. *)

SplitterTypes ==
    /\ payees \in Seq(Account)
    /\ shares \in [Account -> Nat]
    /\ totalShares \in Nat

SplitterInv == SplitterTypes /\ PayeesMatchShares

LEMMA InitSplits == ASSUME ConverterAssumption, Init PROVE SplitterInv
  <1>1. PICK account \in Account, share \in {n \in Share : n > 0} :
            /\ payees = <<account>>
            /\ shares = [a \in Account |-> IF a = account THEN share ELSE 0]
            /\ totalShares = share
    BY DEF Init
  <1>2. share \in Nat /\ share > 0 /\ IsFiniteSet(Account)
    BY DEF ConverterAssumption
  <1>3. SplitterTypes
    BY <1>1, <1>2 DEF SplitterTypes
  <1>4. IsInjective(payees)
    BY <1>1 DEF IsInjective
  <1>5. {payees[i] : i \in DOMAIN payees} = {a \in Account : shares[a] > 0}
    <2>1. DOMAIN payees = {1} /\ payees[1] = account
      BY <1>1
    <2>2. {a \in Account : shares[a] > 0} = {account}
      BY <1>1, <1>2
    <2>3. QED
      BY <2>1, <2>2
  <1>6. totalShares = SumFunction(shares)
    <2>1. /\ \A a \in Account : shares[a] \in Int
          /\ \A a \in Account \ {account} : shares[a] = 0
          /\ shares[account] = share
      BY <1>1, <1>2
    <2>2. IsFiniteSet(Account \ {account})
      BY <1>2, FS_Subset
    <2>3. SumFunctionOnSet(shares, Account \ {account}) = 0
      BY <2>1, <2>2, SumOfZeros
    <2>4. SumFunctionOnSet(shares, Account)
            = shares[account] + SumFunctionOnSet(shares, Account \ {account})
      BY <1>2, <2>1, SumRemove
    <2>5. DOMAIN shares = Account
      BY <1>1
    <2>6. QED
      BY <1>1, <1>2, <2>1, <2>3, <2>4, <2>5 DEF SumFunction
  <1>7. QED
    BY <1>3, <1>4, <1>5, <1>6 DEF SplitterInv, PayeesMatchShares

(* One share is replaced, and the total grows by the difference. *)
LEMMA TotalFollowsShare ==
    ASSUME ConverterAssumption, SplitterInv, NEW account \in Account, NEW share \in Nat,
           shares' = [shares EXCEPT ![account] = share],
           totalShares' = totalShares + (share - shares[account])
    PROVE  /\ shares' \in [Account -> Nat]
           /\ totalShares' \in Nat
           /\ totalShares' = SumFunction(shares')
  <1> DEFINE after == [shares EXCEPT ![account] = share]
  <1>1. shares \in [Account -> Nat] /\ IsFiniteSet(Account)
    BY DEF SplitterInv, SplitterTypes, ConverterAssumption
  <1>2. after \in [Account -> Nat] /\ after[account] = share
    BY <1>1
  <1>3. /\ \A a \in Account : shares[a] \in Int /\ after[a] \in Int
        /\ \A a \in Account \ {account} : after[a] = shares[a]
    BY <1>1
  <1>4. DOMAIN shares = Account /\ DOMAIN after = Account
    BY <1>1
  <1>5. totalShares = SumFunctionOnSet(shares, Account)
    BY <1>4 DEF SplitterInv, PayeesMatchShares, SumFunction
  <1>6. shares' = after
    OBVIOUS
  <1> HIDE DEF after
  <1>7. SumFunctionOnSet(after, Account)
          = SumFunctionOnSet(shares, Account) + (after[account] - shares[account])
    BY <1>1, <1>3, SumUpdate
  <1>8. SumFunctionOnSet(after, Account) \in Nat
    BY <1>1, <1>2, SumInteger
  <1>9. SumFunction(after) = SumFunctionOnSet(after, Account)
    BY <1>4 DEF SumFunction
  <1>10. totalShares' = SumFunctionOnSet(after, Account)
    BY <1>2, <1>5, <1>7
  <1>11. QED
    BY <1>2, <1>6, <1>8, <1>9, <1>10

LEMMA AddingKeepsSplitter ==
    ASSUME ConverterAssumption, SplitterInv, NEW caller \in Account,
           NEW account \in Account, NEW share \in Share, addPayee(caller, account, share)
    PROVE  SplitterInv'
  <1>1. /\ payees \in Seq(Account) /\ shares \in [Account -> Nat] /\ totalShares \in Nat
        /\ share \in Nat /\ share > 0 /\ shares[account] = 0
    BY DEF SplitterInv, SplitterTypes, ConverterAssumption, addPayee
  <1>2. /\ payees' = Append(payees, account)
        /\ shares' = [shares EXCEPT ![account] = share]
        /\ totalShares' = totalShares + share
    BY DEF addPayee
  <1>3. totalShares' = totalShares + (share - shares[account])
    BY <1>1, <1>2
  <1>4. /\ shares' \in [Account -> Nat] /\ totalShares' \in Nat
        /\ totalShares' = SumFunction(shares')
    BY <1>1, <1>2, <1>3, TotalFollowsShare
  <1>5. payees' \in Seq(Account)
    BY <1>1, <1>2
  <1>6. \A i \in DOMAIN payees : payees[i] \in {a \in Account : shares[a] > 0}
    BY DEF SplitterInv, PayeesMatchShares
  <1>7. /\ DOMAIN payees' = DOMAIN payees \union {Len(payees) + 1}
        /\ Len(payees) + 1 \notin DOMAIN payees
        /\ payees'[Len(payees) + 1] = account
        /\ \A i \in DOMAIN payees : payees'[i] = payees[i]
    BY <1>1, <1>2
  <1>8. \A i \in DOMAIN payees : payees[i] # account
    BY <1>1, <1>6
  <1>9. IsInjective(payees')
    BY <1>7, <1>8 DEF SplitterInv, PayeesMatchShares, IsInjective
  <1>10. {payees'[i] : i \in DOMAIN payees'} = {a \in Account : shares'[a] > 0}
    <2>1. {payees'[i] : i \in DOMAIN payees'} = {payees[i] : i \in DOMAIN payees} \union {account}
      BY <1>7
    <2>2. {a \in Account : shares'[a] > 0} = {a \in Account : shares[a] > 0} \union {account}
      BY <1>1, <1>2
    <2>3. QED
      BY <2>1, <2>2 DEF SplitterInv, PayeesMatchShares
  <1>11. QED
    BY <1>4, <1>5, <1>9, <1>10 DEF SplitterInv, SplitterTypes, PayeesMatchShares

(* The last payee moves to the place of the one removed. *)
LEMMA RemovingKeepsSplitter ==
    ASSUME ConverterAssumption, SplitterInv, NEW caller \in Account,
           NEW account \in Account, NEW index \in DOMAIN payees,
           removePayee(caller, account, index)
    PROVE  SplitterInv'
  <1> DEFINE n == Len(payees)
  <1>1. /\ payees \in Seq(Account) /\ shares \in [Account -> Nat] /\ totalShares \in Nat
        /\ index \in 1..n /\ account = payees[index]
        /\ IsInjective(payees)
        /\ {payees[i] : i \in DOMAIN payees} = {a \in Account : shares[a] > 0}
    BY DEF SplitterInv, SplitterTypes, PayeesMatchShares, removePayee
  <1>2. /\ payees' = Removed(payees, index)
        /\ shares' = [shares EXCEPT ![account] = 0]
        /\ totalShares' = totalShares - shares[account]
    BY DEF removePayee, WithoutPayee, TotalSharesWithout, Removed
  <1>3. totalShares' = totalShares + (0 - shares[account])
    BY <1>1, <1>2
  <1>4. /\ shares' \in [Account -> Nat] /\ totalShares' \in Nat
        /\ totalShares' = SumFunction(shares')
    BY <1>1, <1>2, <1>3, TotalFollowsShare
  <1>5. /\ payees' \in Seq(Account) /\ n \in Nat
        /\ DOMAIN payees = 1..n /\ DOMAIN payees' = 1..(n - 1)
        /\ \A j \in 1..(n - 1) : payees'[j] = IF j = index THEN payees[n] ELSE payees[j]
    <2>1. /\ payees' \in Seq(Account) /\ Len(payees') = n - 1
          /\ \A j \in 1..(n - 1) : payees'[j] = IF j = index THEN payees[n] ELSE payees[j]
      <3>1. payees \in Seq(Account) /\ index \in 1..Len(payees)
        BY <1>1
      <3> HIDE DEF n
      <3>2. /\ Removed(payees, index) \in Seq(Account)
            /\ Len(Removed(payees, index)) = Len(payees) - 1
            /\ \A j \in 1..(Len(payees) - 1) :
                  Removed(payees, index)[j] = IF j = index THEN payees[Len(payees)] ELSE payees[j]
        BY <3>1, RemovedIs
      <3>3. QED
        BY <1>2, <3>2 DEF n
    <2>2. QED
      BY <1>1, <2>1
  <1> HIDE DEF n
  <1>6. \A i, j \in 1..n : payees[i] = payees[j] => i = j
    BY <1>1, <1>5 DEF IsInjective
  <1>7. IsInjective(payees')
    <2>1. ASSUME NEW i \in 1..(n - 1), NEW j \in 1..(n - 1), payees'[i] = payees'[j]
          PROVE  i = j
      <3>1. i \in 1..n /\ j \in 1..n /\ n \in 1..n /\ i # n /\ j # n
        BY <1>5
      <3>2. QED
        BY <1>5, <1>6, <2>1, <3>1
    <2>2. QED
      BY <1>5, <2>1 DEF IsInjective
  <1>8. {payees'[i] : i \in DOMAIN payees'} = {a \in Account : shares'[a] > 0}
    <2>1. {a \in Account : shares'[a] > 0} = {a \in Account : shares[a] > 0} \ {account}
      BY <1>1, <1>2
    <2>2. ASSUME NEW i \in 1..(n - 1)
          PROVE  payees'[i] \in {payees[j] : j \in 1..n} \ {account}
      <3>1. i \in 1..n /\ n \in 1..n /\ i # n
        BY <1>5
      <3>2. CASE i = index
        BY <1>1, <1>5, <1>6, <3>1, <3>2
      <3>3. CASE i # index
        BY <1>1, <1>5, <1>6, <3>1, <3>3
      <3>4. QED
        BY <3>2, <3>3
    <2>3. ASSUME NEW j \in 1..n, payees[j] # account
          PROVE  \E i \in 1..(n - 1) : payees'[i] = payees[j]
      <3>1. CASE j = n
        <4>1. index \in 1..(n - 1)
          BY <1>1, <1>5, <2>3, <3>1 DEF n
        <4>2. QED
          BY <1>5, <3>1, <4>1
      <3>2. CASE j # n
        <4>1. j \in 1..(n - 1) /\ j # index
          BY <1>1, <1>5, <2>3, <3>2
        <4>2. QED
          BY <1>5, <4>1
      <3>3. QED
        BY <3>1, <3>2
    <2>4. {payees'[i] : i \in 1..(n - 1)} = {payees[j] : j \in 1..n} \ {account}
      BY <2>2, <2>3
    <2>5. QED
      BY <1>1, <1>5, <2>1, <2>4
  <1>9. QED
    BY <1>4, <1>5, <1>7, <1>8 DEF SplitterInv, SplitterTypes, PayeesMatchShares

LEMMA StepKeepsSplitter ==
    ASSUME ConverterAssumption, SplitterInv, [Next]_vars PROVE SplitterInv'
  <1>1. ASSUME NEW caller \in Account, NEW account \in Account, NEW n \in Share,
               addPayee(caller, account, n)
        PROVE  SplitterInv'
    BY <1>1, AddingKeepsSplitter
  <1>2. ASSUME NEW caller \in Account, NEW account \in Account, NEW i \in DOMAIN payees,
               removePayee(caller, account, i)
        PROVE  SplitterInv'
    BY <1>2, RemovingKeepsSplitter
  <1>3. ASSUME UNCHANGED splitter PROVE SplitterInv'
    BY <1>3 DEF splitter, SplitterInv, SplitterTypes, PayeesMatchShares
  <1>4. ASSUME NEW caller \in Account,
               \/ \E t \in Token \union {NullAddress} : setWETH(caller, t) \/ setSwapToToken(caller, t)
               \/ \E fee \in TriggerFee : setTriggerFee(caller, fee)
               \/ \E t \in Token, path \in Path : setTokenPath(caller, t, path)
               \/ \E t \in Token, minimum, out \in Amount :
                     convertAndTransfer(caller, t, minimum, out)
               \/ \E dest \in Account, tokens \in SUBSET Token : drainTo(caller, dest, tokens)
        PROVE  UNCHANGED splitter
    BY <1>4 DEF setWETH, setSwapToToken, setTriggerFee, setTokenPath, convertAndTransfer, drainTo
  <1>5. ASSUME NEW t \in Token, NEW n \in Amount, Income(t, n) PROVE UNCHANGED splitter
    BY <1>5 DEF Income
  <1>6. CASE UNCHANGED vars
    BY <1>3, <1>6 DEF vars
  <1>7. QED
    BY <1>1, <1>2, <1>3, <1>4, <1>5, <1>6 DEF Next

(* After any additions and removals of payees, every account with shares   *)
(* is listed once and no other is, and the shares add up to the total.     *)
THEOREM SharesAddUp == Spec => []PayeesMatchShares
  <1>1. Init => SplitterInv
    BY ConverterAssumption, InitSplits
  <1>2. SplitterInv /\ [Next]_vars => SplitterInv'
    BY ConverterAssumption, StepKeepsSplitter
  <1>3. SplitterInv => PayeesMatchShares
    BY DEF SplitterInv
  <1>4. QED
    BY <1>1, <1>2, <1>3, PTL DEF Spec

-----------------------------------------------------------------------------
(***************************************************************************)
(* What a conversion leaves behind.  Of the amount r that is left after    *)
(* the trigger's fee every payee gets (r * its shares) \div the total,     *)
(* which loses less than one unit for each of them.                        *)
(***************************************************************************)

(* The arithmetic, for any shares that add up to a total. *)
LEMMA RoundingLoss ==
    ASSUME NEW S, IsFiniteSet(S), NEW w \in [S -> Nat], NEW total \in Nat, total > 0,
           total = SumFunctionOnSet(w, S), NEW r \in Nat, NEW got,
           \A a \in S : got[a] = (r * w[a]) \div total,
           NEW T, T = {a \in S : w[a] > 0}
    PROVE  /\ SumFunctionOnSet(got, S) \in Nat
           /\ r - SumFunctionOnSet(got, S) < Cardinality(T)
  <1> DEFINE one == [a \in S |-> IF a \in T THEN 1 ELSE 0]
             ones == [a \in S |-> (total - 1) * one[a]]
             due == [a \in S |-> r * w[a]]
             given == [a \in S |-> total * got[a]]
             bound == [a \in S |-> given[a] + ones[a]]
             slack == [a \in S |-> bound[a] - due[a]]
  <1>1. ASSUME NEW a \in S
        PROVE  /\ got[a] \in Nat /\ given[a] \in Nat /\ ones[a] \in Nat /\ due[a] \in Nat
               /\ bound[a] \in Int /\ slack[a] \in Nat
    <2>1. w[a] \in Nat /\ r * w[a] \in Nat
      OBVIOUS
    <2>2. ASSUME NEW x \in Nat
          PROVE  x \div total \in Nat /\ total * (x \div total) <= x
                 /\ x < total * (x \div total) + total
      OBVIOUS
    <2>3. /\ got[a] \in Nat /\ total * got[a] <= r * w[a]
          /\ r * w[a] <= total * got[a] + (total - 1)
      <3> DEFINE x == r * w[a]
      <3>1. x \in Nat /\ got[a] = x \div total
        BY <2>1
      <3> HIDE DEF x
      <3>2. got[a] \in Nat /\ total * got[a] <= x /\ x < total * got[a] + total
        BY <2>2, <3>1
      <3>3. QED
        BY <3>1, <3>2 DEF x
    <2>4. total * got[a] \in Nat
      BY <2>3
    <2>5. CASE w[a] > 0
      <3>1. one[a] = 1
        BY <2>5
      <3>2. ones[a] = total - 1
        BY <3>1
      <3>3. QED
        BY <2>1, <2>3, <2>4, <3>2
    <2>6. CASE w[a] = 0
      <3>1. one[a] = 0
        BY <2>6
      <3>2. ones[a] = 0
        BY <3>1
      <3>3. r * w[a] = 0
        BY <2>6
      <3>4. bound[a] = given[a] + 0 /\ slack[a] = bound[a] - 0 /\ given[a] = total * got[a]
        BY <3>2, <3>3
      <3>5. due[a] = 0
        BY <3>3
      <3> HIDE DEF bound, slack, given, due, ones
      <3>6. given[a] \in Nat /\ bound[a] \in Nat /\ slack[a] \in Nat
        BY <2>4, <3>4
      <3>7. QED
        BY <2>3, <3>2, <3>5, <3>6
    <2>7. QED
      BY <2>1, <2>5, <2>6
  <1>2. /\ \A a \in S : one[a] = IF a \in T THEN 1 ELSE 0
        /\ \A a \in S : one[a] \in Int /\ ones[a] = (total - 1) * one[a]
        /\ \A a \in S : w[a] \in Int /\ due[a] = r * w[a]
        /\ \A a \in S : got[a] \in Int /\ given[a] = total * got[a]
        /\ \A a \in S : given[a] \in Int /\ ones[a] \in Int /\ bound[a] = given[a] + ones[a]
        /\ \A a \in S : slack[a] \in Int /\ due[a] \in Int /\ bound[a] = slack[a] + due[a]
    <2>1. \A a \in S : bound[a] = slack[a] + due[a]
      <3>1. ASSUME NEW a \in S PROVE bound[a] = slack[a] + due[a]
        <4>1. slack[a] = bound[a] - due[a]
          OBVIOUS
        <4> HIDE DEF slack, bound, due
        <4>2. QED
          BY <1>1, <4>1
      <3>2. QED
        BY <3>1
    <2>2. QED
      BY <1>1, <2>1
  <1>3. T \in SUBSET S /\ total - 1 \in Int /\ r \in Int /\ total \in Int
    OBVIOUS
  <1> HIDE DEF one, ones, due, given, bound, slack
  <1> DEFINE P == SumFunctionOnSet(got, S)
             n == Cardinality(T)
  <1>4. P \in Nat /\ SumFunctionOnSet(slack, S) \in Nat
    BY <1>1, SumInteger
  <1>5. SumFunctionOnSet(one, S) = n
    BY <1>2, <1>3, SumCounts
  <1>6. SumFunctionOnSet(ones, S) = (total - 1) * SumFunctionOnSet(one, S)
    BY <1>2, <1>3, SumScale
  <1>7. SumFunctionOnSet(due, S) = r * total
    BY <1>2, <1>3, SumScale
  <1>8. SumFunctionOnSet(given, S) = total * P
    BY <1>2, <1>3, SumScale
  <1>9. SumFunctionOnSet(bound, S) = SumFunctionOnSet(given, S) + SumFunctionOnSet(ones, S)
    BY <1>2, SumAdd
  <1>10. SumFunctionOnSet(bound, S) = SumFunctionOnSet(slack, S) + SumFunctionOnSet(due, S)
    BY <1>2, SumAdd
  <1>11. n \in Nat /\ n > 0
    <2>1. IsFiniteSet(T)
      BY <1>3, FS_Subset
    <2>2. n \in Nat
      BY <2>1, FS_CardinalityType
    <2>3. T # {}
      <3>1. SUFFICES ASSUME \A a \in S : w[a] = 0 PROVE FALSE
        OBVIOUS
      <3>2. QED
        BY <3>1, SumOfZeros
    <2>4. n # 0
      BY <2>1, <2>3, FS_EmptySet
    <2>5. QED
      BY <2>2, <2>4
  <1> HIDE DEF P, n
  <1>12. r * total <= total * P + (total - 1) * n
    <2> DEFINE A == r * total
               B == total * P
               C == (total - 1) * n
    <2>1. A \in Int /\ B \in Int /\ C \in Int
      BY <1>4, <1>11
    <2>2. SumFunctionOnSet(bound, S) = B + C
      BY <1>5, <1>6, <1>8, <1>9
    <2>3. SumFunctionOnSet(bound, S) = SumFunctionOnSet(slack, S) + A
      BY <1>7, <1>10
    <2> HIDE DEF A, B, C
    <2>4. A <= B + C
      BY <1>4, <2>1, <2>2, <2>3
    <2>5. QED
      BY <2>4 DEF A, B, C
  <1>13. ASSUME NEW x \in Int, NEW t \in Nat, t > 0, NEW k \in Nat, k > 0, t * x <= (t - 1) * k
         PROVE  x < k
    BY <1>13
  <1>14. total * (r - P) <= (total - 1) * n
    <2>1. total * (r - P) = r * total - total * P
      BY <1>4
    <2>2. QED
      BY <1>4, <1>11, <1>12, <2>1
  <1>15. r - P < n
    BY <1>4, <1>11, <1>13, <1>14
  <1>16. QED
    BY <1>4, <1>15 DEF P, n

-----------------------------------------------------------------------------

(* Every payee is listed once, and there are as many as the list is long. *)
LEMMA PayeesAreCounted ==
    ASSUME ConverterAssumption, SplitterInv, payees # <<>>
    PROVE  /\ totalShares > 0
           /\ Cardinality({a \in Account : shares[a] > 0}) = Len(payees)
           /\ \A a \in Account : Cardinality({i \in DOMAIN payees : payees[i] = a})
                                  = IF shares[a] > 0 THEN 1 ELSE 0
  <1> DEFINE T == {a \in Account : shares[a] > 0}
  <1>1. /\ payees \in Seq(Account) /\ shares \in [Account -> Nat] /\ totalShares \in Nat
        /\ IsInjective(payees) /\ {payees[i] : i \in DOMAIN payees} = T
        /\ totalShares = SumFunction(shares) /\ IsFiniteSet(Account)
    BY DEF SplitterInv, SplitterTypes, PayeesMatchShares, ConverterAssumption
  <1>2. Len(payees) \in Nat /\ DOMAIN payees = 1..Len(payees) /\ 1 \in DOMAIN payees
    BY <1>1
  <1>3. totalShares > 0
    <2>1. payees[1] \in Account /\ shares[payees[1]] > 0
      BY <1>1, <1>2
    <2>2. DOMAIN shares = Account /\ \A a \in Account : shares[a] \in Nat
      BY <1>1
    <2>3. shares[payees[1]] <= SumFunctionOnSet(shares, Account)
      BY <1>1, <2>1, <2>2, SumBounds
    <2>4. QED
      BY <1>1, <2>1, <2>2, <2>3 DEF SumFunction
  <1>4. Cardinality(T) = Len(payees)
    <2> DEFINE n == Len(payees)
    <2>1. payees \in Bijection(1..n, T)
      <3>1. payees \in [1..n -> T]
        BY <1>1, <1>2
      <3>2. \A t \in T : \E i \in 1..n : payees[i] = t
        BY <1>1, <1>2
      <3> HIDE DEF T
      <3>3. QED
        BY <1>1, <3>1, <3>2 DEF Bijection, Injection, Surjection
    <2>2. ExistsBijection(1..n, T)
      BY <2>1 DEF ExistsBijection
    <2>3. IsFiniteSet(1..n) /\ Cardinality(1..n) = n
      BY <1>2, FS_Interval
    <2> HIDE DEF T
    <2>4. Cardinality(T) = Cardinality(1..n)
      BY <2>2, <2>3, FS_Bijection
    <2>5. QED
      BY <2>3, <2>4
  <1>5. ASSUME NEW a \in Account
        PROVE  Cardinality({i \in DOMAIN payees : payees[i] = a}) = IF shares[a] > 0 THEN 1 ELSE 0
    <2> DEFINE places == {i \in DOMAIN payees : payees[i] = a}
    <2>1. CASE shares[a] > 0
      <3>1. PICK i \in DOMAIN payees : payees[i] = a
        BY <1>1, <2>1
      <3>2. places = {i}
        BY <1>1, <3>1 DEF IsInjective
      <3>3. Cardinality({i}) = 1
        BY FS_Singleton
      <3>4. QED
        BY <2>1, <3>2, <3>3
    <2>2. CASE ~(shares[a] > 0)
      <3>1. places = {}
        BY <1>1, <2>2
      <3>2. QED
        BY <2>2, <3>1, FS_EmptySet
    <2>3. QED
      BY <2>1, <2>2
  <1>6. QED
    BY <1>3, <1>4, <1>5

(* The payments are the trigger's fee and one amount for each payee. *)
LEMMA PaymentsAddUp ==
    ASSUME ConverterAssumption, SplitterInv, payees # <<>>, triggerFee \in Nat, triggerFee <= 100,
           NEW held \in Nat
    PROVE  /\ TotalPayment(held) \in Nat
           /\ held - TotalPayment(held) < Len(payees)
           /\ \A a \in Account : a # Owner /\ shares[a] = 0 => Payment(a, held) = 0
  <1> DEFINE fee == TriggerAmount(held)
             r == held - fee
             got == [a \in Account |-> PayeeAmount(a, held)]
             feeOf == [a \in Account |-> IF a = Owner THEN fee ELSE 0]
             payment == [a \in Account |-> Payment(a, held)]
  <1>1. /\ shares \in [Account -> Nat] /\ totalShares \in Nat /\ Owner \in Account
        /\ totalShares = SumFunctionOnSet(shares, Account) /\ IsFiniteSet(Account)
    BY DEF SplitterInv, SplitterTypes, PayeesMatchShares, SumFunction, ConverterAssumption
  <1>2. /\ totalShares > 0
        /\ Cardinality({a \in Account : shares[a] > 0}) = Len(payees)
        /\ \A a \in Account : Cardinality({i \in DOMAIN payees : payees[i] = a})
                               = IF shares[a] > 0 THEN 1 ELSE 0
    BY PayeesAreCounted
  <1>3. fee \in Nat /\ r \in Nat
    <2>1. held * triggerFee \in Nat /\ held * triggerFee <= held * 100
      OBVIOUS
    <2>2. (held * triggerFee) \div 100 \in Nat /\ (held * triggerFee) \div 100 <= held
      BY <2>1
    <2>3. QED
      BY <2>2 DEF TriggerAmount
  <1>4. \A a \in Account : got[a] = (r * shares[a]) \div totalShares
    BY DEF PayeeAmount
  <1>5. ASSUME NEW a \in Account
        PROVE  got[a] \in Nat /\ (shares[a] = 0 => got[a] = 0) /\ PayeeTotal(a, held) = got[a]
    <2> DEFINE x == r * shares[a]
    <2>1. x \in Nat /\ (shares[a] = 0 => x = 0) /\ shares[a] \in Nat
      BY <1>1, <1>3
    <2>2. got[a] = x \div totalShares
      BY <1>4
    <2> HIDE DEF x, got
    <2>3. got[a] \in Nat /\ (x = 0 => got[a] = 0)
      <3>1. ASSUME NEW y \in Nat, NEW t \in Nat, t > 0
            PROVE  y \div t \in Nat /\ 0 \div t = 0
        BY <3>1
      <3>2. x \div totalShares \in Nat /\ 0 \div totalShares = 0
        BY <1>1, <1>2, <2>1, <3>1
      <3>3. QED
        BY <2>2, <3>2
    <2>4. PayeeTotal(a, held) = got[a] * (IF shares[a] > 0 THEN 1 ELSE 0)
      BY <1>2 DEF PayeeTotal, got
    <2>5. PayeeTotal(a, held) = got[a]
      BY <2>1, <2>3, <2>4
    <2>6. QED
      BY <2>1, <2>3, <2>5
  <1>6. ASSUME NEW a \in Account
        PROVE  /\ feeOf[a] \in Int /\ (a # Owner => feeOf[a] = 0)
               /\ payment[a] = feeOf[a] + got[a]
    BY <1>3, <1>5 DEF Payment
  <1>7. feeOf[Owner] = fee
    BY <1>1
  <1>8. TotalPayment(held) = SumFunctionOnSet(payment, Account)
    BY DEF TotalPayment, SumFunction
  <1>9. \A a \in Account : a # Owner /\ shares[a] = 0 => Payment(a, held) = 0
    BY <1>5 DEF Payment
  <1>10. held = r + fee
    BY <1>3
  <1> HIDE DEF fee, r, got, feeOf, payment
  <1> DEFINE P == SumFunctionOnSet(got, Account)
  <1>11. SumFunctionOnSet(payment, Account) = SumFunctionOnSet(feeOf, Account) + P
    <2>1. \A a \in Account : feeOf[a] \in Int /\ got[a] \in Int /\ payment[a] = feeOf[a] + got[a]
      BY <1>5, <1>6
    <2>2. QED
      BY <1>1, <2>1, SumAdd
  <1>12. SumFunctionOnSet(feeOf, Account) = fee
    <2>1. SumFunctionOnSet(feeOf, Account) = feeOf[Owner] + SumFunctionOnSet(feeOf, Account \ {Owner})
      BY <1>1, <1>6, SumRemove
    <2>2. IsFiniteSet(Account \ {Owner}) /\ \A a \in Account \ {Owner} : feeOf[a] = 0
      BY <1>1, <1>6, FS_Subset
    <2>3. SumFunctionOnSet(feeOf, Account \ {Owner}) = 0
      BY <2>2, SumOfZeros
    <2>4. QED
      BY <1>3, <1>7, <2>1, <2>3
  <1>13. P \in Nat /\ r - P < Cardinality({a \in Account : shares[a] > 0})
    <2> DEFINE T == {a \in Account : shares[a] > 0}
    <2>1. T = {a \in Account : shares[a] > 0}
      OBVIOUS
    <2> HIDE DEF T
    <2>2. P \in Nat /\ r - P < Cardinality(T)
      BY <1>1, <1>2, <1>3, <1>4, <2>1, RoundingLoss
    <2>3. QED
      BY <2>2 DEF T
  <1> HIDE DEF P
  <1>14. TotalPayment(held) = fee + P
    BY <1>8, <1>11, <1>12
  <1>15. held - TotalPayment(held) = r - P
    BY <1>3, <1>10, <1>13, <1>14
  <1>16. QED
    BY <1>2, <1>3, <1>9, <1>13, <1>14, <1>15

ConversionTypes ==
    /\ wETH \in Token /\ swapToToken \in Token
    /\ triggerFee \in Nat /\ triggerFee <= 100
    /\ tokenPathMapping \in [Token -> Seq(Token)]
    /\ holding \in [Token -> Nat]

PayoutInv == SplitterInv /\ ConversionTypes /\ PayoutIsComplete

(* The payment at the end of a conversion, on what the router left. *)
LEMMA DistributionIsComplete ==
    ASSUME ConverterAssumption, PayoutInv, payees # <<>>, NEW from, NEW bought,
           NEW held \in [Token -> Nat], Distribute(from, bought, held),
           UNCHANGED <<settings, splitter>>
    PROVE  holding' \in [Token -> Nat] /\ PayoutIsComplete'
  <1> DEFINE H == held[swapToToken]
  <1>1. SplitterInv /\ triggerFee \in Nat /\ triggerFee <= 100 /\ swapToToken \in Token
    BY DEF PayoutInv, ConversionTypes
  <1>2. H \in Nat
    BY <1>1
  <1>3. /\ TotalPayment(H) <= H
        /\ holding' = [held EXCEPT ![swapToToken] = H - TotalPayment(H)]
        /\ paid' = [a \in Account |-> Payment(a, H)]
        /\ event'.to = swapToToken
    BY DEF Distribute
  <1> HIDE DEF H
  <1>4. /\ TotalPayment(H) \in Nat
        /\ H - TotalPayment(H) < Len(payees)
        /\ \A a \in Account : a # Owner /\ shares[a] = 0 => Payment(a, H) = 0
    BY <1>1, <1>2, PaymentsAddUp
  <1>5. H - TotalPayment(H) \in Nat
    BY <1>2, <1>3, <1>4
  <1>6. payees' = payees /\ shares' = shares
    BY DEF splitter
  <1>7. holding'[event'.to] = H - TotalPayment(H)
    BY <1>1, <1>3
  <1>8. QED
    BY <1>3, <1>4, <1>5, <1>6, <1>7 DEF PayoutIsComplete

(* What the router takes and pays. *)
LEMMA RouterKeepsTypes ==
    ASSUME ConverterAssumption, PayoutInv, NEW from \in Token, NEW amount \in Nat,
           NEW out \in Nat, NEW allowance, CanRoute(PathFor(from), amount, allowance)
    PROVE  /\ PathFor(from) \in Seq(Token)
           /\ Routed(PathFor(from), amount, out) \in [Token -> Nat]
  <1> DEFINE path == PathFor(from)
  <1>1. /\ wETH \in Token /\ swapToToken \in Token /\ holding \in [Token -> Nat]
        /\ tokenPathMapping[from] \in Seq(Token)
    BY DEF PayoutInv, ConversionTypes
  <1>2. path \in Seq(Token)
    <2>1. <<from, wETH>> \in Seq(Token) /\ <<from, wETH, swapToToken>> \in Seq(Token)
      BY <1>1
    <2>2. QED
      BY <1>1, <2>1 DEF PathFor, DefaultPath
  <1>3. Len(path) >= 2 /\ holding[Head(path)] >= amount
    BY DEF CanRoute
  <1> HIDE DEF path
  <1>4. Head(path) \in Token /\ Last(path) \in Token
    BY <1>2, <1>3 DEF Last
  <1>5. [holding EXCEPT ![Head(path)] = @ - amount] \in [Token -> Nat]
    BY <1>1, <1>3, <1>4
  <1>6. Routed(path, amount, out) \in [Token -> Nat]
    <2> DEFINE debited == [holding EXCEPT ![Head(path)] = @ - amount]
    <2>1. Routed(path, amount, out) = [debited EXCEPT ![Last(path)] = @ + out]
      BY DEF Routed
    <2>2. debited \in [Token -> Nat]
      BY <1>5
    <2> HIDE DEF debited
    <2>3. QED
      BY <1>4, <2>1, <2>2
  <1>7. QED
    BY <1>2, <1>6 DEF path

LEMMA ConversionIsComplete ==
    ASSUME ConverterAssumption, PayoutInv, NEW caller \in Account, NEW from \in Token,
           NEW minimum \in Amount, NEW out \in Amount,
           convertAndTransfer(caller, from, minimum, out)
    PROVE  ConversionTypes' /\ PayoutIsComplete'
  <1>1. /\ payees # <<>> /\ UNCHANGED <<settings, splitter>>
        /\ holding \in [Token -> Nat] /\ holding[from] \in Nat /\ out \in Nat
        /\ tokenPathMapping \in [Token -> Seq(Token)]
    BY DEF convertAndTransfer, PayoutInv, ConversionTypes, ConverterAssumption
  <1>2. tokenPathMapping' \in [Token -> Seq(Token)] /\ holding' \in [Token -> Nat] /\ PayoutIsComplete'
    <2>1. CASE convertNothing(from, holding[from])
      <3>1. Distribute(from, from, holding) /\ tokenPathMapping' = tokenPathMapping
        BY <2>1 DEF convertNothing
      <3>2. QED
        BY <1>1, <3>1, DistributionIsComplete
    <2>2. CASE convertByRouter(from, holding[from], minimum, out)
      <3> DEFINE path == PathFor(from)
                 held == Routed(path, holding[from], out)
      <3>1. /\ \E allowance : CanRoute(path, holding[from], allowance)
            /\ tokenPathMapping' = [tokenPathMapping EXCEPT ![from] = path]
            /\ Distribute(from, Last(path), held)
        BY <2>2 DEF convertByRouter
      <3>2. path \in Seq(Token) /\ held \in [Token -> Nat]
        BY <1>1, <3>1, RouterKeepsTypes
      <3> HIDE DEF path, held
      <3>3. QED
        BY <1>1, <3>1, <3>2, DistributionIsComplete
    <2>3. QED
      BY <2>1, <2>2 DEF convertAndTransfer
  <1>3. QED
    BY <1>1, <1>2 DEF settings, PayoutInv, ConversionTypes

LEMMA InitPays == ASSUME ConverterAssumption, Init PROVE PayoutInv
  <1>1. SplitterInv
    BY InitSplits
  <1>2. ConversionTypes
    BY DEF Init, ConversionTypes, ConverterAssumption
  <1>3. PayoutIsComplete
    BY DEF Init, PayoutIsComplete
  <1>4. QED
    BY <1>1, <1>2, <1>3 DEF PayoutInv

LEMMA StepPays == ASSUME ConverterAssumption, PayoutInv, [Next]_vars PROVE PayoutInv'
  <1>1. SplitterInv'
    BY StepKeepsSplitter DEF PayoutInv
  <1> SUFFICES ConversionTypes' /\ PayoutIsComplete'
    BY <1>1 DEF PayoutInv
  <1>2. ConversionTypes
    BY DEF PayoutInv
  <1>3. ASSUME Quiet PROVE PayoutIsComplete'
    BY <1>3 DEF Quiet, PayoutIsComplete
  <1>4. ASSUME NEW caller \in Account, NEW account \in Account, NEW n \in Share,
               addPayee(caller, account, n)
        PROVE  ConversionTypes' /\ PayoutIsComplete'
    BY <1>2, <1>3, <1>4 DEF addPayee, settings, ConversionTypes
  <1>5. ASSUME NEW caller \in Account, NEW account \in Account, NEW i \in DOMAIN payees,
               removePayee(caller, account, i)
        PROVE  ConversionTypes' /\ PayoutIsComplete'
    BY <1>2, <1>3, <1>5 DEF removePayee, settings, ConversionTypes
  <1>6. ASSUME NEW caller \in Account, NEW t \in Token \union {NullAddress},
               setWETH(caller, t) \/ setSwapToToken(caller, t)
        PROVE  ConversionTypes' /\ PayoutIsComplete'
    BY <1>2, <1>3, <1>6 DEF setWETH, setSwapToToken, ConversionTypes
  <1>7. ASSUME NEW caller \in Account, NEW fee \in TriggerFee, setTriggerFee(caller, fee)
        PROVE  ConversionTypes' /\ PayoutIsComplete'
    BY <1>2, <1>3, <1>7 DEF setTriggerFee, ConversionTypes, ConverterAssumption
  <1>8. ASSUME NEW caller \in Account, NEW t \in Token, NEW path \in Path,
               setTokenPath(caller, t, path)
        PROVE  ConversionTypes' /\ PayoutIsComplete'
    <2>1. tokenPathMapping[t] \o path \in Seq(Token)
      <3>1. tokenPathMapping[t] \in Seq(Token) /\ path \in Seq(Token)
        BY <1>2 DEF ConversionTypes, ConverterAssumption
      <3>2. QED
        BY <3>1
    <2>2. tokenPathMapping' = [tokenPathMapping EXCEPT ![t] = tokenPathMapping[t] \o path]
      BY <1>8 DEF setTokenPath
    <2>3. tokenPathMapping' \in [Token -> Seq(Token)]
      BY <1>2, <2>1, <2>2 DEF ConversionTypes
    <2>4. QED
      BY <1>2, <1>3, <1>8, <2>3 DEF setTokenPath, settings, ConversionTypes
  <1>9. ASSUME NEW caller \in Account, NEW t \in Token, NEW minimum \in Amount,
               NEW out \in Amount, convertAndTransfer(caller, t, minimum, out)
        PROVE  ConversionTypes' /\ PayoutIsComplete'
    BY <1>9, ConversionIsComplete
  <1>10. ASSUME NEW caller \in Account, NEW dest \in Account, NEW tokens \in SUBSET Token,
                drainTo(caller, dest, tokens)
         PROVE  ConversionTypes' /\ PayoutIsComplete'
    BY <1>2, <1>3, <1>10 DEF drainTo, settings, ConversionTypes
  <1>11. ASSUME NEW t \in Token, NEW n \in Amount, Income(t, n)
         PROVE  ConversionTypes' /\ PayoutIsComplete'
    BY <1>2, <1>3, <1>11 DEF Income, settings, ConversionTypes, ConverterAssumption
  <1>12. CASE UNCHANGED vars
    BY <1>2, <1>12 DEF vars, splitter, settings, PayoutInv, ConversionTypes, PayoutIsComplete
  <1>13. QED
    BY <1>4, <1>5, <1>6, <1>7, <1>8, <1>9, <1>10, <1>11, <1>12 DEF Next

(* A conversion leaves less than one unit of the token for each payee, and *)
(* pays nothing to an account without shares but the trigger's fee.        *)
THEOREM ConversionPaysOut == Spec => []PayoutIsComplete
  <1>1. Init => PayoutInv
    BY ConverterAssumption, InitPays
  <1>2. PayoutInv /\ [Next]_vars => PayoutInv'
    BY ConverterAssumption, StepPays
  <1>3. PayoutInv => PayoutIsComplete
    BY DEF PayoutInv
  <1>4. QED
    BY <1>1, <1>2, <1>3, PTL DEF Spec

-----------------------------------------------------------------------------
(* The stale path is the only reason to buy another token than the one     *)
(* the payees get.                                                         *)

PathsEndInSwapToToken ==
    \A t \in Token : tokenPathMapping[t] # <<>> => Last(tokenPathMapping[t]) = swapToToken

(* A step that leaves the token of the payees alone, and sets a path only  *)
(* to that token.                                                          *)
LeavesSwapToToken ==
    /\ swapToToken' = swapToToken
    /\ \A t \in Token, path \in Path :
          setTokenPath(Owner, t, path) /\ path # <<>> => Last(path) = swapToToken

BuyingInv == PathsEndInSwapToToken /\ BuysSwapToToken

LEMMA LastOfAppended ==
    ASSUME NEW S, NEW r \in Seq(S), NEW p \in Seq(S)
    PROVE  /\ p = <<>> => r \o p = r
           /\ p # <<>> => Last(r \o p) = Last(p)
  <1>1. r \o p \in Seq(S) /\ Len(r \o p) = Len(r) + Len(p) /\ Len(r) \in Nat /\ Len(p) \in Nat
    OBVIOUS
  <1>2. ASSUME p # <<>> PROVE Last(r \o p) = Last(p)
    <2>1. Len(p) > 0
      BY <1>2
    <2>2. (r \o p)[Len(r) + Len(p)] = p[Len(p)]
      BY <1>1, <2>1
    <2>3. QED
      BY <1>1, <2>2 DEF Last
  <1>3. p = <<>> => r \o p = r
    OBVIOUS
  <1>4. QED
    BY <1>2, <1>3

(* The path of a conversion ends in the token of the payees, if the stored *)
(* paths do.                                                               *)
LEMMA PathForEnds ==
    ASSUME PathsEndInSwapToToken, NEW from \in Token
    PROVE  Last(PathFor(from)) = swapToToken
  <1>1. CASE tokenPathMapping[from] # <<>>
    BY <1>1 DEF PathFor, PathsEndInSwapToToken
  <1>2. CASE tokenPathMapping[from] = <<>>
    <2>1. Last(<<from, wETH>>) = wETH /\ Last(<<from, wETH, swapToToken>>) = swapToToken
      BY DEF Last
    <2>2. QED
      BY <1>2, <2>1 DEF PathFor, DefaultPath
  <1>3. QED
    BY <1>1, <1>2

LEMMA ConversionBuys ==
    ASSUME ConversionTypes, BuyingInv, NEW caller \in Account, NEW from \in Token,
           NEW minimum, NEW out, convertAndTransfer(caller, from, minimum, out)
    PROVE  BuyingInv'
  <1>1. swapToToken' = swapToToken /\ tokenPathMapping \in [Token -> Seq(Token)]
    BY DEF convertAndTransfer, settings, ConversionTypes
  <1>2. CASE convertNothing(from, holding[from])
    <2>1. tokenPathMapping' = tokenPathMapping /\ event'.bought = event'.to
      BY <1>2 DEF convertNothing, Distribute
    <2>2. QED
      BY <1>1, <2>1 DEF BuyingInv, PathsEndInSwapToToken, BuysSwapToToken
  <1>3. CASE convertByRouter(from, holding[from], minimum, out)
    <2> DEFINE path == PathFor(from)
    <2>1. /\ tokenPathMapping' = [tokenPathMapping EXCEPT ![from] = path]
          /\ event'.bought = Last(path) /\ event'.to = swapToToken
      BY <1>3 DEF convertByRouter, Distribute
    <2>2. Last(path) = swapToToken
      BY PathForEnds DEF BuyingInv
    <2> HIDE DEF path
    <2>3. PathsEndInSwapToToken'
      BY <1>1, <2>1, <2>2 DEF BuyingInv, PathsEndInSwapToToken
    <2>4. BuysSwapToToken'
      BY <2>1, <2>2 DEF BuysSwapToToken
    <2>5. QED
      BY <2>3, <2>4 DEF BuyingInv
  <1>4. QED
    BY <1>2, <1>3 DEF convertAndTransfer

LEMMA StepBuys ==
    ASSUME ConverterAssumption, ConversionTypes, BuyingInv, [Next]_vars, [LeavesSwapToToken]_vars
    PROVE  BuyingInv'
  <1>1. swapToToken' = swapToToken
    BY DEF LeavesSwapToToken, vars, settings
  <1>2. ASSUME Quiet, UNCHANGED tokenPathMapping PROVE BuyingInv'
    BY <1>1, <1>2 DEF Quiet, BuyingInv, PathsEndInSwapToToken, BuysSwapToToken
  <1>3. ASSUME NEW caller \in Account, NEW t \in Token, NEW path \in Path,
               setTokenPath(caller, t, path), LeavesSwapToToken
        PROVE  BuyingInv'
    <2>1. tokenPathMapping \in [Token -> Seq(Token)] /\ path \in Seq(Token)
      BY DEF ConversionTypes, ConverterAssumption
    <2>2. /\ tokenPathMapping' = [tokenPathMapping EXCEPT ![t] = tokenPathMapping[t] \o path]
          /\ Quiet /\ caller = Owner
      BY <1>3 DEF setTokenPath
    <2>3. path # <<>> => Last(path) = swapToToken
      BY <1>3, <2>2 DEF LeavesSwapToToken
    <2>4. ASSUME NEW u \in Token, tokenPathMapping'[u] # <<>>
          PROVE  Last(tokenPathMapping'[u]) = swapToToken
      <3>1. CASE u # t
        BY <2>1, <2>2, <2>4, <3>1 DEF BuyingInv, PathsEndInSwapToToken
      <3>2. CASE u = t
        <4>1. tokenPathMapping'[u] = tokenPathMapping[t] \o path /\ tokenPathMapping[t] \in Seq(Token)
          BY <2>1, <2>2, <3>2
        <4>2. CASE path = <<>>
          <5>1. tokenPathMapping'[u] = tokenPathMapping[t]
            BY <4>1, <4>2, <2>1, LastOfAppended
          <5>2. QED
            BY <2>4, <5>1 DEF BuyingInv, PathsEndInSwapToToken
        <4>3. CASE path # <<>>
          BY <2>1, <2>3, <4>1, <4>3, LastOfAppended
        <4>4. QED
          BY <4>2, <4>3
      <3>3. QED
        BY <3>1, <3>2
    <2>5. QED
      BY <1>1, <2>2, <2>4 DEF Quiet, BuyingInv, PathsEndInSwapToToken, BuysSwapToToken
  <1>4. ASSUME NEW caller \in Account, NEW t \in Token, NEW minimum \in Amount,
               NEW out \in Amount, convertAndTransfer(caller, t, minimum, out)
        PROVE  BuyingInv'
    BY <1>4, ConversionBuys
  <1>5. CASE UNCHANGED vars
    BY <1>5 DEF vars, settings, BuyingInv, PathsEndInSwapToToken, BuysSwapToToken
  <1>6. CASE Next /\ LeavesSwapToToken
    BY <1>2, <1>3, <1>4, <1>6 DEF Next, addPayee, removePayee, setWETH, setSwapToToken,
       setTriggerFee, drainTo, Income
  <1>7. QED
    BY <1>5, <1>6

(* The extent of what the run converter_stale finds: as long as the owner  *)
(* leaves the token of the payees alone and sets paths only to it, every   *)
(* conversion, by a stored or a default path and with any change of wETH   *)
(* in between, buys the token that the payees are paid in.                 *)
THEOREM OnlyStalePathsMisbuy == Spec /\ [][LeavesSwapToToken]_vars => []BuysSwapToToken
  <1>1. Init => PayoutInv /\ BuyingInv
    BY ConverterAssumption, InitPays DEF Init, BuyingInv, PathsEndInSwapToToken, BuysSwapToToken
  <1>2. PayoutInv /\ BuyingInv /\ [Next]_vars /\ [LeavesSwapToToken]_vars
          => PayoutInv' /\ BuyingInv'
    BY ConverterAssumption, StepPays, StepBuys DEF PayoutInv
  <1>3. BuyingInv => BuysSwapToToken
    BY DEF BuyingInv
  <1>4. QED
    BY <1>1, <1>2, <1>3, PTL DEF Spec
=============================================================================
