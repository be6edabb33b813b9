--------------------------- MODULE StakingProofs ---------------------------
(* Proofs about Staking, for any accounts, schedules and amounts. *)
EXTENDS Staking, SumsAndArrays

-----------------------------------------------------------------------------
(* Lists of stakes and their balances. *)

Balances(q) == [i \in DOMAIN q |-> q[i].balance]
SumBalances(q) == SumFunction(Balances(q))

LEMMA BalancesIs ==
    ASSUME NEW q \in Seq(StakeType)
    PROVE  /\ Len(q) \in Nat /\ DOMAIN q = 1..Len(q) /\ IsFiniteSet(1..Len(q))
           /\ \A i \in 1..Len(q) : Balances(q)[i] = q[i].balance /\ q[i].balance \in Nat
           /\ SumBalances(q) = SumFunctionOnSet(Balances(q), 1..Len(q))
           /\ SumBalances(q) \in Nat
  <1>1. Len(q) \in Nat /\ DOMAIN q = 1..Len(q)
    OBVIOUS
  <1>2. IsFiniteSet(1..Len(q))
    BY <1>1, FS_Interval
  <1>3. \A i \in 1..Len(q) : Balances(q)[i] = q[i].balance /\ q[i].balance \in Nat
    <2>1. ASSUME NEW i \in 1..Len(q)
          PROVE  Balances(q)[i] = q[i].balance /\ q[i].balance \in Nat
      <3>1. q[i] \in StakeType /\ i \in DOMAIN q
        OBVIOUS
      <3>2. q[i].balance \in Nat
        BY <3>1 DEF StakeType
      <3>3. QED
        BY <3>1, <3>2 DEF Balances
    <2>2. QED
      BY <2>1
  <1>4. SumBalances(q) = SumFunctionOnSet(Balances(q), 1..Len(q))
    BY <1>1 DEF SumBalances, SumFunction, Balances
  <1>5. SumFunctionOnSet(Balances(q), 1..Len(q)) \in Nat
    BY <1>2, <1>3, SumInteger
  <1>6. QED
    BY <1>1, <1>2, <1>3, <1>4, <1>5

(* A stake is added at the end. *)
LEMMA BalancesOfAppended ==
    ASSUME NEW q \in Seq(StakeType), NEW s \in StakeType
    PROVE  SumBalances(Append(q, s)) = SumBalances(q) + s.balance
  <1> DEFINE n == Len(q)
             r == Append(q, s)
             f == Balances(q)
             h == Balances(r)
  <1>1. /\ n \in Nat /\ r \in Seq(StakeType) /\ Len(r) = n + 1
        /\ r[n + 1] = s /\ s.balance \in Nat /\ \A i \in 1..n : r[i] = q[i]
    BY DEF StakeType
  <1>2. /\ \A i \in 1..n : f[i] = q[i].balance /\ q[i].balance \in Nat
        /\ SumBalances(q) = SumFunctionOnSet(f, 1..n)
    BY BalancesIs
  <1> HIDE DEF r
  <1>3. /\ \A i \in 1..(n + 1) : h[i] = r[i].balance
        /\ SumBalances(r) = SumFunctionOnSet(h, 1..(n + 1))
    BY <1>1, BalancesIs
  <1> HIDE DEF f, h, n
  <1>4. \A i \in 1..n : f[i] \in Int /\ h[i] = f[i]
    <2>1. ASSUME NEW i \in 1..n PROVE f[i] \in Int /\ h[i] = f[i]
      <3>1. i \in 1..(n + 1)
        BY <1>1
      <3>2. QED
        BY <1>1, <1>2, <1>3, <3>1
    <2>2. QED
      BY <2>1
  <1>5. h[n + 1] = s.balance /\ h[n + 1] \in Int
    <2>1. n + 1 \in 1..(n + 1)
      BY <1>1
    <2>2. QED
      BY <1>1, <1>3, <2>1
  <1>6. SumFunctionOnSet(h, 1..(n + 1)) = SumFunctionOnSet(f, 1..n) + h[n + 1]
    BY <1>1, <1>4, <1>5, SumAppended
  <1>7. QED
    BY <1>2, <1>3, <1>5, <1>6 DEF r

(* A stake is replaced. *)
LEMMA BalancesOfReplaced ==
    ASSUME NEW q \in Seq(StakeType), NEW i \in DOMAIN q, NEW s \in StakeType
    PROVE  SumBalances([q EXCEPT ![i] = s]) = SumBalances(q) + (s.balance - q[i].balance)
  <1> DEFINE n == Len(q)
             r == [q EXCEPT ![i] = s]
             f == Balances(q)
             h == Balances(r)
  <1>1. /\ i \in 1..n /\ r \in Seq(StakeType) /\ Len(r) = n /\ r[i] = s
        /\ \A j \in (1..n) \ {i} : r[j] = q[j]
    OBVIOUS
  <1>2. /\ IsFiniteSet(1..n)
        /\ \A j \in 1..n : f[j] = q[j].balance /\ q[j].balance \in Nat
        /\ SumBalances(q) = SumFunctionOnSet(f, 1..n)
    BY BalancesIs
  <1> HIDE DEF r
  <1>3. /\ \A j \in 1..n : h[j] = r[j].balance /\ r[j].balance \in Nat
        /\ SumBalances(r) = SumFunctionOnSet(h, 1..n)
    BY <1>1, BalancesIs
  <1> HIDE DEF f, h, n
  <1>4. /\ \A j \in 1..n : f[j] \in Int /\ h[j] \in Int
        /\ \A j \in (1..n) \ {i} : h[j] = f[j]
        /\ f[i] = q[i].balance /\ h[i] = s.balance
    <2>1. \A j \in 1..n : f[j] \in Int /\ h[j] \in Int
      BY <1>2, <1>3
    <2>2. ASSUME NEW j \in (1..n) \ {i} PROVE h[j] = f[j]
      <3>1. j \in 1..n /\ r[j] = q[j]
        BY <1>1
      <3>2. QED
        BY <1>2, <1>3, <3>1
    <2>3. f[i] = q[i].balance /\ h[i] = s.balance
      BY <1>1, <1>2, <1>3
    <2>4. QED
      BY <2>1, <2>2, <2>3
  <1>5. SumFunctionOnSet(h, 1..n) = SumFunctionOnSet(f, 1..n) + (h[i] - f[i])
    <2>1. IsFiniteSet(1..n) /\ i \in 1..n
      BY <1>1, <1>2
    <2>2. QED
      BY <2>1, <1>4, SumUpdate
  <1>6. QED
    BY <1>2, <1>3, <1>4, <1>5 DEF r

(* A stake gives its place to the last one. *)
LEMMA BalancesOfRemoved ==
    ASSUME NEW q \in Seq(StakeType), NEW i \in DOMAIN q
    PROVE  SumBalances(Removed(q, i)) = SumBalances(q) - q[i].balance
  <1> DEFINE n == Len(q)
             r == Removed(q, i)
             f == Balances(q)
             h == Balances(r)
  <1>1. n \in Nat /\ i \in 1..n
    OBVIOUS
  <1>2. /\ r \in Seq(StakeType) /\ Len(r) = n - 1
        /\ \A j \in 1..(n - 1) : r[j] = IF j = i THEN q[n] ELSE q[j]
    BY <1>1, RemovedIs
  <1>3. /\ \A j \in 1..n : f[j] = q[j].balance /\ q[j].balance \in Nat
        /\ SumBalances(q) = SumFunctionOnSet(f, 1..n)
    BY BalancesIs
  <1> HIDE DEF r
  <1>4. /\ \A j \in 1..(n - 1) : h[j] = r[j].balance
        /\ SumBalances(r) = SumFunctionOnSet(h, 1..(n - 1))
    BY <1>2, BalancesIs
  <1> HIDE DEF f, h, n
  <1>5. \A j \in 1..n : f[j] \in Int
    BY <1>3
  <1>6. \A j \in 1..(n - 1) : h[j] = IF j = i THEN f[n] ELSE f[j]
    <2>1. ASSUME NEW j \in 1..(n - 1) PROVE h[j] = IF j = i THEN f[n] ELSE f[j]
      <3>1. j \in 1..n /\ n \in 1..n
        BY <1>1
      <3>2. QED
        BY <1>2, <1>3, <1>4, <3>1
    <2>2. QED
      BY <2>1
  <1>7. SumFunctionOnSet(h, 1..(n - 1)) = SumFunctionOnSet(f, 1..n) - f[i]
    BY <1>1, <1>5, <1>6, SumRemoved
  <1>8. QED
    BY <1>1, <1>3, <1>4, <1>7 DEF r

-----------------------------------------------------------------------------
(***************************************************************************)
(* The invariant.  Each stake still holds tokens, no more than were put    *)
(* in, and started in the past; until the schedule is replaced it has the  *)
(* schedule in force and nothing was withdrawn before it was vested.  The  *)
(* balances of all stakes add up to the tokens of the contract.            *)
(***************************************************************************)
GoodStake(s) ==
    /\ 0 < s.balance /\ s.balance <= s.initial
    /\ s.timestamp <= now
    /\ ~rescheduled => /\ s.duration = duration
                       /\ VestedDefined(s) => Withdrawn(s) <= vested(s)

GoodStakes == {s \in StakeType : GoodStake(s)}

Scalars ==
    /\ duration \in Nat /\ cliff \in Nat
    /\ now \in 0..MaxTime
    /\ rescheduled \in BOOLEAN

IInv ==
    /\ Scalars
    /\ balance \in [Account \union {Contract} -> Nat]
    /\ allStakes \in [Account -> Seq(GoodStakes)]
    /\ TotalSupplyIsSumOfBalances

LEMMA GoodStakeTypes ==
    ASSUME StakingAssumption, Scalars, NEW s \in GoodStakes
    PROVE  /\ s \in StakeType
           /\ s.duration \in Nat /\ s.cliff \in Nat /\ s.initial \in Nat /\ s.balance \in Nat
           /\ s.timestamp \in Nat /\ now \in Nat /\ Elapsed(s) \in Nat
           /\ 0 < s.balance /\ s.balance <= s.initial
           /\ Withdrawn(s) \in Nat
           /\ VestedDefined(s) => vested(s) \in Nat
  <1>1. /\ s \in StakeType
        /\ s.duration \in Nat /\ s.cliff \in Nat /\ s.initial \in Nat /\ s.balance \in Nat
        /\ s.timestamp \in Nat /\ now \in Nat /\ duration \in Nat
        /\ 0 < s.balance /\ s.balance <= s.initial /\ s.timestamp <= now
    BY DEF GoodStakes, GoodStake, StakeType, Scalars, StakingAssumption
  <1>2. Elapsed(s) \in Nat /\ Withdrawn(s) \in Nat
    BY <1>1 DEF Elapsed, Withdrawn
  <1>3. ASSUME VestedDefined(s) PROVE vested(s) \in Nat
    <2>1. CASE Elapsed(s) > duration
      BY <1>1, <2>1 DEF vested
    <2>2. CASE ~(Elapsed(s) > duration)
      <3>1. s.duration > 0
        BY <1>3, <2>2 DEF VestedDefined
      <3>2. s.initial * Elapsed(s) \in Nat
        BY <1>1, <1>2
      <3>3. (s.initial * Elapsed(s)) \div s.duration \in Nat
        BY <1>1, <3>1, <3>2
      <3>4. QED
        BY <2>2, <3>3 DEF vested
    <2>3. QED
      BY <2>1, <2>2
  <1>4. QED
    BY <1>1, <1>2, <1>3

(* What the invariant says of the properties. *)
LEMMA InvariantImplies ==
    ASSUME StakingAssumption, IInv
    PROVE  TypeOK /\ StakesWellFormed /\ TotalSupplyIsSumOfBalances /\ WithdrawnIsVested
  <1>1. Scalars /\ allStakes \in [Account -> Seq(GoodStakes)]
    BY DEF IInv
  <1>2. TypeOK
    <2>1. ASSUME NEW a \in Account PROVE allStakes[a] \in Seq(StakeType)
      <3>1. GoodStakes \subseteq StakeType
        BY DEF GoodStakes
      <3>2. QED
        BY <1>1, <3>1
    <2>2. allStakes \in [Account -> Seq(StakeType)]
      BY <1>1, <2>1
    <2>3. QED
      BY <2>2 DEF IInv, Scalars, TypeOK
  <1>3. ASSUME NEW a \in Account, NEW s \in Stakes(a) PROVE s \in GoodStakes
    <2>1. PICK i \in DOMAIN allStakes[a] : s = allStakes[a][i]
      BY DEF Stakes, ToSet
    <2>2. allStakes[a] \in Seq(GoodStakes)
      BY <1>1
    <2>3. QED
      BY <2>1, <2>2
  <1>4. StakesWellFormed
    BY <1>3 DEF StakesWellFormed, GoodStakes, GoodStake
  <1>5. WithdrawnIsVested
    <2> SUFFICES ASSUME ~rescheduled, NEW a \in Account, NEW s \in Stakes(a)
                 PROVE  /\ VestedDefined(s) => Withdrawn(s) <= vested(s)
                        /\ ~VestedDefined(s) => duration = 0 /\ Elapsed(s) = 0
      BY DEF WithdrawnIsVested
    <2>1. s \in GoodStakes
      BY <1>3
    <2>2. s.duration = duration /\ (VestedDefined(s) => Withdrawn(s) <= vested(s))
      BY <2>1 DEF GoodStakes, GoodStake
    <2>3. Elapsed(s) \in Nat /\ duration \in Nat
      BY <1>1, <2>1, GoodStakeTypes DEF Scalars
    <2>4. QED
      BY <2>2, <2>3 DEF VestedDefined
  <1>6. QED
    BY <1>2, <1>4, <1>5 DEF IInv

-----------------------------------------------------------------------------
(* Unstaking. *)

LEMMA ListOfGoodStakes ==
    ASSUME NEW q \in Seq(GoodStakes)
    PROVE  /\ q \in Seq(StakeType)
           /\ Len(q) \in Nat /\ DOMAIN q = 1..Len(q)
           /\ \A i \in DOMAIN q : q[i] \in GoodStakes
  <1>1. GoodStakes \subseteq StakeType
    BY DEF GoodStakes
  <1>2. QED
    BY <1>1

(* A stake with something left after a withdrawal that is allowed is good. *)
LEMMA WithdrawalKeepsStake ==
    ASSUME StakingAssumption, Scalars, NEW s \in GoodStakes, NEW amount \in Nat,
           Elapsed(s) >= s.cliff, AvailableDefined(s), amount <= available(s),
           amount <= s.balance, amount # s.balance
    PROVE  [s EXCEPT !.balance = @ - amount] \in GoodStakes
  <1> DEFINE t == [s EXCEPT !.balance = @ - amount]
  <1>1. /\ s \in StakeType
        /\ s.duration \in Nat /\ s.cliff \in Nat /\ s.initial \in Nat /\ s.balance \in Nat
        /\ s.timestamp \in Nat /\ Elapsed(s) \in Nat
        /\ 0 < s.balance /\ s.balance <= s.initial
        /\ Withdrawn(s) \in Nat /\ (VestedDefined(s) => vested(s) \in Nat)
    BY GoodStakeTypes
  <1>2. /\ t \in StakeType /\ t.balance = s.balance - amount
        /\ t.duration = s.duration /\ t.initial = s.initial /\ t.timestamp = s.timestamp
    BY <1>1 DEF StakeType
  <1>3. /\ VestedDefined(s) /\ Withdrawn(s) + amount <= vested(s)
    BY <1>1 DEF AvailableDefined, available
  <1> HIDE DEF t
  <1>4. /\ Elapsed(t) = Elapsed(s) /\ vested(t) = vested(s)
        /\ Withdrawn(t) = Withdrawn(s) + amount
    <2>1. Elapsed(t) = Elapsed(s)
      BY <1>2 DEF Elapsed
    <2>2. QED
      BY <1>1, <1>2, <2>1 DEF vested, Withdrawn
  <1>5. GoodStake(t)
    BY <1>1, <1>2, <1>3, <1>4 DEF GoodStakes, GoodStake
  <1>6. QED
    BY <1>2, <1>5 DEF GoodStakes, t

(* One step of the loop. *)
LEMMA UnstakedIs ==
    ASSUME StakingAssumption, Scalars, NEW q \in Seq(GoodStakes), NEW i,
           NEW amount \in Nat, CanUnstake(q, i, amount)
    PROVE  /\ Unstaked(q, i, amount) \in Seq(GoodStakes)
           /\ SumBalances(Unstaked(q, i, amount)) = SumBalances(q) - amount
  <1> DEFINE s == q[i]
             t == [s EXCEPT !.balance = @ - amount]
  <1>1. /\ i \in DOMAIN q /\ Elapsed(s) >= s.cliff /\ AvailableDefined(s)
        /\ amount <= available(s) /\ amount <= s.balance
    BY DEF CanUnstake
  <1>2. q \in Seq(StakeType) /\ i \in 1..Len(q) /\ s \in GoodStakes
    BY <1>1, ListOfGoodStakes
  <1>3. SumBalances(q) \in Nat /\ s.balance \in Nat /\ s \in StakeType
    BY <1>2, BalancesIs, GoodStakeTypes
  <1>4. CASE amount = s.balance
    <2>1. Unstaked(q, i, amount) = Removed(q, i)
      BY <1>4 DEF Unstaked, RemoveStake, Removed
    <2>2. Removed(q, i) \in Seq(GoodStakes)
      BY <1>2, RemovedIs
    <2>3. SumBalances(Removed(q, i)) = SumBalances(q) - q[i].balance
      BY <1>1, <1>2, BalancesOfRemoved
    <2>4. QED
      BY <1>4, <2>1, <2>2, <2>3
  <1>5. CASE amount # s.balance
    <2>1. Unstaked(q, i, amount) = [q EXCEPT ![i] = t]
      BY <1>5 DEF Unstaked
    <2>2. t \in GoodStakes
      <3> HIDE DEF s
      <3>1. QED
        BY <1>1, <1>2, <1>5, WithdrawalKeepsStake
    <2>3. t \in StakeType /\ t.balance = s.balance - amount
      BY <1>3, <2>2 DEF GoodStakes, StakeType
    <2> HIDE DEF t
    <2>4. [q EXCEPT ![i] = t] \in Seq(GoodStakes)
      BY <1>2, <2>2
    <2>5. SumBalances([q EXCEPT ![i] = t]) = SumBalances(q) + (t.balance - q[i].balance)
      BY <1>1, <1>2, <2>3, BalancesOfReplaced
    <2>6. QED
      BY <1>3, <2>1, <2>3, <2>4, <2>5
  <1>6. QED
    BY <1>4, <1>5

(* The value of the loop at an index, from its values at larger ones. *)
LoopStep(stakes, amounts, g, i) ==
    IF i > Len(amounts) THEN stakes
    ELSE IF amounts[i] = 0 THEN g[i + 1]
    ELSE IF CanUnstake(g[i + 1], i, amounts[i]) THEN Unstaked(g[i + 1], i, amounts[i])
    ELSE <<>>

IsLoop(stakes, amounts, g) ==
    g = [i \in 1..(Len(amounts) + 1) |-> LoopStep(stakes, amounts, g, i)]

(* The recursive function exists: from one that is right for the last      *)
(* indices comes one that is right for one index more.                     *)
LEMMA LoopExists ==
    ASSUME NEW stakes, NEW amounts \in Seq(Nat)
    PROVE  \E g : IsLoop(stakes, amounts, g)
  <1> DEFINE n == Len(amounts)
             RightFrom(g, k) ==
               /\ g = [i \in 1..(n + 1) |-> g[i]]
               /\ \A i \in 1..(n + 1) : i + k >= n + 1 => g[i] = LoopStep(stakes, amounts, g, i)
             G == {k \in Nat : \E g : RightFrom(g, k)}
  <1>1. n \in Nat
    OBVIOUS
  <1>2. 0 \in G
    <2> DEFINE g == [i \in 1..(n + 1) |-> stakes]
    <2>1. ASSUME NEW i \in 1..(n + 1), i + 0 >= n + 1
          PROVE  g[i] = LoopStep(stakes, amounts, g, i)
      BY <1>1, <2>1 DEF LoopStep
    <2>2. RightFrom(g, 0)
      BY <2>1
    <2>3. QED
      BY <2>2
  <1>3. ASSUME NEW k \in Nat, k \in G PROVE k + 1 \in G
    <2>1. PICK g : RightFrom(g, k)
      BY <1>3
    <2> DEFINE h == [i \in 1..(n + 1) |-> LoopStep(stakes, amounts, g, i)]
    <2>2. ASSUME NEW i \in 1..(n + 1), i + (k + 1) >= n + 1
          PROVE  h[i] = LoopStep(stakes, amounts, h, i)
      <3>1. CASE i > n
        BY <3>1 DEF LoopStep
      <3>2. CASE ~(i > n)
        <4>1. i + 1 \in 1..(n + 1) /\ (i + 1) + k >= n + 1
          BY <1>1, <2>2, <3>2
        <4>2. g[i + 1] = LoopStep(stakes, amounts, g, i + 1)
          BY <2>1, <4>1
        <4>3. h[i + 1] = g[i + 1]
          BY <4>1, <4>2
        <4>4. h[i] = LoopStep(stakes, amounts, g, i)
          OBVIOUS
        <4> HIDE DEF h
        <4>5. QED
          BY <4>3, <4>4 DEF LoopStep
      <3>3. QED
        BY <3>1, <3>2
    <2>3. h = [i \in 1..(n + 1) |-> h[i]]
      OBVIOUS
    <2>4. RightFrom(h, k + 1)
      <3> HIDE DEF h
      <3>1. QED
        BY <2>2, <2>3
    <2>5. QED
      <3> HIDE DEF h, RightFrom
      <3>1. QED
        BY <2>4
  <1>4. n + 1 \in G
    <2> HIDE DEF G
    <2>1. QED
      BY <1>1, <1>2, <1>3, SetInduction
  <1>5. PICK g : RightFrom(g, n + 1)
    BY <1>4
  <1>6. \A i \in 1..(n + 1) : g[i] = LoopStep(stakes, amounts, g, i)
    BY <1>1, <1>5
  <1>7. IsLoop(stakes, amounts, g)
    BY <1>5, <1>6 DEF IsLoop
  <1>8. QED
    BY <1>7

LEMMA UnstakingIsLoop ==
    ASSUME NEW stakes, NEW amounts \in Seq(Nat)
    PROVE  \A i \in 1..(Len(amounts) + 1) :
              Unstaking(stakes, amounts)[i]
                = LoopStep(stakes, amounts, Unstaking(stakes, amounts), i)
  <1> DEFINE u == Unstaking(stakes, amounts)
  <1>1. u = CHOOSE g : IsLoop(stakes, amounts, g)
    BY DEF Unstaking, IsLoop, LoopStep
  <1>2. IsLoop(stakes, amounts, u)
    BY <1>1, LoopExists
  <1> HIDE DEF u
  <1>3. \A i \in 1..(Len(amounts) + 1) : u[i] = LoopStep(stakes, amounts, u, i)
    BY <1>2 DEF IsLoop
  <1>4. QED
    BY <1>3 DEF u

(* The whole loop takes the amounts out of the list and leaves good stakes.*)
LEMMA UnstakingIs ==
    ASSUME StakingAssumption, Scalars, NEW stakes \in Seq(GoodStakes),
           NEW amounts \in Seq(Nat),
           \A i \in DOMAIN amounts : amounts[i] > 0 =>
               CanUnstake(Unstaking(stakes, amounts)[i + 1], i, amounts[i])
    PROVE  /\ Unstaking(stakes, amounts)[1] \in Seq(GoodStakes)
           /\ SumFunction(amounts) \in Nat
           /\ SumBalances(Unstaking(stakes, amounts)[1])
                = SumBalances(stakes) - SumFunction(amounts)
  <1> DEFINE n == Len(amounts)
             u == Unstaking(stakes, amounts)
             Taken(i) == SumFunctionOnSet(amounts, i..n)
             Right(i) == /\ u[i] \in Seq(GoodStakes)
                         /\ SumBalances(u[i]) = SumBalances(stakes) - Taken(i)
             G == {k \in Nat : k <= n => Right((n + 1) - k)}
  <1>1. n \in Nat /\ DOMAIN amounts = 1..n /\ \A i \in 1..n : amounts[i] \in Nat
    OBVIOUS
  <1>2. \A i \in 1..(n + 1) : u[i] = LoopStep(stakes, amounts, u, i)
    BY UnstakingIsLoop
  <1>3. \A i \in 1..n : amounts[i] > 0 => CanUnstake(u[i + 1], i, amounts[i])
    BY <1>1
  <1>4. SumBalances(stakes) \in Nat
    BY ListOfGoodStakes, BalancesIs
  <1> HIDE DEF u
  <1>5. Right(n + 1)
    <2>1. u[n + 1] = stakes
      BY <1>1, <1>2 DEF LoopStep
    <2>2. (n + 1)..n = {}
      BY <1>1
    <2>3. Taken(n + 1) = 0
      BY <2>2, SumEmpty
    <2>4. QED
      BY <1>4, <2>1, <2>3
  <1>6. ASSUME NEW i \in 1..n
        PROVE  /\ Taken(i + 1) \in Nat
               /\ Taken(i) = amounts[i] + Taken(i + 1)
    BY <1>1, SumOfTail
  <1>7. ASSUME NEW i \in 1..n, Right(i + 1) PROVE Right(i)
    <2>1. i \in 1..(n + 1) /\ ~(i > n) /\ amounts[i] \in Nat
      BY <1>1
    <2>2. Taken(i + 1) \in Nat /\ Taken(i) = amounts[i] + Taken(i + 1)
      BY <1>6
    <2>3. u[i] = LoopStep(stakes, amounts, u, i)
      BY <1>2, <2>1
    <2>4. u[i + 1] \in Seq(GoodStakes) /\ SumBalances(u[i + 1]) = SumBalances(stakes) - Taken(i + 1)
      BY <1>7
    <2> HIDE DEF Taken, n
    <2>5. CASE amounts[i] = 0
      <3>1. u[i] = u[i + 1]
        BY <2>1, <2>3, <2>5 DEF LoopStep, n
      <3>2. QED
        BY <2>2, <2>4, <2>5, <3>1
    <2>6. CASE amounts[i] > 0
      <3>1. CanUnstake(u[i + 1], i, amounts[i])
        BY <1>3, <2>6
      <3>2. u[i] = Unstaked(u[i + 1], i, amounts[i])
        BY <2>1, <2>3, <2>6, <3>1 DEF LoopStep, n
      <3>3. /\ Unstaked(u[i + 1], i, amounts[i]) \in Seq(GoodStakes)
            /\ SumBalances(Unstaked(u[i + 1], i, amounts[i])) = SumBalances(u[i + 1]) - amounts[i]
        BY <2>1, <2>4, <3>1, UnstakedIs
      <3>4. QED
        BY <1>4, <2>1, <2>2, <2>4, <3>2, <3>3
    <2>7. QED
      BY <2>1, <2>5, <2>6
  <1>8. 0 \in G
    <2>1. (n + 1) - 0 = n + 1
      BY <1>1
    <2>2. QED
      BY <1>5, <2>1
  <1>9. ASSUME NEW k \in Nat, k \in G PROVE k + 1 \in G
    <2> HIDE DEF Right, n
    <2>1. ASSUME k + 1 <= n PROVE Right((n + 1) - (k + 1))
      <3> DEFINE i == (n + 1) - (k + 1)
      <3>1. i \in 1..n /\ i + 1 = (n + 1) - k /\ k <= n
        BY <1>1, <2>1
      <3>2. Right(i + 1)
        BY <1>9, <3>1
      <3> HIDE DEF i
      <3>3. Right(i)
        BY <1>7, <3>1, <3>2
      <3>4. QED
        BY <3>3 DEF i
    <2>2. QED
      BY <2>1
  <1>10. n \in G
    <2> HIDE DEF G
    <2>1. QED
      BY <1>1, <1>8, <1>9, SetInduction
  <1>11. Right(1)
    <2> HIDE DEF Right, n
    <2>1. Right((n + 1) - n) /\ (n + 1) - n = 1
      BY <1>1, <1>10
    <2>2. QED
      BY <2>1
  <1>12. SumFunction(amounts) = Taken(1) /\ Taken(1) \in Nat
    <2>1. SumFunction(amounts) = Taken(1)
      BY <1>1 DEF SumFunction
    <2>2. IsFiniteSet(1..n)
      BY <1>1, FS_Interval
    <2>3. QED
      BY <1>1, <2>1, <2>2, SumInteger
  <1>13. QED
    BY <1>11, <1>12 DEF u

(***************************************************************************)
(* The order of the loop.  A removal moves the last stake, so a list that  *)
(* is walked from its end keeps the stakes before the index: each amount   *)
(* is taken out of the stake that the caller saw at that index, and is     *)
(* accepted exactly if it would be accepted alone.                         *)
(***************************************************************************)
KeepsEarlier(q, stakes, i) ==
    /\ q \in Seq(GoodStakes) /\ Len(q) <= Len(stakes)
    /\ \A j \in 1..Len(stakes) : j < i => j \in 1..Len(q) /\ q[j] = stakes[j]

LEMMA UnstakedKeepsEarlier ==
    ASSUME StakingAssumption, Scalars, NEW stakes \in Seq(GoodStakes), NEW q,
           NEW i \in Nat, i > 0, KeepsEarlier(q, stakes, i + 1),
           NEW amount \in Nat, CanUnstake(q, i, amount)
    PROVE  KeepsEarlier(Unstaked(q, i, amount), stakes, i)
  <1> DEFINE r == Unstaked(q, i, amount)
  <1>1. /\ q \in Seq(GoodStakes) /\ Len(q) \in Nat /\ Len(stakes) \in Nat
        /\ Len(q) <= Len(stakes) /\ i \in 1..Len(q)
    BY DEF KeepsEarlier, CanUnstake
  <1>2. r \in Seq(GoodStakes)
    BY <1>1, UnstakedIs
  <1>3. /\ Len(r) \in {Len(q), Len(q) - 1}
        /\ \A j \in 1..Len(q) : j < i => j \in 1..Len(r) /\ r[j] = q[j]
    <2>1. CASE amount = q[i].balance
      <3>1. r = Removed(q, i)
        BY <2>1 DEF Unstaked, RemoveStake, Removed
      <3>2. /\ Len(r) = Len(q) - 1
            /\ \A j \in 1..(Len(q) - 1) : r[j] = IF j = i THEN q[Len(q)] ELSE q[j]
        BY <1>1, <3>1, RemovedIs
      <3> HIDE DEF r
      <3>3. QED
        BY <1>1, <3>2
    <2>2. CASE amount # q[i].balance
      <3>1. r = [q EXCEPT ![i].balance = @ - amount]
        BY <2>2 DEF Unstaked
      <3>2. Len(r) = Len(q) /\ \A j \in 1..Len(q) : j # i => r[j] = q[j]
        BY <1>1, <3>1
      <3> HIDE DEF r
      <3>3. QED
        BY <1>1, <3>2
    <2>3. QED
      BY <2>1, <2>2
  <1> HIDE DEF r
  <1>4. ASSUME NEW j \in 1..Len(stakes), j < i PROVE j \in 1..Len(r) /\ r[j] = stakes[j]
    <2>1. j \in 1..Len(q) /\ q[j] = stakes[j]
      BY <1>1, <1>4 DEF KeepsEarlier
    <2>2. QED
      BY <1>3, <1>4, <2>1
  <1>5. QED
    BY <1>1, <1>2, <1>3, <1>4 DEF KeepsEarlier, r

(* Either way of stating the guards, the loop is not there yet before the  *)
(* index it is at.                                                         *)
LEMMA LoopKeepsEarlier ==
    ASSUME StakingAssumption, Scalars, NEW stakes \in Seq(GoodStakes),
           NEW amounts \in Seq(Nat),
           \A i \in DOMAIN amounts : amounts[i] > 0 =>
               \/ CanUnstake(Unstaking(stakes, amounts)[i + 1], i, amounts[i])
               \/ CanUnstake(stakes, i, amounts[i])
    PROVE  \A i \in DOMAIN amounts :
              KeepsEarlier(Unstaking(stakes, amounts)[i + 1], stakes, i + 1)
  <1> DEFINE n == Len(amounts)
             u == Unstaking(stakes, amounts)
             Right(i) == KeepsEarlier(u[i], stakes, i)
             G == {k \in Nat : k <= n => Right((n + 1) - k)}
  <1>1. n \in Nat /\ DOMAIN amounts = 1..n /\ \A i \in 1..n : amounts[i] \in Nat
    OBVIOUS
  <1>2. \A i \in 1..(n + 1) : u[i] = LoopStep(stakes, amounts, u, i)
    BY UnstakingIsLoop
  <1>3. \A i \in 1..n : amounts[i] > 0 =>
           CanUnstake(u[i + 1], i, amounts[i]) \/ CanUnstake(stakes, i, amounts[i])
    BY <1>1
  <1>4. Len(stakes) \in Nat
    OBVIOUS
  <1> HIDE DEF u
  <1>5. Right(n + 1)
    <2>1. u[n + 1] = stakes
      BY <1>1, <1>2 DEF LoopStep
    <2>2. QED
      BY <1>4, <2>1 DEF KeepsEarlier
  <1>6. ASSUME NEW i \in 1..n, Right(i + 1) PROVE Right(i)
    <2>1. i \in 1..(n + 1) /\ ~(i > n) /\ amounts[i] \in Nat /\ i \in Nat /\ i > 0
      BY <1>1
    <2>2. u[i] = LoopStep(stakes, amounts, u, i)
      BY <1>2, <2>1
    <2>3. KeepsEarlier(u[i + 1], stakes, i + 1)
      BY <1>6
    <2> HIDE DEF n
    <2>4. CASE amounts[i] = 0
      <3>1. u[i] = u[i + 1]
        BY <2>1, <2>2, <2>4 DEF LoopStep, n
      <3>2. \A j \in 1..Len(stakes) : j < i => j < i + 1
        BY <1>4, <2>1
      <3>3. QED
        BY <2>3, <3>1, <3>2 DEF KeepsEarlier
    <2>5. CASE amounts[i] > 0
      <3>1. CanUnstake(u[i + 1], i, amounts[i])
        <4>1. CASE CanUnstake(stakes, i, amounts[i])
          <5>1. i \in 1..Len(stakes) /\ i < i + 1
            BY <2>1, <4>1 DEF CanUnstake
          <5>2. i \in 1..Len(u[i + 1]) /\ u[i + 1][i] = stakes[i] /\ u[i + 1] \in Seq(GoodStakes)
            BY <2>3, <5>1 DEF KeepsEarlier
          <5>3. i \in DOMAIN u[i + 1]
            BY <5>2
          <5>4. QED
            BY <4>1, <5>2, <5>3 DEF CanUnstake
        <4>2. QED
          BY <1>3, <2>5, <4>1
      <3>2. u[i] = Unstaked(u[i + 1], i, amounts[i])
        BY <2>1, <2>2, <2>5, <3>1 DEF LoopStep, n
      <3>3. QED
        BY <2>1, <2>3, <3>1, <3>2, UnstakedKeepsEarlier
    <2>6. QED
      BY <2>1, <2>4, <2>5
  <1>7. 0 \in G
    <2>1. (n + 1) - 0 = n + 1
      BY <1>1
    <2>2. QED
      BY <1>5, <2>1
  <1>8. ASSUME NEW k \in Nat, k \in G PROVE k + 1 \in G
    <2> HIDE DEF Right, n
    <2>1. ASSUME k + 1 <= n PROVE Right((n + 1) - (k + 1))
      <3> DEFINE i == (n + 1) - (k + 1)
      <3>1. i \in 1..n /\ i + 1 = (n + 1) - k /\ k <= n
        BY <1>1, <2>1
      <3>2. Right(i + 1)
        BY <1>8, <3>1
      <3> HIDE DEF i
      <3>3. Right(i)
        BY <1>6, <3>1, <3>2
      <3>4. QED
        BY <3>3 DEF i
    <2>2. QED
      BY <2>1
  <1>9. Nat \subseteq G
    <2> HIDE DEF G
    <2>1. QED
      BY <1>7, <1>8, SetInduction
  <1>10. ASSUME NEW i \in 1..n PROVE Right(i + 1)
    <2> HIDE DEF Right, n
    <2>1. n - i \in Nat /\ n - i <= n /\ (n + 1) - (n - i) = i + 1
      BY <1>1
    <2>2. QED
      BY <1>9, <2>1
  <1>11. QED
    BY <1>1, <1>10 DEF u

-----------------------------------------------------------------------------
(* Paying in. *)

(* The time stamp of an extended stake moves forward by d and not past     *)
(* now: of the new total m, at most what vested of the old one before has  *)
(* vested, and less than one unit of time more.                            *)
LEMMA ExtensionArithmetic ==
    ASSUME NEW i \in Nat, NEW a \in Nat, a > 0, NEW e \in Nat, NEW m, m = i + a,
           NEW d, d = (a * e) \div m
    PROVE  /\ d \in Nat /\ d <= e
           /\ i * e <= m * (e - d)
           /\ m * (e - d) <= i * e + m
  <1>1. m \in Nat /\ m > 0 /\ a * e \in Nat /\ i * e \in Nat /\ a <= m
    OBVIOUS
  <1>2. ASSUME NEW x \in Nat
        PROVE  x \div m \in Nat /\ m * (x \div m) <= x /\ x < m * (x \div m) + m
    BY <1>1
  <1>3. d \in Nat /\ m * d <= a * e /\ a * e < m * d + m
    <2> DEFINE x == a * e
    <2>1. x \in Nat /\ d = x \div m
      BY <1>1
    <2> HIDE DEF x
    <2>2. d \in Nat /\ m * d <= x /\ x < m * d + m
      BY <1>2, <2>1
    <2>3. QED
      BY <2>2 DEF x
  <1>4. m * e = i * e + a * e /\ m * e \in Nat
    BY <1>1
  <1>5. d <= e
    <2>1. ASSUME d > e PROVE FALSE
      <3>1. d >= e + 1
        BY <1>3, <2>1
      <3>2. m * d >= m * (e + 1)
        BY <1>1, <1>3, <3>1
      <3>3. m * (e + 1) = m * e + m
        BY <1>1
      <3>4. m * d \in Nat
        BY <1>1, <1>3
      <3>5. QED
        BY <1>1, <1>3, <1>4, <3>2, <3>3, <3>4
    <2>2. QED
      BY <1>3, <2>1
  <1>6. m * (e - d) = m * e - m * d /\ m * d \in Nat
    BY <1>1, <1>3
  <1>7. i * e <= m * (e - d)
    BY <1>1, <1>3, <1>4, <1>6
  <1>8. m * (e - d) <= i * e + m
    BY <1>1, <1>3, <1>4, <1>6
  <1>9. QED
    BY <1>3, <1>5, <1>7, <1>8

(* A division rounds down, and a larger amount gives no less. *)
LEMMA DivisionGrows ==
    ASSUME NEW x \in Nat, NEW y \in Nat, x <= y, NEW d \in Nat, d > 0
    PROVE  /\ x \div d \in Nat /\ x \div d <= y \div d
           /\ (y \div d) * d <= y
  <1>1. /\ x \div d \in Nat /\ y \div d \in Nat
        /\ d * (x \div d) <= x /\ x < d * (x \div d) + d
        /\ d * (y \div d) <= y /\ y < d * (y \div d) + d
    OBVIOUS
  <1> DEFINE p == x \div d
             q == y \div d
  <1>2. p \in Nat /\ q \in Nat /\ d * p <= x /\ d * q <= y /\ y < d * q + d
    BY <1>1
  <1> HIDE DEF p, q
  <1>3. p <= q
    <2>1. ASSUME p > q PROVE FALSE
      <3>1. d * p >= d * (q + 1)
        BY <1>2, <2>1
      <3>2. d * (q + 1) = d * q + d /\ d * p \in Nat /\ d * q \in Nat
        BY <1>2
      <3>3. QED
        BY <1>2, <3>1, <3>2
    <2>2. QED
      BY <1>2, <2>1
  <1>4. q * d <= y
    BY <1>2
  <1>5. QED
    BY <1>2, <1>3, <1>4 DEF p, q

LEMMA NewStakeIsGood ==
    ASSUME StakingAssumption, Scalars, NEW amount \in Nat, amount > 0
    PROVE  NewStake(amount) \in GoodStakes /\ NewStake(amount).balance = amount
  <1> DEFINE s == NewStake(amount)
  <1>1. /\ s \in StakeType /\ s.duration = duration /\ s.initial = amount
        /\ s.balance = amount /\ s.timestamp = now /\ now \in Nat /\ duration \in Nat
    BY DEF NewStake, StakeType, Scalars, StakingAssumption
  <1> HIDE DEF s
  <1>2. Withdrawn(s) = 0 /\ Elapsed(s) = 0
    BY <1>1 DEF Withdrawn, Elapsed
  <1>3. VestedDefined(s) => Withdrawn(s) <= vested(s)
    <2>1. SUFFICES ASSUME VestedDefined(s) PROVE vested(s) = 0
      BY <1>2
    <2>2. s.duration > 0 /\ ~(Elapsed(s) > duration)
      BY <1>1, <1>2, <2>1 DEF VestedDefined
    <2>3. s.initial * Elapsed(s) = 0
      BY <1>1, <1>2
    <2>4. vested(s) = 0 \div s.duration
      BY <2>2, <2>3 DEF vested
    <2>5. ASSUME NEW d \in Nat, d > 0 PROVE 0 \div d = 0
      BY <2>5
    <2>6. QED
      BY <1>1, <2>2, <2>4, <2>5
  <1>4. GoodStake(s)
    BY <1>1, <1>3 DEF GoodStake
  <1>5. QED
    BY <1>1, <1>4 DEF GoodStakes, s

(* A stake that has not vested completely is extended: it stays good, and  *)
(* while there is one schedule it has vested no less, and for the new      *)
(* total at most one unit of time more.                                    *)
LEMMA ExtendedStakeIs ==
    ASSUME StakingAssumption, Scalars, NEW s \in GoodStakes, NEW amount \in Nat, amount > 0,
           VestedDefined(s), ~FullyVested(s)
    PROVE  LET t == ExtendedStake(s, amount)
           IN  /\ t \in GoodStakes /\ t.balance = s.balance + amount
               /\ Withdrawn(t) = Withdrawn(s)
               /\ ~rescheduled =>
                     /\ vested(s) <= vested(t)
                     /\ vested(t) * t.duration <= s.initial * Elapsed(s) + t.initial
  <1> DEFINE t == ExtendedStake(s, amount)
             e == Elapsed(s)
             m == s.initial + amount
             d == (amount * e) \div m
  <1>1. /\ s.duration \in Nat /\ s.cliff \in Nat /\ s.initial \in Nat /\ s.balance \in Nat
        /\ s.timestamp \in Nat /\ now \in Nat /\ e \in Nat /\ s.timestamp <= now
        /\ 0 < s.balance /\ s.balance <= s.initial /\ e = now - s.timestamp
        /\ duration \in Nat /\ cliff \in Nat
    BY GoodStakeTypes DEF GoodStakes, GoodStake, Elapsed, Scalars
  <1>2. /\ d \in Nat /\ d <= e
        /\ s.initial * e <= m * (e - d)
        /\ m * (e - d) <= s.initial * e + m
    <2> HIDE DEF e
    <2>1. QED
      BY <1>1, ExtensionArithmetic
  <1>3. /\ t.duration = duration /\ t.cliff = cliff /\ t.initial = m
        /\ t.balance = s.balance + amount /\ t.timestamp = s.timestamp + d
    BY DEF ExtendedStake, ExtendedTimestamp
  <1>4. t \in StakeType
    <2>1. m \in Nat /\ s.balance + amount \in Nat /\ s.timestamp + d \in Nat
      BY <1>1, <1>2
    <2>2. t = [duration |-> duration, cliff |-> cliff, initial |-> m,
               balance |-> s.balance + amount, timestamp |-> s.timestamp + d]
      BY DEF ExtendedStake, ExtendedTimestamp
    <2> HIDE DEF t, m, d
    <2>3. QED
      BY <1>1, <2>1, <2>2 DEF StakeType
  <1>5. e <= duration
    BY <1>1 DEF FullyVested, vested
  <1> HIDE DEF t, d
  <1>6. Elapsed(t) = e - d /\ Elapsed(t) \in Nat /\ Elapsed(t) <= duration
    BY <1>1, <1>2, <1>3, <1>5 DEF Elapsed
  <1>7. Withdrawn(t) = Withdrawn(s)
    BY <1>1, <1>3 DEF Withdrawn
  <1>8. ASSUME ~rescheduled
        PROVE  /\ vested(s) <= vested(t)
               /\ vested(t) * t.duration <= s.initial * e + m
               /\ t.duration = duration
               /\ Withdrawn(t) <= vested(t)
    <2>1. s.duration = duration /\ duration > 0 /\ Withdrawn(s) <= vested(s)
      BY <1>1, <1>5, <1>8 DEF GoodStakes, GoodStake, VestedDefined
    <2> DEFINE x == s.initial * e
               y == m * (e - d)
    <2>2. x \in Nat /\ y \in Nat /\ x <= y /\ y <= x + m
      BY <1>1, <1>2
    <2>3. vested(s) = x \div duration
      BY <1>5, <1>1, <2>1 DEF vested
    <2>4. vested(t) = y \div duration
      BY <1>1, <1>3, <1>6 DEF vested
    <2>5. m \in Nat
      BY <1>1
    <2> HIDE DEF x, y, m
    <2>6. x \div duration \in Nat /\ y \div duration \in Nat
          /\ x \div duration <= y \div duration /\ (y \div duration) * duration <= y
      BY <1>1, <2>1, <2>2, DivisionGrows
    <2>7. vested(s) <= vested(t) /\ vested(s) \in Nat /\ vested(t) \in Nat
      BY <2>3, <2>4, <2>6
    <2>8. (y \div duration) * duration \in Nat
      BY <1>1, <2>6
    <2>9. vested(t) * t.duration <= x + m
      BY <1>3, <2>2, <2>4, <2>5, <2>6, <2>8
    <2>10. Withdrawn(s) \in Nat
      BY GoodStakeTypes
    <2>11. Withdrawn(t) <= vested(t)
      BY <1>7, <2>1, <2>7, <2>10
    <2>12. QED
      BY <1>3, <2>7, <2>9, <2>11 DEF x
  <1>9. GoodStake(t)
    <2>1. 0 < t.balance /\ t.balance <= t.initial /\ t.timestamp <= now
      BY <1>1, <1>2, <1>3
    <2>2. QED
      BY <1>8, <2>1 DEF GoodStake
  <1>10. t \in GoodStakes
    BY <1>4, <1>9 DEF GoodStakes
  <1>11. QED
    BY <1>3, <1>7, <1>8, <1>10 DEF t

-----------------------------------------------------------------------------
(* The steps. *)

(* One list is replaced, and the contract's tokens follow its balances.    *)
LEMMA TotalFollowsList ==
    ASSUME StakingAssumption, IInv, NEW a \in Account, NEW q \in Seq(StakeType),
           allStakes' = [allStakes EXCEPT ![a] = q],
           balance'[Contract] = balance[Contract] + (SumBalances(q) - SumBalances(allStakes[a]))
    PROVE  TotalSupplyIsSumOfBalances'
  <1> DEFINE f == [b \in Account |-> balanceOf(b)]
             h == [b \in Account |-> SumBalances(allStakes'[b])]
  <1>1. /\ IsFiniteSet(Account) /\ allStakes \in [Account -> Seq(GoodStakes)]
        /\ balance[Contract] = SumFunction(f)
    BY DEF IInv, StakingAssumption, TotalSupplyIsSumOfBalances
  <1>2. ASSUME NEW b \in Account
        PROVE  f[b] = SumBalances(allStakes[b]) /\ f[b] \in Int /\ h[b] \in Int
    <2>1. f[b] = SumBalances(allStakes[b])
      BY DEF balanceOf, SumBalances, Balances
    <2>2. allStakes[b] \in Seq(StakeType) /\ allStakes'[b] \in Seq(StakeType)
      BY <1>1, ListOfGoodStakes
    <2>3. SumBalances(allStakes[b]) \in Nat /\ SumBalances(allStakes'[b]) \in Nat
      BY <2>2, BalancesIs
    <2>4. QED
      BY <2>1, <2>3
  <1>3. h[a] = SumBalances(q) /\ \A b \in Account \ {a} : h[b] = f[b]
    BY <1>1, <1>2
  <1>4. DOMAIN f = Account /\ DOMAIN h = Account
    OBVIOUS
  <1>5. TotalSupplyIsSumOfBalances' <=> balance'[Contract] = SumFunction(h)
    BY DEF TotalSupplyIsSumOfBalances, balanceOf, SumBalances, Balances
  <1> HIDE DEF f, h
  <1>6. SumFunctionOnSet(h, Account) = SumFunctionOnSet(f, Account) + (h[a] - f[a])
    <2>1. \A b \in Account : f[b] \in Int /\ h[b] \in Int
      BY <1>2
    <2>2. IsFiniteSet(Account) /\ \A b \in Account \ {a} : h[b] = f[b]
      BY <1>1, <1>3
    <2>3. QED
      BY <2>1, <2>2, SumUpdate
  <1>7. QED
    BY <1>1, <1>2, <1>3, <1>4, <1>5, <1>6 DEF SumFunction

(* While time, schedule and history stay, so does what a good stake is.    *)
LEMMA GoodStakesStay ==
    ASSUME UNCHANGED <<duration, cliff, now, rescheduled>>
    PROVE  GoodStakes' = GoodStakes /\ (Scalars => Scalars')
  BY DEF GoodStakes, GoodStake, VestedDefined, Withdrawn, vested, Elapsed, Scalars

LEMMA PayInIs ==
    ASSUME StakingAssumption, IInv, NEW caller \in Account, NEW amount \in Nat,
           PayIn(caller, amount)
    PROVE  /\ balance' \in [Account \union {Contract} -> Nat]
           /\ balance[Contract] \in Nat
           /\ balance'[Contract] = balance[Contract] + amount
  <1>1. /\ balance \in [Account \union {Contract} -> Nat] /\ caller # Contract
        /\ balance[caller] >= amount
        /\ balance' = Move(balance, caller, Contract, amount)
    BY DEF IInv, StakingAssumption, PayIn
  <1> DEFINE b == Debit(balance, caller, amount)
  <1>2. b \in [Account \union {Contract} -> Nat] /\ b[Contract] = balance[Contract]
    BY <1>1 DEF Debit
  <1>3. balance' = [b EXCEPT ![Contract] = @ + amount]
    BY <1>1 DEF Move, Credit
  <1> HIDE DEF b
  <1>4. QED
    BY <1>1, <1>2, <1>3

(* What pays in changes one list by what was paid. *)
LEMMA DepositKeepsInvariant ==
    ASSUME StakingAssumption, IInv, NEW caller \in Account, NEW amount \in Nat,
           PayIn(caller, amount), NEW a \in Account, NEW q \in Seq(GoodStakes),
           allStakes' = [allStakes EXCEPT ![a] = q],
           SumBalances(q) = SumBalances(allStakes[a]) + amount,
           UNCHANGED <<duration, cliff, now, rescheduled>>
    PROVE  IInv'
  <1>1. Scalars /\ allStakes \in [Account -> Seq(GoodStakes)]
    BY DEF IInv
  <1>2. GoodStakes' = GoodStakes /\ Scalars'
    BY <1>1, GoodStakesStay
  <1>3. allStakes' \in [Account -> Seq(GoodStakes')]
    BY <1>1, <1>2
  <1>4. /\ balance' \in [Account \union {Contract} -> Nat]
        /\ balance[Contract] \in Nat
        /\ balance'[Contract] = balance[Contract] + amount
    BY PayInIs
  <1>5. SumBalances(allStakes[a]) \in Nat
    BY <1>1, ListOfGoodStakes, BalancesIs
  <1>6. q \in Seq(StakeType)
    BY ListOfGoodStakes
  <1>7. balance'[Contract] = balance[Contract] + (SumBalances(q) - SumBalances(allStakes[a]))
    BY <1>4, <1>5
  <1>8. TotalSupplyIsSumOfBalances'
    BY <1>6, <1>7, TotalFollowsList
  <1>9. QED
    BY <1>2, <1>3, <1>4, <1>8 DEF IInv

LEMMA StakingKeepsInvariant ==
    ASSUME StakingAssumption, IInv, NEW caller \in Account, NEW account \in Account,
           NEW amount \in Amount, stakeFor(caller, account, amount)
    PROVE  IInv'
  <1> DEFINE old == allStakes[account]
             s == NewStake(amount)
  <1>1. /\ amount \in Nat /\ amount > 0 /\ PayIn(caller, amount)
        /\ allStakes' = [allStakes EXCEPT ![account] = Append(old, s)]
        /\ UNCHANGED <<duration, cliff, now, rescheduled>>
    BY DEF stakeFor, StakingAssumption
  <1>2. Scalars /\ old \in Seq(GoodStakes)
    BY DEF IInv
  <1>3. s \in GoodStakes /\ s.balance = amount
    BY <1>1, <1>2, NewStakeIsGood
  <1> HIDE DEF s
  <1>4. old \in Seq(StakeType) /\ s \in StakeType
    BY <1>2, <1>3, ListOfGoodStakes DEF GoodStakes
  <1>5. SumBalances(Append(old, s)) = SumBalances(old) + amount
    BY <1>3, <1>4, BalancesOfAppended
  <1>6. Append(old, s) \in Seq(GoodStakes)
    BY <1>2, <1>3
  <1>7. QED
    BY <1>1, <1>5, <1>6, DepositKeepsInvariant

(* An extension replaces a stake that has not vested completely; otherwise *)
(* it is a new stake.                                                      *)
LEMMA ExtensionIs ==
    ASSUME StakingAssumption, IInv, NEW caller \in Account, NEW account \in Account,
           NEW amount \in Amount, NEW index, extendFor(caller, index, account, amount),
           ~stakeFor(caller, account, amount)
    PROVE  LET s == allStakes[account][index]
           IN  /\ amount \in Nat /\ amount > 0 /\ index \in DOMAIN allStakes[account]
               /\ s \in GoodStakes /\ VestedDefined(s) /\ ~FullyVested(s)
               /\ allStakes' = [allStakes EXCEPT ![account][index] = ExtendedStake(s, amount)]
               /\ PayIn(caller, amount)
               /\ UNCHANGED <<duration, cliff, now, rescheduled>>
  <1>1. allStakes[account] \in Seq(GoodStakes)
    BY DEF IInv
  <1>2. index \in DOMAIN allStakes[account] /\ amount \in Nat
    BY DEF extendFor, StakingAssumption
  <1>3. allStakes[account][index] \in GoodStakes
    BY <1>1, <1>2
  <1>4. QED
    BY <1>2, <1>3 DEF extendFor

LEMMA ExtendingKeepsInvariant ==
    ASSUME StakingAssumption, IInv, NEW caller \in Account, NEW account \in Account,
           NEW amount \in Amount, NEW index, extendFor(caller, index, account, amount)
    PROVE  IInv'
  <1>1. CASE stakeFor(caller, account, amount)
    BY <1>1, StakingKeepsInvariant
  <1>2. CASE ~stakeFor(caller, account, amount)
    <2> DEFINE old == allStakes[account]
               s == old[index]
               t == ExtendedStake(s, amount)
    <2>1. /\ amount \in Nat /\ amount > 0 /\ index \in DOMAIN old
          /\ s \in GoodStakes /\ VestedDefined(s) /\ ~FullyVested(s)
          /\ allStakes' = [allStakes EXCEPT ![account][index] = t]
          /\ PayIn(caller, amount)
          /\ UNCHANGED <<duration, cliff, now, rescheduled>>
      BY <1>2, ExtensionIs
    <2>2. Scalars /\ old \in Seq(GoodStakes) /\ allStakes \in [Account -> Seq(GoodStakes)]
      BY DEF IInv
    <2>3. t \in GoodStakes /\ t.balance = s.balance + amount
      <3> HIDE DEF s
      <3>1. QED
        BY <2>1, <2>2, ExtendedStakeIs
    <2> HIDE DEF t
    <2>4. old \in Seq(StakeType) /\ t \in StakeType /\ s.balance \in Nat
      BY <2>1, <2>2, <2>3, ListOfGoodStakes, GoodStakeTypes DEF GoodStakes
    <2> DEFINE q == [old EXCEPT ![index] = t]
    <2>5. allStakes' = [allStakes EXCEPT ![account] = q]
      BY <2>1, <2>2
    <2>6. q \in Seq(GoodStakes)
      BY <2>1, <2>2, <2>3
    <2>7. SumBalances(q) = SumBalances(old) + (t.balance - s.balance)
      BY <2>1, <2>4, BalancesOfReplaced
    <2>8. SumBalances(old) \in Nat
      BY <2>4, BalancesIs
    <2> HIDE DEF q
    <2>9. SumBalances(q) = SumBalances(old) + amount
      BY <2>1, <2>3, <2>4, <2>7, <2>8
    <2>10. QED
      BY <2>1, <2>5, <2>6, <2>9, DepositKeepsInvariant
  <1>3. QED
    BY <1>1, <1>2

LEMMA UnstakingKeepsInvariant ==
    ASSUME StakingAssumption, IInv, NEW caller \in Account, NEW amounts \in Seq(Nat),
           unstake(caller, amounts)
    PROVE  IInv' /\ balance'[Contract] <= balance[Contract]
  <1> DEFINE old == allStakes[caller]
             q == Unstaking(old, amounts)[1]
             total == SumFunction(amounts)
  <1>1. /\ Scalars /\ old \in Seq(GoodStakes) /\ allStakes \in [Account -> Seq(GoodStakes)]
        /\ balance \in [Account \union {Contract} -> Nat] /\ caller # Contract
    BY DEF IInv, StakingAssumption
  <1>2. /\ \A i \in DOMAIN amounts : amounts[i] > 0 =>
               CanUnstake(Unstaking(old, amounts)[i + 1], i, amounts[i])
        /\ balance[Contract] >= total
        /\ allStakes' = [allStakes EXCEPT ![caller] = q]
        /\ balance' = Move(balance, Contract, caller, total)
        /\ UNCHANGED <<duration, cliff, now, rescheduled>>
    BY DEF unstake, CanUnstakeAll
  <1>3. /\ q \in Seq(GoodStakes) /\ total \in Nat
        /\ SumBalances(q) = SumBalances(old) - total
    BY <1>1, <1>2, UnstakingIs
  <1> HIDE DEF q, total
  <1>4. q \in Seq(StakeType) /\ SumBalances(old) \in Nat
    BY <1>1, <1>3, ListOfGoodStakes, BalancesIs
  <1>5. /\ balance' \in [Account \union {Contract} -> Nat]
        /\ balance'[Contract] = balance[Contract] - total /\ balance[Contract] \in Nat
    <2> DEFINE b == Debit(balance, Contract, total)
    <2>1. b \in [Account \union {Contract} -> Nat] /\ b[Contract] = balance[Contract] - total
      BY <1>1, <1>2, <1>3 DEF Debit
    <2>2. balance' = [b EXCEPT ![caller] = @ + total]
      BY <1>2 DEF Move, Credit
    <2> HIDE DEF b
    <2>3. QED
      BY <1>1, <1>3, <2>1, <2>2
  <1>6. balance'[Contract] = balance[Contract] + (SumBalances(q) - SumBalances(old))
    BY <1>3, <1>4, <1>5
  <1>7. TotalSupplyIsSumOfBalances'
    BY <1>2, <1>4, <1>6, TotalFollowsList
  <1>8. GoodStakes' = GoodStakes /\ Scalars'
    BY <1>1, <1>2, GoodStakesStay
  <1>9. allStakes' \in [Account -> Seq(GoodStakes')]
    BY <1>1, <1>2, <1>3, <1>8
  <1>10. balance'[Contract] <= balance[Contract]
    BY <1>3, <1>5
  <1>11. IInv'
    BY <1>5, <1>7, <1>8, <1>9 DEF IInv
  <1>12. QED
    BY <1>10, <1>11

(* A new schedule asks less of a stake, and time lets it vest.             *)
LEMMA QuietStepKeepsInvariant ==
    ASSUME StakingAssumption, IInv, Scalars', UNCHANGED <<allStakes, balance>>,
           GoodStakes \subseteq GoodStakes'
    PROVE  IInv'
  <1>1. /\ balance \in [Account \union {Contract} -> Nat]
        /\ allStakes \in [Account -> Seq(GoodStakes)]
        /\ TotalSupplyIsSumOfBalances
    BY DEF IInv
  <1>2. TotalSupplyIsSumOfBalances'
    BY <1>1 DEF TotalSupplyIsSumOfBalances, balanceOf
  <1>3. allStakes' \in [Account -> Seq(GoodStakes')]
    <2>1. ASSUME NEW a \in Account PROVE allStakes[a] \in Seq(GoodStakes')
      BY <1>1
    <2>2. QED
      BY <1>1, <2>1
  <1>4. QED
    BY <1>1, <1>2, <1>3 DEF IInv

LEMMA ReschedulingKeepsInvariant ==
    ASSUME StakingAssumption, IInv, NEW caller \in Account, NEW s \in Schedule,
           setVesting(caller, s[1], s[2])
    PROVE  IInv'
  <1>1. Scalars /\ s[1] \in Nat /\ s[2] \in Nat
    BY DEF IInv, StakingAssumption
  <1>2. Scalars'
    BY <1>1 DEF setVesting, Scalars
  <1>3. ASSUME NEW x \in GoodStakes PROVE x \in GoodStakes'
    <2>1. x \in StakeType /\ GoodStake(x) /\ rescheduled \in BOOLEAN
      BY <1>1 DEF GoodStakes, Scalars
    <2>2. CASE rescheduled'
      BY <2>1, <2>2 DEF GoodStakes, GoodStake, setVesting
    <2>3. CASE ~rescheduled'
      <3>1. UNCHANGED <<duration, cliff, now, rescheduled>>
        BY <2>1, <2>3 DEF setVesting
      <3>2. QED
        BY <3>1, GoodStakesStay
    <2>4. QED
      BY <2>2, <2>3
  <1>4. QED
    BY <1>2, <1>3, QuietStepKeepsInvariant DEF setVesting

LEMMA TickKeepsInvariant ==
    ASSUME StakingAssumption, IInv, Tick PROVE IInv'
  <1>1. /\ Scalars /\ now \in Nat /\ now' = now + 1 /\ now < MaxTime
        /\ UNCHANGED <<duration, cliff, allStakes, balance, rescheduled>>
    BY DEF IInv, Tick, Scalars, StakingAssumption
  <1>2. Scalars'
    BY <1>1 DEF Scalars, StakingAssumption
  <1>3. ASSUME NEW s \in GoodStakes PROVE s \in GoodStakes'
    <2>1. /\ s \in StakeType /\ s.duration \in Nat /\ s.initial \in Nat /\ s.balance \in Nat
          /\ s.timestamp \in Nat /\ Elapsed(s) \in Nat /\ duration \in Nat
          /\ 0 < s.balance /\ s.balance <= s.initial /\ s.timestamp <= now
      BY <1>1, GoodStakeTypes DEF GoodStakes, GoodStake, Scalars
    <2>2. s.timestamp <= now' /\ Elapsed(s)' = Elapsed(s) + 1
      BY <1>1, <2>1 DEF Elapsed
    <2>3. Withdrawn(s)' = Withdrawn(s) /\ Withdrawn(s) \in Nat /\ Withdrawn(s) <= s.initial
      BY <2>1 DEF Withdrawn
    <2>4. ASSUME ~rescheduled', VestedDefined(s)' PROVE s.duration = duration' /\ (Withdrawn(s) <= vested(s))'
      <3>1. s.duration = duration /\ (VestedDefined(s) => Withdrawn(s) <= vested(s))
        BY <1>1, <2>4 DEF GoodStakes, GoodStake
      <3>2. CASE Elapsed(s) + 1 > duration
        <4>1. vested(s)' = s.initial
          BY <1>1, <2>2, <3>2 DEF vested
        <4>2. QED
          BY <1>1, <2>3, <3>1, <4>1
      <3>3. CASE ~(Elapsed(s) + 1 > duration)
        <4>1. duration > 0 /\ ~(Elapsed(s) > duration)
          BY <2>1, <3>3
        <4> DEFINE x == s.initial * Elapsed(s)
                   y == s.initial * (Elapsed(s) + 1)
        <4>2. vested(s) = x \div duration /\ Withdrawn(s) <= vested(s)
          BY <3>1, <4>1 DEF vested, VestedDefined
        <4>3. vested(s)' = y \div duration
          BY <1>1, <2>2, <3>1, <3>3 DEF vested
        <4>4. x \in Nat /\ y \in Nat /\ x <= y
          BY <2>1
        <4> HIDE DEF x, y
        <4>5. x \div duration \in Nat /\ y \div duration \in Nat /\ x \div duration <= y \div duration
          BY <2>1, <4>1, <4>4, DivisionGrows
        <4>6. QED
          BY <1>1, <2>3, <3>1, <4>2, <4>3, <4>5
      <3>4. QED
        BY <3>2, <3>3
    <2>5. ~rescheduled' => s.duration = duration'
      BY <1>1 DEF GoodStakes, GoodStake
    <2>6. GoodStake(s)'
      BY <2>1, <2>2, <2>4, <2>5 DEF GoodStake
    <2>7. QED
      BY <2>1, <2>6 DEF GoodStakes
  <1>4. QED
    BY <1>1, <1>2, <1>3, QuietStepKeepsInvariant

LEMMA InitIsGood == ASSUME StakingAssumption, Init PROVE IInv
  <1>1. Scalars
    <2>1. PICK s \in Schedule : duration = s[1] /\ cliff = s[2]
      BY DEF Init
    <2>2. s[1] \in Nat /\ s[2] \in Nat
      BY DEF StakingAssumption
    <2>3. now \in 0..MaxTime
      BY DEF Init, StakingAssumption
    <2>4. rescheduled \in BOOLEAN
      BY DEF Init
    <2>5. QED
      BY <2>1, <2>2, <2>3, <2>4 DEF Scalars
  <1>2. balance \in [Account \union {Contract} -> Nat] /\ balance[Contract] = 0
    BY DEF Init, StakingAssumption
  <1>3. allStakes \in [Account -> Seq(GoodStakes)] /\ \A a \in Account : allStakes[a] = <<>>
    BY DEF Init
  <1>4. TotalSupplyIsSumOfBalances
    <2> DEFINE f == [a \in Account |-> balanceOf(a)]
    <2>1. ASSUME NEW a \in Account PROVE f[a] = 0
      <3>1. DOMAIN [i \in DOMAIN allStakes[a] |-> allStakes[a][i].balance] = {}
        BY <1>3
      <3>2. QED
        BY <3>1, SumEmpty DEF balanceOf, SumFunction
    <2>2. IsFiniteSet(Account) /\ DOMAIN f = Account
      BY DEF StakingAssumption
    <2> HIDE DEF f
    <2>3. SumFunctionOnSet(f, Account) = 0
      BY <2>1, <2>2, SumOfZeros
    <2>4. QED
      BY <1>2, <2>2, <2>3 DEF TotalSupplyIsSumOfBalances, SumFunction, f
  <1>5. QED
    BY <1>1, <1>2, <1>3, <1>4 DEF IInv

(* The arguments of unstake are sequences of natural numbers.              *)
LEMMA AmountsAreNatural ==
    ASSUME StakingAssumption, NEW amounts \in BoundedSeq(Amount \union {0}, MaxStakes)
    PROVE  amounts \in Seq(Nat)
  <1>1. PICK n \in Nat : amounts \in [1..n -> Amount \union {0}]
    BY DEF BoundedSeq, SeqOf, StakingAssumption
  <1>2. amounts \in [1..n -> Nat]
    <2>1. Amount \union {0} \subseteq Nat
      BY DEF StakingAssumption
    <2>2. \A i \in 1..n : amounts[i] \in Amount \union {0}
      BY <1>1
    <2>3. QED
      BY <1>1, <2>1, <2>2
  <1>3. QED
    BY <1>1, <1>2

LEMMA StepKeepsInvariant ==
    ASSUME StakingAssumption, IInv, [Next]_vars PROVE IInv'
  <1>1. ASSUME NEW caller \in Account, NEW s \in Schedule, setVesting(caller, s[1], s[2])
        PROVE  IInv'
    BY <1>1, ReschedulingKeepsInvariant
  <1>2. ASSUME NEW caller \in Account, NEW amount \in Amount, NEW account \in Account,
               stakeFor(caller, account, amount)
        PROVE  IInv'
    BY <1>2, StakingKeepsInvariant
  <1>3. ASSUME NEW caller \in Account, NEW amount \in Amount, NEW account \in Account,
               NEW index \in 1..MaxStakes, extendFor(caller, index, account, amount)
        PROVE  IInv'
    BY <1>3, ExtendingKeepsInvariant
  <1>4. ASSUME NEW caller \in Account,
               NEW amounts \in BoundedSeq(Amount \union {0}, MaxStakes), unstake(caller, amounts)
        PROVE  IInv'
    BY <1>4, AmountsAreNatural, UnstakingKeepsInvariant
  <1>5. CASE Tick
    BY <1>5, TickKeepsInvariant
  <1>6. CASE UNCHANGED vars
    <2>1. UNCHANGED <<duration, cliff, now, rescheduled, allStakes, balance>>
      BY <1>6 DEF vars
    <2>2. Scalars' /\ GoodStakes' = GoodStakes
      BY <2>1, GoodStakesStay DEF IInv
    <2>3. QED
      BY <2>1, <2>2, QuietStepKeepsInvariant
  <1>7. QED
    BY <1>1, <1>2, <1>3, <1>4, <1>5, <1>6 DEF Next, stake, extend

LEMMA AlwaysGood == Spec => []IInv
  <1>1. Init => IInv
    BY StakingAssumption, InitIsGood
  <1>2. IInv /\ [Next]_vars => IInv'
    BY StakingAssumption, StepKeepsInvariant
  <1>3. QED
    BY <1>1, <1>2, PTL DEF Spec

(* Every list holds stakes of the declared type, each of which still holds *)
(* tokens, no more than were put in, and started in the past.              *)
THEOREM StakesAreWellFormed == Spec => [](TypeOK /\ StakesWellFormed)
  <1>1. IInv => TypeOK /\ StakesWellFormed
    BY StakingAssumption, InvariantImplies
  <1>2. QED
    BY <1>1, AlwaysGood, PTL

(* Whatever is staked, extended, unstaked in one call or moved in a list,  *)
(* the contract holds exactly the sum of the balances of all accounts.     *)
THEOREM SupplyIsSum == Spec => []TotalSupplyIsSumOfBalances
  <1>1. IInv => TotalSupplyIsSumOfBalances
    BY DEF IInv
  <1>2. QED
    BY <1>1, AlwaysGood, PTL

(* As long as the schedule is not replaced nothing is withdrawn of a stake *)
(* before it is vested, by any sequence of calls of any accounts.          *)
THEOREM NothingLeavesUnvested == Spec => []WithdrawnIsVested
  <1>1. IInv => WithdrawnIsVested
    BY StakingAssumption, InvariantImplies
  <1>2. QED
    BY <1>1, AlwaysGood, PTL

(* The types alone. *)
THEOREM StakingTypes == Spec => []TypeOK
  BY StakesAreWellFormed, PTL

(* A batch is accepted if and only if each of its withdrawals would be     *)
(* accepted alone, from the stakes as they are before the call: neither    *)
(* the stakes that the batch removes nor the contract's tokens stand in    *)
(* the way of the others.                                                  *)
BatchIsPartByPart ==
    \A caller \in Account : \A amounts \in Seq(Nat) :
        CanUnstakeAll(caller, amounts) <=>
            \A i \in DOMAIN amounts :
                amounts[i] > 0 => CanUnstake(allStakes[caller], i, amounts[i])

(* The contract always has what an account's stakes hold. *)
LEMMA ContractCoversAccount ==
    ASSUME StakingAssumption, IInv, NEW a \in Account
    PROVE  SumBalances(allStakes[a]) <= balance[Contract]
  <1> DEFINE f == [b \in Account |-> balanceOf(b)]
  <1>1. IsFiniteSet(Account) /\ balance[Contract] = SumFunction(f)
    BY DEF IInv, StakingAssumption, TotalSupplyIsSumOfBalances
  <1>2. ASSUME NEW b \in Account PROVE f[b] = SumBalances(allStakes[b]) /\ f[b] \in Nat
    <2>1. f[b] = SumBalances(allStakes[b])
      BY DEF balanceOf, SumBalances, Balances
    <2>2. allStakes[b] \in Seq(StakeType)
      BY ListOfGoodStakes DEF IInv
    <2>3. QED
      BY <2>1, <2>2, BalancesIs
  <1>3. DOMAIN f = Account
    OBVIOUS
  <1> HIDE DEF f
  <1>4. f[a] <= SumFunctionOnSet(f, Account)
    BY <1>1, <1>2, SumBounds
  <1>5. QED
    BY <1>1, <1>2, <1>3, <1>4 DEF SumFunction

LEMMA InvariantCoversBatches == ASSUME StakingAssumption, IInv PROVE BatchIsPartByPart
  <1> SUFFICES ASSUME NEW caller \in Account, NEW amounts \in Seq(Nat)
               PROVE  CanUnstakeAll(caller, amounts) <=>
                         \A i \in DOMAIN amounts :
                            amounts[i] > 0 => CanUnstake(allStakes[caller], i, amounts[i])
    BY DEF BatchIsPartByPart
  <1> DEFINE stakes == allStakes[caller]
             u == Unstaking(stakes, amounts)
             InLoop == \A i \in DOMAIN amounts : amounts[i] > 0 => CanUnstake(u[i + 1], i, amounts[i])
             Alone == \A i \in DOMAIN amounts : amounts[i] > 0 => CanUnstake(stakes, i, amounts[i])
  <1>1. Scalars /\ stakes \in Seq(GoodStakes)
    BY DEF IInv
  <1>2. stakes \in Seq(StakeType) /\ DOMAIN stakes = 1..Len(stakes) /\ Len(stakes) \in Nat
    BY <1>1, ListOfGoodStakes
  <1>3. CanUnstakeAll(caller, amounts) <=> InLoop /\ balance[Contract] >= SumFunction(amounts)
    BY DEF CanUnstakeAll
  <1>4. SumBalances(stakes) <= balance[Contract] /\ balance[Contract] \in Nat
    BY ContractCoversAccount DEF IInv, StakingAssumption
  <1> HIDE DEF stakes
  <1>5. ASSUME InLoop \/ Alone, NEW i \in DOMAIN amounts
        PROVE  CanUnstake(u[i + 1], i, amounts[i]) <=> CanUnstake(stakes, i, amounts[i])
    <2>1. KeepsEarlier(u[i + 1], stakes, i + 1)
      BY <1>1, <1>5, LoopKeepsEarlier
    <2> HIDE DEF u
    <2>2. /\ DOMAIN u[i + 1] = 1..Len(u[i + 1]) /\ Len(u[i + 1]) \in Nat
          /\ Len(u[i + 1]) <= Len(stakes) /\ i \in Nat
      BY <2>1 DEF KeepsEarlier
    <2>3. i \in 1..Len(u[i + 1]) => i \in 1..Len(stakes)
      BY <1>2, <2>2
    <2>4. i \in 1..Len(stakes) => i \in 1..Len(u[i + 1]) /\ u[i + 1][i] = stakes[i]
      BY <1>2, <2>1, <2>2 DEF KeepsEarlier
    <2>5. QED
      BY <1>2, <2>2, <2>3, <2>4 DEF CanUnstake
  <1>6. InLoop <=> Alone
    BY <1>5
  <1>7. ASSUME InLoop PROVE balance[Contract] >= SumFunction(amounts)
    <2>1. /\ u[1] \in Seq(GoodStakes) /\ SumFunction(amounts) \in Nat
          /\ SumBalances(u[1]) = SumBalances(stakes) - SumFunction(amounts)
      BY <1>1, <1>7, UnstakingIs
    <2> HIDE DEF u
    <2>2. SumBalances(u[1]) \in Nat /\ SumBalances(stakes) \in Nat
      BY <1>2, <2>1, ListOfGoodStakes, BalancesIs
    <2>3. QED
      BY <1>4, <2>1, <2>2
  <1>8. QED
    BY <1>3, <1>6, <1>7 DEF stakes

(* The loop of unstake rejects a batch for no other reason than one of its *)
(* parts, although it moves stakes and reduces the total as it goes.       *)
THEOREM BatchesArePartByPart == Spec => []BatchIsPartByPart
  <1>1. IInv => BatchIsPartByPart
    BY StakingAssumption, InvariantCoversBatches
  <1>2. QED
    BY <1>1, AlwaysGood, PTL

-----------------------------------------------------------------------------
(* What a step that pays in may change. *)

LEMMA DepositExtends ==
    ASSUME StakingAssumption, IInv, Next, balance'[Contract] > balance[Contract],
           NEW a \in Account, NEW i \in DOMAIN allStakes[a],
           allStakes'[a][i] # allStakes[a][i]
    PROVE  /\ allStakes[a][i] \in GoodStakes /\ Scalars
           /\ VestedDefined(allStakes[a][i]) /\ ~FullyVested(allStakes[a][i])
           /\ \E amount \in Nat : /\ amount > 0
                                 /\ allStakes'[a][i] = ExtendedStake(allStakes[a][i], amount)
  <1> DEFINE Goal == \E amount \in Nat :
                        /\ amount > 0 /\ VestedDefined(allStakes[a][i])
                        /\ ~FullyVested(allStakes[a][i])
                        /\ allStakes'[a][i] = ExtendedStake(allStakes[a][i], amount)
  <1>1. /\ Scalars /\ allStakes \in [Account -> Seq(GoodStakes)]
        /\ allStakes[a][i] \in GoodStakes
        /\ balance \in [Account \union {Contract} -> Nat] /\ balance[Contract] \in Nat
    BY DEF IInv
  <1> SUFFICES Goal
    BY <1>1
  <1>2. ASSUME UNCHANGED balance PROVE FALSE
    BY <1>1, <1>2
  <1>3. ASSUME NEW caller \in Account, NEW amount \in Amount, NEW account \in Account,
               stakeFor(caller, account, amount)
        PROVE  FALSE
    <2>1. allStakes' = [allStakes EXCEPT ![account] = Append(@, NewStake(amount))]
      BY <1>3 DEF stakeFor
    <2>2. CASE a # account
      BY <1>1, <2>1, <2>2
    <2>3. CASE a = account
      <3>1. allStakes'[a] = Append(allStakes[a], NewStake(amount))
        BY <1>1, <2>1, <2>3
      <3>2. allStakes[a] \in Seq(GoodStakes)
        BY <1>1
      <3>3. Append(allStakes[a], NewStake(amount))[i] = allStakes[a][i]
        BY <3>2
      <3>4. QED
        BY <3>1, <3>3
    <2>4. QED
      BY <2>2, <2>3
  <1>4. ASSUME NEW caller \in Account, NEW amount \in Amount, NEW account \in Account,
               NEW index \in 1..MaxStakes, extendFor(caller, index, account, amount)
        PROVE  Goal
    <2>1. CASE stakeFor(caller, account, amount)
      BY <1>3, <2>1
    <2>2. CASE ~stakeFor(caller, account, amount)
      <3> DEFINE s == allStakes[account][index]
      <3>1. /\ amount \in Nat /\ amount > 0 /\ index \in DOMAIN allStakes[account]
            /\ VestedDefined(s) /\ ~FullyVested(s)
            /\ allStakes' = [allStakes EXCEPT ![account][index] = ExtendedStake(s, amount)]
        BY <1>4, <2>2, ExtensionIs
      <3>2. allStakes'[account] = [allStakes[account] EXCEPT ![index] = ExtendedStake(s, amount)]
        BY <1>1, <3>1
      <3>3. \A b \in Account : b # account => allStakes'[b] = allStakes[b]
        BY <1>1, <3>1
      <3>4. a = account /\ i = index
        BY <1>1, <3>2, <3>3
      <3>5. allStakes'[a][i] = ExtendedStake(s, amount)
        BY <3>2, <3>4
      <3>6. QED
        BY <3>1, <3>4, <3>5
    <2>3. QED
      BY <2>1, <2>2
  <1>5. ASSUME NEW caller \in Account,
               NEW amounts \in BoundedSeq(Amount \union {0}, MaxStakes), unstake(caller, amounts)
        PROVE  FALSE
    <2>1. balance'[Contract] <= balance[Contract] /\ IInv'
      BY <1>5, AmountsAreNatural, UnstakingKeepsInvariant
    <2>2. balance'[Contract] \in Nat
      BY <2>1 DEF IInv
    <2>3. QED
      BY <1>1, <2>1, <2>2
  <1>6. QED
    BY <1>2, <1>3, <1>4, <1>5 DEF Next, stake, extend, setVesting, Tick

(* Extending a stake under one schedule takes back nothing that is vested, *)
(* and vests of the new total at most one unit of time more than before.   *)
THEOREM ExtendingKeepsVested == Spec => ExtendKeepsVesting
  <1> DEFINE A == \A a \in Account : \A i \in DOMAIN allStakes[a] :
                    /\ ~rescheduled
                    /\ balance'[Contract] > balance[Contract]
                    /\ allStakes'[a][i] # allStakes[a][i]
                    => LET s == allStakes[a][i]
                           t == allStakes'[a][i]
                       IN  /\ vested(s) <= vested(t)
                           /\ vested(t) * t.duration <= s.initial * Elapsed(s) + t.initial
                           /\ Withdrawn(t) = Withdrawn(s)
  <1>1. ASSUME IInv, [Next]_vars PROVE [A]_vars
    <2> SUFFICES ASSUME Next, ~rescheduled, balance'[Contract] > balance[Contract],
                        NEW a \in Account, NEW i \in DOMAIN allStakes[a],
                        allStakes'[a][i] # allStakes[a][i]
                 PROVE  LET s == allStakes[a][i]
                            t == allStakes'[a][i]
                        IN  /\ vested(s) <= vested(t)
                            /\ vested(t) * t.duration <= s.initial * Elapsed(s) + t.initial
                            /\ Withdrawn(t) = Withdrawn(s)
      BY <1>1
    <2> DEFINE s == allStakes[a][i]
    <2>1. PICK amount \in Nat : /\ amount > 0 /\ s \in GoodStakes /\ Scalars
                               /\ VestedDefined(s) /\ ~FullyVested(s)
                               /\ allStakes'[a][i] = ExtendedStake(s, amount)
      BY <1>1, StakingAssumption, DepositExtends
    <2> HIDE DEF s
    <2> DEFINE t == ExtendedStake(s, amount)
    <2>2. /\ vested(s) <= vested(t)
          /\ vested(t) * t.duration <= s.initial * Elapsed(s) + t.initial
          /\ Withdrawn(t) = Withdrawn(s)
      BY <2>1, StakingAssumption, ExtendedStakeIs
    <2>3. QED
      BY <2>1, <2>2 DEF s
  <1>2. QED
    BY <1>1, AlwaysGood, PTL DEF Spec, ExtendKeepsVesting

(* A stake whose duration is not below the one in force vests no more than *)
(* its initial amount.                                                     *)
LEMMA VestsAtMostInitial ==
    ASSUME StakingAssumption, Scalars, NEW s \in GoodStakes,
           VestedDefined(s), s.duration >= duration
    PROVE  vested(s) <= s.initial
  <1>1. /\ s.initial \in Nat /\ Elapsed(s) \in Nat /\ duration \in Nat /\ s.duration \in Nat
        /\ vested(s) \in Nat
    BY GoodStakeTypes DEF Scalars
  <1>2. CASE Elapsed(s) > duration
    BY <1>1, <1>2 DEF vested
  <1>3. CASE ~(Elapsed(s) > duration)
    <2> DEFINE x == s.initial * Elapsed(s)
               y == s.initial * s.duration
    <2>1. Elapsed(s) <= s.duration /\ s.duration > 0
      BY <1>1, <1>3 DEF VestedDefined
    <2>2. x \in Nat /\ y \in Nat /\ x <= y
      BY <1>1, <2>1
    <2>3. vested(s) = x \div s.duration
      BY <1>1, <1>3 DEF vested
    <2>4. vested(s) * s.duration <= x
      <3> HIDE DEF x
      <3>1. x <= x
        BY <2>2
      <3>2. (x \div s.duration) * s.duration <= x
        BY <1>1, <2>1, <2>2, <3>1, DivisionGrows
      <3>3. QED
        BY <2>3, <3>2
    <2>5. SUFFICES ASSUME vested(s) >= s.initial + 1 PROVE FALSE
      BY <1>1
    <2>6. vested(s) * s.duration >= (s.initial + 1) * s.duration
      BY <1>1, <2>5
    <2>7. (s.initial + 1) * s.duration = y + s.duration /\ vested(s) * s.duration \in Nat
      BY <1>1
    <2>8. QED
      BY <1>1, <2>1, <2>2, <2>4, <2>6, <2>7
  <1>4. QED
    BY <1>2, <1>3

(* The one way to add to a stake that has vested completely: its duration  *)
(* is below the one in force, so setVesting has lengthened the duration.   *)
ReopensOnlyShorterStakes ==
    \A a \in Account : \A i \in DOMAIN allStakes[a] :
        /\ balance'[Contract] > balance[Contract]
        /\ VestedDefined(allStakes[a][i])
        /\ vested(allStakes[a][i]) >= allStakes[a][i].initial
        /\ allStakes'[a][i] # allStakes[a][i]
        => allStakes[a][i].duration < duration

(* The extent of what the run staking_refresh finds, under any schedules.  *)
THEOREM OnlyLengtheningReopens == Spec => [][ReopensOnlyShorterStakes]_vars
  <1>1. ASSUME IInv, [Next]_vars PROVE [ReopensOnlyShorterStakes]_vars
    <2> SUFFICES ASSUME Next, balance'[Contract] > balance[Contract],
                        NEW a \in Account, NEW i \in DOMAIN allStakes[a],
                        VestedDefined(allStakes[a][i]),
                        vested(allStakes[a][i]) >= allStakes[a][i].initial,
                        allStakes'[a][i] # allStakes[a][i]
                 PROVE  allStakes[a][i].duration < duration
      BY <1>1 DEF ReopensOnlyShorterStakes
    <2> DEFINE s == allStakes[a][i]
    <2>1. s \in GoodStakes /\ Scalars /\ VestedDefined(s) /\ ~FullyVested(s)
      BY <1>1, StakingAssumption, DepositExtends
    <2>2. vested(s) >= s.initial
      OBVIOUS
    <2> HIDE DEF s
    <2>3. s.initial \in Nat /\ vested(s) \in Nat /\ s.duration \in Nat /\ duration \in Nat
      BY <2>1, StakingAssumption, GoodStakeTypes DEF Scalars
    <2>4. vested(s) > s.initial
      BY <2>1, <2>2, <2>3 DEF FullyVested
    <2>5. ~(s.duration >= duration)
      BY <2>1, <2>3, <2>4, StakingAssumption, VestsAtMostInitial
    <2>6. s.duration < duration
      BY <2>3, <2>5
    <2>7. QED
      BY <2>6 DEF s
  <1>2. QED
    BY <1>1, AlwaysGood, PTL DEF Spec

(* Tokens paid in never restart the vesting of a stake that has vested     *)
(* completely, as long as the schedule is not replaced.                    *)
THEOREM VestedStakesStay == Spec => VestedStakesAreLeftAlone
  <1> DEFINE A == ~rescheduled => LeavesVestedStakes
  <1>1. ASSUME IInv, [ReopensOnlyShorterStakes]_vars PROVE [A]_vars
    <2> SUFFICES ASSUME ReopensOnlyShorterStakes, ~rescheduled,
                        balance'[Contract] > balance[Contract],
                        NEW a \in Account, NEW i \in DOMAIN allStakes[a],
                        VestedDefined(allStakes[a][i]),
                        vested(allStakes[a][i]) >= allStakes[a][i].initial,
                        allStakes'[a][i] # allStakes[a][i]
                 PROVE  FALSE
      BY <1>1 DEF LeavesVestedStakes
    <2>1. allStakes[a][i] \in GoodStakes /\ duration \in Nat
      BY <1>1 DEF IInv, Scalars
    <2>2. allStakes[a][i].duration = duration
      BY <2>1 DEF GoodStakes, GoodStake
    <2>3. allStakes[a][i].duration < duration
      BY DEF ReopensOnlyShorterStakes
    <2>4. QED
      BY <2>1, <2>2, <2>3
  <1>2. QED
    BY <1>1, AlwaysGood, OnlyLengtheningReopens, PTL DEF VestedStakesAreLeftAlone
=============================================================================
