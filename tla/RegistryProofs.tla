--------------------------- MODULE RegistryProofs ---------------------------
(* Proofs about Registry, for any stakers, tokens and costs, and about     *)
(* RegistryClient, for any URLs and transactions between the reads.        *)
EXTENDS RegistryClient, SumsAndArrays, FiniteSetTheorems, TLAPS

(* The cost of a finite set of tokens. *)
Cost(S) == tokenCost * Cardinality(S)

(* Sets of tokens are finite and their cost is a natural number. *)
LEMMA CostIsNat ==
    ASSUME RegistryAssumption, NEW S \in SUBSET Token
    PROVE  IsFiniteSet(S) /\ Cardinality(S) \in Nat /\ Cost(S) \in Nat
  <1>1. IsFiniteSet(S)
    BY FS_Subset DEF RegistryAssumption
  <1>2. Cardinality(S) \in Nat
    BY <1>1, FS_CardinalityType
  <1>3. tokenCost * Cardinality(S) \in Nat
    BY <1>2 DEF RegistryAssumption
  <1>4. QED
    BY <1>1, <1>2, <1>3 DEF Cost

(* The cost of two disjoint sets is the sum of their costs. *)
LEMMA CostOfDisjoint ==
    ASSUME RegistryAssumption, NEW S \in SUBSET Token, NEW T \in SUBSET Token,
           S \intersect T = {}
    PROVE  Cost(S \union T) = Cost(S) + Cost(T)
  <1>1. /\ IsFiniteSet(S) /\ Cardinality(S) \in Nat
        /\ IsFiniteSet(T) /\ Cardinality(T) \in Nat
    BY CostIsNat
  <1>2. Cardinality(S \intersect T) = 0
    BY FS_EmptySet
  <1>3. Cardinality(S \union T) = Cardinality(S) + Cardinality(T)
    <2>1. Cardinality(S \union T) =
            Cardinality(S) + Cardinality(T) - Cardinality(S \intersect T)
      BY <1>1, FS_Union
    <2>2. QED
      BY <1>1, <1>2, <2>1
  <1>4. tokenCost \in Nat
    BY DEF RegistryAssumption
  <1>5. ASSUME NEW c \in Nat, NEW m \in Nat, NEW n \in Nat
        PROVE  c * (m + n) = c * m + c * n
    OBVIOUS
  <1>6. tokenCost * (Cardinality(S) + Cardinality(T))
            = tokenCost * Cardinality(S) + tokenCost * Cardinality(T)
    BY <1>1, <1>4, <1>5
  <1>7. QED
    BY <1>3, <1>6 DEF Cost

IInv == TypeOK /\ IndexesAgree /\ LockedIsBalance

LEMMA InitEstablishes == ASSUME RegistryAssumption, Init PROVE IInv
  <1>1. TypeOK
    BY DEF Init, TypeOK, RegistryAssumption
  <1>2. IndexesAgree
    BY DEF Init, IndexesAgree
  <1>3. LockedIsBalance
    BY DEF Init, LockedIsBalance, balanceOf
  <1>4. QED
    BY <1>1, <1>2, <1>3 DEF IInv

(* A payment between two accounts that is covered keeps balances natural. *)
LEMMA MoveKeepsBalances ==
    ASSUME NEW Acc, NEW b \in [Acc -> Nat], NEW from \in Acc, NEW to \in Acc,
           NEW amount \in Nat, b[from] >= amount
    PROVE  Move(b, from, to, amount) \in [Acc -> Nat]
  <1>1. Debit(b, from, amount) \in [Acc -> Nat]
    BY DEF Debit
  <1>2. QED
    BY <1>1 DEF Move, Credit

LEMMA AddKeepsInvariant ==
    ASSUME RegistryAssumption, IInv, NEW s \in Staker, NEW tokens \in SUBSET Token,
           addTokens(s, tokens)
    PROVE  IInv'
  <1>1. TypeOK /\ IndexesAgree /\ LockedIsBalance
    BY DEF IInv
  <1>2. supportedTokens[s] \in SUBSET Token /\ locked[s] \in Int
    BY <1>1 DEF TypeOK
  <1>3. AddingCost(s, tokens) =
          (IF supportedTokens[s] = {} THEN obligationCost ELSE 0) + Cost(tokens)
    BY DEF AddingCost, Cost
  <1>4. AddingCost(s, tokens) \in Nat /\ Cost(tokens) \in Nat /\ Cost(supportedTokens[s]) \in Nat
    BY <1>2, <1>3, CostIsNat DEF RegistryAssumption
  <1>5. TypeOK'
    <2>1. balance' \in [Staker \union {Contract} -> Nat]
      BY <1>1, <1>4, MoveKeepsBalances DEF addTokens, TypeOK
    <2>2. locked' \in [Staker -> Int]
      BY <1>1, <1>4 DEF addTokens, TypeOK
    <2>3. /\ supportedTokens' \in [Staker -> SUBSET Token]
          /\ supportingStakers' \in [Token -> SUBSET Staker]
          /\ stakerURLs' \in [Staker -> URL \union {NoURL}]
      BY <1>1 DEF addTokens, TypeOK
    <2>4. QED
      BY <2>1, <2>2, <2>3 DEF TypeOK
  <1>6. IndexesAgree'
    BY <1>1 DEF addTokens, TypeOK, IndexesAgree
  <1>7. LockedIsBalance'
    <2>1. supportedTokens'[s] = supportedTokens[s] \union tokens
      BY <1>1 DEF addTokens, TypeOK
    <2>2. Cost(supportedTokens'[s]) = Cost(supportedTokens[s]) + Cost(tokens)
      BY <1>2, <2>1, CostOfDisjoint DEF addTokens
    <2>3. locked'[s] = locked[s] + AddingCost(s, tokens)
      BY <1>1 DEF addTokens, TypeOK
    <2>4. locked[s] = IF supportedTokens[s] = {} THEN 0
                      ELSE obligationCost + Cost(supportedTokens[s])
      BY <1>1 DEF LockedIsBalance, balanceOf, Cost
    <2>5. Cost({}) = 0
      BY FS_EmptySet DEF Cost, RegistryAssumption
    <2>6. locked'[s] = obligationCost + Cost(supportedTokens'[s])
      <3>1. CASE supportedTokens[s] = {}
        BY <3>1, <1>3, <1>4, <2>2, <2>3, <2>4, <2>5 DEF RegistryAssumption
      <3>2. CASE supportedTokens[s] # {}
        BY <3>2, <1>3, <1>4, <2>2, <2>3, <2>4 DEF RegistryAssumption
      <3>3. QED
        BY <3>1, <3>2
    <2>7. balanceOf(s)' = obligationCost + Cost(supportedTokens'[s])
      BY <2>1 DEF balanceOf, Cost, addTokens
    <2>8. ASSUME NEW r \in Staker, r # s PROVE locked'[r] = balanceOf(r)'
      BY <1>1, <2>8 DEF addTokens, TypeOK, LockedIsBalance, balanceOf
    <2>9. QED
      BY <2>6, <2>7, <2>8 DEF LockedIsBalance
  <1>8. QED
    BY <1>5, <1>6, <1>7 DEF IInv

LEMMA RemoveKeepsInvariant ==
    ASSUME RegistryAssumption, IInv, NEW s \in Staker, NEW tokens \in SUBSET Token,
           removeTokens(s, tokens)
    PROVE  IInv'
  <1>1. TypeOK /\ IndexesAgree /\ LockedIsBalance
    BY DEF IInv
  <1>2. /\ supportedTokens[s] \in SUBSET Token /\ locked[s] \in Int
        /\ supportedTokens'[s] = supportedTokens[s] \ tokens
        /\ tokens # {} /\ tokens \subseteq supportedTokens[s]
    BY <1>1 DEF TypeOK, removeTokens
  <1>3. Refund(s, tokens) =
          (IF supportedTokens[s] \subseteq tokens THEN obligationCost ELSE 0) + Cost(tokens)
    BY DEF Refund, Cost
  <1>4. Refund(s, tokens) \in Nat /\ Cost(tokens) \in Nat /\ Cost(supportedTokens'[s]) \in Nat
    BY <1>2, <1>3, CostIsNat DEF RegistryAssumption
  <1>5. TypeOK'
    <2>1. balance' \in [Staker \union {Contract} -> Nat]
      BY <1>1, <1>4, MoveKeepsBalances DEF removeTokens, TypeOK
    <2>2. locked' \in [Staker -> Int]
      BY <1>1, <1>4 DEF removeTokens, TypeOK
    <2>3. /\ supportedTokens' \in [Staker -> SUBSET Token]
          /\ supportingStakers' \in [Token -> SUBSET Staker]
          /\ stakerURLs' \in [Staker -> URL \union {NoURL}]
      BY <1>1 DEF removeTokens, Delisted, TypeOK
    <2>4. QED
      BY <2>1, <2>2, <2>3 DEF TypeOK
  <1>6. IndexesAgree'
    BY <1>1 DEF removeTokens, Delisted, TypeOK, IndexesAgree
  <1>7. LockedIsBalance'
    <2>1. supportedTokens[s] = supportedTokens'[s] \union tokens
      BY <1>2
    <2>2. Cost(supportedTokens[s]) = Cost(supportedTokens'[s]) + Cost(tokens)
      BY <1>2, <2>1, CostOfDisjoint
    <2>3. locked'[s] = locked[s] - Refund(s, tokens)
      BY <1>1 DEF removeTokens, TypeOK
    <2>4. locked[s] = obligationCost + Cost(supportedTokens[s])
      BY <1>1, <1>2 DEF LockedIsBalance, balanceOf, Cost
    <2>5. Cost({}) = 0
      BY FS_EmptySet DEF Cost, RegistryAssumption
    <2>6. locked'[s] = balanceOf(s)'
      <3>1. balanceOf(s)' = IF supportedTokens'[s] = {} THEN 0
                            ELSE obligationCost + Cost(supportedTokens'[s])
        BY DEF balanceOf, Cost
      <3>2. CASE supportedTokens'[s] = {}
        <4>1. supportedTokens[s] \subseteq tokens
          BY <3>2, <1>2
        <4>2. Cost(supportedTokens'[s]) = 0
          BY <3>2, <2>5
        <4>3. Refund(s, tokens) = obligationCost + Cost(tokens)
          BY <4>1, <1>3
        <4>4. locked'[s] = 0
          BY <4>2, <4>3, <1>4, <2>2, <2>3, <2>4 DEF RegistryAssumption
        <4>5. QED
          BY <3>1, <3>2, <4>4
      <3>3. CASE supportedTokens'[s] # {}
        BY <3>1, <3>3, <1>2, <1>3, <1>4, <2>2, <2>3, <2>4 DEF RegistryAssumption
      <3>4. QED
        BY <3>2, <3>3
    <2>7. ASSUME NEW r \in Staker, r # s PROVE locked'[r] = balanceOf(r)'
      BY <1>1, <2>7 DEF removeTokens, TypeOK, LockedIsBalance, balanceOf
    <2>8. QED
      BY <2>6, <2>7 DEF LockedIsBalance
  <1>8. QED
    BY <1>5, <1>6, <1>7 DEF IInv

(* Removing all tokens is removing the list of all tokens. *)
LEMMA RemoveAllIsRemove ==
    ASSUME TypeOK, NEW s \in Staker, removeAllTokens(s)
    PROVE  removeTokens(s, supportedTokens[s])
  <1>1. obligationCost + tokenCost * Cardinality(supportedTokens[s])
          = Refund(s, supportedTokens[s])
    BY DEF Refund
  <1>2. supportedTokens[s] \ supportedTokens[s] = {}
    OBVIOUS
  <1>3. QED
    BY <1>1, <1>2 DEF removeAllTokens, removeTokens, TypeOK

LEMMA StepKeepsInvariant ==
    ASSUME RegistryAssumption, IInv, [Next]_vars PROVE IInv'
  <1>1. ASSUME NEW s \in Staker, NEW url \in URL \union {NoURL}, setURL(s, url) PROVE IInv'
    BY <1>1 DEF setURL, IInv, TypeOK, IndexesAgree, LockedIsBalance, balanceOf
  <1>2. ASSUME NEW s \in Staker, NEW tokens \in SUBSET Token, addTokens(s, tokens) PROVE IInv'
    BY <1>2, AddKeepsInvariant
  <1>3. ASSUME NEW s \in Staker, NEW tokens \in SUBSET Token, removeTokens(s, tokens) PROVE IInv'
    BY <1>3, RemoveKeepsInvariant
  <1>4. ASSUME NEW s \in Staker, removeAllTokens(s) PROVE IInv'
    <2>1. supportedTokens[s] \in SUBSET Token
      BY DEF IInv, TypeOK
    <2>2. QED
      BY <1>4, <2>1, RemoveAllIsRemove, RemoveKeepsInvariant DEF IInv
  <1>5. CASE UNCHANGED vars
    BY <1>5 DEF vars, IInv, TypeOK, IndexesAgree, LockedIsBalance, balanceOf
  <1>6. QED
    BY <1>1, <1>2, <1>3, <1>4, <1>5 DEF Next

(* In every reachable state the lists by staker and by token describe the  *)
(* same relation and each staker has locked exactly what balanceOf says.   *)
THEOREM ListingsAndDeposits == Spec => [](TypeOK /\ IndexesAgree /\ LockedIsBalance)
  <1>1. Init => IInv
    BY RegistryAssumption, InitEstablishes
  <1>2. IInv /\ [Next]_vars => IInv'
    BY RegistryAssumption, StepKeepsInvariant
  <1>3. QED
    BY <1>1, <1>2, PTL DEF Spec, IInv

(* In particular a taker who asks for a token finds exactly the stakers    *)
(* that support it.                                                        *)
THEOREM ListingsAgree == Spec => []IndexesAgree
  BY ListingsAndDeposits, PTL

-----------------------------------------------------------------------------
(***************************************************************************)
(* What the contract holds.  The deposits of all stakers add up to it,     *)
(* which stays so because a transaction changes one of them by the amount  *)
(* that it moves; and each deposit is what balanceOf says.                 *)
(***************************************************************************)
HoldsTheDeposits == balance[Contract] = SumFunctionOnSet(locked, Staker)

SolvencyInv == IInv /\ HoldsTheDeposits

(* One deposit and the contract's balance grow by the same amount. *)
LEMMA DepositKeepsSum ==
    ASSUME RegistryAssumption, SolvencyInv, NEW s \in Staker, NEW amount \in Int,
           locked' = [locked EXCEPT ![s] = @ + amount],
           balance'[Contract] = balance[Contract] + amount
    PROVE  HoldsTheDeposits'
  <1>1. locked \in [Staker -> Int] /\ balance[Contract] \in Nat
    BY DEF SolvencyInv, IInv, TypeOK
  <1>2. /\ \A x \in Staker : locked[x] \in Int /\ locked'[x] \in Int
        /\ \A x \in Staker \ {s} : locked'[x] = locked[x]
        /\ locked'[s] - locked[s] = amount
    BY <1>1
  <1>3. IsFiniteSet(Staker)
    BY DEF RegistryAssumption
  <1>4. SumFunctionOnSet(locked', Staker)
          = SumFunctionOnSet(locked, Staker) + (locked'[s] - locked[s])
    <2> DEFINE after == locked'
    <2>1. /\ \A x \in Staker : locked[x] \in Int /\ after[x] \in Int
          /\ \A x \in Staker \ {s} : after[x] = locked[x]
      BY <1>2
    <2> HIDE DEF after
    <2>2. SumFunctionOnSet(after, Staker)
            = SumFunctionOnSet(locked, Staker) + (after[s] - locked[s])
      BY <1>3, <2>1, SumUpdate
    <2>3. QED
      BY <2>2 DEF after
  <1>5. QED
    BY <1>2, <1>4 DEF SolvencyInv, HoldsTheDeposits

LEMMA InitIsSolvent == ASSUME RegistryAssumption, Init PROVE SolvencyInv
  <1>1. IInv
    BY InitEstablishes
  <1>2. IsFiniteSet(Staker) /\ \A s \in Staker : locked[s] = 0
    BY DEF Init, RegistryAssumption
  <1>3. balance[Contract] = 0
    BY DEF Init
  <1>4. SumFunctionOnSet(locked, Staker) = 0
    BY <1>2, SumOfZeros
  <1>5. QED
    BY <1>1, <1>3, <1>4 DEF SolvencyInv, HoldsTheDeposits

LEMMA StepKeepsSolvency ==
    ASSUME RegistryAssumption, SolvencyInv, [Next]_vars PROVE SolvencyInv'
  <1>1. IInv /\ IInv' /\ TypeOK
    BY StepKeepsInvariant DEF SolvencyInv, IInv
  <1>2. Contract \notin Staker /\ obligationCost \in Nat
    BY DEF RegistryAssumption
  <1> SUFFICES HoldsTheDeposits'
    BY <1>1 DEF SolvencyInv
  <1>3. ASSUME NEW s \in Staker, NEW url \in URL \union {NoURL}, setURL(s, url)
        PROVE  HoldsTheDeposits'
    BY <1>3 DEF setURL, SolvencyInv, HoldsTheDeposits
  <1>4. ASSUME NEW s \in Staker, NEW tokens \in SUBSET Token, addTokens(s, tokens)
        PROVE  HoldsTheDeposits'
    <2> DEFINE cost == AddingCost(s, tokens)
    <2>1. cost \in Nat /\ cost \in Int
      BY <1>2, CostIsNat DEF AddingCost, Cost
    <2>2. balance'[Contract] = balance[Contract] + cost
      BY <1>1, <1>2, <1>4, <2>1 DEF addTokens, TypeOK, Move, Debit, Credit
    <2>3. locked' = [locked EXCEPT ![s] = @ + cost]
      BY <1>4 DEF addTokens
    <2> HIDE DEF cost
    <2>4. QED
      BY <2>1, <2>2, <2>3, DepositKeepsSum
  <1>5. ASSUME NEW s \in Staker, NEW tokens \in SUBSET Token, removeTokens(s, tokens)
        PROVE  HoldsTheDeposits'
    <2> DEFINE refund == Refund(s, tokens)
    <2>1. refund \in Nat
      BY <1>2, CostIsNat DEF Refund, Cost
    <2>2. balance'[Contract] = balance[Contract] - refund
      BY <1>1, <1>2, <1>5, <2>1 DEF removeTokens, TypeOK, Move, Debit, Credit
    <2>3. locked' = [locked EXCEPT ![s] = @ - refund]
      BY <1>5 DEF removeTokens
    <2> HIDE DEF refund
    <2>4. locked' = [locked EXCEPT ![s] = @ + (-refund)]
      BY <1>1, <2>1, <2>3 DEF TypeOK
    <2>5. balance'[Contract] = balance[Contract] + (-refund)
      BY <1>1, <2>1, <2>2 DEF TypeOK
    <2>6. -refund \in Int
      BY <2>1
    <2>7. QED
      BY <2>4, <2>5, <2>6, DepositKeepsSum
  <1>6. ASSUME NEW s \in Staker, removeAllTokens(s) PROVE HoldsTheDeposits'
    <2>1. supportedTokens[s] \in SUBSET Token
      BY <1>1 DEF TypeOK
    <2>2. QED
      BY <1>1, <1>5, <1>6, <2>1, RemoveAllIsRemove
  <1>7. CASE UNCHANGED vars
    BY <1>7 DEF vars, SolvencyInv, HoldsTheDeposits
  <1>8. QED
    BY <1>3, <1>4, <1>5, <1>6, <1>7 DEF Next

LEMMA SolvencyImplies == ASSUME RegistryAssumption, SolvencyInv PROVE ContractOwesWhatItHolds
  <1> DEFINE owed == [s \in Staker |-> balanceOf(s)]
  <1>1. IsFiniteSet(Staker) /\ \A s \in Staker : locked[s] = owed[s]
    BY DEF RegistryAssumption, SolvencyInv, IInv, LockedIsBalance
  <1> HIDE DEF owed
  <1>2. SumFunctionOnSet(locked, Staker) = SumFunctionOnSet(owed, Staker)
    BY <1>1, SumEqual
  <1>3. DOMAIN owed = Staker
    BY DEF owed
  <1>4. QED
    BY <1>2, <1>3 DEF SolvencyInv, HoldsTheDeposits, ContractOwesWhatItHolds, SumFunction, owed

(* Whatever batches were added and removed, the contract holds exactly the *)
(* deposits that balanceOf computes for all stakers: all of them can leave.*)
THEOREM EveryDepositIsHeld == Spec => []ContractOwesWhatItHolds
  <1>1. Init => SolvencyInv
    BY RegistryAssumption, InitIsSolvent
  <1>2. SolvencyInv /\ [Next]_vars => SolvencyInv'
    BY RegistryAssumption, StepKeepsSolvency
  <1>3. SolvencyInv => ContractOwesWhatItHolds
    BY RegistryAssumption, SolvencyImplies
  <1>4. QED
    BY <1>1, <1>2, <1>3, PTL DEF Spec

-----------------------------------------------------------------------------
(* The taker's steps leave the contract alone, and its steps are those of  *)
(* Registry otherwise, so that the invariant of Registry stays.            *)
LEMMA ClientStepsRegistry == ASSUME [ClientNext]_clientVars PROVE [Next]_vars
  BY DEF ClientNext, clientVars, Transact, getServers, ReadSignerURLs, ReadSenderURLs,
         ReadFails, ServerSettles, Compare

LEMMA ClientKeepsInvariant ==
    ASSUME RegistryAssumption, IInv, [ClientNext]_clientVars PROVE IInv'
  BY ClientStepsRegistry, StepKeepsInvariant

-----------------------------------------------------------------------------
(* Registry implements Directory.                                          *)

(* The lists as a taker reads them are the stakers' own. *)
LEMMA ListedIsSupported == ASSUME IInv PROVE Listed = supportedTokens
  <1>1. supportedTokens \in [Staker -> SUBSET Token]
    BY DEF IInv, TypeOK
  <1>2. \A s \in Staker : {t \in Token : s \in supportingStakers[t]} = supportedTokens[s]
    BY <1>1 DEF IInv, IndexesAgree
  <1>3. QED
    BY <1>1, <1>2 DEF Listed

(* A transaction that sets one staker's tokens, and its deposit to what it *)
(* may be, relists that staker: the invariant says which deposit.          *)
LEMMA RelistingRefines ==
    ASSUME IInv, IInv', NEW s \in Staker, NEW tokens \in SUBSET Token, NEW paid,
           supportedTokens' = [supportedTokens EXCEPT ![s] = tokens],
           locked' = [locked EXCEPT ![s] = paid],
           UNCHANGED stakerURLs
    PROVE  Dir!Relist(s, tokens)
  <1>1. Listed = supportedTokens
    BY ListedIsSupported
  <1>2. Listed' = supportedTokens'
    <2>1. supportedTokens' \in [Staker -> SUBSET Token]
      BY DEF IInv, TypeOK
    <2>2. \A r \in Staker : {t \in Token : r \in supportingStakers'[t]} = supportedTokens'[r]
      BY <2>1 DEF IInv, IndexesAgree
    <2>3. QED
      BY <2>1, <2>2 DEF Listed
  <1>3. supportedTokens'[s] = tokens /\ locked'[s] = paid
    BY DEF IInv, TypeOK
  <1>4. paid = Dir!Price(tokens)
    <2>1. locked'[s] = balanceOf(s)'
      BY DEF IInv, LockedIsBalance
    <2>2. Dir!Cardinality(tokens) = Cardinality(tokens)
      BY DEF Dir!Cardinality, Cardinality, Dir!IsFiniteSet, IsFiniteSet
    <2>3. QED
      BY <1>3, <2>1, <2>2, Zenon DEF balanceOf, Dir!Price
  <1>5. Listed' = [Listed EXCEPT ![s] = tokens]
    BY <1>1, <1>2
  <1>6. QED
    BY <1>4, <1>5 DEF Dir!Relist

LEMMA StepRefines ==
    ASSUME RegistryAssumption, IInv, [Next]_vars PROVE [Dir!Next]_<<Listed, stakerURLs, locked>>
  <1>1. IInv' /\ Listed = supportedTokens
    BY StepKeepsInvariant, ListedIsSupported
  <1>2. \A s \in Staker : supportedTokens[s] \in SUBSET Token
    BY DEF IInv, TypeOK
  <1>3. ASSUME NEW s \in Staker, NEW url \in URL \union {NoURL}, setURL(s, url)
        PROVE  Dir!Next
    <2>1. Listed' = Listed
      BY <1>3 DEF setURL, Listed
    <2>2. Dir!Move(s, url)
      BY <1>3, <2>1 DEF setURL, Dir!Move
    <2>3. QED
      BY <2>2 DEF Dir!Next
  <1>4. ASSUME NEW s \in Staker, NEW tokens \in SUBSET Token, addTokens(s, tokens)
        PROVE  Dir!Next
    <2>1. supportedTokens[s] \union tokens \in SUBSET Token
      BY <1>2
    <2>2. Dir!Relist(s, supportedTokens[s] \union tokens)
      BY <1>1, <1>4, <2>1, RelistingRefines DEF addTokens
    <2>3. QED
      BY <2>1, <2>2 DEF Dir!Next
  <1>5. ASSUME NEW s \in Staker, NEW tokens \in SUBSET Token, removeTokens(s, tokens)
        PROVE  Dir!Next
    <2>1. supportedTokens[s] \ tokens \in SUBSET Token
      BY <1>2
    <2>2. Dir!Relist(s, supportedTokens[s] \ tokens)
      BY <1>1, <1>5, <2>1, RelistingRefines DEF removeTokens
    <2>3. QED
      BY <2>1, <2>2 DEF Dir!Next
  <1>6. ASSUME NEW s \in Staker, removeAllTokens(s) PROVE Dir!Next
    <2>1. {} \in SUBSET Token
      OBVIOUS
    <2>2. Dir!Relist(s, {})
      BY <1>1, <1>6, <2>1, RelistingRefines DEF removeAllTokens
    <2>3. QED
      BY <2>1, <2>2 DEF Dir!Next
  <1>7. CASE UNCHANGED vars
    BY <1>7 DEF vars, Listed
  <1>8. QED
    BY <1>3, <1>4, <1>5, <1>6, <1>7 DEF Next

LEMMA InitRefines == ASSUME Init PROVE Dir!Init
  <1>1. Listed = [s \in Staker |-> {}]
    BY DEF Init, Listed
  <1>2. QED
    BY <1>1 DEF Init, Dir!Init

(* Whatever its callers do and whoever reads it, the registry behaves as a *)
(* directory in which each staker pays the price of its own list.          *)
THEOREM RegistryImplementsDirectory == ClientSpec => ImplementsDirectory
  <1>1. ClientInit => IInv /\ Dir!Init
    BY RegistryAssumption, InitEstablishes, InitRefines DEF ClientInit
  <1>2. IInv /\ [ClientNext]_clientVars => IInv' /\ [Dir!Next]_(Dir!directory)
    <2>1. [ClientNext]_clientVars => [Next]_vars
      BY ClientStepsRegistry
    <2>2. QED
      BY <2>1, RegistryAssumption, StepKeepsInvariant, StepRefines DEF Dir!directory
  <1>3. QED
    BY <1>1, <1>2, PTL DEF ClientSpec, ImplementsDirectory, Dir!Spec

-----------------------------------------------------------------------------
(***************************************************************************)
(* A staker of both tokens that neither changed its tokens nor its URL     *)
(* since the first read has in its answer the URL that it still has, and   *)
(* is on the list of the second token, whatever others do to the lists.    *)
(***************************************************************************)
SteadyInv ==
    /\ IInv
    /\ stage \in {"reading signer", "reading sender"} => query \in Token \X Token
    /\ stage = "reading sender" =>
          /\ steady \subseteq DOMAIN signerTokenURLs
          /\ \A s \in steady :
                /\ s \in Staker
                /\ query[2] \in supportedTokens[s]
                /\ signerTokenURLs[s] = stakerURLs[s]
    /\ SteadyStakersAreFound

LEMMA SteadyInit == ASSUME RegistryAssumption, ClientInit PROVE SteadyInv
  <1>1. IInv
    BY InitEstablishes DEF ClientInit
  <1>2. QED
    BY <1>1 DEF ClientInit, SteadyInv, SteadyStakersAreFound

(* The first read finds each staker of both tokens with its URL. *)
LEMMA FirstReadFindsSteady ==
    ASSUME SteadyInv, ReadSignerURLs PROVE SteadyInv'
  <1>1. IInv /\ IInv'
    BY DEF SteadyInv, ReadSignerURLs, vars, IInv, TypeOK, IndexesAgree, LockedIsBalance, balanceOf
  <1>2. query \in Token \X Token /\ query' = query
    BY DEF SteadyInv, ReadSignerURLs
  <1>3. DOMAIN signerTokenURLs' = supportingStakers[query[1]]
    BY DEF ReadSignerURLs, getURLsForToken
  <1>4. ASSUME NEW s \in steady'
        PROVE  /\ s \in Staker
               /\ s \in DOMAIN signerTokenURLs'
               /\ query[2] \in supportedTokens[s]
               /\ signerTokenURLs'[s] = stakerURLs[s]
    <2>1. s \in Staker /\ query[1] \in supportedTokens[s] /\ query[2] \in supportedTokens[s]
      BY <1>4 DEF ReadSignerURLs
    <2>2. s \in supportingStakers[query[1]]
      BY <1>1, <1>2, <2>1 DEF IInv, IndexesAgree
    <2>3. QED
      BY <1>3, <2>1, <2>2 DEF ReadSignerURLs, getURLsForToken
  <1>5. UNCHANGED <<supportedTokens, stakerURLs>> /\ stage' = "reading sender"
    BY DEF ReadSignerURLs, vars
  <1>6. QED
    BY <1>1, <1>2, <1>4, <1>5 DEF SteadyInv, SteadyStakersAreFound

(* The second read lists it again, so that its URL passes the filter. *)
LEMMA SecondReadKeepsSteady ==
    ASSUME SteadyInv, ReadSenderURLs PROVE SteadyInv'
  <1> DEFINE listed == InBoth(signerTokenURLs, getURLsForToken(query[2]))
  <1>1. IInv /\ IInv'
    BY DEF SteadyInv, ReadSenderURLs, vars, IInv, TypeOK, IndexesAgree, LockedIsBalance, balanceOf
  <1>2. /\ stage' \in {"opening", "resolved"}
        /\ contacted' = {signerTokenURLs[s] : s \in listed}
        /\ UNCHANGED <<stakerURLs, steady>>
    BY DEF ReadSenderURLs, vars
  <1>3. query \in Token \X Token /\ stage = "reading sender"
    BY DEF SteadyInv, ReadSenderURLs
  <1>4. ASSUME NEW s \in steady PROVE stakerURLs[s] \in contacted'
    <2>1. /\ s \in Staker /\ s \in DOMAIN signerTokenURLs
          /\ query[2] \in supportedTokens[s]
          /\ signerTokenURLs[s] = stakerURLs[s]
      BY <1>3 DEF SteadyInv
    <2>2. s \in supportingStakers[query[2]]
      BY <1>1, <1>3, <2>1 DEF IInv, IndexesAgree
    <2>3. stakerURLs[s] \in Range(getURLsForToken(query[2]))
      BY <2>2 DEF getURLsForToken, Range
    <2>4. s \in listed
      BY <2>1, <2>3 DEF InBoth
    <2>5. QED
      BY <1>2, <2>1, <2>4
  <1>5. QED
    BY <1>1, <1>2, <1>4 DEF SteadyInv, SteadyStakersAreFound

(* Transactions drop a staker they touch from the history. *)
LEMMA TransactKeepsSteady ==
    ASSUME RegistryAssumption, SteadyInv, Transact PROVE SteadyInv'
  <1>1. IInv'
    BY StepKeepsInvariant DEF Transact, SteadyInv
  <1>2. /\ UNCHANGED <<stage, query, signerTokenURLs>>
        /\ stage \notin {"opening", "resolved"}
        /\ \A s \in steady' : /\ s \in steady
                              /\ supportedTokens'[s] = supportedTokens[s]
                              /\ stakerURLs'[s] = stakerURLs[s]
    BY DEF Transact
  <1>3. QED
    BY <1>1, <1>2 DEF SteadyInv, SteadyStakersAreFound

(* The stage after a server settles: Promise.all only moves on from        *)
(* opening.                                                                *)
LEMMA StageAfterServer ==
    ASSUME NEW outcomes
    PROVE  /\ stage # "opening" => AfterServer(outcomes) = stage
           /\ stage = "opening" =>
                 \/ AfterServer(outcomes) = "rejected" /\ "failed" \in Range(outcomes)
                 \/ AfterServer(outcomes) = "resolved" /\ ResolvedByAll(outcomes)
                 \/ /\ AfterServer(outcomes) = "opening"
                    /\ "failed" \notin Range(outcomes) /\ ~ResolvedByAll(outcomes)
  BY DEF AfterServer

LEMMA SettlingKeepsSteady ==
    ASSUME SteadyInv, NEW s \in Staker, ServerSettles(s) PROVE SteadyInv'
  <1>1. /\ UNCHANGED <<vars, query, signerTokenURLs, steady, contacted>>
        /\ stage' = AfterServer(servers')
    BY DEF ServerSettles
  <1>2. IInv'
    BY <1>1 DEF SteadyInv, vars, IInv, TypeOK, IndexesAgree, LockedIsBalance, balanceOf
  <1>3. stage' = stage \/ (stage = "opening" /\ stage' \in {"rejected", "resolved"})
    BY <1>1, StageAfterServer
  <1>4. QED
    BY <1>1, <1>2, <1>3 DEF SteadyInv, SteadyStakersAreFound, vars

LEMMA StepKeepsSteady ==
    ASSUME RegistryAssumption, RegistryClientAssumption, SteadyInv, [ClientNext]_clientVars
    PROVE  SteadyInv'
  <1>1. IInv'
    BY ClientKeepsInvariant DEF SteadyInv
  <1>2. CASE Transact
    BY <1>2, TransactKeepsSteady
  <1>3. ASSUME NEW q \in Query, getServers(q[1], q[2]) PROVE SteadyInv'
    <2>1. <<q[1], q[2]>> \in Token \X Token
      BY DEF RegistryClientAssumption
    <2>2. QED
      BY <1>1, <1>3, <2>1 DEF getServers, SteadyInv, SteadyStakersAreFound
  <1>4. CASE ReadSignerURLs
    BY <1>4, FirstReadFindsSteady
  <1>5. CASE ReadSenderURLs
    BY <1>5, SecondReadKeepsSteady
  <1>6. CASE ReadFails
    BY <1>1, <1>6 DEF ReadFails, SteadyInv, SteadyStakersAreFound
  <1>7. ASSUME NEW s \in Staker, ServerSettles(s) PROVE SteadyInv'
    BY <1>7, SettlingKeepsSteady
  <1>8. ASSUME NEW side \in {"buy", "sell"}, NEW amount \in Amount,
               NEW announced \in [DOMAIN servers -> Levels], Compare(side, amount, announced)
        PROVE  SteadyInv'
    BY <1>1, <1>8 DEF Compare, SteadyInv, SteadyStakersAreFound
  <1>9. CASE UNCHANGED clientVars
    BY <1>1, <1>9 DEF clientVars, client, vars, SteadyInv, SteadyStakersAreFound
  <1>10. QED
    BY <1>2, <1>3, <1>4, <1>5, <1>6, <1>7, <1>8, <1>9 DEF ClientNext

(* However many stakers come, go and change their URLs between the two     *)
(* reads of getServers, none that stays as it is for both is missed.       *)
THEOREM StayingIsBeingFound == ClientSpec => []SteadyStakersAreFound
  <1>1. ClientInit => SteadyInv
    BY RegistryAssumption, SteadyInit
  <1>2. SteadyInv /\ [ClientNext]_clientVars => SteadyInv'
    BY RegistryAssumption, RegistryClientAssumption, StepKeepsSteady
  <1>3. SteadyInv => SteadyStakersAreFound
    BY DEF SteadyInv
  <1>4. QED
    BY <1>1, <1>2, <1>3, PTL DEF ClientSpec

(* The filter joins by URL; for stakers with URLs of their own and a first *)
(* answer that still holds that is the join by staker.                     *)
THEOREM QuietReadIsExact == ClientSpec => QuietRegistryIsReadExactly
  <1> DEFINE Exact ==
        stage = "reading sender" /\ stage' \in {"opening", "resolved"}
          /\ IsInjective(stakerURLs) /\ signerTokenURLs = getURLsForToken(query[1])
        => DOMAIN servers' = {s \in Staker : {query[1], query[2]} \subseteq supportedTokens[s]}
  <1>1. SteadyInv /\ [ClientNext]_clientVars => [Exact]_clientVars
    <2> SUFFICES ASSUME SteadyInv, ClientNext, stage = "reading sender",
                        stage' \in {"opening", "resolved"}, IsInjective(stakerURLs),
                        signerTokenURLs = getURLsForToken(query[1])
                 PROVE  DOMAIN servers' =
                          {s \in Staker : {query[1], query[2]} \subseteq supportedTokens[s]}
      OBVIOUS
    <2>1. ReadSenderURLs
      <3>1. \A s \in Staker : ~ServerSettles(s)
        BY StageAfterServer DEF ServerSettles
      <3>2. QED
        BY <3>1 DEF ClientNext, Transact, getServers, ReadSignerURLs, ReadFails, Compare
    <2>2. DOMAIN servers' = InBoth(signerTokenURLs, getURLsForToken(query[2]))
      BY <2>1 DEF ReadSenderURLs
    <2>3. /\ query[1] \in Token /\ query[2] \in Token
          /\ TypeOK /\ IndexesAgree
      BY DEF SteadyInv, IInv
    <2>4. /\ supportingStakers[query[1]] \subseteq Staker
          /\ supportingStakers[query[2]] \subseteq Staker
          /\ DOMAIN stakerURLs = Staker
      BY <2>3 DEF TypeOK
    <2>5. \A s \in supportingStakers[query[1]] :
             stakerURLs[s] \in Range(getURLsForToken(query[2]))
               <=> s \in supportingStakers[query[2]]
      BY <2>4 DEF Range, getURLsForToken, IsInjective
    <2>6. InBoth(signerTokenURLs, getURLsForToken(query[2]))
            = supportingStakers[query[1]] \intersect supportingStakers[query[2]]
      BY <2>5 DEF InBoth, getURLsForToken
    <2>7. QED
      BY <2>2, <2>3, <2>4, <2>6 DEF IndexesAgree
  <1>2. ClientInit => SteadyInv
    BY RegistryAssumption, SteadyInit
  <1>3. SteadyInv /\ [ClientNext]_clientVars => SteadyInv'
    BY RegistryAssumption, RegistryClientAssumption, StepKeepsSteady
  <1>4. QED
    BY <1>1, <1>2, <1>3, PTL DEF ClientSpec, QuietRegistryIsReadExactly

-----------------------------------------------------------------------------
(***************************************************************************)
(* Promise.all.  AllServersOrNone needs to know that servers are opened    *)
(* only after the reads and are pending, open or failed: then a call that  *)
(* is neither rejected nor resolved has a server pending.                  *)
(***************************************************************************)
ServersInv ==
    /\ stage \in {"idle", "reading signer", "reading sender"} => servers = None
    /\ \A s \in DOMAIN servers : servers[s] \in {"pending", "open", "failed"}
    /\ AllServersOrNone

LEMMA ServersInit == ClientInit => ServersInv
  BY DEF ClientInit, ServersInv, AllServersOrNone, None

LEMMA OpeningKeepsServers == ASSUME ServersInv, ReadSenderURLs PROVE ServersInv'
  <1> DEFINE listed == InBoth(signerTokenURLs, getURLsForToken(query[2]))
  <1>1. /\ servers' = [s \in listed |-> "pending"]
        /\ stage' = IF listed = {} THEN "resolved" ELSE "opening"
    BY DEF ReadSenderURLs
  <1> HIDE DEF listed
  <1>2. CASE listed = {}
    BY <1>1, <1>2 DEF ServersInv, AllServersOrNone
  <1>3. CASE listed # {}
    BY <1>1, <1>3 DEF ServersInv, AllServersOrNone, Range
  <1>4. QED
    BY <1>2, <1>3

LEMMA SettlingKeepsServers ==
    ASSUME ServersInv, NEW s \in Staker, ServerSettles(s) PROVE ServersInv'
  <1>1. /\ s \in DOMAIN servers /\ servers[s] = "pending"
        /\ stage' = AfterServer(servers')
    BY DEF ServerSettles
  <1>2. PICK outcome \in {"open", "failed"} : servers' = [servers EXCEPT ![s] = outcome]
    BY DEF ServerSettles
  <1>3. /\ DOMAIN servers' = DOMAIN servers /\ servers'[s] = outcome
        /\ \A r \in DOMAIN servers : r # s => servers'[r] = servers[r]
    BY <1>1, <1>2
  <1>4. \A r \in DOMAIN servers' : servers'[r] \in {"pending", "open", "failed"}
    BY <1>3 DEF ServersInv
  <1>5. stage \notin {"idle", "reading signer", "reading sender", "resolved", "compared"}
    BY <1>1 DEF ServersInv, AllServersOrNone, None
  <1>6. CASE stage = "opening"
    <2>1. ResolvedByAll(servers') => \A r \in DOMAIN servers' : servers'[r] = "open"
      BY DEF ResolvedByAll, Range
    <2>2. "failed" \notin Range(servers') /\ ~ResolvedByAll(servers')
            => "pending" \in Range(servers')
      BY <1>1, <1>3, <1>4 DEF ResolvedByAll, Range
    <2>3. QED
      BY <1>1, <1>4, <1>6, <2>1, <2>2, StageAfterServer DEF ServersInv, AllServersOrNone
  <1>7. CASE stage # "opening"
    <2>1. stage' = stage
      BY <1>1, <1>7, StageAfterServer
    <2>2. stage = "rejected" => "failed" \in Range(servers')
      <3>1. servers # None
        BY <1>1 DEF None
      <3>2. QED
        BY <1>1, <1>3, <3>1 DEF ServersInv, AllServersOrNone, Range
    <2>3. QED
      BY <1>4, <1>5, <1>7, <2>1, <2>2 DEF ServersInv, AllServersOrNone
  <1>8. QED
    BY <1>6, <1>7

LEMMA StepKeepsServers == ASSUME ServersInv, [ClientNext]_clientVars PROVE ServersInv'
  <1>1. CASE Transact
    BY <1>1 DEF Transact, ServersInv, AllServersOrNone
  <1>2. ASSUME NEW q \in Query, getServers(q[1], q[2]) PROVE ServersInv'
    BY <1>2 DEF getServers, ServersInv, AllServersOrNone
  <1>3. CASE ReadSignerURLs
    BY <1>3 DEF ReadSignerURLs, ServersInv, AllServersOrNone
  <1>4. CASE ReadSenderURLs
    BY <1>4, OpeningKeepsServers
  <1>5. CASE ReadFails
    BY <1>5 DEF ReadFails, ServersInv, AllServersOrNone
  <1>6. ASSUME NEW s \in Staker, ServerSettles(s) PROVE ServersInv'
    BY <1>6, SettlingKeepsServers
  <1>7. ASSUME NEW side \in {"buy", "sell"}, NEW amount \in Amount,
               NEW announced \in [DOMAIN servers -> Levels], Compare(side, amount, announced)
        PROVE  ServersInv'
    BY <1>7 DEF Compare, ServersInv, AllServersOrNone
  <1>8. CASE UNCHANGED clientVars
    BY <1>8 DEF clientVars, client, ServersInv, AllServersOrNone
  <1>9. QED
    BY <1>1, <1>2, <1>3, <1>4, <1>5, <1>6, <1>7, <1>8 DEF ClientNext

(* In whatever order servers open and fail, getServers resolves with all   *)
(* of them open and rejects only for a read or a server that failed.       *)
THEOREM AllOrNothing == ClientSpec => []AllServersOrNone
  <1>1. ServersInv => AllServersOrNone
    BY DEF ServersInv
  <1>2. QED
    BY <1>1, ServersInit, StepKeepsServers, PTL DEF ClientSpec

-----------------------------------------------------------------------------
(* The taker's comparison.  A recursive function over a list exists: one   *)
(* that is right up to an element gives one that is right up to the next.  *)

IsLoop(g, n, S, base, step) ==
    g \in [0..n -> S] /\ g[0] = base /\ \A i \in 1..n : g[i] = step[i][g[i - 1]]

LEMMA LoopExists ==
    ASSUME NEW n \in Nat, NEW S, NEW base \in S, NEW step \in [1..n -> [S -> S]]
    PROVE  \E g : IsLoop(g, n, S, base, step)
  <1> DEFINE UpTo(g, m) == /\ g \in [0..n -> S]
                           /\ g[0] = base
                           /\ \A i \in 1..n : i <= m => g[i] = step[i][g[i - 1]]
             G == {m \in Nat : \E g : UpTo(g, m)}
  <1>1. 0 \in G
    <2>1. UpTo([i \in 0..n |-> base], 0)
      OBVIOUS
    <2> HIDE DEF UpTo
    <2>2. QED
      BY <2>1
  <1>2. ASSUME NEW m \in Nat, m \in G PROVE m + 1 \in G
    <2>1. PICK g : UpTo(g, m)
      BY <1>2
    <2>2. CASE m + 1 \notin 1..n
      <3>1. UpTo(g, m + 1)
        BY <2>1, <2>2
      <3> HIDE DEF UpTo
      <3>2. QED
        BY <3>1
    <2>3. CASE m + 1 \in 1..n
      <3> DEFINE x == step[m + 1][g[m]]
                 h == [g EXCEPT ![m + 1] = x]
      <3>1. g[m] \in S /\ m \in 0..n
        BY <2>1, <2>3
      <3>2. x \in S
        BY <2>3, <3>1
      <3>3. h \in [0..n -> S] /\ h[0] = base /\ h[m + 1] = x
        BY <2>1, <2>3, <3>2
      <3>4. ASSUME NEW i \in 1..n, i <= m + 1 PROVE h[i] = step[i][h[i - 1]]
        <4>1. i - 1 \in 0..n /\ i - 1 # m + 1
          BY <3>4
        <4>2. h[i - 1] = g[i - 1]
          BY <2>1, <4>1
        <4>3. CASE i = m + 1
          BY <3>3, <4>2, <4>3
        <4>4. CASE i # m + 1
          <5>1. i <= m /\ i \in 0..n
            BY <3>4, <4>4
          <5>2. h[i] = g[i] /\ g[i] = step[i][g[i - 1]]
            BY <2>1, <4>4, <5>1
          <5>3. QED
            BY <4>2, <5>2
        <4>5. QED
          BY <4>3, <4>4
      <3> HIDE DEF h, x
      <3>5. UpTo(h, m + 1)
        BY <3>3, <3>4
      <3> HIDE DEF UpTo
      <3>6. QED
        BY <3>5
    <2>4. QED
      BY <2>2, <2>3
  <1>3. n \in G
    <2> HIDE DEF G
    <2>1. QED
      BY <1>1, <1>2, SetInduction
  <1>4. PICK g : UpTo(g, n)
    BY <1>3
  <1>5. IsLoop(g, n, S, base, step)
    BY <1>4 DEF IsLoop
  <1>6. QED
    BY <1>5

(* The units of a range that have one price.                               *)
LEMMA SumOfRange ==
    ASSUME NEW f, NEW a \in Nat, NEW b \in Nat, a <= b, NEW p \in Int,
           \A k \in 1..b : f[k] \in Int, \A k \in (a + 1)..b : f[k] = p
    PROVE  SumFunctionOnSet(f, 1..b) = SumFunctionOnSet(f, 1..a) + (b - a) * p
  <1> DEFINE Right(d) == a + d <= b =>
                 SumFunctionOnSet(f, 1..(a + d)) = SumFunctionOnSet(f, 1..a) + d * p
             G == {d \in Nat : Right(d)}
  <1>1. SumFunctionOnSet(f, 1..a) \in Int
    <2>1. IsFiniteSet(1..a) /\ \A k \in 1..a : f[k] \in Int
      BY FS_Interval
    <2>2. QED
      BY <2>1, SumInteger
  <1>2. 0 \in G
    BY <1>1
  <1>3. ASSUME NEW d \in Nat, d \in G PROVE d + 1 \in G
    <2>1. SUFFICES ASSUME a + (d + 1) <= b PROVE Right(d + 1)
      OBVIOUS
    <2>2. SumFunctionOnSet(f, 1..(a + d)) = SumFunctionOnSet(f, 1..a) + d * p
      BY <1>3, <2>1
    <2>3. /\ a + d \in Nat /\ \A j \in 1..(a + d) : f[j] \in Int /\ f[j] = f[j]
          /\ f[(a + d) + 1] \in Int /\ f[(a + d) + 1] = p
      BY <2>1
    <2>4. SumFunctionOnSet(f, 1..((a + d) + 1))
            = SumFunctionOnSet(f, 1..(a + d)) + f[(a + d) + 1]
      BY <2>3, SumAppended
    <2>5. (a + d) + 1 = a + (d + 1) /\ d * p + p = (d + 1) * p /\ d * p \in Int
      OBVIOUS
    <2> DEFINE s == SumFunctionOnSet(f, 1..a)
               t == SumFunctionOnSet(f, 1..(a + (d + 1)))
    <2>6. t = (s + d * p) + p
      BY <2>2, <2>3, <2>4, <2>5
    <2> HIDE DEF s, t
    <2>7. t = s + (d + 1) * p
      BY <1>1, <2>5, <2>6 DEF s
    <2>8. QED
      BY <2>7 DEF s, t
  <1>4. Nat \subseteq G
    <2> HIDE DEF G
    <2>1. QED
      BY <1>2, <1>3, SetInduction
  <1>5. b - a \in Nat /\ a + (b - a) = b
    OBVIOUS
  <1>6. Right(b - a)
    BY <1>4, <1>5
  <1>7. QED
    BY <1>5, <1>6

(* Lists of levels, as a server announces them.                            *)
LevelsInOrder(levels) ==
    /\ levels \in Seq([amount: Nat, price: Nat])
    /\ \A i, j \in DOMAIN levels : i < j => levels[i].amount <= levels[j].amount

LEMMA ElementsOf ==
    ASSUME NEW X, NEW q \in Seq(X)
    PROVE  Len(q) \in Nat /\ DOMAIN q = 1..Len(q) /\ \A i \in 1..Len(q) : q[i] \in X
  OBVIOUS

LEMMA LevelsAre ==
    ASSUME NEW levels, LevelsInOrder(levels)
    PROVE  /\ Len(levels) \in Nat /\ DOMAIN levels = 1..Len(levels)
           /\ \A i \in 1..Len(levels) : levels[i] \in [amount: Nat, price: Nat]
           /\ \A i \in 1..Len(levels) : levels[i].amount \in Nat /\ levels[i].price \in Nat
           /\ \A i, j \in 1..Len(levels) : i <= j => levels[i].amount <= levels[j].amount
  <1>1. \A i \in 1..Len(levels) : levels[i] \in [amount: Nat, price: Nat]
    BY ElementsOf DEF LevelsInOrder
  <1>2. Len(levels) \in Nat /\ DOMAIN levels = 1..Len(levels)
    BY ElementsOf DEF LevelsInOrder
  <1>3. ASSUME NEW i \in 1..Len(levels), NEW j \in 1..Len(levels), i <= j
        PROVE  levels[i].amount <= levels[j].amount
    <2>1. CASE i = j
      BY <1>1, <2>1
    <2>2. CASE i < j
      BY <1>2, <2>2 DEF LevelsInOrder
    <2>3. QED
      BY <1>2, <1>3, <2>1, <2>2
  <1>4. \A i \in 1..Len(levels) : levels[i].amount \in Nat /\ levels[i].price \in Nat
    BY <1>1
  <1>5. QED
    BY <1>1, <1>2, <1>3, <1>4

LEMMA PriceOfUnitIs ==
    ASSUME NEW levels, LevelsInOrder(levels), NEW i \in 1..Len(levels), NEW k \in Int,
           k <= levels[i].amount, i > 1 => levels[i - 1].amount < k
    PROVE  PriceOfUnit(k, levels) = levels[i].price
  <1> DEFINE n == Len(levels)
             Reaches(j) == /\ k <= levels[j].amount
                           /\ \A h \in DOMAIN levels : h < j => levels[h].amount < k
  <1>1. /\ n \in Nat /\ DOMAIN levels = 1..n
        /\ \A j \in 1..n : levels[j].amount \in Nat
        /\ \A h, j \in 1..n : h <= j => levels[h].amount <= levels[j].amount
    BY LevelsAre
  <1>2. ASSUME NEW h \in 1..n, h < i PROVE levels[h].amount < k
    <2>1. i - 1 \in 1..n /\ h <= i - 1 /\ i > 1
      BY <1>1, <1>2
    <2>2. levels[h].amount <= levels[i - 1].amount
      BY <1>1, <2>1
    <2>3. QED
      BY <1>1, <2>1, <2>2
  <1>3. Reaches(i)
    BY <1>1, <1>2
  <1>4. ASSUME NEW j \in DOMAIN levels, Reaches(j) PROVE j = i
    <2>1. j \in 1..n /\ ~(i < j)
      BY <1>1, <1>4
    <2>2. ~(j < i)
      BY <1>1, <1>2, <1>4, <2>1
    <2>3. QED
      BY <1>1, <2>1, <2>2
  <1>5. (CHOOSE j \in DOMAIN levels : Reaches(j)) = i
    <2> HIDE DEF Reaches
    <2>1. QED
      BY <1>1, <1>3, <1>4
  <1>6. QED
    BY <1>5 DEF PriceOfUnit

LEMMA UnitsHavePrices ==
    ASSUME NEW levels, LevelsInOrder(levels), levels # <<>>, NEW k \in Int,
           k <= Available(levels)
    PROVE  PriceOfUnit(k, levels) \in Int
  <1> DEFINE n == Len(levels)
             T == {j \in Nat : j \in 1..n /\ k <= levels[j].amount}
  <1>1. /\ n \in Nat /\ DOMAIN levels = 1..n
        /\ \A j \in 1..n : levels[j].amount \in Nat /\ levels[j].price \in Nat
    BY LevelsAre
  <1>2. n \in 1..n
    BY <1>1 DEF LevelsInOrder
  <1>3. k <= levels[n].amount
    BY DEF Available, Last
  <1>4. n \in T
    BY <1>1, <1>2, <1>3
  <1>5. T \in SUBSET Nat /\ T # {}
    BY <1>4
  <1> HIDE DEF T
  <1>6. PICK i \in T : \A j \in T : i <= j
    BY <1>5, LeastNumber
  <1>7. i \in 1..n /\ k <= levels[i].amount
    BY <1>6 DEF T
  <1>8. ASSUME i > 1 PROVE levels[i - 1].amount < k
    <2>1. i - 1 \in 1..n /\ ~(i <= i - 1)
      BY <1>1, <1>7, <1>8
    <2>2. i - 1 \notin T
      BY <1>6, <2>1
    <2>3. QED
      BY <1>1, <2>1, <2>2 DEF T
  <1>9. PriceOfUnit(k, levels) = levels[i].price
    BY <1>7, <1>8, PriceOfUnitIs
  <1>10. QED
    BY <1>1, <1>7, <1>9

(* The loop of calculateCostFromLevels.                                    *)
Progress == [cost: Int, previousLevel: Nat, done: BOOLEAN]
AtStart == [cost |-> 0, previousLevel |-> 0, done |-> FALSE]

LEMMA StepIs ==
    ASSUME NEW amount \in Nat, NEW acc \in Progress, NEW level \in [amount: Nat, price: Nat]
    PROVE  StepThroughLevel(amount, acc, level) \in Progress
  <1>1. /\ acc.cost \in Int /\ acc.previousLevel \in Nat /\ acc.done \in BOOLEAN
        /\ level.amount \in Nat /\ level.price \in Nat
    BY DEF Progress
  <1> DEFINE upTo == IF amount > level.amount THEN level.amount ELSE amount
             more == (upTo - acc.previousLevel) * level.price
  <1>2. upTo - acc.previousLevel \in Int
    BY <1>1
  <1> HIDE DEF upTo
  <1>3. more \in Int
    BY <1>1, <1>2
  <1> HIDE DEF more
  <1>4. acc.cost + more \in Int
    BY <1>1, <1>3
  <1>5. [cost |-> acc.cost + more, previousLevel |-> level.amount,
         done |-> amount < level.amount] \in Progress
    BY <1>1, <1>4 DEF Progress
  <1>6. QED
    BY <1>5 DEF StepThroughLevel, more, upTo

LEMMA CostLoop ==
    ASSUME NEW amount \in Nat, NEW levels, LevelsInOrder(levels)
    PROVE  \E g \in [0..Len(levels) -> Progress] :
              /\ calculateCostFromLevels(amount, levels) = SixDecimals(g[Len(levels)].cost)
              /\ g[0] = AtStart
              /\ \A i \in 1..Len(levels) : g[i] = StepThroughLevel(amount, g[i - 1], levels[i])
  <1> DEFINE n == Len(levels)
             step == [i \in 1..n |-> [x \in Progress |-> StepThroughLevel(amount, x, levels[i])]]
             Is(g) == g = [i \in 0..n |-> IF i = 0 THEN AtStart
                                          ELSE StepThroughLevel(amount, g[i - 1], levels[i])]
  <1>1. n \in Nat /\ \A i \in 1..n : levels[i] \in [amount: Nat, price: Nat]
    BY LevelsAre
  <1>2. ASSUME NEW i \in 1..n, NEW x \in Progress
        PROVE  StepThroughLevel(amount, x, levels[i]) \in Progress
    BY <1>1, StepIs
  <1>3. step \in [1..n -> [Progress -> Progress]]
    BY <1>2
  <1>4. AtStart \in Progress
    BY DEF AtStart, Progress
  <1>5. \A i \in 1..n, x \in Progress : step[i][x] = StepThroughLevel(amount, x, levels[i])
    OBVIOUS
  <1> HIDE DEF step, n
  <1>6. PICK f : f \in [0..n -> Progress] /\ f[0] = AtStart /\ \A i \in 1..n : f[i] = step[i][f[i - 1]]
    <2>1. n \in Nat
      BY <1>1
    <2>2. \E f : IsLoop(f, n, Progress, AtStart, step)
      BY <2>1, <1>3, <1>4, LoopExists
    <2>3. QED
      BY <2>2 DEF IsLoop
  <1>7. \A i \in 0..n : f[i] = IF i = 0 THEN AtStart
                                ELSE StepThroughLevel(amount, f[i - 1], levels[i])
    <2>1. ASSUME NEW i \in 0..n, i # 0
          PROVE  f[i] = StepThroughLevel(amount, f[i - 1], levels[i])
      <3>1. i \in 1..n /\ f[i - 1] \in Progress
        BY <1>1, <1>6, <2>1
      <3>2. QED
        BY <1>5, <1>6, <3>1
    <2>2. QED
      BY <1>6, <2>1
  <1>8. Is(f)
    <2>1. f = [i \in 0..n |-> f[i]]
      BY <1>6
    <2>2. QED
      BY <1>7, <2>1
  <1> DEFINE g == CHOOSE h : Is(h)
  <1>9. Is(g)
    <2> HIDE DEF Is
    <2>1. QED
      BY <1>8
  <1>10. calculateCostFromLevels(amount, levels) = SixDecimals(g[n].cost)
    BY DEF calculateCostFromLevels, AtStart, n
  <1> HIDE DEF g
  <1>11. \A i \in 0..n : g[i] = IF i = 0 THEN AtStart
                                ELSE StepThroughLevel(amount, g[i - 1], levels[i])
    BY <1>9
  <1>12. g[0] = AtStart /\ \A i \in 1..n : g[i] = StepThroughLevel(amount, g[i - 1], levels[i])
    BY <1>1, <1>11
  <1>13. g \in [0..n -> Progress]
    <2> DEFINE G == {m \in Nat : m <= n => g[m] \in Progress}
    <2>1. 0 \in G
      BY <1>4, <1>12
    <2>2. ASSUME NEW m \in Nat, m \in G PROVE m + 1 \in G
      <3>1. SUFFICES ASSUME m + 1 <= n PROVE g[m + 1] \in Progress
        OBVIOUS
      <3>2. m + 1 \in 1..n /\ (m + 1) - 1 = m /\ g[m] \in Progress
        BY <1>1, <2>2, <3>1
      <3>3. g[m + 1] = StepThroughLevel(amount, g[m], levels[m + 1])
        BY <1>12, <3>2
      <3>4. levels[m + 1] \in [amount: Nat, price: Nat]
        BY <1>1, <3>2
      <3>5. QED
        BY <3>2, <3>3, <3>4, StepIs
    <2>3. Nat \subseteq G
      <3> HIDE DEF G
      <3>1. QED
        BY <2>1, <2>2, SetInduction
    <2>4. \A i \in 0..n : g[i] \in Progress
      BY <1>1, <2>3
    <2>5. g = [i \in 0..n |-> g[i]]
      BY <1>9
    <2>6. QED
      BY <2>4, <2>5
  <1>14. QED
    BY <1>10, <1>12, <1>13 DEF n

(* Before the loop is done, the cost is that of the units up to the level  *)
(* it has reached; once it is done, that of the whole amount.              *)
LEMMA CostIsWorth ==
    ASSUME NEW amount \in Nat, NEW levels, LevelsInOrder(levels), levels # <<>>,
           amount <= Available(levels)
    PROVE  calculateCostFromLevels(amount, levels) = Worth(amount, levels)
  <1> DEFINE n == Len(levels)
             f == [k \in 1..amount |-> PriceOfUnit(k, levels)]
             sum(k) == SumFunctionOnSet(f, 1..k)
             reached(i) == IF i = 0 THEN 0 ELSE levels[i].amount
  <1>1. /\ n \in Nat /\ n # 0
        /\ \A i \in 1..n : levels[i] \in [amount: Nat, price: Nat]
        /\ \A i \in 1..n : levels[i].amount \in Nat /\ levels[i].price \in Nat
        /\ \A i, j \in 1..n : i <= j => levels[i].amount <= levels[j].amount
    <2>1. n # 0
      BY DEF LevelsInOrder
    <2>2. QED
      BY <2>1, LevelsAre
  <1>2. amount <= levels[n].amount
    BY DEF Available, Last
  <1>3. \A k \in 1..amount : f[k] = PriceOfUnit(k, levels) /\ f[k] \in Int
    <2>1. ASSUME NEW k \in 1..amount PROVE PriceOfUnit(k, levels) \in Int
      <3>1. k <= Available(levels) /\ k \in Int
        BY <1>1, <1>2 DEF Available, Last
      <3>2. QED
        BY <3>1, UnitsHavePrices
    <2>2. QED
      BY <2>1
  <1>4. PICK g \in [0..n -> Progress] :
            /\ calculateCostFromLevels(amount, levels) = SixDecimals(g[n].cost)
            /\ g[0] = AtStart
            /\ \A i \in 1..n : g[i] = StepThroughLevel(amount, g[i - 1], levels[i])
    BY CostLoop
  <1> HIDE DEF n, f
  <1>5. ASSUME NEW i \in 1..n PROVE reached(i - 1) \in Nat /\ reached(i - 1) <= levels[i].amount
    <2>1. CASE i = 1
      BY <1>1, <2>1
    <2>2. CASE i # 1
      <3>1. i - 1 \in 1..n /\ i - 1 <= i /\ i - 1 # 0
        BY <1>1, <2>2
      <3>2. levels[i - 1].amount \in Nat /\ levels[i - 1].amount <= levels[i].amount
        BY <1>1, <3>1
      <3>3. QED
        BY <3>1, <3>2
    <2>3. QED
      BY <2>1, <2>2
  <1>6. ASSUME NEW i \in 1..n, NEW b \in Nat, reached(i - 1) <= b, b <= amount,
               b <= levels[i].amount
        PROVE  sum(b) = sum(reached(i - 1)) + (b - reached(i - 1)) * levels[i].price
    <2> DEFINE a == reached(i - 1)
    <2>1. a \in Nat /\ a <= b /\ levels[i].price \in Int
      BY <1>1, <1>5, <1>6
    <2>2. ASSUME NEW k \in (a + 1)..b PROVE f[k] = levels[i].price
      <3>1. k \in 1..amount /\ k <= levels[i].amount /\ a < k
        BY <1>1, <1>6, <2>1
      <3>2. i > 1 => levels[i - 1].amount < k
        BY <1>1, <3>1
      <3>3. PriceOfUnit(k, levels) = levels[i].price
        <4> HIDE DEF a
        <4>1. k \in Int /\ i \in 1..Len(levels)
          BY <3>1 DEF n
        <4>2. QED
          BY <3>1, <3>2, <4>1, PriceOfUnitIs
      <3>4. QED
        BY <1>3, <3>1, <3>3
    <2>3. \A k \in 1..b : f[k] \in Int
      BY <1>3, <1>6
    <2> HIDE DEF a
    <2>4. SumFunctionOnSet(f, 1..b)
            = SumFunctionOnSet(f, 1..a) + (b - a) * levels[i].price
      BY <2>1, <2>2, <2>3, SumOfRange
    <2>5. QED
      BY <2>4 DEF a
  <1> DEFINE Right(i) ==
        IF g[i].done THEN g[i].cost = sum(amount)
        ELSE /\ reached(i) <= amount /\ g[i].previousLevel = reached(i)
             /\ g[i].cost = sum(reached(i))
  <1>7. Right(0)
    <2>1. sum(0) = 0
      <3>1. 1..0 = {}
        OBVIOUS
      <3>2. QED
        BY <3>1, SumEmpty
    <2> HIDE DEF sum
    <2>2. QED
      BY <1>4, <2>1 DEF AtStart
  <1>8. ASSUME NEW i \in 1..n, Right(i - 1) PROVE Right(i)
    <2> DEFINE acc == g[i - 1]
               level == levels[i]
               upTo == IF amount > level.amount THEN level.amount ELSE amount
    <2>1. g[i] = StepThroughLevel(amount, acc, level) /\ level.amount \in Nat
      BY <1>1, <1>4
    <2>2. CASE acc.done
      <3>1. g[i] = acc
        BY <2>1, <2>2 DEF StepThroughLevel
      <3>2. acc.cost = sum(amount)
        BY <1>8, <2>2
      <3> HIDE DEF acc, sum, reached
      <3>3. QED
        BY <2>2, <3>1, <3>2
    <2>3. CASE ~acc.done
      <3>1. /\ reached(i - 1) <= amount /\ acc.previousLevel = reached(i - 1)
            /\ acc.cost = sum(reached(i - 1))
        BY <1>8, <2>3
      <3>2. /\ g[i].cost = acc.cost + (upTo - acc.previousLevel) * level.price
            /\ g[i].previousLevel = level.amount
            /\ g[i].done = (amount < level.amount)
        BY <2>1, <2>3 DEF StepThroughLevel
      <3>3. /\ upTo \in Nat /\ reached(i - 1) <= upTo
            /\ upTo <= amount /\ upTo <= level.amount
        BY <1>5, <2>1, <3>1
      <3>4. i # 0 /\ reached(i) = level.amount
        BY <1>1
      <3> HIDE DEF acc, upTo, sum, reached
      <3>5. sum(upTo) = sum(reached(i - 1)) + (upTo - reached(i - 1)) * level.price
        BY <1>6, <3>3
      <3>6. g[i].cost = sum(upTo)
        BY <3>1, <3>2, <3>5
      <3>7. CASE amount < level.amount
        <4>1. upTo = amount
          BY <2>1, <3>7 DEF upTo
        <4>2. QED
          BY <3>2, <3>6, <3>7, <4>1
      <3>8. CASE ~(amount < level.amount)
        <4>1. upTo = level.amount /\ level.amount <= amount
          BY <2>1, <3>8 DEF upTo
        <4>2. QED
          BY <3>2, <3>4, <3>6, <3>8, <4>1
      <3>9. QED
        BY <3>7, <3>8
    <2>4. QED
      BY <2>2, <2>3
  <1>9. Right(n)
    <2> DEFINE G == {m \in Nat : m <= n => Right(m)}
    <2> HIDE DEF Right
    <2>1. 0 \in G
      BY <1>7
    <2>2. ASSUME NEW m \in Nat, m \in G PROVE m + 1 \in G
      <3>1. CASE m + 1 <= n
        <4>1. m + 1 \in 1..n /\ (m + 1) - 1 = m /\ Right(m)
          BY <1>1, <2>2, <3>1
        <4>2. Right(m + 1)
          BY <1>8, <4>1
        <4>3. QED
          BY <4>2
      <3>2. CASE ~(m + 1 <= n)
        BY <3>2
      <3>3. QED
        BY <3>1, <3>2
    <2>3. n \in G
      <3> HIDE DEF G
      <3>1. QED
        BY <1>1, <2>1, <2>2, SetInduction
    <2>4. QED
      BY <1>1, <2>3
  <1>10. g[n].cost = sum(amount)
    <2>1. CASE g[n].done
      BY <1>9, <2>1
    <2>2. CASE ~g[n].done
      <3>1. reached(n) <= amount /\ g[n].cost = sum(reached(n)) /\ reached(n) = levels[n].amount
        BY <1>1, <1>9, <2>2
      <3>2. levels[n].amount \in Nat
        BY <1>1
      <3>3. levels[n].amount = amount
        BY <1>2, <3>1, <3>2
      <3> HIDE DEF sum
      <3>4. QED
        BY <3>1, <3>3
    <2>3. QED
      BY <2>1, <2>2
  <1>11. Worth(amount, levels) = SixDecimals(sum(amount))
    BY DEF Worth, SumFunction, f
  <1>12. QED
    BY <1>4, <1>10, <1>11

(* The loops of getLowest and getHighest keep the first of the best: w[i]  *)
(* is what the i-th object counts, the less the better.                    *)
KeepsBest(n, objects, able, w, g) ==
    /\ \A i \in able : objects[i] # Undefined
    /\ \A i \in able : w[i] \in Int
    /\ g[0] = Undefined
    /\ \A i \in 1..n : g[i - 1] = Undefined =>
          g[i] = IF i \in able THEN objects[i] ELSE Undefined
    /\ \A i \in 1..n, j \in able : g[i - 1] = objects[j] =>
          g[i] = IF i \in able /\ w[i] < w[j] THEN objects[i] ELSE objects[j]

IsBest(x, objects, able, w) ==
    /\ able = {} => x = Undefined
    /\ able # {} => \E i \in able : x = objects[i] /\ \A j \in able : w[i] <= w[j]

LEMMA BestIsFound ==
    ASSUME NEW n \in Nat, NEW objects, NEW able \in SUBSET (1..n), NEW w, NEW g,
           KeepsBest(n, objects, able, w, g)
    PROVE  IsBest(g[n], objects, able, w)
  <1> DEFINE Found(m) ==
               \/ /\ \A j \in able : m < j
                  /\ g[m] = Undefined
               \/ \E i \in able : /\ i <= m /\ g[m] = objects[i]
                                  /\ \A j \in able : j <= m => w[i] <= w[j]
             G == {m \in Nat : m <= n => Found(m)}
  <1>0. /\ able \in SUBSET (1..n)
        /\ \A i \in able : objects[i] # Undefined
        /\ \A i \in able : w[i] \in Int
        /\ g[0] = Undefined
        /\ \A i \in 1..n : g[i - 1] = Undefined =>
              g[i] = IF i \in able THEN objects[i] ELSE Undefined
        /\ \A i \in 1..n, j \in able : g[i - 1] = objects[j] =>
              g[i] = IF i \in able /\ w[i] < w[j] THEN objects[i] ELSE objects[j]
    BY DEF KeepsBest
  <1>a. \A i \in able : i \in Int /\ w[i] \in Int
    BY <1>0
  <1>1. 0 \in G
    <2>1. \A j \in able : 0 < j
      BY <1>0
    <2>2. QED
      BY <1>0, <2>1
  <1>2. ASSUME NEW m \in Nat, m \in G, m + 1 <= n PROVE Found(m + 1)
    <2>1. m + 1 \in 1..n /\ (m + 1) - 1 = m /\ Found(m)
      BY <1>0, <1>2
    <2>2. /\ g[m] = Undefined => g[m + 1] = IF m + 1 \in able THEN objects[m + 1] ELSE Undefined
          /\ \A j \in able : g[m] = objects[j] =>
                g[m + 1] = IF m + 1 \in able /\ w[m + 1] < w[j] THEN objects[m + 1]
                                                             ELSE objects[j]
      BY <1>0, <2>1
    <2>3. ASSUME NEW j \in able PROVE j \in Int /\ (j <= m + 1 => j <= m \/ j = m + 1)
      <3>1. j \in Int
        OBVIOUS
      <3>2. QED
        BY <3>1
    <2>4. CASE m + 1 \notin able
      <3>1. g[m + 1] = g[m]
        BY <1>0, <2>1, <2>2, <2>4
      <3>2. \A j \in able : (m < j => m + 1 < j) /\ (j <= m + 1 => j <= m)
        BY <2>3, <2>4
      <3>3. \A j \in able : j <= m => j <= m + 1
        BY <2>3
      <3>4. QED
        BY <1>0, <2>1, <3>1, <3>2, <3>3
    <2>5. CASE m + 1 \in able /\ g[m] = Undefined
      <3>1. g[m + 1] = objects[m + 1]
        BY <1>0, <2>2, <2>5
      <3>2. \A j \in able : m < j
        BY <1>0, <2>1, <2>5
      <3>3. ASSUME NEW j \in able, j <= m + 1 PROVE w[m + 1] <= w[j]
        <4>1. j = m + 1 /\ w[m + 1] \in Int
          BY <1>a, <2>3, <2>5, <3>2, <3>3
        <4>2. QED
          BY <1>a, <4>1
      <3>4. QED
        BY <1>a, <2>5, <3>1, <3>3
    <2>6. CASE m + 1 \in able /\ g[m] # Undefined
      <3>1. PICK i \in able : /\ i <= m /\ g[m] = objects[i]
                              /\ \A j \in able : j <= m => w[i] <= w[j]
        BY <1>0, <2>1, <2>6
      <3>2. w[i] \in Int /\ w[m + 1] \in Int /\ i <= m + 1
        BY <1>a, <2>6, <3>1
      <3>3. CASE w[m + 1] < w[i]
        <4>1. g[m + 1] = objects[m + 1]
          BY <1>0, <2>2, <2>6, <3>1, <3>3
        <4>2. ASSUME NEW j \in able, j <= m + 1 PROVE w[m + 1] <= w[j]
          <5>1. w[j] \in Int /\ (j = m + 1 \/ w[i] <= w[j])
            BY <1>a, <2>3, <3>1, <4>2
          <5>2. QED
            BY <1>a, <3>2, <3>3, <5>1
        <4>3. QED
          BY <1>a, <2>6, <4>1, <4>2
      <3>4. CASE ~(w[m + 1] < w[i])
        <4>1. g[m + 1] = objects[i]
          BY <1>0, <2>2, <2>6, <3>1, <3>4
        <4>2. ASSUME NEW j \in able, j <= m + 1 PROVE w[i] <= w[j]
          <5>1. j = m + 1 \/ w[i] <= w[j]
            BY <1>a, <2>3, <3>1, <4>2
          <5>2. QED
            BY <1>a, <3>2, <3>4, <5>1
        <4>3. QED
          BY <1>a, <3>2, <4>1, <4>2
      <3>5. QED
        BY <3>3, <3>4
    <2>7. QED
      BY <2>4, <2>5, <2>6
  <1>3. n \in G
    <2>1. ASSUME NEW m \in Nat, m \in G PROVE m + 1 \in G
      <3> HIDE DEF Found
      <3>1. QED
        BY <1>0, <1>2, <2>1
    <2> HIDE DEF G
    <2>2. QED
      BY <1>1, <2>1, SetInduction
  <1>4. Found(n)
    <2> HIDE DEF Found
    <2>1. QED
      BY <1>3
  <1>5. \A j \in able : j <= n /\ ~(n < j)
    OBVIOUS
  <1>6. QED
    BY <1>a, <1>4, <1>5 DEF IsBest

LEMMA LowestLoop ==
    ASSUME NEW X, NEW objects \in Seq(X), NEW key
    PROVE  \E g : /\ getLowest(objects, key) = g[Len(objects)]
                  /\ g[0] = Undefined
                  /\ \A i \in 1..Len(objects) :
                       g[i] = IF /\ key \in DOMAIN objects[i]
                                 /\ \/ g[i - 1] = Undefined
                                    \/ objects[i][key].amount < g[i - 1][key].amount
                              THEN objects[i] ELSE g[i - 1]
  <1> DEFINE n == Len(objects)
             S == {Undefined} \union {objects[i] : i \in 1..n}
             After(i, x) == IF /\ key \in DOMAIN objects[i]
                               /\ \/ x = Undefined
                                  \/ Lower(objects[i][key].amount, x[key].amount)
                            THEN objects[i] ELSE x
             step == [i \in 1..n |-> [x \in S |-> After(i, x)]]
             Is(g) == g = [i \in 0..n |-> IF i = 0 THEN Undefined ELSE After(i, g[i - 1])]
  <1>1. n \in Nat /\ Undefined \in S
    OBVIOUS
  <1>2. step \in [1..n -> [S -> S]]
    <2>1. \A i \in 1..n, x \in S : After(i, x) \in S
      OBVIOUS
    <2> HIDE DEF After, S
    <2>2. QED
      BY <2>1
  <1>3. \A i \in 1..n, x \in S : step[i][x] = After(i, x)
    <2> HIDE DEF After, S
    <2>1. QED
      OBVIOUS
  <1>4. getLowest(objects, key) = (CHOOSE g : Is(g))[n]
    BY DEF getLowest
  <1> HIDE DEF step, n, S, After
  <1>5. PICK f : f \in [0..n -> S] /\ f[0] = Undefined /\ \A i \in 1..n : f[i] = step[i][f[i - 1]]
    <2>1. \E f : IsLoop(f, n, S, Undefined, step)
      BY <1>1, <1>2, LoopExists
    <2>2. QED
      BY <2>1 DEF IsLoop
  <1>6. \A i \in 0..n : f[i] = IF i = 0 THEN Undefined ELSE After(i, f[i - 1])
    <2>1. ASSUME NEW i \in 0..n, i # 0 PROVE f[i] = After(i, f[i - 1])
      <3>1. i \in 1..n /\ f[i - 1] \in S
        BY <1>1, <1>5, <2>1
      <3>2. QED
        BY <1>3, <1>5, <3>1
    <2>2. QED
      BY <1>5, <2>1
  <1>7. Is(f)
    <2>1. f = [i \in 0..n |-> f[i]]
      BY <1>5
    <2>2. QED
      BY <1>6, <2>1
  <1> DEFINE g == CHOOSE h : Is(h)
  <1>8. Is(g)
    <2> HIDE DEF Is
    <2>1. QED
      BY <1>7
  <1> HIDE DEF g
  <1>9. g[0] = Undefined /\ \A i \in 1..n : g[i] = After(i, g[i - 1])
    <2>1. \A i \in 0..n : g[i] = IF i = 0 THEN Undefined ELSE After(i, g[i - 1])
      BY <1>8
    <2>2. QED
      BY <1>1, <2>1
  <1>10. QED
    BY <1>4, <1>9 DEF After, n, g, Lower

LEMMA HighestLoop ==
    ASSUME NEW X, NEW objects \in Seq(X), NEW key
    PROVE  \E g : /\ getHighest(objects, key) = g[Len(objects)]
                  /\ g[0] = Undefined
                  /\ \A i \in 1..Len(objects) :
                       g[i] = IF /\ key \in DOMAIN objects[i]
                                 /\ \/ g[i - 1] = Undefined
                                    \/ g[i - 1][key].amount < objects[i][key].amount
                              THEN objects[i] ELSE g[i - 1]
  <1> DEFINE n == Len(objects)
             S == {Undefined} \union {objects[i] : i \in 1..n}
             After(i, x) == IF /\ key \in DOMAIN objects[i]
                               /\ \/ x = Undefined
                                  \/ Lower(x[key].amount, objects[i][key].amount)
                            THEN objects[i] ELSE x
             step == [i \in 1..n |-> [x \in S |-> After(i, x)]]
             Is(g) == g = [i \in 0..n |-> IF i = 0 THEN Undefined ELSE After(i, g[i - 1])]
  <1>1. n \in Nat /\ Undefined \in S
    OBVIOUS
  <1>2. step \in [1..n -> [S -> S]]
    <2>1. \A i \in 1..n, x \in S : After(i, x) \in S
      OBVIOUS
    <2> HIDE DEF After, S
    <2>2. QED
      BY <2>1
  <1>3. \A i \in 1..n, x \in S : step[i][x] = After(i, x)
    <2> HIDE DEF After, S
    <2>1. QED
      OBVIOUS
  <1>4. getHighest(objects, key) = (CHOOSE g : Is(g))[n]
    BY DEF getHighest
  <1> HIDE DEF step, n, S, After
  <1>5. PICK f : f \in [0..n -> S] /\ f[0] = Undefined /\ \A i \in 1..n : f[i] = step[i][f[i - 1]]
    <2>1. \E f : IsLoop(f, n, S, Undefined, step)
      BY <1>1, <1>2, LoopExists
    <2>2. QED
      BY <2>1 DEF IsLoop
  <1>6. \A i \in 0..n : f[i] = IF i = 0 THEN Undefined ELSE After(i, f[i - 1])
    <2>1. ASSUME NEW i \in 0..n, i # 0 PROVE f[i] = After(i, f[i - 1])
      <3>1. i \in 1..n /\ f[i - 1] \in S
        BY <1>1, <1>5, <2>1
      <3>2. QED
        BY <1>3, <1>5, <3>1
    <2>2. QED
      BY <1>5, <2>1
  <1>7. Is(f)
    <2>1. f = [i \in 0..n |-> f[i]]
      BY <1>5
    <2>2. QED
      BY <1>6, <2>1
  <1> DEFINE g == CHOOSE h : Is(h)
  <1>8. Is(g)
    <2> HIDE DEF Is
    <2>1. QED
      BY <1>7
  <1> HIDE DEF g
  <1>9. g[0] = Undefined /\ \A i \in 1..n : g[i] = After(i, g[i - 1])
    <2>1. \A i \in 0..n : g[i] = IF i = 0 THEN Undefined ELSE After(i, g[i - 1])
      BY <1>8
    <2>2. QED
      BY <1>1, <2>1
  <1>10. QED
    BY <1>4, <1>9 DEF After, n, g, Lower

LowestOf(x, objects, key, able) ==
    /\ able = {} => x = Undefined
    /\ able # {} => \E i \in able :
          /\ x = objects[i]
          /\ \A j \in able : objects[i][key].amount <= objects[j][key].amount

HighestOf(x, objects, key, able) ==
    /\ able = {} => x = Undefined
    /\ able # {} => \E i \in able :
          /\ x = objects[i]
          /\ \A j \in able : objects[j][key].amount <= objects[i][key].amount

LEMMA LowestIs ==
    ASSUME NEW X, NEW objects \in Seq(X), NEW key, NEW able,
           able = {i \in 1..Len(objects) : key \in DOMAIN objects[i]},
           \A i \in able : objects[i] # Undefined /\ objects[i][key].amount \in Int
    PROVE  LowestOf(getLowest(objects, key), objects, key, able)
  <1> DEFINE n == Len(objects)
             w == [i \in able |-> objects[i][key].amount]
  <1>1. n \in Nat /\ able \in SUBSET (1..n)
    OBVIOUS
  <1>2. PICK g : /\ getLowest(objects, key) = g[n]
                 /\ g[0] = Undefined
                 /\ \A i \in 1..n :
                      g[i] = IF /\ key \in DOMAIN objects[i]
                                /\ \/ g[i - 1] = Undefined
                                   \/ objects[i][key].amount < g[i - 1][key].amount
                             THEN objects[i] ELSE g[i - 1]
    BY LowestLoop
  <1>3. \A i \in able : w[i] \in Int /\ w[i] = objects[i][key].amount
    OBVIOUS
  <1>4. ASSUME NEW i \in 1..n, g[i - 1] = Undefined
        PROVE  g[i] = IF i \in able THEN objects[i] ELSE Undefined
    BY <1>2, <1>4
  <1>5. ASSUME NEW i \in 1..n, NEW j \in able, g[i - 1] = objects[j]
        PROVE  g[i] = IF i \in able /\ w[i] < w[j] THEN objects[i] ELSE objects[j]
    <2>1. objects[j] # Undefined /\ (key \in DOMAIN objects[i] <=> i \in able)
      OBVIOUS
    <2> HIDE DEF w
    <2>2. QED
      BY <1>2, <1>3, <1>5, <2>1
  <1> HIDE DEF n, w
  <1>6. /\ able = {} => g[n] = Undefined
        /\ able # {} => \E i \in able : g[n] = objects[i] /\ \A j \in able : w[i] <= w[j]
    <2>1. KeepsBest(n, objects, able, w, g)
      BY <1>2, <1>3, <1>4, <1>5 DEF KeepsBest
    <2>2. IsBest(g[n], objects, able, w)
      BY <1>1, <2>1, BestIsFound
    <2>3. QED
      BY <2>2 DEF IsBest
  <1>7. QED
    BY <1>2, <1>3, <1>6 DEF LowestOf

LEMMA HighestIs ==
    ASSUME NEW X, NEW objects \in Seq(X), NEW key, NEW able,
           able = {i \in 1..Len(objects) : key \in DOMAIN objects[i]},
           \A i \in able : objects[i] # Undefined /\ objects[i][key].amount \in Int
    PROVE  HighestOf(getHighest(objects, key), objects, key, able)
  <1> DEFINE n == Len(objects)
             w == [i \in able |-> 0 - objects[i][key].amount]
  <1>1. n \in Nat /\ able \in SUBSET (1..n)
    OBVIOUS
  <1>2. PICK g : /\ getHighest(objects, key) = g[n]
                 /\ g[0] = Undefined
                 /\ \A i \in 1..n :
                      g[i] = IF /\ key \in DOMAIN objects[i]
                                /\ \/ g[i - 1] = Undefined
                                   \/ g[i - 1][key].amount < objects[i][key].amount
                             THEN objects[i] ELSE g[i - 1]
    BY HighestLoop
  <1>3. /\ \A i \in able : w[i] \in Int
        /\ \A i, j \in able : /\ w[i] < w[j] <=> objects[j][key].amount < objects[i][key].amount
                              /\ w[i] <= w[j] => objects[j][key].amount <= objects[i][key].amount
    OBVIOUS
  <1>4. ASSUME NEW i \in 1..n, g[i - 1] = Undefined
        PROVE  g[i] = IF i \in able THEN objects[i] ELSE Undefined
    BY <1>2, <1>4
  <1>5. ASSUME NEW i \in 1..n, NEW j \in able, g[i - 1] = objects[j]
        PROVE  g[i] = IF i \in able /\ w[i] < w[j] THEN objects[i] ELSE objects[j]
    <2>1. objects[j] # Undefined /\ (key \in DOMAIN objects[i] <=> i \in able)
      OBVIOUS
    <2> HIDE DEF w
    <2>2. QED
      BY <1>2, <1>3, <1>5, <2>1
  <1> HIDE DEF n, w
  <1>6. /\ able = {} => g[n] = Undefined
        /\ able # {} => \E i \in able : g[n] = objects[i] /\ \A j \in able : w[i] <= w[j]
    <2>1. KeepsBest(n, objects, able, w, g)
      BY <1>2, <1>3, <1>4, <1>5 DEF KeepsBest
    <2>2. IsBest(g[n], objects, able, w)
      BY <1>1, <2>1, BestIsFound
    <2>3. QED
      BY <2>2 DEF IsBest
  <1>7. QED
    BY <1>2, <1>3, <1>6 DEF HighestOf

(* What an offer says, and that it names a cost if the levels reach.       *)
Reach(amount, levels) == levels # <<>> /\ Available(levels) >= amount

Priced(side) == IF side = "buy" THEN "sender" ELSE "signer"

LEMMA OfferIs ==
    ASSUME NEW side \in {"buy", "sell"}, NEW amount \in Nat, NEW levels, LevelsInOrder(levels)
    PROVE  LET quote == Offer(side, amount, levels)
           IN  /\ quote # Undefined
               /\ Priced(side) \in DOMAIN quote <=> Reach(amount, levels)
               /\ Reach(amount, levels) =>
                     quote[Priced(side)].amount = Worth(amount, levels)
               /\ Reach(amount, levels) => Worth(amount, levels) \in Int
  <1> DEFINE quote == Offer(side, amount, levels)
             cost == calculateCostFromLevels(amount, levels)
  <1>1. levels # <<>> => Available(levels) \in Nat
    <2>1. /\ Len(levels) \in Nat
          /\ \A i \in 1..Len(levels) : levels[i].amount \in Nat
      BY LevelsAre
    <2>2. levels # <<>> => Len(levels) # 0
      BY DEF LevelsInOrder
    <2>3. QED
      BY <2>1, <2>2 DEF Available, Last
  <1>2. Reach(amount, levels) <=> ~(levels = <<>> \/ Available(levels) < amount)
    BY <1>1 DEF Reach
  <1>3. quote = IF Reach(amount, levels)
                THEN IF side = "buy"
                     THEN [signer |-> [amount |-> amount], sender |-> [amount |-> cost]]
                     ELSE [signer |-> [amount |-> cost], sender |-> [amount |-> amount]]
                ELSE IF side = "buy" THEN [signer |-> [amount |-> amount]]
                     ELSE [sender |-> [amount |-> amount]]
    BY <1>2 DEF Offer
  <1>4. ASSUME Reach(amount, levels) PROVE cost = Worth(amount, levels) /\ cost \in Int
    <2>1. cost = Worth(amount, levels)
      BY <1>1, <1>4, CostIsWorth DEF Reach
    <2>2. PICK g \in [0..Len(levels) -> Progress] : cost = SixDecimals(g[Len(levels)].cost)
      BY CostLoop
    <2>3. g[Len(levels)].cost \in Int
      <3>1. Len(levels) \in 0..Len(levels)
        BY LevelsAre
      <3>2. g[Len(levels)] \in Progress
        BY <3>1
      <3>3. QED
        BY <3>2 DEF Progress
    <2> HIDE DEF cost
    <2>4. cost \in Int
      BY <2>2, <2>3 DEF SixDecimals
    <2>5. QED
      BY <2>1, <2>4
  <1> HIDE DEF quote, cost
  <1>5. DOMAIN Undefined = {}
    BY DEF Undefined
  <1>6. CASE Reach(amount, levels)
    <2>1. DOMAIN quote = {"signer", "sender"}
      BY <1>3, <1>6
    <2>2. quote[Priced(side)].amount = cost /\ Priced(side) \in DOMAIN quote
      BY <1>3, <1>6, <2>1 DEF Priced
    <2>3. QED
      BY <1>4, <1>5, <1>6, <2>1, <2>2 DEF quote
  <1>7. CASE ~Reach(amount, levels)
    <2>1. DOMAIN quote = IF side = "buy" THEN {"signer"} ELSE {"sender"}
      BY <1>3, <1>7
    <2>2. Priced(side) \notin DOMAIN quote
      BY <2>1 DEF Priced
    <2>3. QED
      BY <1>5, <1>7, <2>1, <2>2 DEF quote
  <1>8. QED
    BY <1>6, <1>7

LEMMA ServersInSequence ==
    ASSUME NEW S, IsFiniteSet(S)
    PROVE  /\ Cardinality(S) \in Nat
           /\ SetToSeq(S) \in [1..Cardinality(S) -> S]
  <1>1. PICK n \in Nat : ExistsBijection(1..n, S)
    BY FS_NatBijection
  <1>2. Cardinality(S) = n
    BY <1>1, FS_CountingElements
  <1>3. PICK f : f \in Bijection(1..n, S)
    BY <1>1 DEF ExistsBijection
  <1>4. f \in [1..n -> S] /\ IsInjective(f)
    BY <1>3 DEF Bijection, Injection, IsInjective
  <1>5. QED
    BY <1>2, <1>4 DEF SetToSeq

LEMMA MinIs ==
    ASSUME NEW S \in SUBSET Int, NEW x \in S, \A y \in S : x <= y
    PROVE  Min(S) = x
  <1>1. \A z \in S : (\A y \in S : z <= y) => z = x
    OBVIOUS
  <1>2. QED
    BY <1>1 DEF Min

LEMMA MaxIs ==
    ASSUME NEW S \in SUBSET Int, NEW x \in S, \A y \in S : y <= x
    PROVE  Max(S) = x
  <1>1. \A z \in S : (\A y \in S : z >= y) => z = x
    OBVIOUS
  <1>2. QED
    BY <1>1 DEF Max

CheapestOf(x, quotes, amount, lev, able) ==
    /\ able = {} => x = Undefined
    /\ able # {} => \E i \in able :
          /\ x = quotes[i]
          /\ quotes[i]["sender"].amount = Min({Worth(amount, lev[j]) : j \in able})

DearestOf(x, quotes, amount, lev, able) ==
    /\ able = {} => x = Undefined
    /\ able # {} => \E i \in able :
          /\ x = quotes[i]
          /\ quotes[i]["signer"].amount = Max({Worth(amount, lev[j]) : j \in able})

LEMMA BestIsCheapest ==
    ASSUME NEW amount \in Nat, NEW N \in Nat, NEW lev, \A i \in 1..N : LevelsInOrder(lev[i]),
           NEW quotes, quotes = [i \in 1..N |-> Offer("buy", amount, lev[i])],
           NEW able, able = {i \in 1..N : Reach(amount, lev[i])}
    PROVE  CheapestOf(getLowest(quotes, "sender"), quotes, amount, lev, able)
  <1>1. ASSUME NEW i \in 1..N
        PROVE  /\ quotes[i] # Undefined
               /\ "sender" \in DOMAIN quotes[i] <=> Reach(amount, lev[i])
               /\ i \in able => /\ quotes[i]["sender"].amount = Worth(amount, lev[i])
                                /\ Worth(amount, lev[i]) \in Int
    <2>1. quotes[i] = Offer("buy", amount, lev[i]) /\ LevelsInOrder(lev[i])
      OBVIOUS
    <2>2. i \in able => Reach(amount, lev[i])
      OBVIOUS
    <2>3. "buy" \in {"buy", "sell"} /\ Priced("buy") = "sender"
      BY DEF Priced
    <2>4. QED
      BY <2>1, <2>2, <2>3, OfferIs
  <1>2. quotes \in Seq(Range(quotes)) /\ Len(quotes) = N
    BY DEF Range
  <1>3. able = {i \in 1..Len(quotes) : "sender" \in DOMAIN quotes[i]}
    <2>1. \A i \in 1..N : "sender" \in DOMAIN quotes[i] <=> Reach(amount, lev[i])
      BY <1>1
    <2>2. Len(quotes) = N
      BY <1>2
    <2>3. QED
      BY <2>1, <2>2
  <1>4. able \subseteq 1..N
    OBVIOUS
  <1>5. \A i \in able : quotes[i] # Undefined /\ quotes[i]["sender"].amount \in Int
    BY <1>1, <1>4
  <1>6. LowestOf(getLowest(quotes, "sender"), quotes, "sender", able)
    BY <1>2, <1>3, <1>5, LowestIs
  <1>7. ASSUME NEW i \in able,
               \A j \in able : quotes[i]["sender"].amount <= quotes[j]["sender"].amount
        PROVE  quotes[i]["sender"].amount = Min({Worth(amount, lev[j]) : j \in able})
    <2> DEFINE S == {Worth(amount, lev[j]) : j \in able}
    <2>1. \A j \in able : /\ quotes[j]["sender"].amount = Worth(amount, lev[j])
                          /\ Worth(amount, lev[j]) \in Int
      BY <1>1, <1>4
    <2>2. S \in SUBSET Int /\ Worth(amount, lev[i]) \in S
      BY <2>1
    <2>3. \A y \in S : Worth(amount, lev[i]) <= y
      BY <1>7, <2>1
    <2> HIDE DEF S
    <2>4. Min(S) = Worth(amount, lev[i])
      BY <2>2, <2>3, MinIs
    <2>5. QED
      BY <2>1, <2>4 DEF S
  <1>8. QED
    BY <1>6, <1>7 DEF CheapestOf, LowestOf

LEMMA BestIsDearest ==
    ASSUME NEW amount \in Nat, NEW N \in Nat, NEW lev, \A i \in 1..N : LevelsInOrder(lev[i]),
           NEW quotes, quotes = [i \in 1..N |-> Offer("sell", amount, lev[i])],
           NEW able, able = {i \in 1..N : Reach(amount, lev[i])}
    PROVE  DearestOf(getHighest(quotes, "signer"), quotes, amount, lev, able)
  <1>1. ASSUME NEW i \in 1..N
        PROVE  /\ quotes[i] # Undefined
               /\ "signer" \in DOMAIN quotes[i] <=> Reach(amount, lev[i])
               /\ i \in able => /\ quotes[i]["signer"].amount = Worth(amount, lev[i])
                                /\ Worth(amount, lev[i]) \in Int
    <2>1. quotes[i] = Offer("sell", amount, lev[i]) /\ LevelsInOrder(lev[i])
      OBVIOUS
    <2>2. i \in able => Reach(amount, lev[i])
      OBVIOUS
    <2>3. "sell" \in {"buy", "sell"} /\ Priced("sell") = "signer"
      BY DEF Priced
    <2>4. QED
      BY <2>1, <2>2, <2>3, OfferIs
  <1>2. quotes \in Seq(Range(quotes)) /\ Len(quotes) = N
    BY DEF Range
  <1>3. able = {i \in 1..Len(quotes) : "signer" \in DOMAIN quotes[i]}
    <2>1. \A i \in 1..N : "signer" \in DOMAIN quotes[i] <=> Reach(amount, lev[i])
      BY <1>1
    <2>2. Len(quotes) = N
      BY <1>2
    <2>3. QED
      BY <2>1, <2>2
  <1>4. able \subseteq 1..N
    OBVIOUS
  <1>5. \A i \in able : quotes[i] # Undefined /\ quotes[i]["signer"].amount \in Int
    BY <1>1, <1>4
  <1>6. HighestOf(getHighest(quotes, "signer"), quotes, "signer", able)
    BY <1>2, <1>3, <1>5, HighestIs
  <1>7. ASSUME NEW i \in able,
               \A j \in able : quotes[j]["signer"].amount <= quotes[i]["signer"].amount
        PROVE  quotes[i]["signer"].amount = Max({Worth(amount, lev[j]) : j \in able})
    <2> DEFINE S == {Worth(amount, lev[j]) : j \in able}
    <2>1. \A j \in able : /\ quotes[j]["signer"].amount = Worth(amount, lev[j])
                          /\ Worth(amount, lev[j]) \in Int
      BY <1>1, <1>4
    <2>2. S \in SUBSET Int /\ Worth(amount, lev[i]) \in S
      BY <2>1
    <2>3. \A y \in S : y <= Worth(amount, lev[i])
      BY <1>7, <2>1
    <2> HIDE DEF S
    <2>4. Max(S) = Worth(amount, lev[i])
      BY <2>2, <2>3, MaxIs
    <2>5. QED
      BY <2>1, <2>4 DEF S
  <1>8. QED
    BY <1>6, <1>7 DEF DearestOf, HighestOf

(* The comparison itself.                                                  *)
LEMMA CompareTakesBest ==
    ASSUME RegistryClientAssumption, IsFiniteSet(DOMAIN servers),
           NEW side \in {"buy", "sell"}, NEW amount \in Amount,
           NEW announced \in [DOMAIN servers -> Levels], Compare(side, amount, announced)
    PROVE  BestOfferIsTaken'
  <1> DEFINE order == SetToSeq(DOMAIN servers)
             N == Cardinality(DOMAIN servers)
             lev == [i \in 1..N |-> announced[order[i]]]
             quotes == [i \in 1..N |-> Offer(side, amount, lev[i])]
             able == {i \in 1..N : Reach(amount, lev[i])}
             worths == {Worth(amount, lev[i]) : i \in able}
  <1>1. N \in Nat /\ order \in [1..N -> DOMAIN servers]
    BY ServersInSequence
  <1>2. amount \in Nat /\ \A levels \in Levels : LevelsInOrder(levels)
    BY DEF RegistryClientAssumption, LevelsInOrder
  <1>3. \A i \in 1..N : LevelsInOrder(lev[i])
    <2>1. \A i \in 1..N : lev[i] \in Levels
      BY <1>1
    <2>2. QED
      BY <1>2, <2>1
  <1>4. /\ asked' = [side |-> side, amount |-> amount]
        /\ offers' = [i \in 1..N |-> [levels |-> lev[i], quote |-> quotes[i]]]
    <2>1. DOMAIN order = 1..N
      BY <1>1
    <2> HIDE DEF order, N
    <2>2. QED
      BY <2>1 DEF Compare, order
  <1>5. best' = IF side = "buy" THEN getLowest(quotes, "sender")
                ELSE getHighest(quotes, "signer")
    <2>1. DOMAIN order = 1..N
      BY <1>1
    <2> DEFINE given == [i \in 1..N |-> offers'[i].quote]
    <2>2. best' = IF side = "buy" THEN getLowest(given, "sender")
                  ELSE getHighest(given, "signer")
      <3> HIDE DEF N
      <3>1. QED
        BY <2>1 DEF Compare, getBestByLowestSenderAmount, getBestByHighestSignerAmount
    <2> HIDE DEF N, lev, order
    <2>3. given = quotes
      BY <1>4
    <2> HIDE DEF given, quotes
    <2>4. QED
      BY <2>2, <2>3
  <1> HIDE DEF N, order, lev
  <1>6. quotes = [i \in 1..N |-> Offer(side, amount, lev[i])]
    OBVIOUS
  <1>7. able = {i \in 1..N : Reach(amount, lev[i])}
    OBVIOUS
  <1>8. /\ able = {i \in DOMAIN offers' : offers'[i].levels # <<>>
                                          /\ Available(offers'[i].levels) >= asked'.amount}
        /\ worths = {Worth(asked'.amount, offers'[i].levels) : i \in able}
        /\ \A i \in able : offers'[i].quote = quotes[i]
    <2>1. \A i \in 1..N : offers'[i].levels = lev[i] /\ offers'[i].quote = quotes[i]
      BY <1>4
    <2>2. DOMAIN offers' = 1..N /\ asked'.amount = amount /\ able \subseteq 1..N
      BY <1>4
    <2> HIDE DEF quotes
    <2>3. able = {i \in 1..N : offers'[i].levels # <<>>
                               /\ Available(offers'[i].levels) >= amount}
      BY <2>1 DEF Reach
    <2>4. worths = {Worth(amount, offers'[i].levels) : i \in able}
      BY <2>1, <2>2
    <2>5. QED
      BY <2>1, <2>2, <2>3, <2>4
  <1> HIDE DEF quotes, able
  <1>9. /\ able = {} => best' = Undefined
        /\ able # {} => /\ \E i \in able : best' = quotes[i]
                        /\ side = "buy" => best'.sender.amount = Min(worths)
                        /\ side = "sell" => best'.signer.amount = Max(worths)
    <2>1. CASE side = "buy"
      <3>1. best' = getLowest(quotes, "sender")
        BY <1>5, <2>1
      <3>2. quotes = [i \in 1..N |-> Offer("buy", amount, lev[i])]
        BY <1>6, <2>1
      <3>3. CheapestOf(getLowest(quotes, "sender"), quotes, amount, lev, able)
        BY <1>1, <1>2, <1>3, <1>7, <3>2, BestIsCheapest
      <3>4. QED
        BY <2>1, <3>1, <3>3 DEF CheapestOf
    <2>2. CASE side = "sell"
      <3>1. best' = getHighest(quotes, "signer")
        BY <1>5, <2>2
      <3>2. quotes = [i \in 1..N |-> Offer("sell", amount, lev[i])]
        BY <1>6, <2>2
      <3>3. DearestOf(getHighest(quotes, "signer"), quotes, amount, lev, able)
        BY <1>1, <1>2, <1>3, <1>7, <3>2, BestIsDearest
      <3>4. QED
        BY <2>2, <3>1, <3>3 DEF DearestOf
    <2>3. QED
      BY <2>1, <2>2
  <1>10. asked'.side = side
    BY <1>4
  <1> HIDE DEF worths
  <1>11. QED
    BY <1>8, <1>9, <1>10 DEF BestOfferIsTaken

(* The servers of a call are opened for stakers, of which there are        *)
(* finitely many.                                                          *)
OffersInv ==
    /\ IInv
    /\ stage \in {"reading signer", "reading sender"} => query \in Token \X Token
    /\ DOMAIN signerTokenURLs \subseteq Staker
    /\ DOMAIN servers \subseteq Staker
    /\ BestOfferIsTaken

LEMMA StepKeepsOffers ==
    ASSUME RegistryAssumption, RegistryClientAssumption, OffersInv, [ClientNext]_clientVars
    PROVE  OffersInv'
  <1>1. IInv'
    BY ClientKeepsInvariant DEF OffersInv
  <1>2. CASE Transact
    BY <1>1, <1>2 DEF Transact, OffersInv, BestOfferIsTaken
  <1>3. ASSUME NEW q \in Query, getServers(q[1], q[2]) PROVE OffersInv'
    <2>1. <<q[1], q[2]>> \in Token \X Token
      BY DEF RegistryClientAssumption
    <2>2. QED
      BY <1>1, <1>3, <2>1 DEF getServers, OffersInv, BestOfferIsTaken
  <1>4. CASE ReadSignerURLs
    <2>1. query[1] \in Token
      BY <1>4 DEF OffersInv, ReadSignerURLs
    <2>2. DOMAIN getURLsForToken(query[1]) \subseteq Staker
      BY <2>1 DEF OffersInv, IInv, TypeOK, getURLsForToken
    <2>3. QED
      BY <1>1, <1>4, <2>2 DEF ReadSignerURLs, OffersInv, BestOfferIsTaken
  <1>5. CASE ReadSenderURLs
    <2>1. DOMAIN None = {}
      BY DEF None
    <2>2. DOMAIN servers' \subseteq DOMAIN signerTokenURLs
      BY <1>5 DEF ReadSenderURLs, InBoth
    <2>3. /\ stage' \notin {"compared", "reading signer", "reading sender"}
          /\ signerTokenURLs' = None
      BY <1>5 DEF ReadSenderURLs
    <2>4. QED
      BY <1>1, <2>1, <2>2, <2>3 DEF OffersInv, BestOfferIsTaken
  <1>6. CASE ReadFails
    BY <1>1, <1>6 DEF ReadFails, OffersInv, BestOfferIsTaken, None
  <1>7. ASSUME NEW s \in Staker, ServerSettles(s) PROVE OffersInv'
    <2>1. /\ stage' = "compared" => stage = "compared"
          /\ stage' \in {"reading signer", "reading sender"} => stage' = stage
      BY <1>7 DEF ServerSettles, AfterServer
    <2>2. DOMAIN servers' = DOMAIN servers
      BY <1>7 DEF ServerSettles
    <2>3. UNCHANGED <<query, signerTokenURLs, asked, offers, best>>
      BY <1>7 DEF ServerSettles
    <2>4. BestOfferIsTaken'
      BY <2>1, <2>3 DEF OffersInv, BestOfferIsTaken
    <2>5. QED
      BY <1>1, <2>1, <2>2, <2>3, <2>4 DEF OffersInv
  <1>8. ASSUME NEW side \in {"buy", "sell"}, NEW amount \in Amount,
               NEW announced \in [DOMAIN servers -> Levels], Compare(side, amount, announced)
        PROVE  OffersInv'
    <2>1. IsFiniteSet(DOMAIN servers)
      BY FS_Subset DEF RegistryAssumption, OffersInv
    <2>2. BestOfferIsTaken'
      BY <1>8, <2>1, CompareTakesBest
    <2>3. QED
      BY <1>1, <1>8, <2>2 DEF Compare, OffersInv
  <1>9. CASE UNCHANGED clientVars
    BY <1>1, <1>9 DEF clientVars, client, OffersInv, BestOfferIsTaken
  <1>10. QED
    BY <1>2, <1>3, <1>4, <1>5, <1>6, <1>7, <1>8, <1>9 DEF ClientNext

(* Whatever levels the servers announced, of those that reach the amount   *)
(* the taker's choice costs least, or pays most, unit by unit.             *)
THEOREM BestOfferIsChosen == ClientSpec => []BestOfferIsTaken
  <1>1. ClientInit => OffersInv
    <2> SUFFICES ASSUME ClientInit PROVE OffersInv
      OBVIOUS
    <2>1. IInv
      BY RegistryAssumption, InitEstablishes DEF ClientInit
    <2>2. QED
      BY <2>1 DEF ClientInit, None, OffersInv, BestOfferIsTaken
  <1>2. OffersInv /\ [ClientNext]_clientVars => OffersInv'
    BY RegistryAssumption, RegistryClientAssumption, StepKeepsOffers
  <1>3. OffersInv => BestOfferIsTaken
    BY DEF OffersInv
  <1>4. QED
    BY <1>1, <1>2, <1>3, PTL DEF ClientSpec
=============================================================================
