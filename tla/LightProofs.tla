---------------------------- MODULE LightProofs ----------------------------
(* Theorems about Light, for every value of its constants; about the       *)
(* Validator that asks it: for every state of Light, and every question,   *)
(* the report and Light agree; and about the Wrapper that trades on it.    *)
EXTENDS Validator, Wrapper, SumsAndArrays

(* The storage word and the bit of a nonce identify it. *)
LEMMA GroupAndIndexIdentify ==
    ASSUME NEW m \in Nat, NEW n \in Nat,
           GroupKey(m) = GroupKey(n), IndexInGroup(m) = IndexInGroup(n)
    PROVE  m = n
  BY DEF GroupKey, IndexInGroup

(* The bit of a nonce is one of 256. *)
LEMMA IndexInWord == ASSUME NEW n \in Nat PROVE IndexInGroup(n) \in 0..255
  BY DEF IndexInGroup

(* Marking a batch for a signer makes its nonces used and changes no other *)
(* bit: neither in the same words nor of another signer.                   *)
LEMMA MarkSetsTheBatch ==
    ASSUME LightAssumption,
           nonceGroups \in [Address -> [Group -> SUBSET (0..255)]],
           NEW signer \in Address, NEW batch \in SUBSET Nonce,
           nonceGroups' = MarkNoncesAsUsed(signer, batch)
    PROVE  /\ nonceGroups' \in [Address -> [Group -> SUBSET (0..255)]]
           /\ \A s \in Address, n \in Nonce :
                nonceUsed(s, n)' <=> nonceUsed(s, n) \/ (s = signer /\ n \in batch)
  <1>1. \A n \in Nonce : n \in Nat /\ GroupKey(n) \in Group /\ IndexInGroup(n) \in 0..255
    BY IndexInWord DEF LightAssumption, Group
  <1>2. nonceGroups' \in [Address -> [Group -> SUBSET (0..255)]]
    BY <1>1 DEF MarkNoncesAsUsed
  <1>3. ASSUME NEW s \in Address, NEW n \in Nonce
        PROVE  nonceUsed(s, n)' <=> nonceUsed(s, n) \/ (s = signer /\ n \in batch)
    <2>1. CASE s # signer
      BY <2>1 DEF MarkNoncesAsUsed, nonceUsed
    <2>2. CASE s = signer
      <3>1. nonceGroups'[s][GroupKey(n)] =
              nonceGroups[s][GroupKey(n)] \union
                {IndexInGroup(k) : k \in {m \in batch : GroupKey(m) = GroupKey(n)}}
        BY <1>1, <2>2 DEF MarkNoncesAsUsed
      <3>2. IndexInGroup(n) \in
              {IndexInGroup(k) : k \in {m \in batch : GroupKey(m) = GroupKey(n)}}
              <=> n \in batch
        BY <1>1, GroupAndIndexIdentify
      <3>3. QED
        BY <2>2, <3>1, <3>2 DEF nonceUsed
    <2>3. QED
      BY <2>1, <2>2
  <1>4. QED
    BY <1>2, <1>3

-----------------------------------------------------------------------------
(* Settlement moves natural amounts between wallets. *)

(* transferFrom keeps every balance and allowance a natural number. *)
LEMMA TransferKeepsHoldings ==
    ASSUME NEW Tok, NEW Acc, NEW w \in Holdings(Tok, Acc), NEW t \in Tok,
           NEW from \in Acc, NEW to \in Acc, NEW amount \in Nat,
           CanTransferFrom(w, t, from, amount)
    PROVE  TransferFrom(w, t, from, to, amount) \in Holdings(Tok, Acc)
  <1>1. Debit(w.bal[t], from, amount) \in [Acc -> Nat]
    BY DEF Holdings, CanTransferFrom, Debit
  <1>2. Move(w.bal[t], from, to, amount) \in [Acc -> Nat]
    BY <1>1 DEF Move, Credit
  <1>3. [w.bal EXCEPT ![t] = Move(@, from, to, amount)] \in [Tok -> [Acc -> Nat]]
    BY <1>2 DEF Holdings
  <1>4. [w.allow EXCEPT ![t][from] = @ - amount] \in [Tok -> [Acc -> Nat]]
    BY DEF Holdings, CanTransferFrom
  <1>5. QED
    BY <1>3, <1>4 DEF TransferFrom, Holdings

(* The fee is a natural number. *)
LEMMA FeeIsNat ==
    ASSUME NEW order \in OrderType, NEW fee \in Nat
    PROVE  FeeAmount(order, fee) \in Nat
  <1>1. order.signerAmount \in Nat
    BY DEF OrderType
  <1>2. order.signerAmount * fee \in Nat
    BY <1>1
  <1>3. QED
    BY <1>2 DEF FeeAmount, FEE_DIVISOR

(* The holdings after a settlement have their type. *)
LEMMA SettlementKeepsHoldings ==
    ASSUME LightAssumption, TypeOK, NEW order \in OrderType,
           NEW sender \in Wallet, NEW recipient \in Wallet,
           CanSettle(order, sender, recipient)
    PROVE  Settled(order, sender, recipient) \in Holdings(Token, Wallet)
  <1>1. /\ order.signerWallet \in Wallet /\ order.signerToken \in Token
        /\ order.senderToken \in Token
        /\ order.signerAmount \in Nat /\ order.senderAmount \in Nat
    BY DEF OrderType
  <1>2. tokens \in Holdings(Token, Wallet) /\ feeWallet \in Wallet /\ signerFee \in Nat
    BY DEF TypeOK, FEE_DIVISOR
  <1>3. AfterSender(order, sender) \in Holdings(Token, Wallet)
    BY <1>1, <1>2, TransferKeepsHoldings DEF CanSettle, AfterSender
  <1>4. AfterSigner(order, sender, recipient) \in Holdings(Token, Wallet)
    BY <1>1, <1>3, TransferKeepsHoldings DEF CanSettle, AfterSigner
  <1>5. QED
    BY <1>1, <1>2, <1>4, FeeIsNat, TransferKeepsHoldings DEF CanSettle, Settled

-----------------------------------------------------------------------------
(* What a step does to the nonces: it fills one, cancels a batch, or       *)
(* leaves them alone.                                                      *)

Fills(s, n) ==
    /\ ~nonceUsed(s, n)
    /\ nonceGroups' = MarkNoncesAsUsed(s, {n})
    /\ filled' = Count(filled, s, {n})
    /\ cancelled' = cancelled

Cancels(s, batch) ==
    /\ nonceGroups' = MarkNoncesAsUsed(s, batch)
    /\ cancelled' = Count(cancelled, s, {n \in batch : ~nonceUsed(s, n)})
    /\ filled' = filled

NonceStep ==
    \/ \E s \in Address, n \in Nonce : Fills(s, n)
    \/ \E s \in Address, batch \in SUBSET Nonce : Cancels(s, batch)
    \/ UNCHANGED <<nonceGroups, history>>

(* A log stays a log when it counts a batch. *)
LEMMA CountKeepsLog ==
    ASSUME NEW log \in [Address -> [Nonce -> Nat]],
           NEW s \in Address, NEW batch \in SUBSET Nonce
    PROVE  Count(log, s, batch) \in [Address -> [Nonce -> Nat]]
  BY DEF Count

(* A swap that is recorded fills a nonce of the signatory it recovers, and *)
(* the types are kept if it leaves holdings.                               *)
LEMMA RecordedSwapFills ==
    ASSUME LightAssumption, TypeOK, NEW sender,
           NEW order \in {s.order : s \in Signature},
           NEW sig \in Signature \union Malformed,
           ~nonceUsed(Recover(OrderHash(order, sender), sig), order.nonce),
           RecordSwap(Recover(OrderHash(order, sender), sig), order.nonce),
           tokens' \in Holdings(Token, Wallet)
    PROVE  TypeOK' /\ NonceStep
  <1> DEFINE signatory == Recover(OrderHash(order, sender), sig)
  <1>1. order \in OrderType /\ order.nonce \in Nonce /\ {order.nonce} \in SUBSET Nonce
    BY DEF LightAssumption, SignatureType, OrderType
  <1>2. signatory \in Address
    <2>1. CASE sig \in Malformed
      BY <2>1 DEF Recover, Address
    <2>2. CASE sig \notin Malformed
      <3>1. sig \in SignatureType
        BY <2>2 DEF LightAssumption
      <3>2. sig.signatory \in Wallet
        BY <3>1 DEF SignatureType
      <3>3. QED
        BY <2>2, <3>2 DEF Recover, Address
    <2>3. QED
      BY <2>1, <2>2
  <1>3. Fills(signatory, order.nonce)
    BY DEF RecordSwap, Fills
  <1>4. nonceGroups' \in [Address -> [Group -> SUBSET (0..255)]]
    BY <1>1, <1>2, <1>3, MarkSetsTheBatch DEF Fills, TypeOK
  <1>5. filled' \in [Address -> [Nonce -> Nat]]
    BY <1>1, <1>2, <1>3, CountKeepsLog DEF Fills, TypeOK
  <1>6. UNCHANGED <<signerFee, feeWallet, authorized, chainId, now, cancelled>>
    BY DEF RecordSwap, config
  <1>7. TypeOK'
    BY <1>4, <1>5, <1>6 DEF TypeOK
  <1>8. QED
    BY <1>1, <1>2, <1>3, <1>7 DEF NonceStep

LEMMA SwapFills ==
    ASSUME LightAssumption, TypeOK,
           NEW sender \in Wallet, NEW recipient \in Wallet,
           NEW order \in {s.order : s \in Signature},
           NEW sig \in Signature \union Malformed,
           SwapWithRecipient(sender, recipient, order, sig)
    PROVE  TypeOK' /\ NonceStep
  <1>1. order \in OrderType
    BY DEF LightAssumption, SignatureType
  <1>2. tokens' \in Holdings(Token, Wallet)
    BY <1>1, SettlementKeepsHoldings DEF SwapWithRecipient, CanSwap
  <1>3. /\ ~nonceUsed(Recover(OrderHash(order, sender), sig), order.nonce)
        /\ RecordSwap(Recover(OrderHash(order, sender), sig), order.nonce)
    BY DEF SwapWithRecipient, CanSwap
  <1>4. QED
    BY <1>2, <1>3, RecordedSwapFills

(* Every step keeps the types and is a step of the nonces. *)
LEMMA StepOfNonces ==
    ASSUME LightAssumption, TypeOK, [Next]_vars
    PROVE  TypeOK' /\ NonceStep
  <1> USE DEF history, config
  <1>1. CASE \E sender \in Wallet, o \in {s.order : s \in Signature},
                sig \in Signature \union Malformed : Swap(sender, o, sig)
    BY <1>1, SwapFills DEF Swap
  <1>2. CASE \E sender \in Wallet, o \in {s.order : s \in Signature},
                sig \in Signature \union Malformed, recipient \in Wallet :
                  SwapWithRecipient(sender, recipient, o, sig)
    BY <1>2, SwapFills
  <1>3. ASSUME NEW c \in Cancellation, Cancel(c[1], c[2]) PROVE TypeOK' /\ NonceStep
    <2>1. c[1] \in Wallet /\ c[1] \in Address /\ c[2] \in SUBSET Nonce
      BY DEF LightAssumption, Address
    <2>2. Cancels(c[1], c[2])
      BY <1>3 DEF Cancel, Cancels
    <2>3. nonceGroups' \in [Address -> [Group -> SUBSET (0..255)]]
      BY <2>1, <2>2, MarkSetsTheBatch DEF Cancels, TypeOK
    <2>4. {n \in c[2] : ~nonceUsed(c[1], n)} \in SUBSET Nonce
      BY <2>1
    <2>5. cancelled' \in [Address -> [Nonce -> Nat]]
      BY <2>1, <2>2, <2>4, CountKeepsLog DEF Cancels, TypeOK
    <2>6. TypeOK'
      BY <1>3, <2>3, <2>5 DEF TypeOK, Cancel
    <2>7. QED
      BY <2>1, <2>2, <2>6 DEF NonceStep
  <1>4. ASSUME NEW a \in Authorization, Authorize(a[1], a[2]) PROVE TypeOK' /\ NonceStep
    <2>1. a[1] \in Wallet /\ a[2] \in Wallet
      BY DEF LightAssumption
    <2>2. QED
      BY <1>4, <2>1 DEF Authorize, TypeOK, NonceStep
  <1>5. ASSUME NEW w \in Wallet, Revoke(w) PROVE TypeOK' /\ NonceStep
    BY <1>5 DEF Revoke, TypeOK, NonceStep
  <1>6. ASSUME NEW w \in Wallet, NEW fw \in FeeWallet, SetFeeWallet(w, fw)
        PROVE  TypeOK' /\ NonceStep
    BY <1>6 DEF SetFeeWallet, LightAssumption, TypeOK, NonceStep
  <1>7. ASSUME NEW w \in Wallet, NEW fee \in FeeValue, SetFee(w, fee)
        PROVE  TypeOK' /\ NonceStep
    <2>1. fee \in Nat /\ fee < FEE_DIVISOR
      BY <1>7 DEF SetFee, LightAssumption
    <2>2. fee \in 0..(FEE_DIVISOR - 1)
      BY <2>1 DEF FEE_DIVISOR
    <2>3. QED
      BY <1>7, <2>2 DEF SetFee, TypeOK, NonceStep
  <1>8. ASSUME NEW a \in Approval, ApproveLight(a[1], a[2], a[3]) PROVE TypeOK' /\ NonceStep
    <2>1. a[1] \in Wallet /\ a[2] \in Token /\ a[3] \in Nat
      BY DEF LightAssumption
    <2>2. tokens' \in Holdings(Token, Wallet)
      BY <1>8, <2>1 DEF ApproveLight, Approve, Holdings, TypeOK
    <2>3. QED
      BY <1>8, <2>2 DEF ApproveLight, TypeOK, NonceStep
  <1>9. CASE Tick
    <2>1. now' \in 0..MaxTime
      BY <1>9 DEF Tick, TypeOK, LightAssumption
    <2>2. QED
      BY <1>9, <2>1 DEF Tick, TypeOK, NonceStep
  <1>10. ASSUME NEW id \in ChainId, Fork(id) PROVE TypeOK' /\ NonceStep
    BY <1>10 DEF Fork, TypeOK, NonceStep
  <1>11. CASE UNCHANGED vars
    BY <1>11 DEF vars, TypeOK, NonceStep
  <1>12. QED
    BY <1>1, <1>2, <1>3, <1>4, <1>5, <1>6, <1>7, <1>8, <1>9, <1>10, <1>11
    DEF Next, NextBy

-----------------------------------------------------------------------------
(* The inductive invariant: with the types, the log decides the bitmap.    *)

IInv == TypeOK /\ OneEventPerUsedNonce

LEMMA InitEstablishes == ASSUME LightAssumption, Init PROVE IInv
  <1>1. signerFee \in 0..(FEE_DIVISOR - 1)
    <2>1. signerFee \in Nat /\ signerFee < FEE_DIVISOR
      BY DEF Init, LightAssumption
    <2>2. QED
      BY <2>1 DEF FEE_DIVISOR
  <1>2. tokens \in Holdings(Token, Wallet)
    BY DEF Init, LightAssumption, Holdings
  <1>3. TypeOK
    BY <1>1, <1>2 DEF Init, LightAssumption, TypeOK
  <1>4. ASSUME NEW s \in Address, NEW n \in Nonce
        PROVE  /\ ~nonceUsed(s, n)
               /\ filled[s][n] = 0 /\ cancelled[s][n] = 0
    BY DEF Init, nonceUsed, Group
  <1>5. ASSUME NEW s \in Address, NEW n \in Nonce
        PROVE  filled[s][n] + cancelled[s][n] = IF nonceUsed(s, n) THEN 1 ELSE 0
    <2>1. nonceUsed(s, n) = FALSE /\ filled[s][n] = 0 /\ cancelled[s][n] = 0
      BY <1>4
    <2>2. QED
      BY <2>1
  <1>6. QED
    BY <1>3, <1>5 DEF IInv, OneEventPerUsedNonce

(* The logs hold natural numbers. *)
LEMMA LogsAreNat ==
    ASSUME TypeOK, NEW s \in Address, NEW n \in Nonce
    PROVE  filled[s][n] \in Nat /\ cancelled[s][n] \in Nat
  <1>1. filled \in [Address -> [Nonce -> Nat]] /\ cancelled \in [Address -> [Nonce -> Nat]]
    BY DEF TypeOK
  <1>2. QED
    BY <1>1

(* What a log counts for one nonce. *)
LEMMA CountAtOneNonce ==
    ASSUME NEW log \in [Address -> [Nonce -> Nat]],
           NEW r \in Address, NEW batch \in SUBSET Nonce,
           NEW s \in Address, NEW n \in Nonce
    PROVE  Count(log, r, batch)[s][n] = log[s][n] + (IF s = r /\ n \in batch THEN 1 ELSE 0)
  <1>1. log[s][n] \in Nat
    OBVIOUS
  <1>2. CASE s = r /\ n \in batch
    BY <1>1, <1>2 DEF Count
  <1>3. CASE s = r /\ n \notin batch
    BY <1>1, <1>3 DEF Count
  <1>4. CASE s # r
    BY <1>1, <1>4 DEF Count
  <1>5. QED
    BY <1>2, <1>3, <1>4

(* What a fill does to one nonce. *)
LEMMA EffectOfFill ==
    ASSUME LightAssumption, TypeOK,
           NEW s \in Address, NEW n \in Nonce,
           NEW r \in Address, NEW m \in Nonce, Fills(r, m)
    PROVE  /\ nonceUsed(s, n)' <=> nonceUsed(s, n) \/ (s = r /\ n = m)
           /\ filled'[s][n] = filled[s][n] + (IF s = r /\ n = m THEN 1 ELSE 0)
           /\ cancelled'[s][n] = cancelled[s][n]
  <1>1. {m} \in SUBSET Nonce
    OBVIOUS
  <1>2. nonceUsed(s, n)' <=> nonceUsed(s, n) \/ (s = r /\ n \in {m})
    <2>1. nonceGroups \in [Address -> [Group -> SUBSET (0..255)]]
      BY DEF TypeOK
    <2>2. nonceGroups' = MarkNoncesAsUsed(r, {m})
      BY DEF Fills
    <2>3. QED
      BY <1>1, <2>1, <2>2, MarkSetsTheBatch
  <1>3. filled'[s][n] = filled[s][n] + (IF s = r /\ n = m THEN 1 ELSE 0)
    <2>1. filled \in [Address -> [Nonce -> Nat]] /\ filled' = Count(filled, r, {m})
      BY DEF Fills, TypeOK
    <2>2. Count(filled, r, {m})[s][n] = filled[s][n] + (IF s = r /\ n \in {m} THEN 1 ELSE 0)
      <3>1. \A b \in SUBSET Nonce : Count(filled, r, b)[s][n] =
              filled[s][n] + (IF s = r /\ n \in b THEN 1 ELSE 0)
        BY <2>1, CountAtOneNonce
      <3>2. QED
        BY <1>1, <3>1
    <2>3. QED
      BY <2>1, <2>2
  <1>4. QED
    BY <1>2, <1>3 DEF Fills

(* What the cancellation of a batch does to one nonce. *)
LEMMA EffectOfCancel ==
    ASSUME LightAssumption, TypeOK,
           NEW s \in Address, NEW n \in Nonce,
           NEW r \in Address, NEW batch \in SUBSET Nonce, Cancels(r, batch)
    PROVE  /\ nonceUsed(s, n)' <=> nonceUsed(s, n) \/ (s = r /\ n \in batch)
           /\ cancelled'[s][n] = cancelled[s][n] +
                (IF s = r /\ n \in batch /\ ~nonceUsed(s, n) THEN 1 ELSE 0)
           /\ filled'[s][n] = filled[s][n]
  <1>1. nonceUsed(s, n)' <=> nonceUsed(s, n) \/ (s = r /\ n \in batch)
    <2>1. nonceGroups \in [Address -> [Group -> SUBSET (0..255)]]
      BY DEF TypeOK
    <2>2. nonceGroups' = MarkNoncesAsUsed(r, batch)
      BY DEF Cancels
    <2>3. QED
      BY <2>1, <2>2, MarkSetsTheBatch
  <1>2. cancelled'[s][n] = cancelled[s][n] +
          (IF s = r /\ n \in batch /\ ~nonceUsed(s, n) THEN 1 ELSE 0)
    <2> DEFINE open == {k \in batch : ~nonceUsed(r, k)}
    <2>1. /\ cancelled \in [Address -> [Nonce -> Nat]]
          /\ cancelled' = Count(cancelled, r, open)
          /\ open \in SUBSET Nonce
      BY DEF Cancels, TypeOK
    <2>2. Count(cancelled, r, open)[s][n] = cancelled[s][n] +
            (IF s = r /\ n \in open THEN 1 ELSE 0)
      <3>1. \A b \in SUBSET Nonce : Count(cancelled, r, b)[s][n] =
              cancelled[s][n] + (IF s = r /\ n \in b THEN 1 ELSE 0)
        BY <2>1, CountAtOneNonce
      <3>2. QED
        BY <2>1, <3>1
    <2>3. s = r /\ n \in open <=> s = r /\ n \in batch /\ ~nonceUsed(s, n)
      OBVIOUS
    <2>4. QED
      BY <2>1, <2>2, <2>3
  <1>3. QED
    BY <1>1, <1>2 DEF Cancels

LEMMA StepKeepsUsedNonces ==
    ASSUME LightAssumption, TypeOK, NonceStep,
           NEW s \in Address, NEW n \in Nonce, nonceUsed(s, n)
    PROVE  nonceUsed(s, n)'
  <1>1. CASE \E r \in Address, m \in Nonce : Fills(r, m)
    BY <1>1, EffectOfFill
  <1>2. CASE \E r \in Address, batch \in SUBSET Nonce : Cancels(r, batch)
    BY <1>2, EffectOfCancel
  <1>3. CASE UNCHANGED <<nonceGroups, history>>
    BY <1>3 DEF nonceUsed
  <1>4. QED
    BY <1>1, <1>2, <1>3 DEF NonceStep

(* What keeps the types and is a step of the nonces keeps the invariant.   *)
LEMMA InvariantByNonceStep ==
    ASSUME LightAssumption, IInv, TypeOK', NonceStep PROVE IInv'
  <1>1. TypeOK /\ TypeOK' /\ NonceStep
    BY DEF IInv
  <1>2. ASSUME NEW s \in Address, NEW n \in Nonce
        PROVE  (filled[s][n] + cancelled[s][n] = IF nonceUsed(s, n) THEN 1 ELSE 0)'
    <2> filled[s][n] \in Nat /\ cancelled[s][n] \in Nat
      BY <1>1, LogsAreNat
    <2>1. filled[s][n] + cancelled[s][n] = IF nonceUsed(s, n) THEN 1 ELSE 0
      BY DEF IInv, OneEventPerUsedNonce
    <2>2. CASE \E r \in Address, m \in Nonce : Fills(r, m)
      <3>1. PICK r \in Address, m \in Nonce : Fills(r, m)
        BY <2>2
      <3>2. ~nonceUsed(r, m)
        BY <3>1 DEF Fills
      <3>3. /\ nonceUsed(s, n)' <=> nonceUsed(s, n) \/ (s = r /\ n = m)
            /\ filled'[s][n] = filled[s][n] + (IF s = r /\ n = m THEN 1 ELSE 0)
            /\ cancelled'[s][n] = cancelled[s][n]
        BY <1>1, <3>1, EffectOfFill
      <3>4. QED
        BY <2>1, <3>2, <3>3
    <2>3. CASE \E r \in Address, batch \in SUBSET Nonce : Cancels(r, batch)
      <3>1. PICK r \in Address, batch \in SUBSET Nonce : Cancels(r, batch)
        BY <2>3
      <3>2. /\ nonceUsed(s, n)' <=> nonceUsed(s, n) \/ (s = r /\ n \in batch)
            /\ cancelled'[s][n] = cancelled[s][n] +
                 (IF s = r /\ n \in batch /\ ~nonceUsed(s, n) THEN 1 ELSE 0)
            /\ filled'[s][n] = filled[s][n]
        BY <1>1, <3>1, EffectOfCancel
      <3>3. QED
        BY <2>1, <3>2
    <2>4. CASE UNCHANGED <<nonceGroups, history>>
      BY <2>1, <2>4 DEF nonceUsed, history
    <2>5. QED
      BY <1>1, <2>2, <2>3, <2>4 DEF NonceStep
  <1>3. QED
    BY <1>1, <1>2 DEF IInv, OneEventPerUsedNonce

LEMMA StepKeepsInvariant ==
    ASSUME LightAssumption, IInv, [Next]_vars PROVE IInv'
  BY StepOfNonces, InvariantByNonceStep DEF IInv

(* Every reachable state has the types and exactly one Swap or Cancel      *)
(* event for each used nonce of each signatory, and none for an open one.  *)
THEOREM NoncesMatchEvents == Spec => [](TypeOK /\ OneEventPerUsedNonce)
  <1>1. Init => IInv
    BY LightAssumption, InitEstablishes
  <1>2. IInv /\ [Next]_vars => IInv'
    BY LightAssumption, StepKeepsInvariant
  <1>3. QED
    BY <1>1, <1>2, PTL DEF Spec, IInv

(* No transaction makes a used nonce of any signatory available again. *)
THEOREM UsedNoncesAreFinal == Spec => UsedNoncesStayUsed
  <1>1. TypeOK /\ [Next]_vars =>
          [\A s \in Address, n \in Nonce : nonceUsed(s, n) => nonceUsed(s, n)']_vars
    BY LightAssumption, StepOfNonces, StepKeepsUsedNonces
  <1>2. Spec => []TypeOK
    BY NoncesMatchEvents, PTL
  <1>3. QED
    BY <1>1, <1>2, PTL DEF Spec, UsedNoncesStayUsed

-----------------------------------------------------------------------------
(* Light implements the ledger of nonces. *)

LedgerStatus == [s \in Address |-> [n \in Nonce |-> Outcome(s, n)]]

(* A fill of Light is a fill of the ledger: the nonce was open, hence had  *)
(* no event, and every other outcome stays.                                *)
LEMMA FillRefines ==
    ASSUME LightAssumption, IInv, NEW r \in Address, NEW m \in Nonce, Fills(r, m)
    PROVE  Ledger!Fill(r, m)
  <1>1. TypeOK
    BY DEF IInv
  <1>2. Outcome(r, m) = "open" /\ ~nonceUsed(r, m)
    BY DEF Fills, Outcome
  <1>3. ASSUME NEW s \in Address, NEW n \in Nonce
        PROVE  Outcome(s, n)' = IF s = r /\ n = m THEN "filled" ELSE Outcome(s, n)
    <2>1. /\ nonceUsed(s, n)' <=> nonceUsed(s, n) \/ (s = r /\ n = m)
          /\ filled'[s][n] = filled[s][n] + (IF s = r /\ n = m THEN 1 ELSE 0)
      BY <1>1, EffectOfFill
    <2>2. filled[s][n] \in Nat
      BY <1>1, LogsAreNat
    <2>3. QED
      BY <2>1, <2>2 DEF Outcome
  <1>4. LedgerStatus' = [LedgerStatus EXCEPT ![r][m] = "filled"]
    BY <1>3 DEF LedgerStatus
  <1>5. LedgerStatus[r][m] = "open"
    BY <1>2 DEF LedgerStatus
  <1>6. QED
    BY <1>4, <1>5 DEF Ledger!Fill, LedgerStatus

(* A cancellation of Light is one of the ledger.  An open nonce of the     *)
(* batch had no Swap event, by the invariant, so that it reads as          *)
(* cancelled and not as filled from now on.                                *)
LEMMA CancelRefines ==
    ASSUME LightAssumption, IInv, NEW r \in Address, NEW batch \in SUBSET Nonce,
           Cancels(r, batch)
    PROVE  Ledger!Cancel(r, batch)
  <1>1. TypeOK
    BY DEF IInv
  <1>2. ASSUME NEW s \in Address, NEW n \in Nonce
        PROVE  Outcome(s, n)' = IF s = r /\ n \in batch /\ Outcome(s, n) = "open"
                                THEN "cancelled" ELSE Outcome(s, n)
    <2>1. /\ nonceUsed(s, n)' <=> nonceUsed(s, n) \/ (s = r /\ n \in batch)
          /\ filled'[s][n] = filled[s][n]
      BY <1>1, EffectOfCancel
    <2>2. ~nonceUsed(s, n) => ~(filled[s][n] > 0)
      <3>1. filled[s][n] \in Nat /\ cancelled[s][n] \in Nat
        BY <1>1, LogsAreNat
      <3>2. filled[s][n] + cancelled[s][n] = IF nonceUsed(s, n) THEN 1 ELSE 0
        BY DEF IInv, OneEventPerUsedNonce
      <3>3. QED
        BY <3>1, <3>2
    <2>3. QED
      BY <2>1, <2>2 DEF Outcome
  <1>3. LedgerStatus' = [LedgerStatus EXCEPT ![r] =
            [n \in Nonce |-> IF n \in batch /\ @[n] = "open" THEN "cancelled" ELSE @[n]]]
    BY <1>2 DEF LedgerStatus
  <1>4. QED
    BY <1>3 DEF Ledger!Cancel, LedgerStatus

(* Every behaviour of Light is, for the nonces, a behaviour of the ledger: *)
(* an order is filled at most once, never after it was cancelled, and its  *)
(* outcome is final.                                                       *)
THEOREM LightImplementsLedger == Spec => ImplementsLedger
  <1>1. Init => Ledger!Init
    <2>1. Init => LedgerStatus = [s \in Address |-> [n \in Nonce |-> "open"]]
      BY DEF Init, LedgerStatus, Outcome, nonceUsed, Group
    <2>2. QED
      BY <2>1 DEF Ledger!Init, LedgerStatus
  <1>2. IInv /\ [Next]_vars => [Ledger!Next]_LedgerStatus
    <2> SUFFICES ASSUME IInv, [Next]_vars PROVE [Ledger!Next]_LedgerStatus
      OBVIOUS
    <2>1. NonceStep
      BY LightAssumption, StepOfNonces DEF IInv
    <2>2. CASE \E r \in Address, m \in Nonce : Fills(r, m)
      BY <2>2, LightAssumption, FillRefines DEF Ledger!Next
    <2>3. CASE \E r \in Address, batch \in SUBSET Nonce : Cancels(r, batch)
      BY <2>3, LightAssumption, CancelRefines DEF Ledger!Next
    <2>4. CASE UNCHANGED <<nonceGroups, history>>
      BY <2>4 DEF LedgerStatus, Outcome, nonceUsed, history
    <2>5. QED
      BY <2>1, <2>2, <2>3, <2>4 DEF NonceStep
  <1>3. Spec => []IInv
    BY NoncesMatchEvents, PTL DEF IInv
  <1>4. QED
    BY <1>1, <1>2, <1>3, PTL DEF Spec, Ledger!Spec, ImplementsLedger, LedgerStatus
-----------------------------------------------------------------------------
(* Balances move as somebody signed. *)

(* What transferFrom does to one balance, its parties being the same       *)
(* account or not.                                                         *)
LEMMA TransferMovesBalances ==
    ASSUME NEW Tok, NEW Acc, NEW w \in Holdings(Tok, Acc), NEW t \in Tok,
           NEW from \in Acc, NEW to \in Acc, NEW amount \in Nat,
           CanTransferFrom(w, t, from, amount),
           NEW u \in Tok, NEW a \in Acc
    PROVE  TransferFrom(w, t, from, to, amount).bal[u][a]
               + (IF a = from /\ u = t THEN amount ELSE 0)
           = w.bal[u][a] + (IF a = to /\ u = t THEN amount ELSE 0)
  <1>1. w.bal[t] \in [Acc -> Nat] /\ w.bal[u] \in [Acc -> Nat] /\ w.bal \in [Tok -> [Acc -> Nat]]
    BY DEF Holdings
  <1>2. w.bal[t][from] \in Nat /\ w.bal[t][to] \in Nat /\ w.bal[u][a] \in Nat
        /\ w.bal[t][from] >= amount
    BY <1>1 DEF CanTransferFrom
  <1>3. TransferFrom(w, t, from, to, amount).bal
          = [w.bal EXCEPT ![t] = Move(w.bal[t], from, to, amount)]
    BY DEF TransferFrom
  <1>4. CASE u # t
    BY <1>1, <1>2, <1>3, <1>4
  <1>5. CASE u = t
    <2>1. TransferFrom(w, t, from, to, amount).bal[u][a]
            = Move(w.bal[t], from, to, amount)[a]
      BY <1>1, <1>3, <1>5
    <2>2. Move(w.bal[t], from, to, amount)[a] + (IF a = from THEN amount ELSE 0)
            = w.bal[t][a] + (IF a = to THEN amount ELSE 0)
      <3>1. CASE a = from
        BY <1>1, <1>2, <3>1 DEF Move, Credit, Debit
      <3>2. CASE a # from
        BY <1>1, <1>2, <3>2, <1>5 DEF Move, Credit, Debit
      <3>3. QED
        BY <3>1, <3>2
    <2>3. QED
      BY <2>1, <2>2, <1>5
  <1>6. QED
    BY <1>4, <1>5

(* The three transfers of a settlement together. *)
LEMMA SettlementMovesBalances ==
    ASSUME LightAssumption, TypeOK, NEW order \in OrderType,
           NEW sender \in Wallet, NEW recipient \in Wallet,
           CanSettle(order, sender, recipient),
           NEW t \in Token, NEW w \in Wallet
    PROVE  Settled(order, sender, recipient).bal[t][w]
             + (IF w = order.signerWallet /\ t = order.signerToken
                  THEN order.signerAmount + FeeAmount(order, signerFee) ELSE 0)
             + (IF w = sender /\ t = order.senderToken THEN order.senderAmount ELSE 0)
           = tokens.bal[t][w]
             + (IF w = recipient /\ t = order.signerToken THEN order.signerAmount ELSE 0)
             + (IF w = feeWallet /\ t = order.signerToken
                  THEN FeeAmount(order, signerFee) ELSE 0)
             + (IF w = order.signerWallet /\ t = order.senderToken THEN order.senderAmount ELSE 0)
  <1>1. /\ order.signerWallet \in Wallet /\ order.signerToken \in Token
        /\ order.senderToken \in Token
        /\ order.signerAmount \in Nat /\ order.senderAmount \in Nat
    BY DEF OrderType
  <1>2. tokens \in Holdings(Token, Wallet) /\ feeWallet \in Wallet /\ signerFee \in Nat
    BY DEF TypeOK, FEE_DIVISOR
  <1>3. AfterSender(order, sender) \in Holdings(Token, Wallet)
    BY <1>1, <1>2, TransferKeepsHoldings DEF CanSettle, AfterSender
  <1>4. AfterSigner(order, sender, recipient) \in Holdings(Token, Wallet)
    BY <1>1, <1>3, TransferKeepsHoldings DEF CanSettle, AfterSigner
  <1>5. FeeAmount(order, signerFee) \in Nat
    BY <1>2, FeeIsNat
  <1>6. Settled(order, sender, recipient) \in Holdings(Token, Wallet)
    BY SettlementKeepsHoldings
  <1>7. /\ tokens.bal[t][w] \in Nat
        /\ AfterSender(order, sender).bal[t][w] \in Nat
        /\ AfterSigner(order, sender, recipient).bal[t][w] \in Nat
        /\ Settled(order, sender, recipient).bal[t][w] \in Nat
    BY <1>2, <1>3, <1>4, <1>6 DEF Holdings
  <1>8. AfterSender(order, sender).bal[t][w]
          + (IF w = sender /\ t = order.senderToken THEN order.senderAmount ELSE 0)
        = tokens.bal[t][w]
          + (IF w = order.signerWallet /\ t = order.senderToken THEN order.senderAmount ELSE 0)
    BY <1>1, <1>2, TransferMovesBalances DEF CanSettle, AfterSender
  <1>9. AfterSigner(order, sender, recipient).bal[t][w]
          + (IF w = order.signerWallet /\ t = order.signerToken THEN order.signerAmount ELSE 0)
        = AfterSender(order, sender).bal[t][w]
          + (IF w = recipient /\ t = order.signerToken THEN order.signerAmount ELSE 0)
    BY <1>1, <1>3, TransferMovesBalances DEF CanSettle, AfterSigner
  <1>10. Settled(order, sender, recipient).bal[t][w]
          + (IF w = order.signerWallet /\ t = order.signerToken
               THEN FeeAmount(order, signerFee) ELSE 0)
        = AfterSigner(order, sender, recipient).bal[t][w]
          + (IF w = feeWallet /\ t = order.signerToken THEN FeeAmount(order, signerFee) ELSE 0)
    <2>1. CanTransferFrom(AfterSigner(order, sender, recipient), order.signerToken,
                          order.signerWallet, FeeAmount(order, signerFee))
      BY DEF CanSettle
    <2>2. Settled(order, sender, recipient)
            = TransferFrom(AfterSigner(order, sender, recipient), order.signerToken,
                           order.signerWallet, feeWallet, FeeAmount(order, signerFee))
      BY DEF Settled
    <2>3. QED
      BY <1>1, <1>2, <1>4, <1>5, <2>1, <2>2, TransferMovesBalances
  <1>11. QED
    BY <1>1, <1>5, <1>7, <1>8, <1>9, <1>10

(* The signature of a swap is one that somebody made for exactly this      *)
(* order: a malformed one is rejected, and the address that is recovered   *)
(* from one made for another order signs for no wallet.                    *)
LEMMA SwapIsSigned ==
    ASSUME LightAssumption, TypeOK, NEW sender \in Wallet, NEW recipient \in Wallet,
           NEW order \in OrderType, NEW sig \in Signature \union Malformed,
           CanSwap(sender, recipient, order, sig)
    PROVE  /\ sig \in Signature
           /\ sig.order = OrderHash(order, sender)
           /\ Recover(OrderHash(order, sender), sig) = sig.signatory
  <1> DEFINE signatory == Recover(OrderHash(order, sender), sig)
  <1>1. /\ signatory # NullAddress
        /\ order.signerWallet # signatory => authorized[order.signerWallet] = signatory
    BY DEF CanSwap, ValidSignatory, MaySignFor
  <1>2. sig \notin Malformed
    BY <1>1 DEF Recover
  <1>3. signatory # Unknown
    <2>1. order.signerWallet \in Wallet
      BY DEF OrderType
    <2>2. authorized[order.signerWallet] \in Wallet \union {NullAddress}
      BY <2>1 DEF TypeOK
    <2>3. QED
      BY <1>1, <2>1, <2>2 DEF LightAssumption
  <1>4. QED
    BY <1>2, <1>3 DEF Recover

LEMMA SwapSettlesAsSigned ==
    ASSUME LightAssumption, TypeOK, NEW sender \in Wallet, NEW recipient \in Wallet,
           NEW order \in {s.order : s \in Signature},
           NEW sig \in Signature \union Malformed,
           SwapWithRecipient(sender, recipient, order, sig)
    PROVE  /\ sig \in Signature /\ Live(sig)
           /\ nonceUsed(sig.signatory, sig.order.nonce)'
           /\ \A t \in Token, w \in Wallet :
                 tokens.bal'[t][w] + Paid(sig.order, t, w)
                    = tokens.bal[t][w] + Received(sig.order, t, w, recipient)
  <1>1. order \in OrderType
    BY DEF LightAssumption, SignatureType
  <1>2. /\ sig \in Signature
        /\ sig.order = OrderHash(order, sender)
        /\ Recover(OrderHash(order, sender), sig) = sig.signatory
    BY <1>1, SwapIsSigned DEF SwapWithRecipient
  <1>3. /\ sig.order.nonce = order.nonce /\ sig.order.expiry = order.expiry
        /\ sig.order.signerWallet = order.signerWallet
        /\ sig.order.signerToken = order.signerToken
        /\ sig.order.signerAmount = order.signerAmount
        /\ sig.order.signerFee = signerFee
        /\ sig.order.senderWallet = sender
        /\ sig.order.senderToken = order.senderToken
        /\ sig.order.senderAmount = order.senderAmount
    BY <1>1, <1>2 DEF OrderHash, OrderType
  <1>4. Live(sig)
    BY <1>2, <1>3 DEF SwapWithRecipient, CanSwap, MaySignFor, Live
  <1>5. nonceUsed(sig.signatory, sig.order.nonce)'
    <2>1. sig.signatory \in Address /\ order.nonce \in Nonce
      BY <1>1, <1>2 DEF LightAssumption, SignatureType, Address, OrderType
    <2>2. Fills(sig.signatory, order.nonce)
      BY <1>2 DEF SwapWithRecipient, CanSwap, RecordSwap, Fills
    <2>3. QED
      BY <1>3, <2>1, <2>2, EffectOfFill
  <1>6. ASSUME NEW t \in Token, NEW w \in Wallet
        PROVE  tokens.bal'[t][w] + Paid(sig.order, t, w)
                  = tokens.bal[t][w] + Received(sig.order, t, w, recipient)
    <2>1. tokens' = Settled(order, sender, recipient) /\ CanSettle(order, sender, recipient)
      BY DEF SwapWithRecipient, CanSwap
    <2>2. FeeAmount(sig.order, sig.order.signerFee) = FeeAmount(order, signerFee)
      BY <1>3 DEF FeeAmount
    <2>3. /\ order.signerAmount \in Nat /\ order.senderAmount \in Nat
          /\ FeeAmount(order, signerFee) \in Nat
      <3>1. order.signerAmount \in Nat /\ order.senderAmount \in Nat
        BY <1>1 DEF OrderType
      <3>2. signerFee \in Nat
        BY DEF TypeOK, FEE_DIVISOR
      <3>3. QED
        BY <1>1, <3>1, <3>2, FeeIsNat
    <2>4. tokens' \in Holdings(Token, Wallet) /\ tokens \in Holdings(Token, Wallet)
      BY <1>1, <2>1, SettlementKeepsHoldings DEF TypeOK
    <2>5. tokens'.bal[t][w] \in Nat /\ tokens.bal[t][w] \in Nat
      BY <2>4 DEF Holdings
    <2>6. tokens'.bal[t][w]
             + (IF w = order.signerWallet /\ t = order.signerToken
                  THEN order.signerAmount + FeeAmount(order, signerFee) ELSE 0)
             + (IF w = sender /\ t = order.senderToken THEN order.senderAmount ELSE 0)
           = tokens.bal[t][w]
             + (IF w = recipient /\ t = order.signerToken THEN order.signerAmount ELSE 0)
             + (IF w = feeWallet /\ t = order.signerToken
                  THEN FeeAmount(order, signerFee) ELSE 0)
             + (IF w = order.signerWallet /\ t = order.senderToken THEN order.senderAmount ELSE 0)
      BY <1>1, <2>1, SettlementMovesBalances
    <2>7. QED
      BY <1>3, <2>2, <2>3, <2>5, <2>6 DEF Paid, Received
  <1>7. QED
    BY <1>2, <1>4, <1>5, <1>6

(* No transaction but a swap moves a balance. *)
LEMMA OnlySwapsMoveBalances ==
    ASSUME Next, tokens.bal' # tokens.bal
    PROVE  \E sender \in Wallet, recipient \in Wallet, o \in {s.order : s \in Signature},
              sig \in Signature \union Malformed : SwapWithRecipient(sender, recipient, o, sig)
  <1>1. /\ \A c \in Cancellation : ~Cancel(c[1], c[2])
        /\ \A a \in Authorization : ~Authorize(a[1], a[2])
        /\ \A w \in Wallet : ~Revoke(w)
        /\ \A w \in Wallet, fw \in FeeWallet : ~SetFeeWallet(w, fw)
        /\ \A w \in Wallet, fee \in FeeValue : ~SetFee(w, fee)
        /\ ~Tick
        /\ \A id \in ChainId : ~Fork(id)
    BY DEF Cancel, Authorize, Revoke, SetFeeWallet, SetFee, Tick, Fork
  <1>2. \A a \in Approval : ~ApproveLight(a[1], a[2], a[3])
    BY DEF ApproveLight, Approve
  <1>3. \E sender \in Wallet, o \in {s.order : s \in Signature},
           sig \in Signature \union Malformed :
             \/ Swap(sender, o, sig)
             \/ \E recipient \in Wallet : SwapWithRecipient(sender, recipient, o, sig)
    BY <1>1, <1>2 DEF Next, NextBy
  <1>4. QED
    BY <1>3 DEF Swap

(* Whatever is signed, submitted, authorized, cancelled and configured, in *)
(* any order: balances change only as a live signature says.               *)
THEOREM SwapsSettleAsSigned == Spec => SettlesAsSigned
  <1> DEFINE Settles ==
        tokens.bal' # tokens.bal =>
          \E sig \in Signature, recipient \in Wallet :
              /\ Live(sig)
              /\ nonceUsed(sig.signatory, sig.order.nonce)'
              /\ \A t \in Token, w \in Wallet :
                    tokens.bal'[t][w] + Paid(sig.order, t, w)
                       = tokens.bal[t][w] + Received(sig.order, t, w, recipient)
  <1>1. TypeOK /\ [Next]_vars => [Settles]_vars
    <2> SUFFICES ASSUME TypeOK, Next, tokens.bal' # tokens.bal PROVE Settles
      OBVIOUS
    <2>1. PICK sender \in Wallet, recipient \in Wallet, o \in {s.order : s \in Signature},
               sig \in Signature \union Malformed : SwapWithRecipient(sender, recipient, o, sig)
      BY OnlySwapsMoveBalances
    <2>2. /\ sig \in Signature /\ Live(sig)
          /\ nonceUsed(sig.signatory, sig.order.nonce)'
          /\ \A t \in Token, w \in Wallet :
                tokens.bal'[t][w] + Paid(sig.order, t, w)
                   = tokens.bal[t][w] + Received(sig.order, t, w, recipient)
      BY <2>1, LightAssumption, SwapSettlesAsSigned
    <2>3. QED
      BY <2>2
  <1>2. Spec => []TypeOK
    BY NoncesMatchEvents, PTL
  <1>3. QED
    BY <1>1, <1>2, PTL DEF Spec, SettlesAsSigned

(* The types alone; the fee is below its divisor and its wallet not null.  *)
THEOREM ConfigurationIsValid == Spec => []TypeOK
  BY NoncesMatchEvents, PTL
-----------------------------------------------------------------------------
(* The reports of the Validator. *)

(* What transferFrom does to one allowance. *)
LEMMA TransferUsesAllowance ==
    ASSUME NEW w \in Holdings(Token, Wallet), NEW t \in Token,
           NEW from \in Wallet, NEW to \in Wallet, NEW amount \in Nat,
           CanTransferFrom(w, t, from, amount),
           NEW u \in Token, NEW a \in Wallet
    PROVE  TransferFrom(w, t, from, to, amount).allow[u][a]
             + (IF a = from /\ u = t THEN amount ELSE 0) = w.allow[u][a]
  <1>1. w.allow \in [Token -> [Wallet -> Nat]] /\ w.allow[u][a] \in Nat /\ w.allow[t][from] \in Nat
    BY DEF Holdings
  <1>2. TransferFrom(w, t, from, to, amount).allow
          = [w.allow EXCEPT ![t][from] = w.allow[t][from] - amount]
    BY <1>1 DEF TransferFrom
  <1>3. CASE a = from /\ u = t
    BY <1>1, <1>2, <1>3
  <1>4. CASE ~(a = from /\ u = t)
    BY <1>1, <1>2, <1>4
  <1>5. QED
    BY <1>3, <1>4

(* The types that are needed of what a report reads. *)
LEMMA StateType ==
    ASSUME TypeOK
    PROVE  /\ tokens \in Holdings(Token, Wallet) /\ signerFee \in Nat /\ now \in Nat
           /\ authorized \in [Wallet -> Wallet \union {NullAddress}]
  <1>1. signerFee \in Nat
    BY DEF TypeOK, FEE_DIVISOR
  <1>2. now \in Nat
    BY DEF TypeOK
  <1>3. QED
    BY <1>1, <1>2 DEF TypeOK

(* A question is one that a taker can ask of an order of the right type.   *)
LEMMA QuestionType ==
    ASSUME LightAssumption, NEW q \in Question
    PROVE  /\ q.order \in OrderType /\ q.sender \in Wallet
           /\ q.sig \in Signature \union Malformed
           /\ q.order.signerWallet \in Wallet
           /\ q.order.signerToken \in Token /\ q.order.senderToken \in Token
           /\ q.order.signerAmount \in Nat /\ q.order.senderAmount \in Nat
           /\ q.order.expiry \in Nat
  <1>1. /\ q.order \in {s.order : s \in Signature}
        /\ q.sender \in Wallet /\ q.sig \in Signature \union Malformed
    BY DEF Question
  <1>2. q.order \in OrderType
    BY <1>1 DEF LightAssumption, SignatureType
  <1>3. QED
    BY <1>1, <1>2 DEF OrderType

(* What Light requires of a settlement in which the sender receives, said  *)
(* of the holdings before it, unless a wallet trades with itself.          *)
LEMMA SettlementOfTwoWallets ==
    ASSUME LightAssumption, TypeOK, NEW order \in OrderType, NEW sender \in Wallet,
           sender # order.signerWallet
    PROVE  LET due == order.signerAmount + FeeAmount(order, signerFee)
               covered == /\ tokens.bal[order.senderToken][sender] >= order.senderAmount
                          /\ tokens.allow[order.senderToken][sender] >= order.senderAmount
                          /\ tokens.bal[order.signerToken][order.signerWallet] >= due
                          /\ tokens.allow[order.signerToken][order.signerWallet] >= due
           IN  /\ covered => CanSettle(order, sender, sender)
               /\ order.senderToken # order.signerToken =>
                     (CanSettle(order, sender, sender) => covered)
  <1> DEFINE fee == FeeAmount(order, signerFee)
             signer == order.signerWallet
             t == order.signerToken
             u == order.senderToken
             A == AfterSender(order, sender)
             B == AfterSigner(order, sender, sender)
  <1>1. /\ signer \in Wallet /\ t \in Token /\ u \in Token
        /\ order.signerAmount \in Nat /\ order.senderAmount \in Nat
    BY DEF OrderType
  <1>2. tokens \in Holdings(Token, Wallet) /\ signerFee \in Nat
    BY StateType
  <1>3. fee \in Nat
    BY <1>2, FeeIsNat
  <1>4. /\ tokens.bal[t][signer] \in Nat /\ tokens.allow[t][signer] \in Nat
        /\ tokens.bal[u][sender] \in Nat /\ tokens.allow[u][sender] \in Nat
    BY <1>1, <1>2 DEF Holdings
  <1>5. ASSUME CanTransferFrom(tokens, u, sender, order.senderAmount)
        PROVE  /\ A \in Holdings(Token, Wallet)
               /\ A.bal[t][signer] \in Nat
               /\ A.bal[t][signer]
                    = tokens.bal[t][signer] + (IF t = u THEN order.senderAmount ELSE 0)
               /\ A.allow[t][signer] = tokens.allow[t][signer]
    <2>1. A \in Holdings(Token, Wallet)
      BY <1>1, <1>2, <1>5, TransferKeepsHoldings DEF AfterSender
    <2>2. A.bal[t][signer] \in Nat
      BY <1>1, <2>1 DEF Holdings
    <2>3. A.bal[t][signer] + (IF signer = sender /\ t = u THEN order.senderAmount ELSE 0)
            = tokens.bal[t][signer] + (IF signer = signer /\ t = u THEN order.senderAmount ELSE 0)
      BY <1>1, <1>2, <1>5, TransferMovesBalances DEF AfterSender
    <2>4. A.allow[t][signer] = tokens.allow[t][signer]
      <3>1. A.allow[t][signer] + (IF signer = sender /\ t = u THEN order.senderAmount ELSE 0)
              = tokens.allow[t][signer]
        BY <1>1, <1>2, <1>5, TransferUsesAllowance DEF AfterSender
      <3>2. A.allow[t][signer] \in Nat
        BY <1>1, <2>1 DEF Holdings
      <3>3. QED
        BY <3>1, <3>2
    <2>5. QED
      BY <1>1, <1>4, <2>1, <2>2, <2>3, <2>4
  <1>6. ASSUME CanTransferFrom(tokens, u, sender, order.senderAmount),
               CanTransferFrom(A, t, signer, order.signerAmount)
        PROVE  /\ B.bal[t][signer] \in Nat
               /\ B.bal[t][signer] + order.signerAmount = A.bal[t][signer]
               /\ B.allow[t][signer] = A.allow[t][signer] - order.signerAmount
    <2>1. A \in Holdings(Token, Wallet)
      BY <1>5, <1>6
    <2> HIDE DEF A
    <2>2. B = TransferFrom(A, t, signer, sender, order.signerAmount)
      BY DEF AfterSigner, A
    <2>3. B \in Holdings(Token, Wallet)
      BY <1>1, <1>6, <2>1, <2>2, TransferKeepsHoldings
    <2>4. B.bal[t][signer] \in Nat /\ A.bal[t][signer] \in Nat
      BY <1>1, <2>1, <2>3 DEF Holdings
    <2>5. B.bal[t][signer] + (IF signer = signer /\ t = t THEN order.signerAmount ELSE 0)
            = A.bal[t][signer] + (IF signer = sender /\ t = t THEN order.signerAmount ELSE 0)
      <3> HIDE DEF B
      <3>1. QED
        BY <1>1, <1>6, <2>1, <2>2, TransferMovesBalances
    <2>6. B.allow[t][signer] = A.allow[t][signer] - order.signerAmount
      <3> HIDE DEF B
      <3>1. B.allow[t][signer] + (IF signer = signer /\ t = t THEN order.signerAmount ELSE 0)
              = A.allow[t][signer]
        <4>1. TransferFrom(A, t, signer, sender, order.signerAmount).allow[t][signer]
                + (IF signer = signer /\ t = t THEN order.signerAmount ELSE 0)
                = A.allow[t][signer]
          BY <1>1, <1>6, <2>1, TransferUsesAllowance
        <4>2. QED
          BY <2>2, <4>1
      <3>2. B.allow[t][signer] \in Nat
        BY <1>1, <2>3 DEF Holdings
      <3>3. QED
        BY <1>1, <3>1, <3>2
    <2>7. QED
      BY <1>1, <2>4, <2>5, <2>6
  <1>7. CanSettle(order, sender, sender) <=>
          /\ CanTransferFrom(tokens, u, sender, order.senderAmount)
          /\ CanTransferFrom(A, t, signer, order.signerAmount)
          /\ CanTransferFrom(B, t, signer, fee)
    BY DEF CanSettle
  <1> HIDE DEF A, B, fee
  <1>8. QED
    BY <1>1, <1>3, <1>4, <1>5, <1>6, <1>7 DEF CanTransferFrom, fee

(* A wallet that trades two tokens with itself needs no more than that.    *)
LEMMA SettlementWithOneself ==
    ASSUME LightAssumption, TypeOK, NEW order \in OrderType, NEW sender \in Wallet,
           sender = order.signerWallet, order.senderToken # order.signerToken,
           tokens.bal[order.senderToken][sender] >= order.senderAmount,
           tokens.allow[order.senderToken][sender] >= order.senderAmount,
           tokens.bal[order.signerToken][sender]
             >= order.signerAmount + FeeAmount(order, signerFee),
           tokens.allow[order.signerToken][sender]
             >= order.signerAmount + FeeAmount(order, signerFee)
    PROVE  CanSettle(order, sender, sender)
  <1> DEFINE fee == FeeAmount(order, signerFee)
             t == order.signerToken
             u == order.senderToken
             A == AfterSender(order, sender)
             B == AfterSigner(order, sender, sender)
  <1>1. /\ t \in Token /\ u \in Token
        /\ order.signerAmount \in Nat /\ order.senderAmount \in Nat
    BY DEF OrderType
  <1>2. tokens \in Holdings(Token, Wallet) /\ fee \in Nat
    BY StateType, FeeIsNat
  <1>3. tokens.bal[t][sender] \in Nat /\ tokens.allow[t][sender] \in Nat
    BY <1>1, <1>2 DEF Holdings
  <1>4. CanTransferFrom(tokens, u, sender, order.senderAmount)
    BY DEF CanTransferFrom
  <1>5. A \in Holdings(Token, Wallet)
    BY <1>1, <1>2, <1>4, TransferKeepsHoldings DEF AfterSender
  <1>6. A.bal[t][sender] \in Nat /\ A.allow[t][sender] \in Nat
    BY <1>1, <1>5 DEF Holdings
  <1>7. A.bal[t][sender] = tokens.bal[t][sender] /\ A.allow[t][sender] = tokens.allow[t][sender]
    <2>1. A.bal[t][sender] + (IF sender = sender /\ t = u THEN order.senderAmount ELSE 0)
            = tokens.bal[t][sender] + (IF sender = sender /\ t = u THEN order.senderAmount ELSE 0)
      BY <1>1, <1>2, <1>4, TransferMovesBalances DEF AfterSender
    <2>2. A.allow[t][sender] = tokens.allow[t][sender]
      <3>1. A.allow[t][sender] + (IF sender = sender /\ t = u THEN order.senderAmount ELSE 0)
              = tokens.allow[t][sender]
        BY <1>1, <1>2, <1>4, TransferUsesAllowance DEF AfterSender
      <3>2. QED
        BY <1>6, <3>1
    <2>3. QED
      BY <1>3, <1>6, <2>1, <2>2
  <1>8. CanTransferFrom(A, t, sender, order.signerAmount)
    BY <1>1, <1>2, <1>3, <1>7 DEF CanTransferFrom
  <1>9. B = TransferFrom(A, t, sender, sender, order.signerAmount)
    BY DEF AfterSigner
  <1> HIDE DEF A, B
  <1>10. B.bal[t][sender] \in Nat /\ B.allow[t][sender] \in Nat
    <2>1. B \in Holdings(Token, Wallet)
      BY <1>1, <1>5, <1>8, <1>9, TransferKeepsHoldings
    <2>2. QED
      BY <1>1, <2>1 DEF Holdings
  <1>11. B.bal[t][sender] + (IF sender = sender /\ t = t THEN order.signerAmount ELSE 0)
           = A.bal[t][sender] + (IF sender = sender /\ t = t THEN order.signerAmount ELSE 0)
    BY <1>1, <1>5, <1>8, <1>9, TransferMovesBalances
  <1>12. B.allow[t][sender] = A.allow[t][sender] - order.signerAmount
    <2>1. B.allow[t][sender] + (IF sender = sender /\ t = t THEN order.signerAmount ELSE 0)
            = A.allow[t][sender]
      <3>1. TransferFrom(A, t, sender, sender, order.signerAmount).allow[t][sender]
              + (IF sender = sender /\ t = t THEN order.signerAmount ELSE 0)
              = A.allow[t][sender]
        BY <1>1, <1>5, <1>8, TransferUsesAllowance
      <3>2. QED
        BY <1>9, <3>1
    <2>2. QED
      BY <1>1, <1>10, <2>1
  <1>13. CanTransferFrom(B, t, sender, fee)
    BY <1>1, <1>2, <1>3, <1>6, <1>7, <1>10, <1>11, <1>12 DEF CanTransferFrom
  <1>14. QED
    BY <1>4, <1>8, <1>13 DEF CanSettle, A, B

-----------------------------------------------------------------------------
(* The report and what Light asks, one reason at a time. *)
LEMMA CleanReport ==
    ASSUME NEW q \in Question
    PROVE  Report(q) = {} <=>
             /\ Signatory(q) # NullAddress
             /\ ~(q.order.expiry < now)
             /\ ~Unauthorized(Signatory(q), q.order.signerWallet)
             /\ ~(tokens.allow[q.order.senderToken][q.sender] < q.order.senderAmount)
             /\ ~(tokens.allow[q.order.signerToken][q.order.signerWallet] < AmountDue(q.order))
             /\ ~(tokens.bal[q.order.senderToken][q.sender] < q.order.senderAmount)
             /\ ~(tokens.bal[q.order.signerToken][q.order.signerWallet] < AmountDue(q.order))
             /\ ~nonceUsed(q.order.signerWallet, q.order.nonce)
  <1> DEFINE signatory == Signatory(q)
             order == q.order
             reasons == [INVALID_SIG          |-> signatory = NullAddress,
                         EXPIRY_PASSED        |-> order.expiry < now,
                         UNAUTHORIZED         |-> Unauthorized(signatory, order.signerWallet),
                         SENDER_ALLOWANCE_LOW |-> tokens.allow[order.senderToken][q.sender]
                                                    < order.senderAmount,
                         SIGNER_ALLOWANCE_LOW |-> tokens.allow[order.signerToken][order.signerWallet]
                                                    < AmountDue(order),
                         SENDER_BALANCE_LOW   |-> tokens.bal[order.senderToken][q.sender]
                                                    < order.senderAmount,
                         SIGNER_BALANCE_LOW   |-> tokens.bal[order.signerToken][order.signerWallet]
                                                    < AmountDue(order),
                         NONCE_ALREADY_USED   |-> nonceUsed(order.signerWallet, order.nonce)]
  <1>1. Report(q) = {e \in DOMAIN reasons : reasons[e]}
    BY DEF Report, CheckSwap, Signatory
  <1>2. DOMAIN reasons = {"INVALID_SIG", "EXPIRY_PASSED", "UNAUTHORIZED", "SENDER_ALLOWANCE_LOW",
                          "SIGNER_ALLOWANCE_LOW", "SENDER_BALANCE_LOW", "SIGNER_BALANCE_LOW",
                          "NONCE_ALREADY_USED"}
    OBVIOUS
  <1>3. /\ reasons["INVALID_SIG"] = (signatory = NullAddress)
        /\ reasons["EXPIRY_PASSED"] = (order.expiry < now)
        /\ reasons["UNAUTHORIZED"] = Unauthorized(signatory, order.signerWallet)
        /\ reasons["SENDER_ALLOWANCE_LOW"]
             = (tokens.allow[order.senderToken][q.sender] < order.senderAmount)
        /\ reasons["SIGNER_ALLOWANCE_LOW"]
             = (tokens.allow[order.signerToken][order.signerWallet] < AmountDue(order))
        /\ reasons["SENDER_BALANCE_LOW"]
             = (tokens.bal[order.senderToken][q.sender] < order.senderAmount)
        /\ reasons["SIGNER_BALANCE_LOW"]
             = (tokens.bal[order.signerToken][order.signerWallet] < AmountDue(order))
        /\ reasons["NONCE_ALREADY_USED"] = nonceUsed(order.signerWallet, order.nonce)
    OBVIOUS
  <1> HIDE DEF reasons
  <1>4. Report(q) = {} <=> \A e \in DOMAIN reasons : ~reasons[e]
    BY <1>1
  <1>5. QED
    BY <1>2, <1>3, <1>4, Zenon

(* What a clean report leaves open: a fork, an order that expires in this  *)
(* very block, and a used nonce of the signatory, whose nonce Light reads  *)
(* where the report reads that of the wallet.                              *)
OpenAfterReport(q) ==
    /\ chainId = DomainChainId
    /\ q.order.expiry # now
    /\ ~nonceUsed(Signatory(q), q.order.nonce)

WashTrade(q) == q.sender = q.order.signerWallet /\ q.order.senderToken = q.order.signerToken

LEMMA CleanReportDecides ==
    ASSUME LightAssumption, TypeOK, NEW q \in Question, ~WashTrade(q), Report(q) = {}
    PROVE  SwapSucceeds(q) <=> OpenAfterReport(q)
  <1>1. /\ q.order \in OrderType /\ q.sender \in Wallet
        /\ q.order.signerWallet \in Wallet
        /\ q.order.signerToken \in Token /\ q.order.senderToken \in Token
        /\ q.order.signerAmount \in Nat /\ q.order.senderAmount \in Nat
        /\ q.order.expiry \in Nat
    BY QuestionType
  <1>2. /\ Signatory(q) # NullAddress
        /\ ~(q.order.expiry < now)
        /\ ~Unauthorized(Signatory(q), q.order.signerWallet)
        /\ ~(tokens.allow[q.order.senderToken][q.sender] < q.order.senderAmount)
        /\ ~(tokens.allow[q.order.signerToken][q.order.signerWallet] < AmountDue(q.order))
        /\ ~(tokens.bal[q.order.senderToken][q.sender] < q.order.senderAmount)
        /\ ~(tokens.bal[q.order.signerToken][q.order.signerWallet] < AmountDue(q.order))
        /\ ~nonceUsed(q.order.signerWallet, q.order.nonce)
    BY CleanReport
  <1>3. q.order.expiry > now <=> q.order.expiry # now
    <2>1. now \in Nat
      BY StateType
    <2>2. QED
      BY <1>1, <1>2, <2>1
  <1>4. MaySignFor(Signatory(q), q.order.signerWallet)
    BY <1>2 DEF Unauthorized, MaySignFor
  <1>5. CanSettle(q.order, q.sender, q.sender)
    <2>1. tokens \in Holdings(Token, Wallet) /\ signerFee \in Nat
      BY StateType
    <2>2. FeeAmount(q.order, signerFee) \in Nat
      BY <1>1, <2>1, FeeIsNat
    <2>3. /\ tokens.bal[q.order.senderToken][q.sender] \in Nat
          /\ tokens.allow[q.order.senderToken][q.sender] \in Nat
          /\ tokens.bal[q.order.signerToken][q.order.signerWallet] \in Nat
          /\ tokens.allow[q.order.signerToken][q.order.signerWallet] \in Nat
      BY <1>1, <2>1 DEF Holdings
    <2>4. /\ tokens.bal[q.order.senderToken][q.sender] >= q.order.senderAmount
          /\ tokens.allow[q.order.senderToken][q.sender] >= q.order.senderAmount
          /\ tokens.bal[q.order.signerToken][q.order.signerWallet]
               >= q.order.signerAmount + FeeAmount(q.order, signerFee)
          /\ tokens.allow[q.order.signerToken][q.order.signerWallet]
               >= q.order.signerAmount + FeeAmount(q.order, signerFee)
      BY <1>1, <1>2, <2>2, <2>3 DEF AmountDue
    <2>5. CASE q.sender = q.order.signerWallet
      BY <1>1, <2>4, <2>5, SettlementWithOneself DEF WashTrade
    <2>6. CASE q.sender # q.order.signerWallet
      BY <1>1, <2>4, <2>6, SettlementOfTwoWallets
    <2>7. QED
      BY <2>5, <2>6
  <1>6. QED
    BY <1>2, <1>3, <1>4, <1>5
       DEF SwapSucceeds, CanSwap, Signatory, RecoveredSignatory, ValidSignatory, OpenAfterReport

LEMMA CleanReportHolds ==
    ASSUME LightAssumption, TypeOK, NEW q \in Question, InScope(q), Report(q) = {}
    PROVE  SwapSucceeds(q)
  <1>1. /\ Signatory(q) # NullAddress
        /\ ~Unauthorized(Signatory(q), q.order.signerWallet)
        /\ ~nonceUsed(q.order.signerWallet, q.order.nonce)
    BY CleanReport
  <1>2. Signatory(q) = q.order.signerWallet
    <2>1. authorized[q.order.signerWallet] \in Wallet \union {NullAddress}
      BY QuestionType, StateType
    <2>2. q.order.signerWallet \in Wallet
      BY QuestionType
    <2>3. Signatory(q) # Unknown
      BY <1>1, <2>1, <2>2 DEF Unauthorized, LightAssumption
    <2>4. QED
      BY <1>1, <2>3 DEF InScope
  <1>3. ~WashTrade(q) /\ OpenAfterReport(q)
    BY <1>1, <1>2 DEF InScope, WashTrade, OpenAfterReport
  <1>4. QED
    BY <1>3, CleanReportDecides

LEMMA SuccessIsReportedClean ==
    ASSUME LightAssumption, TypeOK, NEW q \in Question, InScope(q),
           q.order.senderToken # q.order.signerToken, q.sender # q.order.signerWallet,
           SwapSucceeds(q)
    PROVE  Report(q) = {}
  <1>1. /\ q.order \in OrderType /\ q.sender \in Wallet
        /\ q.order.signerWallet \in Wallet
        /\ q.order.signerToken \in Token /\ q.order.senderToken \in Token
        /\ q.order.signerAmount \in Nat /\ q.order.senderAmount \in Nat
        /\ q.order.expiry \in Nat
    BY QuestionType
  <1>2. /\ q.order.expiry > now
        /\ Signatory(q) # NullAddress
        /\ ~nonceUsed(Signatory(q), q.order.nonce)
        /\ MaySignFor(Signatory(q), q.order.signerWallet)
        /\ CanSettle(q.order, q.sender, q.sender)
    BY DEF SwapSucceeds, CanSwap, Signatory, RecoveredSignatory, ValidSignatory
  <1>3. now \in Nat /\ ~(q.order.expiry < now)
    <2>1. now \in Nat
      BY StateType
    <2>2. QED
      BY <1>1, <1>2, <2>1
  <1>4. ~Unauthorized(Signatory(q), q.order.signerWallet)
    BY <1>2 DEF Unauthorized, MaySignFor
  <1>5. Signatory(q) = q.order.signerWallet
    <2>1. authorized[q.order.signerWallet] \in Wallet \union {NullAddress}
      BY <1>1, StateType
    <2>2. Signatory(q) # Unknown
      BY <1>1, <1>2, <2>1 DEF MaySignFor, LightAssumption
    <2>3. QED
      BY <1>2, <2>2 DEF InScope
  <1>6. /\ tokens.bal[q.order.senderToken][q.sender] >= q.order.senderAmount
        /\ tokens.allow[q.order.senderToken][q.sender] >= q.order.senderAmount
        /\ tokens.bal[q.order.signerToken][q.order.signerWallet] >= AmountDue(q.order)
        /\ tokens.allow[q.order.signerToken][q.order.signerWallet] >= AmountDue(q.order)
    BY <1>1, <1>2, SettlementOfTwoWallets DEF AmountDue
  <1>7. /\ tokens.bal[q.order.senderToken][q.sender] \in Nat
        /\ tokens.allow[q.order.senderToken][q.sender] \in Nat
        /\ tokens.bal[q.order.signerToken][q.order.signerWallet] \in Nat
        /\ tokens.allow[q.order.signerToken][q.order.signerWallet] \in Nat
        /\ AmountDue(q.order) \in Nat
    <2>1. tokens \in Holdings(Token, Wallet) /\ signerFee \in Nat
      BY StateType
    <2>2. FeeAmount(q.order, signerFee) \in Nat
      BY <1>1, <2>1, FeeIsNat
    <2>3. QED
      BY <1>1, <2>1, <2>2 DEF Holdings, AmountDue
  <1>8. /\ ~(tokens.allow[q.order.senderToken][q.sender] < q.order.senderAmount)
        /\ ~(tokens.allow[q.order.signerToken][q.order.signerWallet] < AmountDue(q.order))
        /\ ~(tokens.bal[q.order.senderToken][q.sender] < q.order.senderAmount)
        /\ ~(tokens.bal[q.order.signerToken][q.order.signerWallet] < AmountDue(q.order))
    BY <1>1, <1>6, <1>7
  <1>9. QED
    BY <1>2, <1>3, <1>4, <1>5, <1>8, CleanReport

(* After any history of swaps, cancellations, authorizations, fees and     *)
(* payments, a clean report in scope means that the swap does not revert.  *)
THEOREM CleanReportsArePromises == Spec => []CleanReportsHold
  <1>1. TypeOK => CleanReportsHold
    BY LightAssumption, CleanReportHolds DEF CleanReportsHold
  <1>2. QED
    BY <1>1, ConfigurationIsValid, PTL

(* The extent of what the run validator_nonce finds: unless a wallet trades *)
(* a token with itself, whoever signed, a swap that reverts after a clean  *)
(* report does so for one of three reasons, each of which does make it.    *)
CleanReportsLeaveThreeGaps ==
    \A q \in Question :
        ~WashTrade(q) /\ Report(q) = {} => (SwapSucceeds(q) <=> OpenAfterReport(q))

(* In every reachable state nothing but these three stands between a clean *)
(* report and the swap it was made for.                                    *)
THEOREM CleanReportsAreExact == Spec => []CleanReportsLeaveThreeGaps
  <1>1. TypeOK => CleanReportsLeaveThreeGaps
    BY LightAssumption, CleanReportDecides DEF CleanReportsLeaveThreeGaps
  <1>2. QED
    BY <1>1, ConfigurationIsValid, PTL

(* And a report of errors between two wallets and two tokens that it does. *)
THEOREM AlarmsAreReal == Spec => []ReportedErrorsAreReal
  <1>1. TypeOK => ReportedErrorsAreReal
    BY LightAssumption, SuccessIsReportedClean DEF ReportedErrorsAreReal
  <1>2. QED
    BY <1>1, ConfigurationIsValid, PTL

-----------------------------------------------------------------------------
(* The Wrapper, another account of Light.                                  *)

(* What the deployment gives the wrapper: an address, and a token of       *)
(* wrapped ether.                                                          *)
WrapperAssumption ==
    /\ Contract \in Wallet
    /\ WETH \in Token
    /\ InitEther \in [Wallet -> Nat]

(* The tokens have their type when Light is called; deposit approves       *)
(* nothing.                                                                *)
LEMMA WrappingKeepsHoldings ==
    ASSUME WrapperAssumption, tokens \in Holdings(Token, Wallet),
           NEW order, NEW value \in Nat
    PROVE  /\ Wrapped(order, value) \in Holdings(Token, Wallet)
           /\ Wrapped(order, value).allow = tokens.allow
  <1> DEFINE weth == Credit(tokens.bal[WETH], Contract, value)
  <1>1. weth \in [Wallet -> Nat]
    BY DEF WrapperAssumption, Holdings, Credit
  <1>2. Deposit(tokens, value) = [tokens EXCEPT !.bal = [tokens.bal EXCEPT ![WETH] = weth]]
    BY DEF Deposit
  <1> HIDE DEF weth
  <1>3. [tokens.bal EXCEPT ![WETH] = weth] \in [Token -> [Wallet -> Nat]]
    BY <1>1 DEF WrapperAssumption, Holdings
  <1>4. /\ Deposit(tokens, value) \in Holdings(Token, Wallet)
        /\ Deposit(tokens, value).allow = tokens.allow
    BY <1>2, <1>3 DEF Holdings
  <1>5. QED
    BY <1>4 DEF Wrapped

(* A transfer raises no allowance.                                         *)
LEMMA TransferRaisesNoAllowance ==
    ASSUME NEW w \in Holdings(Token, Wallet), NEW t \in Token,
           NEW from \in Wallet, NEW to \in Wallet, NEW amount \in Nat,
           CanTransferFrom(w, t, from, amount)
    PROVE  \A u \in Token, a \in Wallet :
               TransferFrom(w, t, from, to, amount).allow[u][a] <= w.allow[u][a]
  <1>1. TransferFrom(w, t, from, to, amount) \in Holdings(Token, Wallet)
    BY TransferKeepsHoldings
  <1>2. ASSUME NEW u \in Token, NEW a \in Wallet
        PROVE  TransferFrom(w, t, from, to, amount).allow[u][a] <= w.allow[u][a]
    <2>1. TransferFrom(w, t, from, to, amount).allow[u][a]
             + (IF a = from /\ u = t THEN amount ELSE 0) = w.allow[u][a]
      BY TransferUsesAllowance
    <2>2. TransferFrom(w, t, from, to, amount).allow[u][a] \in Nat /\ w.allow[u][a] \in Nat
      BY <1>1 DEF Holdings
    <2>3. QED
      BY <2>1, <2>2
  <1>3. QED
    BY <1>2

(* The holdings after the first, the second and the third transfer of a    *)
(* settlement, from any holdings.                                          *)
First(w, order, sender) ==
    TransferFrom(w, order.senderToken, sender, order.signerWallet, order.senderAmount)
Second(w, order, sender, recipient) ==
    TransferFrom(First(w, order, sender), order.signerToken, order.signerWallet, recipient,
                 order.signerAmount)
Third(w, order, sender, recipient) ==
    TransferFrom(Second(w, order, sender, recipient), order.signerToken, order.signerWallet,
                 feeWallet, FeeAmount(order, signerFee))

AllCovered(w, order, sender, recipient) ==
    /\ CanTransferFrom(w, order.senderToken, sender, order.senderAmount)
    /\ CanTransferFrom(First(w, order, sender), order.signerToken, order.signerWallet,
                       order.signerAmount)
    /\ CanTransferFrom(Second(w, order, sender, recipient), order.signerToken,
                       order.signerWallet, FeeAmount(order, signerFee))

(* Three transfers keep the types and raise no allowance.                  *)
LEMMA ThreeTransfers ==
    ASSUME TypeOK, NEW w \in Holdings(Token, Wallet), NEW order \in OrderType,
           NEW sender \in Wallet, NEW recipient \in Wallet,
           AllCovered(w, order, sender, recipient)
    PROVE  /\ Third(w, order, sender, recipient) \in Holdings(Token, Wallet)
           /\ \A u \in Token, a \in Wallet :
                 Third(w, order, sender, recipient).allow[u][a] <= w.allow[u][a]
  <1> DEFINE w1 == First(w, order, sender)
             w2 == Second(w, order, sender, recipient)
             w3 == Third(w, order, sender, recipient)
  <1>1. /\ order.signerWallet \in Wallet /\ order.signerToken \in Token
        /\ order.senderToken \in Token
        /\ order.signerAmount \in Nat /\ order.senderAmount \in Nat
    BY DEF OrderType
  <1>2. feeWallet \in Wallet /\ signerFee \in Nat
    BY DEF TypeOK, FEE_DIVISOR
  <1>3. FeeAmount(order, signerFee) \in Nat
    BY <1>2, FeeIsNat
  <1>4. /\ w1 \in Holdings(Token, Wallet)
        /\ \A u \in Token, a \in Wallet : w1.allow[u][a] <= w.allow[u][a]
    BY <1>1, TransferKeepsHoldings, TransferRaisesNoAllowance DEF AllCovered, First
  <1>5. /\ w2 \in Holdings(Token, Wallet)
        /\ \A u \in Token, a \in Wallet : w2.allow[u][a] <= w1.allow[u][a]
    <2>1. CanTransferFrom(w1, order.signerToken, order.signerWallet, order.signerAmount)
      BY DEF AllCovered
    <2>2. QED
      BY <1>1, <1>4, <2>1, TransferKeepsHoldings, TransferRaisesNoAllowance DEF Second
  <1>6. /\ w3 \in Holdings(Token, Wallet)
        /\ \A u \in Token, a \in Wallet : w3.allow[u][a] <= w2.allow[u][a]
    <2>1. CanTransferFrom(w2, order.signerToken, order.signerWallet, FeeAmount(order, signerFee))
      BY DEF AllCovered
    <2>2. QED
      BY <1>1, <1>2, <1>3, <1>5, <2>1, TransferKeepsHoldings, TransferRaisesNoAllowance
      DEF Third
  <1> HIDE DEF w1, w2, w3
  <1>7. ASSUME NEW u \in Token, NEW a \in Wallet PROVE w3.allow[u][a] <= w.allow[u][a]
    <2>1. w.allow[u][a] \in Nat /\ w1.allow[u][a] \in Nat
          /\ w2.allow[u][a] \in Nat /\ w3.allow[u][a] \in Nat
      BY <1>4, <1>5, <1>6 DEF Holdings
    <2>2. QED
      BY <1>4, <1>5, <1>6, <2>1
  <1>8. QED
    BY <1>6, <1>7 DEF w3

(* They are what Light does from its own holdings, and from the wrapper's. *)
LEMMA SettlementIsThreeTransfers ==
    ASSUME NEW order, NEW sender, NEW recipient
    PROVE  /\ CanSettle(order, sender, recipient) <=> AllCovered(tokens, order, sender, recipient)
           /\ Settled(order, sender, recipient) = Third(tokens, order, sender, recipient)
  BY DEF CanSettle, Settled, AfterSender, AfterSigner, AllCovered, First, Second, Third

LEMMA SettlementFromHoldings ==
    ASSUME NEW w, NEW order, NEW sender, NEW recipient
    PROVE  /\ L(w)!CanSettle(order, sender, recipient) <=> AllCovered(w, order, sender, recipient)
           /\ L(w)!Settled(order, sender, recipient) = Third(w, order, sender, recipient)
  <1> USE DEF L!CanTransferFrom, CanTransferFrom
  <1>1. L(w)!AfterSender(order, sender) = First(w, order, sender)
    BY DEF L!AfterSender, L!TransferFrom, L!Move, L!Credit, L!Debit,
           First, TransferFrom, Move, Credit, Debit
  <1>2. L(w)!AfterSigner(order, sender, recipient) = Second(w, order, sender, recipient)
    BY <1>1 DEF L!AfterSigner, L!TransferFrom, L!Move, L!Credit, L!Debit,
                Second, TransferFrom, Move, Credit, Debit
  <1>3. L(w)!FeeAmount(order, signerFee) = FeeAmount(order, signerFee)
    BY DEF L!FeeAmount, FeeAmount, L!FEE_DIVISOR, FEE_DIVISOR
  <1>4. L(w)!Settled(order, sender, recipient) = Third(w, order, sender, recipient)
    BY <1>2, <1>3 DEF L!Settled, L!TransferFrom, L!Move, L!Credit, L!Debit,
                      Third, TransferFrom, Move, Credit, Debit
  <1>5. QED
    BY <1>1, <1>2, <1>3, <1>4 DEF L!CanSettle, AllCovered

(* A step of Light raises no allowance of an account that approves nothing. *)
LEMMA StepRaisesNoAllowance ==
    ASSUME LightAssumption, TypeOK, Next,
           NEW a \in Wallet, \A p \in Approval : p[1] # a,
           NEW u \in Token
    PROVE  tokens'.allow[u][a] <= tokens.allow[u][a]
  <1>1. tokens \in Holdings(Token, Wallet) /\ tokens.allow[u][a] \in Nat
    BY DEF TypeOK, Holdings
  <1>2. ASSUME NEW sender \in Wallet, NEW recipient \in Wallet,
               NEW o \in {s.order : s \in Signature}, NEW sig \in Signature \union Malformed,
               SwapWithRecipient(sender, recipient, o, sig)
        PROVE  tokens'.allow[u][a] <= tokens.allow[u][a]
    <2>1. o \in OrderType
      BY DEF LightAssumption, SignatureType
    <2>2. CanSettle(o, sender, recipient) /\ tokens' = Settled(o, sender, recipient)
      BY <1>2 DEF SwapWithRecipient, CanSwap
    <2>3. QED
      BY <1>1, <2>1, <2>2, SettlementIsThreeTransfers, ThreeTransfers
  <1>3. ASSUME NEW p \in Approval, ApproveLight(p[1], p[2], p[3])
        PROVE  tokens'.allow[u][a] <= tokens.allow[u][a]
    <2>1. p[1] # a /\ p[1] \in Wallet /\ p[2] \in Token /\ p[3] \in Nat
      BY DEF LightAssumption
    <2>2. tokens'.allow[u][a] = tokens.allow[u][a]
      BY <1>1, <1>3, <2>1 DEF ApproveLight, Approve, Holdings
    <2>3. QED
      BY <1>1, <2>2
  <1>4. CASE tokens' = tokens
    BY <1>1, <1>4
  <1>5. QED
    BY <1>2, <1>3, <1>4 DEF Next, NextBy, Swap, Revoke, SetFeeWallet, SetFee, Cancel,
       Authorize, Tick, Fork

(* The wrapper calls Light as the sender, for a nonce that is open.        *)
LEMMA WrapperUsesAnOpenNonce ==
    ASSUME NEW w, NEW order, NEW sig, NEW sender, L(w)!CanSwap(Contract, sender, order, sig)
    PROVE  ~nonceUsed(Recover(OrderHash(order, Contract), sig), order.nonce)
  <1>1. L(w)!Malformed = Malformed
    BY DEF L!Malformed, Malformed
  <1>2. L(w)!OrderHash(order, Contract) = OrderHash(order, Contract)
    BY DEF L!OrderHash, OrderHash
  <1>3. L(w)!Recover(L(w)!OrderHash(order, Contract), sig) = Recover(OrderHash(order, Contract), sig)
    BY <1>1, <1>2 DEF L!Recover, Recover
  <1>4. ~L(w)!nonceUsed(Recover(OrderHash(order, Contract), sig), order.nonce)
    BY <1>3 DEF L!CanSwap
  <1>5. QED
    BY <1>4 DEF L!nonceUsed, nonceUsed, L!IndexInGroup, IndexInGroup, L!GroupKey, GroupKey

(* A swap through the wrapper fills one open nonce of a signatory, keeps   *)
(* every type, and raises no allowance.                                    *)
LEMMA WrapperSwapFills ==
    ASSUME LightAssumption, WrapperAssumption, TypeOK, ether \in [Wallet -> Nat],
           NEW sender \in Wallet, NEW value \in Nat,
           NEW order \in {s.order : s \in Signature},
           NEW sig \in Signature \union Malformed,
           swap(sender, value, order, sig)
    PROVE  /\ TypeOK' /\ NonceStep /\ ether' \in [Wallet -> Nat]
           /\ \A u \in Token, a \in Wallet : tokens'.allow[u][a] <= tokens.allow[u][a]
  <1>1. order \in OrderType
    BY DEF LightAssumption, SignatureType
  <1>2. order.signerAmount \in Nat
    BY <1>1 DEF OrderType
  <1>3. Contract \in Wallet /\ WETH \in Token
    BY DEF WrapperAssumption
  <1>4. tokens \in Holdings(Token, Wallet)
    BY DEF TypeOK
  <1> DEFINE w == Wrapped(order, value)
             traded == Traded(sender, value, order)
  <1>5. w \in Holdings(Token, Wallet) /\ w.allow = tokens.allow
    BY <1>4, WrappingKeepsHoldings
  <1>6. /\ ether[sender] >= value
        /\ L(w)!CanSwap(Contract, sender, order, sig)
        /\ order.signerToken = WETH => CanTransfer(traded, WETH, Contract, order.signerAmount)
        /\ tokens' = IF order.signerToken = WETH THEN Withdraw(traded, order.signerAmount)
                                                 ELSE traded
        /\ ether' = EtherAfter(sender, value, order)
        /\ RecordSwap(Recover(OrderHash(order, Contract), sig), order.nonce)
    BY DEF swap, CanSwapThroughWrapper, Unwrapped
  <1>7. traded = L(w)!Settled(order, Contract, sender)
    BY DEF Traded
  <1> HIDE DEF w, traded
  <1>8. L(w)!CanSettle(order, Contract, sender)
    BY <1>6 DEF L!CanSwap
  <1>9. /\ traded \in Holdings(Token, Wallet)
        /\ \A u \in Token, a \in Wallet : traded.allow[u][a] <= w.allow[u][a]
    BY <1>1, <1>3, <1>5, <1>7, <1>8, SettlementFromHoldings, ThreeTransfers
  <1>10. tokens' \in Holdings(Token, Wallet) /\ tokens'.allow = traded.allow
    <2>1. CASE order.signerToken # WETH
      BY <1>6, <1>9, <2>1
    <2>2. CASE order.signerToken = WETH
      <3> DEFINE weth == Debit(traded.bal[WETH], Contract, order.signerAmount)
      <3>1. traded.bal[WETH][Contract] >= order.signerAmount
        BY <1>6, <2>2 DEF CanTransfer
      <3>2. weth \in [Wallet -> Nat]
        BY <1>2, <1>3, <1>9, <3>1 DEF Holdings, Debit
      <3>3. tokens' = [traded EXCEPT !.bal = [traded.bal EXCEPT ![WETH] = weth]]
        BY <1>6, <2>2 DEF Withdraw
      <3> HIDE DEF weth
      <3>4. [traded.bal EXCEPT ![WETH] = weth] \in [Token -> [Wallet -> Nat]]
        BY <1>9, <3>2 DEF Holdings
      <3>5. QED
        BY <1>9, <3>3, <3>4 DEF Holdings
    <2>3. QED
      BY <2>1, <2>2
  <1>11. TypeOK' /\ NonceStep
    BY <1>6, <1>10, WrapperUsesAnOpenNonce, RecordedSwapFills
  <1>12. ether' \in [Wallet -> Nat]
    <2>1. Debit(ether, sender, value) \in [Wallet -> Nat]
      BY <1>6 DEF Debit
    <2>2. Move(ether, sender, Contract, value) \in [Wallet -> Nat]
      BY <1>3, <2>1 DEF Move, Credit
    <2>3. \A paid \in [Wallet -> Nat] : Credit(paid, sender, order.signerAmount) \in [Wallet -> Nat]
      BY <1>2 DEF Credit
    <2>4. QED
      BY <1>6, <2>1, <2>2, <2>3 DEF EtherAfter
  <1>13. QED
    BY <1>5, <1>9, <1>10, <1>11, <1>12

(* Steps of the others are steps of Light.                                 *)
LEMMA OthersStepLight ==
    ASSUME NEW C \in SUBSET Wallet, NextBy(C) PROVE Next
  BY DEF NextBy, Next

WrapperInv ==
    /\ IInv
    /\ ether \in [Wallet -> Nat]

LEMMA WrapperStepKeepsInvariant ==
    ASSUME LightAssumption, WrapperAssumption, WrapperInv, [WrapperNext]_wrapperVars
    PROVE  WrapperInv'
  <1>1. CASE \E sender \in Wallet \ {Contract}, o \in {s.order : s \in Signature},
               sig \in Signature \union Malformed :
                 \E value \in 0..ether[sender] : swap(sender, value, o, sig)
    <2>1. TypeOK /\ OneEventPerUsedNonce /\ ether \in [Wallet -> Nat]
      BY DEF WrapperInv, IInv
    <2>2. TypeOK' /\ NonceStep /\ ether' \in [Wallet -> Nat]
      <3>1. PICK sender \in Wallet \ {Contract}, o \in {s.order : s \in Signature},
                 sig \in Signature \union Malformed :
                   \E value \in 0..ether[sender] : swap(sender, value, o, sig)
        BY <1>1
      <3>2. PICK value \in 0..ether[sender] : swap(sender, value, o, sig)
        BY <3>1
      <3>3. value \in Nat /\ sender \in Wallet
        BY <2>1
      <3>4. QED
        BY <2>1, <3>2, <3>3, WrapperSwapFills
    <2>3. IInv'
      BY <2>2, InvariantByNonceStep DEF WrapperInv
    <2>4. QED
      BY <2>2, <2>3 DEF WrapperInv
  <1>2. CASE NextBy(Wallet \ {Contract}) /\ UNCHANGED ether
    <2>1. Next
      BY <1>2, OthersStepLight
    <2>2. QED
      BY <1>2, <2>1, StepKeepsInvariant DEF WrapperInv
  <1>3. CASE UNCHANGED wrapperVars
    BY <1>3, StepKeepsInvariant DEF WrapperInv, wrapperVars
  <1>4. QED
    BY <1>1, <1>2, <1>3 DEF WrapperNext

(* Trading through the wrapper, mixed with trading directly, keeps the     *)
(* types and the accounts of the nonces: one event per used nonce.         *)
THEOREM WrapperKeepsNonces ==
    ASSUME WrapperAssumption
    PROVE  WrapperSpec => [](TypeOK /\ OneEventPerUsedNonce)
  <1>1. WrapperInit => WrapperInv
    BY LightAssumption, InitEstablishes DEF WrapperInit, WrapperInv, WrapperAssumption
  <1>2. WrapperInv /\ [WrapperNext]_wrapperVars => WrapperInv'
    BY LightAssumption, WrapperStepKeepsInvariant
  <1>3. QED
    BY <1>1, <1>2, PTL DEF WrapperSpec, WrapperInv, IInv

(* The code of the wrapper approves no token, and nothing is approved in   *)
(* its name.                                                               *)
ApprovesNothing ==
    /\ InitAllowance[Contract] = 0
    /\ \A p \in Approval : p[1] # Contract

LightMovesNothingOfIt == \A u \in Token : tokens.allow[u][Contract] = 0

LEMMA WrapperAllowsNothing ==
    ASSUME LightAssumption, WrapperAssumption, ApprovesNothing,
           WrapperInv, LightMovesNothingOfIt, [WrapperNext]_wrapperVars
    PROVE  LightMovesNothingOfIt'
  <1>1. TypeOK /\ ether \in [Wallet -> Nat]
    BY DEF WrapperInv, IInv
  <1>2. WrapperInv' /\ TypeOK' /\ Contract \in Wallet
    BY WrapperStepKeepsInvariant DEF WrapperInv, IInv, WrapperAssumption
  <1>3. ASSUME NEW u \in Token PROVE tokens'.allow[u][Contract] <= tokens.allow[u][Contract]
    <2>1. CASE \E sender \in Wallet \ {Contract}, o \in {s.order : s \in Signature},
                 sig \in Signature \union Malformed :
                   \E value \in 0..ether[sender] : swap(sender, value, o, sig)
      <3>1. PICK sender \in Wallet \ {Contract}, o \in {s.order : s \in Signature},
                 sig \in Signature \union Malformed :
                   \E value \in 0..ether[sender] : swap(sender, value, o, sig)
        BY <2>1
      <3>2. PICK value \in 0..ether[sender] : swap(sender, value, o, sig)
        BY <3>1
      <3>3. value \in Nat /\ sender \in Wallet
        BY <1>1
      <3>4. QED
        BY <1>1, <1>2, <3>2, <3>3, WrapperSwapFills
    <2>2. CASE NextBy(Wallet \ {Contract}) /\ UNCHANGED ether
      BY <1>1, <1>2, <2>2, OthersStepLight, StepRaisesNoAllowance DEF ApprovesNothing
    <2>3. CASE UNCHANGED wrapperVars
      <3>1. tokens.allow[u][Contract] \in Nat
        BY <1>1, <1>2 DEF TypeOK, Holdings
      <3>2. QED
        BY <2>3, <3>1 DEF wrapperVars, vars
    <2>4. QED
      BY <2>1, <2>2, <2>3 DEF WrapperNext
  <1>4. ASSUME NEW u \in Token PROVE tokens'.allow[u][Contract] = 0
    <2>1. tokens'.allow[u][Contract] \in Nat
      BY <1>2 DEF TypeOK, Holdings
    <2>2. tokens'.allow[u][Contract] <= 0
      BY <1>3 DEF LightMovesNothingOfIt
    <2>3. QED
      BY <2>1, <2>2
  <1>5. QED
    BY <1>4 DEF LightMovesNothingOfIt

(* Whatever settles through the wrapper costs its caller nothing.          *)
OnlyGiftsSettle ==
    \A sender \in Wallet, value \in Nat, order \in {s.order : s \in Signature},
       sig \in Signature \union Malformed :
          CanSwapThroughWrapper(sender, value, order, sig) => order.senderAmount = 0

LEMMA NoAllowanceNoSale ==
    ASSUME LightAssumption, WrapperAssumption, TypeOK, LightMovesNothingOfIt
    PROVE  OnlyGiftsSettle
  <1> SUFFICES ASSUME NEW sender \in Wallet, NEW value \in Nat,
                      NEW order \in {s.order : s \in Signature},
                      NEW sig \in Signature \union Malformed,
                      CanSwapThroughWrapper(sender, value, order, sig)
               PROVE  order.senderAmount = 0
    BY DEF OnlyGiftsSettle
  <1>1. order.senderAmount \in Nat /\ order.senderToken \in Token
    BY DEF LightAssumption, SignatureType, OrderType
  <1> DEFINE w == Wrapped(order, value)
  <1>2. w.allow = tokens.allow
    BY WrappingKeepsHoldings DEF TypeOK
  <1>3. L(w)!CanSwap(Contract, sender, order, sig)
    BY DEF CanSwapThroughWrapper
  <1> HIDE DEF w
  <1>4. L(w)!CanSettle(order, Contract, sender)
    BY <1>3 DEF L!CanSwap
  <1>5. w.allow[order.senderToken][Contract] >= order.senderAmount
    BY <1>4, SettlementFromHoldings DEF AllCovered, CanTransferFrom
  <1>6. QED
    BY <1>1, <1>2, <1>5 DEF LightMovesNothingOfIt

(* The extent of what the wrapper's run finds: since the wrapper approves  *)
(* nothing, no order with a price ever settles through it, in ether or in  *)
(* any token, whatever swaps, approvals and payments came before.          *)
THEOREM NothingIsSoldThroughTheWrapper ==
    ASSUME WrapperAssumption, ApprovesNothing
    PROVE  WrapperSpec => []OnlyGiftsSettle
  <1> DEFINE Inv == WrapperInv /\ LightMovesNothingOfIt
  <1>1. WrapperInit => Inv
    <2>1. ASSUME WrapperInit PROVE LightMovesNothingOfIt
      BY <2>1 DEF WrapperInit, Init, ApprovesNothing, LightMovesNothingOfIt
    <2>2. QED
      BY <2>1, LightAssumption, InitEstablishes DEF WrapperInit, WrapperInv, WrapperAssumption
  <1>2. Inv /\ [WrapperNext]_wrapperVars => Inv'
    BY LightAssumption, WrapperStepKeepsInvariant, WrapperAllowsNothing
  <1>3. Inv => OnlyGiftsSettle
    BY LightAssumption, NoAllowanceNoSale DEF WrapperInv, IInv
  <1>4. QED
    BY <1>1, <1>2, <1>3, PTL DEF WrapperSpec
-----------------------------------------------------------------------------
(* No token is lost.                                                       *)

Total(b) == SumFunctionOnSet(b, Wallet)

LEMMA TotalIsNat ==
    ASSUME IsFiniteSet(Wallet), NEW b \in [Wallet -> Nat] PROVE Total(b) \in Nat
  BY SumInteger DEF Total

LEMMA CreditAdds ==
    ASSUME IsFiniteSet(Wallet), NEW b \in [Wallet -> Nat],
           NEW to \in Wallet, NEW amount \in Nat
    PROVE  /\ Credit(b, to, amount) \in [Wallet -> Nat]
           /\ Total(Credit(b, to, amount)) = Total(b) + amount
  <1> DEFINE c == Credit(b, to, amount)
  <1>1. c \in [Wallet -> Nat] /\ c[to] = b[to] + amount /\ \A x \in Wallet \ {to} : c[x] = b[x]
    BY DEF Credit
  <1> HIDE DEF c
  <1>2. \A x \in Wallet : b[x] \in Int /\ c[x] \in Int
    BY <1>1
  <1>3. Total(c) = Total(b) + (c[to] - b[to])
    BY <1>1, <1>2, SumUpdate DEF Total
  <1>4. c[to] - b[to] = amount
    BY <1>1
  <1>5. QED
    BY <1>1, <1>3, <1>4 DEF c

LEMMA DebitTakes ==
    ASSUME IsFiniteSet(Wallet), NEW b \in [Wallet -> Nat],
           NEW from \in Wallet, NEW amount \in Nat, b[from] >= amount
    PROVE  /\ Debit(b, from, amount) \in [Wallet -> Nat]
           /\ Total(Debit(b, from, amount)) + amount = Total(b)
  <1> DEFINE c == Debit(b, from, amount)
  <1>1. /\ c \in [Wallet -> Nat] /\ c[from] = b[from] - amount
        /\ \A x \in Wallet \ {from} : c[x] = b[x]
    BY DEF Debit
  <1> HIDE DEF c
  <1>2. \A x \in Wallet : b[x] \in Int /\ c[x] \in Int
    BY <1>1
  <1>3. Total(c) = Total(b) + (c[from] - b[from])
    BY <1>1, <1>2, SumUpdate DEF Total
  <1>4. c[from] - b[from] = 0 - amount
    BY <1>1
  <1>5. Total(b) \in Nat
    BY TotalIsNat
  <1>6. QED
    BY <1>1, <1>3, <1>4, <1>5 DEF c

LEMMA MoveConserves ==
    ASSUME IsFiniteSet(Wallet), NEW b \in [Wallet -> Nat],
           NEW from \in Wallet, NEW to \in Wallet, NEW amount \in Nat, b[from] >= amount
    PROVE  /\ Move(b, from, to, amount) \in [Wallet -> Nat]
           /\ Total(Move(b, from, to, amount)) = Total(b)
  <1> DEFINE d == Debit(b, from, amount)
  <1>1. d \in [Wallet -> Nat] /\ Total(d) + amount = Total(b)
    BY DebitTakes
  <1> HIDE DEF d
  <1>2. Credit(d, to, amount) \in [Wallet -> Nat] /\ Total(Credit(d, to, amount)) = Total(d) + amount
    BY <1>1, CreditAdds
  <1>3. QED
    BY <1>1, <1>2 DEF d, Move

(* A transfer conserves every token. *)
LEMMA TransferConserves ==
    ASSUME IsFiniteSet(Wallet), NEW w \in Holdings(Token, Wallet), NEW t \in Token,
           NEW from \in Wallet, NEW to \in Wallet, NEW amount \in Nat,
           CanTransferFrom(w, t, from, amount), NEW u \in Token
    PROVE  Total(TransferFrom(w, t, from, to, amount).bal[u]) = Total(w.bal[u])
  <1>1. w.bal \in [Token -> [Wallet -> Nat]] /\ w.bal[t] \in [Wallet -> Nat]
        /\ w.bal[t][from] >= amount
    BY DEF Holdings, CanTransferFrom
  <1> DEFINE moved == Move(w.bal[t], from, to, amount)
  <1>2. Total(moved) = Total(w.bal[t])
    BY <1>1, MoveConserves
  <1>3. TransferFrom(w, t, from, to, amount).bal = [w.bal EXCEPT ![t] = moved]
    BY DEF TransferFrom
  <1> HIDE DEF moved
  <1>4. QED
    BY <1>1, <1>2, <1>3

LEMMA SettlementConserves ==
    ASSUME IsFiniteSet(Wallet), TypeOK, NEW w \in Holdings(Token, Wallet),
           NEW order \in OrderType, NEW sender \in Wallet, NEW recipient \in Wallet,
           AllCovered(w, order, sender, recipient), NEW u \in Token
    PROVE  Total(Third(w, order, sender, recipient).bal[u]) = Total(w.bal[u])
  <1> DEFINE w1 == First(w, order, sender)
             w2 == Second(w, order, sender, recipient)
             w3 == Third(w, order, sender, recipient)
             fee == FeeAmount(order, signerFee)
  <1>1. /\ order.signerWallet \in Wallet /\ order.signerToken \in Token
        /\ order.senderToken \in Token
        /\ order.signerAmount \in Nat /\ order.senderAmount \in Nat
    BY DEF OrderType
  <1>2. feeWallet \in Wallet /\ signerFee \in Nat
    BY DEF TypeOK, FEE_DIVISOR
  <1>3. fee \in Nat
    BY <1>2, FeeIsNat
  <1>4. /\ CanTransferFrom(w, order.senderToken, sender, order.senderAmount)
        /\ CanTransferFrom(w1, order.signerToken, order.signerWallet, order.signerAmount)
        /\ CanTransferFrom(w2, order.signerToken, order.signerWallet, fee)
    BY DEF AllCovered
  <1> HIDE DEF fee
  <1>5. w1 \in Holdings(Token, Wallet) /\ Total(w1.bal[u]) = Total(w.bal[u])
    BY <1>1, <1>4, TransferKeepsHoldings, TransferConserves DEF First
  <1> HIDE DEF w1
  <1>6. w2 = TransferFrom(w1, order.signerToken, order.signerWallet, recipient, order.signerAmount)
    BY DEF Second, w1
  <1>7. w3 = TransferFrom(w2, order.signerToken, order.signerWallet, feeWallet, fee)
    BY DEF Third, fee
  <1> HIDE DEF w2, w3
  <1>8. w2 \in Holdings(Token, Wallet) /\ Total(w2.bal[u]) = Total(w1.bal[u])
    BY <1>1, <1>4, <1>5, <1>6, TransferKeepsHoldings, TransferConserves
  <1>9. Total(w3.bal[u]) = Total(w2.bal[u])
    BY <1>1, <1>2, <1>3, <1>4, <1>7, <1>8, TransferConserves
  <1>10. QED
    BY <1>5, <1>8, <1>9 DEF w3

LEMMA StepConservesTokens ==
    ASSUME LightAssumption, IsFiniteSet(Wallet), TypeOK, [Next]_vars, NEW u \in Token
    PROVE  Total(tokens'.bal[u]) = Total(tokens.bal[u])
  <1>1. tokens \in Holdings(Token, Wallet)
    BY DEF TypeOK
  <1>2. ASSUME NEW sender \in Wallet, NEW recipient \in Wallet,
               NEW o \in {s.order : s \in Signature}, NEW sig \in Signature \union Malformed,
               SwapWithRecipient(sender, recipient, o, sig)
        PROVE  Total(tokens'.bal[u]) = Total(tokens.bal[u])
    <2>1. o \in OrderType
      BY DEF LightAssumption, SignatureType
    <2>2. CanSettle(o, sender, recipient) /\ tokens' = Settled(o, sender, recipient)
      BY <1>2 DEF SwapWithRecipient, CanSwap
    <2>3. QED
      BY <1>1, <2>1, <2>2, SettlementIsThreeTransfers, SettlementConserves
  <1>3. ASSUME NEW p \in Approval, ApproveLight(p[1], p[2], p[3])
        PROVE  tokens'.bal = tokens.bal
    BY <1>3 DEF ApproveLight, Approve
  <1>4. CASE UNCHANGED tokens
    BY <1>4
  <1>5. QED
    BY <1>2, <1>3, <1>4 DEF Next, NextBy, Swap, Revoke, SetFeeWallet, SetFee, Cancel,
       Authorize, Tick, Fork, vars

(* Settlements neither create nor destroy tokens, with any fee, rounding   *)
(* and coincidence of the parties.                                         *)
TokensConserved == \A t \in Token : Total(tokens.bal[t]) = Total(InitBalance)

(* Whatever is swapped, cancelled and configured, each token's balances    *)
(* add up to what they were at the start.                                  *)
THEOREM SwapsConserveTokens ==
    ASSUME IsFiniteSet(Wallet) PROVE Spec => []TokensConserved
  <1>1. Init => TokensConserved
    BY DEF Init, TokensConserved
  <1>2. TypeOK /\ TokensConserved /\ [Next]_vars => TokensConserved'
    BY LightAssumption, StepConservesTokens DEF TokensConserved
  <1>3. QED
    BY <1>1, <1>2, ConfigurationIsValid, PTL DEF Spec

(* The amount of wrapped ether that a swap mints, and that it burns. *)
Minted(order, value) == IF order.senderToken = WETH THEN value ELSE 0
Burnt(order) == IF order.signerToken = WETH THEN order.signerAmount ELSE 0

LEMMA WrappingMints ==
    ASSUME IsFiniteSet(Wallet), WrapperAssumption, tokens \in Holdings(Token, Wallet),
           NEW order, NEW value \in Nat, NEW u \in Token
    PROVE  Total(Wrapped(order, value).bal[u])
             = Total(tokens.bal[u]) + (IF u = WETH THEN Minted(order, value) ELSE 0)
  <1>1. /\ tokens.bal \in [Token -> [Wallet -> Nat]] /\ tokens.bal[WETH] \in [Wallet -> Nat]
        /\ Contract \in Wallet /\ WETH \in Token
    BY DEF WrapperAssumption, Holdings
  <1>2. Total(tokens.bal[u]) \in Nat
    BY <1>1, TotalIsNat
  <1>3. CASE order.senderToken # WETH
    BY <1>2, <1>3 DEF Wrapped, Minted
  <1>4. CASE order.senderToken = WETH
    <2> DEFINE weth == Credit(tokens.bal[WETH], Contract, value)
    <2>1. Total(weth) = Total(tokens.bal[WETH]) + value
      BY <1>1, CreditAdds
    <2>2. Wrapped(order, value) = [tokens EXCEPT !.bal = [tokens.bal EXCEPT ![WETH] = weth]]
      BY <1>4 DEF Wrapped, Deposit
    <2> HIDE DEF weth
    <2>3. Wrapped(order, value).bal = [tokens.bal EXCEPT ![WETH] = weth]
      BY <2>2 DEF Holdings
    <2>4. CASE u = WETH
      BY <1>1, <1>4, <2>1, <2>3, <2>4 DEF Minted
    <2>5. CASE u # WETH
      BY <1>1, <1>2, <2>3, <2>5
    <2>6. QED
      BY <2>4, <2>5
  <1>5. QED
    BY <1>3, <1>4

LEMMA UnwrappingBurns ==
    ASSUME IsFiniteSet(Wallet), WrapperAssumption,
           NEW order \in OrderType, NEW w \in Holdings(Token, Wallet),
           order.signerToken = WETH => CanTransfer(w, WETH, Contract, order.signerAmount),
           NEW u \in Token
    PROVE  Total((IF order.signerToken = WETH THEN Withdraw(w, order.signerAmount) ELSE w).bal[u])
             + (IF u = WETH THEN Burnt(order) ELSE 0) = Total(w.bal[u])
  <1>1. /\ w.bal \in [Token -> [Wallet -> Nat]] /\ w.bal[WETH] \in [Wallet -> Nat]
        /\ Contract \in Wallet /\ WETH \in Token /\ order.signerAmount \in Nat
    BY DEF WrapperAssumption, Holdings, OrderType
  <1>2. Total(w.bal[u]) \in Nat
    BY <1>1, TotalIsNat
  <1>3. CASE order.signerToken # WETH
    BY <1>2, <1>3 DEF Burnt
  <1>4. CASE order.signerToken = WETH
    <2> DEFINE weth == Debit(w.bal[WETH], Contract, order.signerAmount)
    <2>1. Total(weth) + order.signerAmount = Total(w.bal[WETH])
      BY <1>1, <1>4, DebitTakes DEF CanTransfer
    <2>2. Withdraw(w, order.signerAmount) = [w EXCEPT !.bal = [w.bal EXCEPT ![WETH] = weth]]
      BY DEF Withdraw
    <2> HIDE DEF weth
    <2>3. Withdraw(w, order.signerAmount).bal = [w.bal EXCEPT ![WETH] = weth]
      BY <2>2 DEF Holdings
    <2>4. CASE u = WETH
      BY <1>1, <1>4, <2>1, <2>3, <2>4 DEF Burnt
    <2>5. CASE u # WETH
      BY <1>1, <1>2, <1>4, <2>3, <2>5
    <2>6. QED
      BY <2>4, <2>5
  <1>5. QED
    BY <1>3, <1>4

(* The ether of the accounts changes against wrapped ether. *)
LEMMA EtherChanges ==
    ASSUME IsFiniteSet(Wallet), WrapperAssumption, ether \in [Wallet -> Nat],
           NEW order \in OrderType, NEW sender \in Wallet, NEW value \in Nat,
           ether[sender] >= value
    PROVE  Total(EtherAfter(sender, value, order)) + Minted(order, value)
             = Total(ether) + Burnt(order)
  <1> DEFINE paid == IF order.senderToken = WETH THEN Debit(ether, sender, value)
                                                 ELSE Move(ether, sender, Contract, value)
  <1>1. Contract \in Wallet /\ order.signerAmount \in Nat
    BY DEF WrapperAssumption, OrderType
  <1>2. paid \in [Wallet -> Nat] /\ Total(paid) + Minted(order, value) = Total(ether)
    <2>1. CASE order.senderToken = WETH
      BY <2>1, DebitTakes DEF Minted
    <2>2. CASE order.senderToken # WETH
      <3>1. paid \in [Wallet -> Nat] /\ Total(paid) = Total(ether)
        BY <1>1, <2>2, MoveConserves
      <3>2. Total(ether) \in Nat
        BY TotalIsNat
      <3>3. QED
        BY <2>2, <3>1, <3>2 DEF Minted
    <2>3. QED
      BY <2>1, <2>2
  <1>3. EtherAfter(sender, value, order)
          = IF order.signerToken = WETH THEN Credit(paid, sender, order.signerAmount) ELSE paid
    BY DEF EtherAfter
  <1> HIDE DEF paid
  <1>4. Total(EtherAfter(sender, value, order)) = Total(paid) + Burnt(order)
    <2>1. Total(paid) \in Nat
      BY <1>2, TotalIsNat
    <2>2. Total(Credit(paid, sender, order.signerAmount)) = Total(paid) + order.signerAmount
      BY <1>1, <1>2, CreditAdds
    <2>3. QED
      BY <1>3, <2>1, <2>2 DEF Burnt
  <1>5. Total(paid) \in Nat /\ Minted(order, value) \in Nat /\ Burnt(order) \in Nat
    BY <1>1, <1>2, TotalIsNat DEF Minted, Burnt
  <1>6. QED
    BY <1>2, <1>4, <1>5

(* Ether and wrapped ether together are conserved, and so is every other   *)
(* token: the wrapper mints against what it is paid and pays what it burns. *)
EtherIsBacked ==
    /\ Total(ether) + Total(tokens.bal[WETH]) = Total(InitEther) + Total(InitBalance)
    /\ \A t \in Token \ {WETH} : Total(tokens.bal[t]) = Total(InitBalance)

LEMMA WrapperSwapKeepsBacking ==
    ASSUME LightAssumption, WrapperAssumption, IsFiniteSet(Wallet),
           TypeOK, ether \in [Wallet -> Nat],
           NEW sender \in Wallet, NEW value \in Nat,
           NEW order \in {s.order : s \in Signature},
           NEW sig \in Signature \union Malformed,
           swap(sender, value, order, sig)
    PROVE  /\ Total(ether') + Total(tokens'.bal[WETH]) = Total(ether) + Total(tokens.bal[WETH])
           /\ \A t \in Token \ {WETH} : Total(tokens'.bal[t]) = Total(tokens.bal[t])
  <1>1. order \in OrderType /\ Contract \in Wallet /\ WETH \in Token
    BY DEF LightAssumption, SignatureType, WrapperAssumption
  <1>2. tokens \in Holdings(Token, Wallet)
    BY DEF TypeOK
  <1> DEFINE w == Wrapped(order, value)
             traded == Traded(sender, value, order)
  <1>3. /\ ether[sender] >= value
        /\ L(w)!CanSettle(order, Contract, sender)
        /\ order.signerToken = WETH => CanTransfer(traded, WETH, Contract, order.signerAmount)
        /\ tokens' = IF order.signerToken = WETH THEN Withdraw(traded, order.signerAmount)
                                                 ELSE traded
        /\ ether' = EtherAfter(sender, value, order)
    BY DEF swap, CanSwapThroughWrapper, Unwrapped, L!CanSwap
  <1>4. w \in Holdings(Token, Wallet)
    BY <1>2, WrappingKeepsHoldings
  <1>5. \A u \in Token : Total(w.bal[u])
            = Total(tokens.bal[u]) + (IF u = WETH THEN Minted(order, value) ELSE 0)
    BY <1>2, WrappingMints
  <1>6. traded = L(w)!Settled(order, Contract, sender)
    BY DEF Traded
  <1> HIDE DEF w, traded
  <1>7. /\ traded \in Holdings(Token, Wallet)
        /\ \A u \in Token : Total(traded.bal[u]) = Total(w.bal[u])
    BY <1>1, <1>3, <1>4, <1>6, SettlementFromHoldings, ThreeTransfers, SettlementConserves
  <1>8. \A u \in Token : Total(tokens'.bal[u]) + (IF u = WETH THEN Burnt(order) ELSE 0)
                           = Total(traded.bal[u])
    BY <1>1, <1>3, <1>7, UnwrappingBurns
  <1>9. Total(ether') + Minted(order, value) = Total(ether) + Burnt(order)
    BY <1>1, <1>3, EtherChanges
  <1>10. TypeOK' /\ ether' \in [Wallet -> Nat]
    BY WrapperSwapFills
  <1>11. /\ \A u \in Token : Total(tokens.bal[u]) \in Nat /\ Total(tokens'.bal[u]) \in Nat
         /\ Total(ether) \in Nat /\ Total(ether') \in Nat
    BY <1>2, <1>10, TotalIsNat DEF TypeOK, Holdings
  <1>12. Minted(order, value) \in Nat /\ Burnt(order) \in Nat
    BY <1>1 DEF Minted, Burnt, OrderType
  <1>13. Total(ether') + Total(tokens'.bal[WETH]) = Total(ether) + Total(tokens.bal[WETH])
    <2>1. Total(tokens'.bal[WETH]) + Burnt(order) = Total(tokens.bal[WETH]) + Minted(order, value)
      BY <1>1, <1>5, <1>7, <1>8
    <2>2. QED
      BY <1>1, <1>9, <1>11, <1>12, <2>1
  <1>14. ASSUME NEW t \in Token \ {WETH} PROVE Total(tokens'.bal[t]) = Total(tokens.bal[t])
    BY <1>5, <1>7, <1>8, <1>11
  <1>15. QED
    BY <1>13, <1>14

LEMMA WrapperStepKeepsBacking ==
    ASSUME LightAssumption, WrapperAssumption, IsFiniteSet(Wallet),
           WrapperInv, EtherIsBacked, [WrapperNext]_wrapperVars
    PROVE  EtherIsBacked'
  <1>1. TypeOK /\ ether \in [Wallet -> Nat]
    BY DEF WrapperInv, IInv
  <1>2. CASE \E sender \in Wallet \ {Contract}, o \in {s.order : s \in Signature},
               sig \in Signature \union Malformed :
                 \E value \in 0..ether[sender] : swap(sender, value, o, sig)
    <2>1. PICK sender \in Wallet \ {Contract}, o \in {s.order : s \in Signature},
               sig \in Signature \union Malformed :
                 \E value \in 0..ether[sender] : swap(sender, value, o, sig)
      BY <1>2
    <2>2. PICK value \in 0..ether[sender] : swap(sender, value, o, sig)
      BY <2>1
    <2>3. value \in Nat /\ sender \in Wallet
      BY <1>1
    <2>4. QED
      BY <1>1, <2>2, <2>3, WrapperSwapKeepsBacking DEF EtherIsBacked
  <1>3. CASE NextBy(Wallet \ {Contract}) /\ UNCHANGED ether
    <2>1. \A u \in Token : Total(tokens'.bal[u]) = Total(tokens.bal[u])
      BY <1>1, <1>3, OthersStepLight, StepConservesTokens
    <2>2. WETH \in Token
      BY DEF WrapperAssumption
    <2>3. QED
      BY <1>3, <2>1, <2>2 DEF EtherIsBacked
  <1>4. CASE UNCHANGED wrapperVars
    BY <1>4 DEF wrapperVars, vars, EtherIsBacked
  <1>5. QED
    BY <1>2, <1>3, <1>4 DEF WrapperNext

(* Through the wrapper and beside it, no trade creates or loses ether or   *)
(* tokens, in an order for ether, with ether, or for another token.        *)
THEOREM WrappedEtherIsBacked ==
    ASSUME WrapperAssumption, IsFiniteSet(Wallet)
    PROVE  WrapperSpec => []EtherIsBacked
  <1>1. WrapperInit => WrapperInv /\ EtherIsBacked
    <2>1. ASSUME WrapperInit PROVE EtherIsBacked
      BY <2>1 DEF WrapperInit, Init, EtherIsBacked, WrapperAssumption
    <2>2. QED
      BY <2>1, LightAssumption, InitEstablishes DEF WrapperInit, WrapperInv, WrapperAssumption
  <1>2. WrapperInv /\ EtherIsBacked /\ [WrapperNext]_wrapperVars => WrapperInv' /\ EtherIsBacked'
    BY LightAssumption, WrapperStepKeepsInvariant, WrapperStepKeepsBacking
  <1>3. QED
    BY <1>1, <1>2, PTL DEF WrapperSpec
=============================================================================
