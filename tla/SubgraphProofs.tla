--------------------------- MODULE SubgraphProofs ---------------------------
(***************************************************************************)
(* Theorems about Subgraph, for every value of its constants: that the     *)
(* entities of the store tell what the contracts hold.  First what each    *)
(* handler may write, and so what each event may change; then the rules    *)
(* of delegates, the listings of the indexer, the swaps of Light, the      *)
(* users of the earlier protocol, the nonces that Light cancelled and the  *)
(* fees that were collected, each with the inductive invariant it needs.   *)
(***************************************************************************)
EXTENDS Subgraph, LightProofs, SumsAndArrays

(* Stores.  A handler leaves a store, and all but a few kinds as they were. *)
IsStore(st) == st = [k \in Kind |-> st[k]]

SameBut(after, st, kinds) ==
    IsStore(after) /\ \A k \in Kind \ kinds : after[k] = st[k]

(* An entity that is saved is there afterwards, and nothing else changed.  *)
LEMMA SaveIs ==
    ASSUME NEW st, IsStore(st), NEW kind \in Kind, NEW id, NEW entity
    PROVE  /\ SameBut(Save(st, kind, id, entity), st, {kind})
           /\ Save(st, kind, id, entity)[kind] = With(st[kind], id, entity)
  BY DEF Save, IsStore, SameBut

(* An entity that is removed is no longer there, and nothing else changed. *)
LEMMA RemoveIs ==
    ASSUME NEW st, IsStore(st), NEW kind \in Kind, NEW id
    PROVE  /\ SameBut(RemoveEntity(st, kind, id), st, {kind})
           /\ RemoveEntity(st, kind, id)[kind] = Without(st[kind], id)
  BY DEF RemoveEntity, Without, IsStore, SameBut

(* An entity that exists is left as it is, one that does not is created.   *)
LEMMA LoadOrCreateIs ==
    ASSUME NEW st, IsStore(st), NEW kind \in Kind, NEW id, NEW defaults
    PROVE  LET after == LoadOrCreate(st, kind, id, defaults)
           IN  /\ SameBut(after, st, {kind})
               /\ after[kind] = IF id \in DOMAIN st[kind] THEN st[kind]
                                                         ELSE With(st[kind], id, defaults)
  <1>1. CASE id \in DOMAIN st[kind]
    BY <1>1 DEF LoadOrCreate, Exists, SameBut
  <1>2. CASE id \notin DOMAIN st[kind]
    BY <1>2, SaveIs DEF LoadOrCreate, Exists
  <1>3. QED
    BY <1>1, <1>2

(* What each helper and each handler may write. *)
LEMMA HelpersKeep ==
    ASSUME NEW st, IsStore(st), NEW a
    PROVE  /\ SameBut(getUser(st, a), st, {"User"})
           /\ SameBut(getToken(st, a), st, {"Token"})
           /\ SameBut(getIndexer(st, a), st, {"Indexer"})
           /\ SameBut(getDelegateFactory(st, a), st, {"DelegateFactory"})
           /\ SameBut(getSwapContract(st, a), st, {"SwapContract"})
           /\ SameBut(getLocker(st, a), st, {"Locker"})
           /\ SameBut(getCollectedFeesDay(st, a), st, {"CollectedFeesDay"})
  BY LoadOrCreateIs DEF Kind, getUser, getToken, getIndexer, getDelegateFactory,
     getSwapContract, getLocker, getCollectedFeesDay

(* The handlers of one user write users.                                   *)
LEMMA SwapHandlersKeep ==
    ASSUME NEW st, IsStore(st), NEW u, NEW v, NEW n
    PROVE  /\ SameBut(handleAuthorizeSender(st, u, v), st, {"User"})
           /\ SameBut(handleRevokeSender(st, u, v), st, {"User"})
           /\ SameBut(handleAuthorizeSigner(st, u, v), st, {"User"})
           /\ SameBut(handleRevokeSigner(st, u, v), st, {"User"})
           /\ SameBut(handleCancel(st, n, u), st, {"User"})
           /\ SameBut(handleCancelUpTo(st, n, u), st, {"User"})
           /\ SameBut(handleLock(st, u, n), st, {"User"})
           /\ SameBut(handleUnlock(st, u, n), st, {"User"})
           /\ SameBut(handleSwapLightCancel(st, n, u), st, {"User"})
  <1>1. /\ SameBut(getUser(st, u), st, {"User"})
        /\ SameBut(getUser(getUser(st, u), v), getUser(st, u), {"User"})
    BY HelpersKeep DEF SameBut
  <1>2. "User" \in Kind
    BY DEF Kind
  <1>3. QED
    BY <1>1, <1>2 DEF SameBut, IsStore, handleAuthorizeSender, handleRevokeSender,
       handleAuthorizeSigner, handleRevokeSigner, handleCancel, handleCancelUpTo,
       handleLock, handleUnlock, handleSwapLightCancel

(* The handlers of the settings write the locker.                          *)
LEMMA SettingHandlersKeep ==
    ASSUME NEW st, IsStore(st), NEW value
    PROVE  /\ SameBut(handleSetThrottlingPercentage(st, value), st, {"Locker"})
           /\ SameBut(handleSetThrottlingDuration(st, value), st, {"Locker"})
           /\ SameBut(handleSetThrottlingBalance(st, value), st, {"Locker"})
  <1>1. SameBut(getLocker(st, "Locker"), st, {"Locker"}) /\ "Locker" \in Kind
    BY HelpersKeep DEF Kind
  <1>2. QED
    BY <1>1 DEF SameBut, IsStore, handleSetThrottlingPercentage,
       handleSetThrottlingDuration, handleSetThrottlingBalance

(* The handlers of the indexer write what it lists, and visit the tokens.  *)
LEMMA IndexerHandlersKeep ==
    ASSUME NEW st, IsStore(st), NEW t, NEW u, NEW pair, NEW x
    PROVE  /\ SameBut(handleAddTokenToBlacklist(st, t), st, {"Token"})
           /\ SameBut(handleRemoveTokenFromBlacklist(st, t), st, {"Token"})
           /\ SameBut(handleCreateIndex(st, pair), st, {"Token", "Indexer", "Index"})
           /\ SameBut(handleStake(st, u, pair, x), st, {"User", "Token", "Indexer", "Stake"})
           /\ SameBut(handleUnstake(st, u), st, {"Stake"})
           /\ SameBut(handleSetLocator(st, u, pair, x), st, {"User", "Locator"})
           /\ SameBut(handleUnsetLocator(st, u, pair), st, {"Locator"})
  <1> {"Token", "Index", "Stake", "Locator"} \subseteq Kind
    BY DEF Kind
  <1>1. /\ SameBut(handleAddTokenToBlacklist(st, t), st, {"Token"})
        /\ SameBut(handleRemoveTokenFromBlacklist(st, t), st, {"Token"})
    <2>1. SameBut(getToken(st, t), st, {"Token"})
      BY HelpersKeep
    <2>2. QED
      BY <2>1 DEF SameBut, IsStore, handleAddTokenToBlacklist, handleRemoveTokenFromBlacklist
  <1>2. SameBut(handleCreateIndex(st, pair), st, {"Token", "Indexer", "Index"})
    <2> DEFINE a == getToken(st, pair[1])
               b == getToken(a, pair[2])
               c == getIndexer(b, "Indexer")
    <2>1. SameBut(a, st, {"Token"})
      BY HelpersKeep
    <2>2. SameBut(b, a, {"Token"})
      BY <2>1, HelpersKeep DEF SameBut
    <2>3. SameBut(c, b, {"Indexer"})
      BY <2>2, HelpersKeep DEF SameBut
    <2>4. SameBut(handleCreateIndex(st, pair), c, {"Index"})
      BY <2>3, SaveIs DEF SameBut, handleCreateIndex
    <2>5. QED
      BY <2>1, <2>2, <2>3, <2>4 DEF SameBut
  <1>3. SameBut(handleStake(st, u, pair, x), st, {"User", "Token", "Indexer", "Stake"})
    <2> DEFINE a == getUser(st, u)
               b == getIndexer(a, "Indexer")
               c == getToken(b, pair[1])
               d == getToken(c, pair[2])
    <2>1. SameBut(a, st, {"User"})
      BY HelpersKeep
    <2>2. SameBut(b, a, {"Indexer"})
      BY <2>1, HelpersKeep DEF SameBut
    <2>3. SameBut(c, b, {"Token"})
      BY <2>2, HelpersKeep DEF SameBut
    <2>4. SameBut(d, c, {"Token"})
      BY <2>3, HelpersKeep DEF SameBut
    <2>5. SameBut(d, st, {"User", "Token", "Indexer", "Stake"})
      BY <2>1, <2>2, <2>3, <2>4 DEF SameBut
    <2>6. \/ \E entity : handleStake(st, u, pair, x) = Save(d, "Stake", StakeId(u), entity)
          \/ handleStake(st, u, pair, x) = [a EXCEPT !.Stake[StakeId(u)].stakeAmount = x]
      BY DEF handleStake
    <2> HIDE DEF a, b, c, d
    <2>7. \/ SameBut(handleStake(st, u, pair, x), a, {"Stake"})
          \/ SameBut(handleStake(st, u, pair, x), d, {"Stake"})
      <3>1. CASE \E entity : handleStake(st, u, pair, x) = Save(d, "Stake", StakeId(u), entity)
        BY <2>4, <3>1, SaveIs DEF SameBut
      <3>2. CASE handleStake(st, u, pair, x) = [a EXCEPT !.Stake[StakeId(u)].stakeAmount = x]
        BY <2>1, <3>2 DEF SameBut, IsStore
      <3>3. QED
        BY <2>6, <3>1, <3>2
    <2>8. QED
      BY <2>1, <2>5, <2>7 DEF SameBut
  <1>4. SameBut(handleSetLocator(st, u, pair, x), st, {"User", "Locator"})
    <2>1. SameBut(getUser(st, u), st, {"User"})
      BY HelpersKeep
    <2>2. SameBut(handleSetLocator(st, u, pair, x), getUser(st, u), {"Locator"})
      BY <2>1, SaveIs DEF SameBut, IsStore, handleSetLocator
    <2>3. QED
      BY <2>1, <2>2 DEF SameBut
  <1>5. /\ SameBut(handleUnstake(st, u), st, {"Stake"})
        /\ SameBut(handleUnsetLocator(st, u, pair), st, {"Locator"})
    BY RemoveIs DEF handleUnstake, handleUnsetLocator
  <1>6. QED
    BY <1>1, <1>2, <1>3, <1>4, <1>5

(* The handlers of the delegates write delegates, rules and who they name. *)
LEMMA DelegateHandlersKeep ==
    ASSUME NEW st, IsStore(st), NEW d, NEW u, NEW pair, NEW x
    PROVE  /\ SameBut(handleCreateDelegate(st, d, u), st,
                      {"DelegateFactory", "SwapContract", "Indexer", "User", "Delegate"})
           /\ SameBut(handleSetRule(st, d, u, pair, x), st, {"User", "Token", "Rule"})
           /\ SameBut(handleUnsetRule(st, d, pair), st, {"Rule"})
           /\ SameBut(handleProvideOrder(st, d, pair, x), st, {"Rule"})
  <1> {"Rule", "Delegate"} \subseteq Kind
    BY DEF Kind
  <1>1. SameBut(handleCreateDelegate(st, d, u), st,
                {"DelegateFactory", "SwapContract", "Indexer", "User", "Delegate"})
    <2> DEFINE a == getDelegateFactory(st, "DelegateFactory")
               b == getSwapContract(a, "Swap")
               c == getIndexer(b, "Indexer")
               e == getUser(c, u)
    <2>1. SameBut(a, st, {"DelegateFactory"})
      BY HelpersKeep
    <2>2. SameBut(b, a, {"SwapContract"})
      BY <2>1, HelpersKeep DEF SameBut
    <2>3. SameBut(c, b, {"Indexer"})
      BY <2>2, HelpersKeep DEF SameBut
    <2>4. SameBut(e, c, {"User"})
      BY <2>3, HelpersKeep DEF SameBut
    <2>5. SameBut(handleCreateDelegate(st, d, u), e, {"Delegate"})
      BY <2>4, SaveIs DEF SameBut, handleCreateDelegate
    <2>6. QED
      BY <2>1, <2>2, <2>3, <2>4, <2>5 DEF SameBut
  <1>2. SameBut(handleSetRule(st, d, u, pair, x), st, {"User", "Token", "Rule"})
    <2> DEFINE a == getUser(st, u)
               b == getToken(a, pair[1])
               c == getToken(b, pair[2])
    <2>1. SameBut(a, st, {"User"})
      BY HelpersKeep
    <2>2. SameBut(b, a, {"Token"})
      BY <2>1, HelpersKeep DEF SameBut
    <2>3. SameBut(c, b, {"Token"})
      BY <2>2, HelpersKeep DEF SameBut
    <2>4. SameBut(handleSetRule(st, d, u, pair, x), c, {"Rule"})
      <3> DEFINE after == handleSetRule(st, d, u, pair, x)
      <3>1. IsStore(c) /\ "Rule" \in Kind
        BY <2>3 DEF SameBut
      <3>2. \/ \E entity : after = Save(c, "Rule", RuleId(d, pair), entity)
            \/ after = [c EXCEPT !.Rule[RuleId(d, pair)].maxSenderAmount = x.maxSenderAmount,
                                 !.Rule[RuleId(d, pair)].price = x.price]
        BY DEF handleSetRule
      <3> HIDE DEF after, c
      <3>3. SameBut(after, c, {"Rule"})
        <4>1. CASE \E entity : after = Save(c, "Rule", RuleId(d, pair), entity)
          BY <3>1, <4>1, SaveIs
        <4>2. CASE after = [c EXCEPT !.Rule[RuleId(d, pair)].maxSenderAmount = x.maxSenderAmount,
                                     !.Rule[RuleId(d, pair)].price = x.price]
          BY <3>1, <4>2 DEF SameBut, IsStore
        <4>3. QED
          BY <3>2, <4>1, <4>2
      <3>4. QED
        BY <3>3 DEF after
    <2>5. QED
      BY <2>1, <2>2, <2>3, <2>4 DEF SameBut
  <1>3. /\ SameBut(handleUnsetRule(st, d, pair), st, {"Rule"})
        /\ SameBut(handleProvideOrder(st, d, pair, x), st, {"Rule"})
    BY RemoveIs DEF handleUnsetRule, handleProvideOrder, IsStore, SameBut
  <1>4. QED
    BY <1>1, <1>2, <1>3

(* The handlers of the two events of a swap save one entity each, over a   *)
(* store in which the users and the tokens exist.                          *)
LEMMA SwapHandlerKeeps ==
    ASSUME NEW st, IsStore(st), NEW e
    PROVE  SameBut(handleSwap(st, e), st, {"SwapContract", "User", "Token", "Swap"})
  <1> DEFINE a == getSwapContract(st, "Swap")
             b == getUser(a, e.signerWallet)
             c == getUser(b, e.senderWallet)
             d == getUser(c, e.affiliateWallet)
             f == getToken(d, e.signerToken)
             g == getToken(f, e.senderToken)
  <1>1. SameBut(a, st, {"SwapContract"})
    BY HelpersKeep
  <1>2. SameBut(b, a, {"User"})
    BY <1>1, HelpersKeep DEF SameBut
  <1>3. SameBut(c, b, {"User"})
    BY <1>2, HelpersKeep DEF SameBut
  <1>4. SameBut(d, c, {"User"})
    BY <1>3, HelpersKeep DEF SameBut
  <1>5. SameBut(f, d, {"Token"})
    BY <1>4, HelpersKeep DEF SameBut
  <1>6. SameBut(g, f, {"Token"})
    BY <1>5, HelpersKeep DEF SameBut
  <1>7. SameBut(handleSwap(st, e), g, {"Swap"})
    BY <1>6, SaveIs DEF SameBut, handleSwap, Kind
  <1>8. SameBut(d, st, {"SwapContract", "User"})
    BY <1>1, <1>2, <1>3, <1>4 DEF SameBut
  <1>9. QED
    BY <1>5, <1>6, <1>7, <1>8 DEF SameBut

(* A swap of Light writes the swap, who and what it names, and the fees.   *)
LEMMA SwapLightHandlerKeeps ==
    ASSUME NEW st, IsStore(st), NEW e
    PROVE  SameBut(handleSwapLight(st, e), st,
                   {"SwapLightContract", "User", "Token", "SwapLight", "CollectedFeesDay"})
  <1> DEFINE a == LoadOrCreate(st, "SwapLightContract", "Light", [id |-> "Light"])
             b == getUser(a, e.signerWallet)
             c == getUser(b, e.senderWallet)
             d == getToken(c, e.signerToken)
             f == getToken(d, e.senderToken)
             day == e.timestamp \div SecondsInDay
  <1> {"SwapLightContract", "SwapLight", "CollectedFeesDay"} \subseteq Kind
    BY DEF Kind
  <1>1. SameBut(a, st, {"SwapLightContract"})
    BY LoadOrCreateIs
  <1>2. SameBut(b, a, {"User"})
    BY <1>1, HelpersKeep DEF SameBut
  <1>3. SameBut(c, b, {"User"})
    BY <1>2, HelpersKeep DEF SameBut
  <1>4. SameBut(d, c, {"Token"})
    BY <1>3, HelpersKeep DEF SameBut
  <1>5. SameBut(f, d, {"Token"})
    BY <1>4, HelpersKeep DEF SameBut
  <1>6. PICK entity :
          handleSwapLight(st, e)
            = updateCollectedFeesDay(
                Save(f, "SwapLight", SwapLightId(e.signerWallet, e.nonce), entity), e)
    BY DEF handleSwapLight
  <1> DEFINE g == Save(f, "SwapLight", SwapLightId(e.signerWallet, e.nonce), entity)
             h == getCollectedFeesDay(g, day)
  <1>7. SameBut(g, f, {"SwapLight"})
    BY <1>5, SaveIs DEF SameBut
  <1>8. SameBut(h, g, {"CollectedFeesDay"})
    BY <1>7, HelpersKeep DEF SameBut
  <1>9. SameBut(f, st, {"SwapLightContract", "User", "Token"})
    BY <1>1, <1>2, <1>3, <1>4, <1>5 DEF SameBut
  <1>10. SameBut(h, st, {"SwapLightContract", "User", "Token", "SwapLight", "CollectedFeesDay"})
    BY <1>7, <1>8, <1>9 DEF SameBut
  <1>11. PICK date, amount :
           updateCollectedFeesDay(g, e)
             = [h EXCEPT !.CollectedFeesDay[day].date = date,
                         !.CollectedFeesDay[day].amount = amount]
    <2> HIDE DEF g
    <2>1. QED
      BY DEF updateCollectedFeesDay
  <1>12. SameBut(updateCollectedFeesDay(g, e), h, {"CollectedFeesDay"})
    <2> HIDE DEF h, g
    <2>1. QED
      BY <1>10, <1>11 DEF SameBut, IsStore
  <1>13. handleSwapLight(st, e) = updateCollectedFeesDay(g, e)
    BY <1>6
  <1>14. QED
    <2> HIDE DEF h, g
    <2>1. QED
      BY <1>10, <1>12, <1>13 DEF SameBut

(* The cancellations of a batch, one after the other: the store that is    *)
(* left after the nonces of a subset.                                      *)
CancelStep(base, wallet, g, s) ==
    IF s = {} THEN base ELSE handleSwapLightCancel(g[s \ {Pick(s)}], Pick(s), wallet)

IsCancelling(base, wallet, S, g) ==
    g = [s \in SUBSET S |-> CancelStep(base, wallet, g, s)]

CancelAll(base, wallet, S) ==
    FoldSet(LAMBDA n, st : handleSwapLightCancel(st, n, wallet), base, S)

(* The fold over the batch is what the function says of the whole batch.   *)
LEMMA CancelAllIs ==
    ASSUME NEW base, NEW wallet, NEW S
    PROVE  CancelAll(base, wallet, S) = (CHOOSE g : IsCancelling(base, wallet, S, g))[S]
  BY DEF CancelAll, FoldSet, MapThenFoldSet, IsCancelling, CancelStep, Pick

(* There is such a function, as large as the batch may be.                 *)
LEMMA CancellingExists ==
    ASSUME NEW base, NEW wallet, NEW S, IsFiniteSet(S)
    PROVE  \E g : IsCancelling(base, wallet, S, g)
  <1> DEFINE RightUpTo(g, n) ==
               /\ g = [s \in SUBSET S |-> g[s]]
               /\ \A s \in SUBSET S :
                    Cardinality(s) <= n => g[s] = CancelStep(base, wallet, g, s)
             G == {n \in Nat : \E g : RightUpTo(g, n)}
  <1>1. 0 \in G
    <2> DEFINE g == [s \in SUBSET S |-> base]
    <2>1. ASSUME NEW s \in SUBSET S, Cardinality(s) <= 0 PROVE s = {}
      BY <2>1, FS_Subset, FS_CardinalityType, FS_EmptySet
    <2>2. RightUpTo(g, 0)
      BY <2>1 DEF CancelStep
    <2>3. QED
      BY <2>2
  <1>2. ASSUME NEW n \in Nat, n \in G PROVE n + 1 \in G
    <2>1. PICK g : RightUpTo(g, n)
      BY <1>2
    <2> DEFINE h == [s \in SUBSET S |-> CancelStep(base, wallet, g, s)]
    <2>2. ASSUME NEW s \in SUBSET S, Cardinality(s) <= n + 1
          PROVE  h[s] = CancelStep(base, wallet, h, s)
      <3>1. CASE s = {}
        BY <3>1 DEF CancelStep
      <3>2. CASE s # {}
        <4> DEFINE t == s \ {Pick(s)}
        <4>1. t \in SUBSET S /\ Cardinality(t) <= n
          BY <2>2, <3>2, PickRemoves
        <4>2. g[t] = h[t]
          BY <2>1, <4>1
        <4>3. /\ h[s] = handleSwapLightCancel(g[t], Pick(s), wallet)
              /\ CancelStep(base, wallet, h, s) = handleSwapLightCancel(h[t], Pick(s), wallet)
          BY <3>2 DEF CancelStep
        <4>4. QED
          BY <4>2, <4>3
      <3>3. QED
        BY <3>1, <3>2
    <2>3. h = [s \in SUBSET S |-> h[s]]
      OBVIOUS
    <2>4. RightUpTo(h, n + 1)
      <3> HIDE DEF h
      <3>1. QED
        BY <2>2, <2>3
    <2>5. QED
      <3> HIDE DEF h, RightUpTo
      <3>1. QED
        BY <2>4
  <1>3. Cardinality(S) \in G
    <2> HIDE DEF G
    <2>1. QED
      BY <1>1, <1>2, SetInduction, FS_CardinalityType
  <1>4. PICK g : RightUpTo(g, Cardinality(S))
    BY <1>3
  <1>5. \A s \in SUBSET S : g[s] = CancelStep(base, wallet, g, s)
    BY <1>4, FS_Subset
  <1>6. g = [s \in SUBSET S |-> CancelStep(base, wallet, g, s)]
    BY <1>4, <1>5
  <1>7. QED
    BY <1>6 DEF IsCancelling

(* The stores along the cancellations of a batch: the last is the one of   *)
(* the whole batch, each comes from that of one nonce less.                *)
AreStoresOf(g, base, wallet, S) ==
    /\ CancelAll(base, wallet, S) = g[S]
    /\ g[{}] = base
    /\ \A s \in SUBSET S : s # {} =>
         g[s] = handleSwapLightCancel(g[s \ {Pick(s)}], Pick(s), wallet)

(* There are such stores, for every batch.                                 *)
LEMMA CancelAllUnfolds ==
    ASSUME NEW base, NEW wallet, NEW S, IsFiniteSet(S)
    PROVE  \E g : AreStoresOf(g, base, wallet, S)
  <1>1. PICK g : g = CHOOSE h : IsCancelling(base, wallet, S, h)
    OBVIOUS
  <1>2. IsCancelling(base, wallet, S, g)
    BY <1>1, CancellingExists
  <1>3. \A s \in SUBSET S : g[s] = CancelStep(base, wallet, g, s)
    BY <1>2 DEF IsCancelling
  <1>4. QED
    BY <1>1, <1>3, CancelAllIs DEF CancelStep, AreStoresOf

(* Cancelling a batch writes users alone.                                  *)
LEMMA CancelAllKeeps ==
    ASSUME NEW base, IsStore(base), NEW wallet, NEW S, IsFiniteSet(S)
    PROVE  SameBut(CancelAll(base, wallet, S), base, {"User"})
  <1>1. PICK g : AreStoresOf(g, base, wallet, S)
    BY CancelAllUnfolds
  <1> DEFINE G == {s \in SUBSET S : SameBut(g[s], base, {"User"})}
  <1>2. ASSUME NEW s \in SUBSET S,
               \A t \in SUBSET S : Cardinality(t) < Cardinality(s) => t \in G
        PROVE  s \in G
    <2>1. CASE s = {}
      BY <1>1, <2>1 DEF SameBut, AreStoresOf
    <2>2. CASE s # {}
      <3> DEFINE t == s \ {Pick(s)}
      <3>1. t \in SUBSET S /\ Cardinality(t) < Cardinality(s)
        BY <2>2, PickRemoves
      <3>2. SameBut(g[t], base, {"User"})
        BY <1>2, <3>1
      <3>3. SameBut(g[s], g[t], {"User"})
        <4>1. g[s] = handleSwapLightCancel(g[t], Pick(s), wallet)
          BY <1>1, <2>2 DEF AreStoresOf
        <4>2. IsStore(g[t])
          BY <3>2 DEF SameBut
        <4>3. QED
          BY <4>1, <4>2, SwapHandlersKeep
      <3>4. QED
        BY <3>2, <3>3 DEF SameBut
    <2>3. QED
      BY <2>1, <2>2
  <1>3. S \in G
    <2> HIDE DEF G
    <2>1. QED
      BY <1>2, SubsetInduction
  <1>4. QED
    BY <1>1, <1>3 DEF AreStoresOf

(* What the events of each contract may change of what the contracts hold, *)
(* and of the store.                                                       *)
LegacyField ==
    {"senders", "signers", "cancelled", "swaps", "blacklist", "indexes", "stakes",
     "spread", "locators", "delegates", "rules", "locked"}

IsLegacy(l) == l = [f \in LegacyField |-> l[f]]

LegacyBut(after, l, fields) ==
    IsLegacy(after) /\ \A f \in LegacyField \ fields : after[f] = l[f]

Stores == IsStore(store) /\ IsLegacy(legacy)

StepChanges(fields, kinds) ==
    LegacyBut(legacy', legacy, fields) /\ SameBut(store', store, kinds)

(* The events of the swap contract.                                        *)
LEMMA SwapEventsChange ==
    ASSUME Stores, SwapNext
    PROVE  StepChanges({"senders", "signers", "cancelled", "swaps"},
                       {"SwapContract", "User", "Token", "Swap"})
  <1> IsStore(store) /\ IsLegacy(legacy)
    BY DEF Stores
  <1>1. ASSUME NEW u \in Trader, NEW s \in Trader,
               \/ AuthorizeSender(u, s) \/ RevokeSender(u, s)
               \/ AuthorizeSigner(u, s) \/ RevokeSigner(u, s)
        PROVE  /\ LegacyBut(legacy', legacy, {"senders", "signers"})
               /\ SameBut(store', store, {"User"})
    <2>1. LegacyBut(legacy', legacy, {"senders", "signers"})
      BY <1>1 DEF AuthorizeSender, RevokeSender, AuthorizeSigner, RevokeSigner, Emit,
         LegacyBut, IsLegacy, LegacyField
    <2>2. SameBut(store', store, {"User"})
      BY <1>1, SwapHandlersKeep DEF AuthorizeSender, RevokeSender, AuthorizeSigner,
         RevokeSigner, Emit
    <2>3. QED
      BY <2>1, <2>2
  <1>2. ASSUME NEW u \in Trader, NEW n \in 0..MaxNonce, CancelNonce(u, n) \/ CancelUpTo(u, n)
        PROVE  /\ LegacyBut(legacy', legacy, {"cancelled"})
               /\ SameBut(store', store, {"User"})
    <2>1. LegacyBut(legacy', legacy, {"cancelled"})
      BY <1>2 DEF CancelNonce, CancelUpTo, Emit, LegacyBut, IsLegacy, LegacyField
    <2>2. SameBut(store', store, {"User"})
      BY <1>2, SwapHandlersKeep DEF CancelNonce, CancelUpTo, Emit
    <2>3. QED
      BY <2>1, <2>2
  <1>3. ASSUME NEW e, SwapOrder(e)
        PROVE  /\ LegacyBut(legacy', legacy, {"swaps"})
               /\ SameBut(store', store, {"SwapContract", "User", "Token", "Swap"})
    <2>1. LegacyBut(legacy', legacy, {"swaps"})
      BY <1>3 DEF SwapOrder, Emit, LegacyBut, IsLegacy, LegacyField
    <2>2. SameBut(store', store, {"SwapContract", "User", "Token", "Swap"})
      BY <1>3, SwapHandlerKeeps DEF SwapOrder, Emit
    <2>3. QED
      BY <2>1, <2>2
  <1>4. QED
    BY <1>1, <1>2, <1>3 DEF SwapNext, StepChanges, LegacyBut, SameBut

(* The events of the indexer.                                              *)
LEMMA IndexerEventsChange ==
    ASSUME Stores, IndexerNext
    PROVE  StepChanges({"blacklist", "indexes", "stakes", "spread", "locators"},
                       {"User", "Token", "Indexer", "Index", "Stake", "Locator"})
  <1> IsStore(store) /\ IsLegacy(legacy)
    BY DEF Stores
  <1>1. ASSUME NEW t \in LegacyToken, AddTokenToBlacklist(t) \/ RemoveTokenFromBlacklist(t)
        PROVE  /\ LegacyBut(legacy', legacy, {"blacklist"})
               /\ SameBut(store', store, {"Token"})
    <2>1. LegacyBut(legacy', legacy, {"blacklist"})
      BY <1>1 DEF AddTokenToBlacklist, RemoveTokenFromBlacklist, Emit,
         LegacyBut, IsLegacy, LegacyField
    <2>2. SameBut(store', store, {"Token"})
      BY <1>1, IndexerHandlersKeep DEF AddTokenToBlacklist, RemoveTokenFromBlacklist, Emit
    <2>3. QED
      BY <2>1, <2>2
  <1>2. ASSUME NEW pair \in Pair, CreateIndex(pair)
        PROVE  /\ LegacyBut(legacy', legacy, {"indexes"})
               /\ SameBut(store', store, {"Token", "Indexer", "Index"})
    <2>1. LegacyBut(legacy', legacy, {"indexes"})
      BY <1>2 DEF CreateIndex, Emit, LegacyBut, IsLegacy, LegacyField
    <2>2. SameBut(store', store, {"Token", "Indexer", "Index"})
      BY <1>2, IndexerHandlersKeep DEF CreateIndex, Emit
    <2>3. QED
      BY <2>1, <2>2
  <1>3. ASSUME NEW pair, NEW u, NEW x, StakeOn(u, pair, x) \/ Unstake(u, pair)
        PROVE  /\ LegacyBut(legacy', legacy, {"stakes", "spread"})
               /\ SameBut(store', store, {"User", "Token", "Indexer", "Stake"})
    <2>1. LegacyBut(legacy', legacy, {"stakes", "spread"})
      BY <1>3 DEF StakeOn, Unstake, Emit, LegacyBut, IsLegacy, LegacyField
    <2>2. SameBut(store', store, {"User", "Token", "Indexer", "Stake"})
      BY <1>3, IndexerHandlersKeep DEF StakeOn, Unstake, Emit, SameBut
    <2>3. QED
      BY <2>1, <2>2
  <1>4. ASSUME NEW pair, NEW u, NEW x, SetLocator(u, pair, x) \/ UnsetLocator(u, pair)
        PROVE  /\ LegacyBut(legacy', legacy, {"locators"})
               /\ SameBut(store', store, {"User", "Locator"})
    <2>1. LegacyBut(legacy', legacy, {"locators"})
      BY <1>4 DEF SetLocator, UnsetLocator, Emit, LegacyBut, IsLegacy, LegacyField
    <2>2. SameBut(store', store, {"User", "Locator"})
      <3>1. \/ store' = handleSetLocator(store, u, pair, x)
            \/ store' = handleUnsetLocator(store, u, pair)
        BY <1>4 DEF SetLocator, UnsetLocator, Emit
      <3>2. \/ SameBut(store', store, {"User", "Locator"})
            \/ SameBut(store', store, {"Locator"})
        BY <3>1, IndexerHandlersKeep
      <3>3. QED
        BY <3>2 DEF SameBut
    <2>3. QED
      BY <2>1, <2>2
  <1>5. QED
    BY <1>1, <1>2, <1>3, <1>4 DEF IndexerNext, StepChanges, LegacyBut, SameBut

(* The events of a delegate and of its factory.                            *)
LEMMA DelegateEventsChange ==
    ASSUME Stores, DelegateNext
    PROVE  StepChanges({"delegates", "rules"},
                       {"DelegateFactory", "SwapContract", "Indexer", "User", "Delegate",
                        "Token", "Rule"})
  <1> IsStore(store) /\ IsLegacy(legacy)
    BY DEF Stores
  <1>1. ASSUME NEW d, NEW u, CreateDelegate(d, u)
        PROVE  /\ LegacyBut(legacy', legacy, {"delegates"})
               /\ SameBut(store', store, {"DelegateFactory", "SwapContract", "Indexer",
                                          "User", "Delegate"})
    <2>1. LegacyBut(legacy', legacy, {"delegates"})
      BY <1>1 DEF CreateDelegate, Emit, LegacyBut, IsLegacy, LegacyField
    <2>2. SameBut(store', store, {"DelegateFactory", "SwapContract", "Indexer",
                                  "User", "Delegate"})
      BY <1>1, DelegateHandlersKeep DEF CreateDelegate, Emit
    <2>3. QED
      BY <2>1, <2>2
  <1>2. ASSUME NEW d, NEW pair, NEW x,
               SetRule(d, pair, x) \/ UnsetRule(d, pair) \/ ProvideOrder(d, pair, x)
        PROVE  /\ LegacyBut(legacy', legacy, {"rules"})
               /\ SameBut(store', store, {"User", "Token", "Rule"})
    <2>1. LegacyBut(legacy', legacy, {"rules"})
      BY <1>2 DEF SetRule, UnsetRule, ProvideOrder, Emit, LegacyBut, IsLegacy, LegacyField
    <2>2. SameBut(store', store, {"User", "Token", "Rule"})
      BY <1>2, DelegateHandlersKeep DEF SetRule, UnsetRule, ProvideOrder, Emit, SameBut
    <2>3. QED
      BY <2>1, <2>2
  <1>3. QED
    BY <1>1, <1>2 DEF DelegateNext, StepChanges, LegacyBut, SameBut

(* The events of the locker.                                               *)
LEMMA LockerEventsChange ==
    ASSUME Stores, LockerNext
    PROVE  StepChanges({"locked"}, {"User", "Locker"})
  <1> IsStore(store) /\ IsLegacy(legacy)
    BY DEF Stores
  <1>1. ASSUME NEW u, NEW x, Lock(u, x) \/ Unlock(u, x)
        PROVE  LegacyBut(legacy', legacy, {"locked"}) /\ SameBut(store', store, {"User"})
    <2>1. LegacyBut(legacy', legacy, {"locked"})
      BY <1>1 DEF Lock, Unlock, Emit, LegacyBut, IsLegacy, LegacyField
    <2>2. SameBut(store', store, {"User"})
      BY <1>1, SwapHandlersKeep DEF Lock, Unlock, Emit
    <2>3. QED
      BY <2>1, <2>2
  <1>2. ASSUME NEW x, SetThrottling(x)
        PROVE  legacy' = legacy /\ SameBut(store', store, {"Locker"})
    BY <1>2, SettingHandlersKeep DEF SetThrottling, Emit
  <1>3. QED
    BY <1>1, <1>2 DEF LockerNext, StepChanges, LegacyBut, SameBut

(* What happens at Light changes nothing of the earlier contracts.         *)
LEMMA LightEventsChange ==
    ASSUME LightAssumption, SubgraphAssumption, Stores, LightNext
    PROVE  StepChanges({}, {"SwapLightContract", "User", "Token", "SwapLight",
                            "CollectedFeesDay"})
  <1> IsStore(store) /\ IsLegacy(legacy)
    BY DEF Stores
  <1>1. ASSUME NEW sender, NEW o, NEW sig, IndexedSwap(sender, o, sig)
        PROVE  /\ legacy' = legacy
               /\ SameBut(store', store, {"SwapLightContract", "User", "Token", "SwapLight",
                                          "CollectedFeesDay"})
    BY <1>1, SwapLightHandlerKeeps DEF IndexedSwap
  <1>2. ASSUME NEW c \in Cancellation, IndexedCancel(c[1], c[2])
        PROVE  legacy' = legacy /\ SameBut(store', store, {"User"})
    <2>1. IsFiniteSet(CancelEvents(c[1], c[2]))
      BY FS_Subset DEF SubgraphAssumption, CancelEvents
    <2>2. store' = CancelAll(store, c[1], CancelEvents(c[1], c[2])) /\ legacy' = legacy
      BY <1>2 DEF IndexedCancel, CancelAll
    <2>3. QED
      BY <2>1, <2>2, CancelAllKeeps
  <1>3. CASE UnindexedLight \/ \E t \in SupportedToken, price \in OraclePrice : OracleRound(t, price)
    BY <1>3 DEF UnindexedLight, OracleRound, StepChanges, LegacyBut, SameBut
  <1>4. QED
    BY <1>1, <1>2, <1>3 DEF LightNext, StepChanges, LegacyBut, SameBut

-----------------------------------------------------------------------------
(* The rules of delegates.                                                 *)

RuleOf(key) ==
    [delegate |-> key[1], owner |-> legacy.delegates[key[1]],
     signerToken |-> key[2][1], senderToken |-> key[2][2],
     maxSenderAmount |-> legacy.rules[key].maxSenderAmount,
     price |-> legacy.rules[key].price]

Terms == [maxSenderAmount: Nat, price: Nat]

(* A delegate has the owner of its event, and there is an entity for each  *)
(* rule that is left, and no other.                                        *)
RulesInv ==
    /\ \A d \in DOMAIN legacy.delegates :
         d \in DOMAIN store.Delegate /\ store.Delegate[d].owner = legacy.delegates[d]
    /\ \A key \in DOMAIN legacy.rules :
         /\ key \in (DOMAIN legacy.delegates) \X Pair
         /\ legacy.rules[key] \in Terms
         /\ RuleId(key[1], key[2]) \in DOMAIN store.Rule
         /\ store.Rule[RuleId(key[1], key[2])] = RuleOf(key)
    /\ \A id \in DOMAIN store.Rule :
         \E key \in DOMAIN legacy.rules : id = RuleId(key[1], key[2])

(* No two rules have one name.                                             *)
LEMMA RuleIdsDiffer ==
    ASSUME LegacyAssumption, NEW d, NEW e, NEW p \in Pair, NEW q \in Pair,
           RuleId(d, p) = RuleId(e, q)
    PROVE  d = e /\ p = q
  <1>1. d = e /\ p[1] = q[1] /\ p[2] = q[2]
    BY DEF RuleId
  <1>2. p = <<p[1], p[2]>> /\ q = <<q[1], q[2]>>
    BY DEF LegacyAssumption
  <1>3. QED
    BY <1>1, <1>2

(* The invariant says of each delegate and pair what the property says.    *)
LEMMA RulesInvImplies ==
    ASSUME LegacyAssumption, RulesInv PROVE RulesAreIndexed
  <1> SUFFICES ASSUME NEW d \in DelegateAddr, NEW pair \in Pair
        PROVE  LET key == <<d, pair>>
                   set == {r \in Range(store.Rule) :
                             r.delegate = d /\ r.signerToken = pair[1] /\ r.senderToken = pair[2]}
               IN  /\ {[maxSenderAmount |-> r.maxSenderAmount, price |-> r.price] : r \in set}
                         = IF key \in DOMAIN legacy.rules THEN {legacy.rules[key]} ELSE {}
                   /\ \A r \in set : r.owner = store.Delegate[d].owner
    BY DEF RulesAreIndexed
  <1> DEFINE key == <<d, pair>>
             set == {r \in Range(store.Rule) :
                       r.delegate = d /\ r.signerToken = pair[1] /\ r.senderToken = pair[2]}
  <1>1. ASSUME NEW r \in set
        PROVE  key \in DOMAIN legacy.rules /\ r = RuleOf(key)
    <2>1. PICK id \in DOMAIN store.Rule : r = store.Rule[id]
      BY DEF Range
    <2>2. PICK k \in DOMAIN legacy.rules : id = RuleId(k[1], k[2])
      BY <2>1 DEF RulesInv
    <2>3. k \in (DOMAIN legacy.delegates) \X Pair /\ r = RuleOf(k)
      BY <2>1, <2>2 DEF RulesInv
    <2>4. k[1] = d /\ k[2][1] = pair[1] /\ k[2][2] = pair[2]
      BY <2>3 DEF RuleOf
    <2>5. k[2] = pair
      BY <2>3, <2>4 DEF LegacyAssumption
    <2>6. k = key
      BY <2>3, <2>4, <2>5
    <2>7. QED
      BY <2>2, <2>3, <2>6
  <1>2. ASSUME key \in DOMAIN legacy.rules PROVE RuleOf(key) \in set
    <2>1. RuleId(d, pair) \in DOMAIN store.Rule /\ store.Rule[RuleId(d, pair)] = RuleOf(key)
      BY <1>2 DEF RulesInv
    <2>2. RuleOf(key) \in Range(store.Rule)
      BY <2>1 DEF Range
    <2>3. QED
      BY <2>2 DEF RuleOf
  <1>3. ASSUME key \in DOMAIN legacy.rules
        PROVE  [maxSenderAmount |-> RuleOf(key).maxSenderAmount, price |-> RuleOf(key).price]
                  = legacy.rules[key]
    BY <1>3 DEF RulesInv, RuleOf, Terms
  <1>4. ASSUME NEW r \in set PROVE r.owner = store.Delegate[d].owner
    <2>1. key \in DOMAIN legacy.rules /\ r = RuleOf(key)
      BY <1>1
    <2>2. d \in DOMAIN legacy.delegates
      BY <2>1 DEF RulesInv
    <2>3. QED
      BY <2>1, <2>2 DEF RulesInv, RuleOf
  <1>5. {[maxSenderAmount |-> r.maxSenderAmount, price |-> r.price] : r \in set}
           = IF key \in DOMAIN legacy.rules THEN {legacy.rules[key]} ELSE {}
    <2> HIDE DEF set, key
    <2>1. QED
      BY <1>1, <1>2, <1>3
  <1>6. QED
    BY <1>4, <1>5

(* An event that is none of a delegate leaves the rules and the delegates. *)
RulesUntouched ==
    /\ legacy'.delegates = legacy.delegates /\ legacy'.rules = legacy.rules
    /\ store'.Delegate = store.Delegate /\ store'.Rule = store.Rule

(* Such an event keeps the rules.                                          *)
LEMMA UntouchedKeepsRules == ASSUME RulesInv, RulesUntouched PROVE RulesInv'
  <1>1. \A key : RuleOf(key)' = RuleOf(key)
    BY DEF RulesUntouched, RuleOf
  <1>2. QED
    BY <1>1 DEF RulesInv, RulesUntouched

(* A delegate that is created has no rule yet.                             *)
LEMMA CreateDelegateKeepsRules ==
    ASSUME Stores, RulesInv, NEW d, NEW u, CreateDelegate(d, u)
    PROVE  RulesInv'
  <1> IsStore(store) /\ IsLegacy(legacy)
    BY DEF Stores
  <1>1. /\ d \notin DOMAIN legacy.delegates
        /\ legacy'.delegates = With(legacy.delegates, d, u)
        /\ legacy'.rules = legacy.rules
    BY DEF CreateDelegate, Emit, IsLegacy, LegacyField
  <1> DEFINE s == getUser(getIndexer(getSwapContract(
                     getDelegateFactory(store, "DelegateFactory"), "Swap"), "Indexer"), u)
  <1>2. SameBut(s, store, {"DelegateFactory", "SwapContract", "Indexer", "User"})
    <2>1. SameBut(getDelegateFactory(store, "DelegateFactory"), store, {"DelegateFactory"})
      BY HelpersKeep
    <2>2. SameBut(getSwapContract(getDelegateFactory(store, "DelegateFactory"), "Swap"),
                  store, {"DelegateFactory", "SwapContract"})
      BY <2>1, HelpersKeep DEF SameBut
    <2>3. SameBut(getIndexer(getSwapContract(
                     getDelegateFactory(store, "DelegateFactory"), "Swap"), "Indexer"),
                  store, {"DelegateFactory", "SwapContract", "Indexer"})
      BY <2>2, HelpersKeep DEF SameBut
    <2>4. QED
      BY <2>3, HelpersKeep DEF SameBut
  <1>3. PICK entity : /\ store' = Save(s, "Delegate", d, entity)
                      /\ entity.owner = u
    BY DEF CreateDelegate, Emit, handleCreateDelegate
  <1>4. /\ store'.Delegate = With(store.Delegate, d, entity)
        /\ store'.Rule = store.Rule
    <2> HIDE DEF s
    <2>1. SameBut(store', s, {"Delegate"}) /\ store'.Delegate = With(s.Delegate, d, entity)
      BY <1>2, <1>3, SaveIs DEF SameBut, Kind
    <2>2. QED
      BY <1>2, <2>1 DEF SameBut, Kind
  <1>5. \A key \in DOMAIN legacy.rules : RuleOf(key)' = RuleOf(key)
    <2>1. ASSUME NEW key \in DOMAIN legacy.rules
          PROVE  legacy'.delegates[key[1]] = legacy.delegates[key[1]]
      <3>1. key[1] \in DOMAIN legacy.delegates
        BY DEF RulesInv
      <3>2. QED
        BY <1>1, <3>1 DEF With
    <2>2. QED
      BY <1>1, <2>1 DEF RuleOf
  <1>6. QED
    BY <1>1, <1>3, <1>4, <1>5 DEF RulesInv, With

(* A rule that is set, or whose terms are written, and no other.           *)
LEMMA OneRuleWritten ==
    ASSUME LegacyAssumption, RulesInv,
           NEW d \in DOMAIN legacy.delegates, NEW pair \in Pair, NEW terms \in Terms,
           legacy'.delegates = legacy.delegates,
           legacy'.rules = With(legacy.rules, <<d, pair>>, terms),
           store'.Delegate = store.Delegate,
           store'.Rule = With(store.Rule, RuleId(d, pair), RuleOf(<<d, pair>>)')
    PROVE  RulesInv'
  <1> DEFINE key == <<d, pair>>
  <1>1. key \in (DOMAIN legacy.delegates) \X Pair
    OBVIOUS
  <1>2. ASSUME NEW k \in DOMAIN legacy.rules, k # key
        PROVE  RuleId(k[1], k[2]) # RuleId(d, pair) /\ RuleOf(k)' = RuleOf(k)
    <2>1. k \in (DOMAIN legacy.delegates) \X Pair
      BY DEF RulesInv
    <2>2. RuleId(k[1], k[2]) # RuleId(d, pair)
      BY <1>2, <2>1, RuleIdsDiffer
    <2>3. QED
      BY <1>2, <2>2 DEF RuleOf, With
  <1>3. ASSUME NEW k \in DOMAIN legacy'.rules
        PROVE  /\ k \in (DOMAIN legacy'.delegates) \X Pair
               /\ legacy'.rules[k] \in Terms
               /\ RuleId(k[1], k[2]) \in DOMAIN store'.Rule
               /\ store'.Rule[RuleId(k[1], k[2])] = RuleOf(k)'
    <2>1. CASE k = key
      BY <1>1, <2>1 DEF With
    <2>2. CASE k # key
      BY <1>2, <2>2 DEF With, RulesInv
    <2>3. QED
      BY <2>1, <2>2
  <1>4. ASSUME NEW id \in DOMAIN store'.Rule
        PROVE  \E k \in DOMAIN legacy'.rules : id = RuleId(k[1], k[2])
    BY DEF With, RulesInv
  <1>5. QED
    BY <1>3, <1>4 DEF RulesInv

(* A rule that is removed, and no other.                                   *)
LEMMA OneRuleRemoved ==
    ASSUME LegacyAssumption, RulesInv,
           NEW d, NEW pair, <<d, pair>> \in DOMAIN legacy.rules,
           legacy'.delegates = legacy.delegates,
           legacy'.rules = Without(legacy.rules, <<d, pair>>),
           store'.Delegate = store.Delegate,
           store'.Rule = Without(store.Rule, RuleId(d, pair))
    PROVE  RulesInv'
  <1> DEFINE key == <<d, pair>>
  <1>1. key \in (DOMAIN legacy.delegates) \X Pair /\ pair \in Pair
    BY DEF RulesInv
  <1>2. ASSUME NEW k \in DOMAIN legacy.rules, k # key
        PROVE  RuleId(k[1], k[2]) # RuleId(d, pair) /\ RuleOf(k)' = RuleOf(k)
    <2>1. k \in (DOMAIN legacy.delegates) \X Pair
      BY DEF RulesInv
    <2>2. RuleId(k[1], k[2]) # RuleId(d, pair)
      BY <1>1, <1>2, <2>1, RuleIdsDiffer
    <2>3. QED
      BY <1>2, <2>2 DEF RuleOf, Without, Restrict
  <1>3. ASSUME NEW k \in DOMAIN legacy'.rules
        PROVE  /\ k \in (DOMAIN legacy'.delegates) \X Pair
               /\ legacy'.rules[k] \in Terms
               /\ RuleId(k[1], k[2]) \in DOMAIN store'.Rule
               /\ store'.Rule[RuleId(k[1], k[2])] = RuleOf(k)'
    <2>1. k \in DOMAIN legacy.rules /\ k # key
      BY DEF Without, Restrict
    <2>2. QED
      BY <1>2, <2>1 DEF Without, Restrict, RulesInv
  <1>4. ASSUME NEW id \in DOMAIN store'.Rule
        PROVE  \E k \in DOMAIN legacy'.rules : id = RuleId(k[1], k[2])
    <2>1. id \in DOMAIN store.Rule /\ id # RuleId(d, pair)
      BY DEF Without, Restrict
    <2>2. PICK k \in DOMAIN legacy.rules : id = RuleId(k[1], k[2])
      BY <2>1 DEF RulesInv
    <2>3. k # key
      BY <2>1, <2>2
    <2>4. QED
      BY <2>2, <2>3 DEF Without, Restrict
  <1>5. QED
    BY <1>3, <1>4, <1>2 DEF RulesInv

(* A rule that is set replaces the one of its pair, in both.               *)
LEMMA SetRuleKeepsRules ==
    ASSUME LegacyAssumption, Stores, RulesInv,
           NEW d \in DOMAIN legacy.delegates, NEW pair \in Pair, NEW terms \in Terms,
           SetRule(d, pair, terms)
    PROVE  RulesInv'
  <1> DEFINE key == <<d, pair>>
             id == RuleId(d, pair)
             owner == legacy.delegates[d]
             s == getToken(getToken(getUser(store, owner), pair[1]), pair[2])
             fresh == [delegate |-> d, owner |-> owner, signerToken |-> pair[1],
                       senderToken |-> pair[2], maxSenderAmount |-> terms.maxSenderAmount,
                       price |-> terms.price]
  <1> IsStore(store) /\ IsLegacy(legacy)
    BY DEF Stores
  <1>1. /\ legacy'.delegates = legacy.delegates
        /\ legacy'.rules = With(legacy.rules, key, terms)
        /\ store' = handleSetRule(store, d, owner, pair, terms)
    BY DEF SetRule, Emit, IsLegacy, LegacyField
  <1>2. SameBut(s, store, {"User", "Token"})
    <2>1. SameBut(getUser(store, owner), store, {"User"})
      BY HelpersKeep
    <2>2. SameBut(getToken(getUser(store, owner), pair[1]), store, {"User", "Token"})
      BY <2>1, HelpersKeep DEF SameBut
    <2>3. QED
      BY <2>2, HelpersKeep DEF SameBut
  <1>3. s.Rule = store.Rule /\ s.Delegate = store.Delegate /\ IsStore(s)
    BY <1>2 DEF SameBut, Kind
  <1>4. RuleOf(key)' = fresh
    BY <1>1 DEF RuleOf, With
  <1>5. store'.Rule = With(store.Rule, id, fresh)
    <2>1. CASE id \in DOMAIN store.Rule
      <3>1. store' = [s EXCEPT !.Rule[id].maxSenderAmount = terms.maxSenderAmount,
                              !.Rule[id].price = terms.price]
        BY <1>1, <1>3, <2>1 DEF handleSetRule, Exists
      <3>2. store'.Rule = [store.Rule EXCEPT ![id] =
                [store.Rule[id] EXCEPT !.maxSenderAmount = terms.maxSenderAmount,
                                       !.price = terms.price]]
        <4> HIDE DEF s, id
        <4>1. QED
          BY <1>3, <3>1 DEF IsStore, Kind
      <3>3. store.Rule[id] = RuleOf(key)
        <4>1. PICK k \in DOMAIN legacy.rules : id = RuleId(k[1], k[2])
          BY <2>1 DEF RulesInv
        <4>2. k \in (DOMAIN legacy.delegates) \X Pair
          BY DEF RulesInv
        <4>3. k = key
          BY <4>1, <4>2, RuleIdsDiffer
        <4>4. QED
          BY <4>1, <4>3 DEF RulesInv
      <3>4. [store.Rule[id] EXCEPT !.maxSenderAmount = terms.maxSenderAmount,
                                   !.price = terms.price] = fresh
        <4>1. store.Rule[id] =
                 [delegate |-> d, owner |-> owner, signerToken |-> pair[1],
                  senderToken |-> pair[2],
                  maxSenderAmount |-> legacy.rules[key].maxSenderAmount,
                  price |-> legacy.rules[key].price]
          BY <3>3 DEF RuleOf
        <4> DEFINE r == store.Rule[id]
                   m == legacy.rules[key].maxSenderAmount
                   p == legacy.rules[key].price
        <4>2. r = [delegate |-> d, owner |-> owner, signerToken |-> pair[1],
                   senderToken |-> pair[2], maxSenderAmount |-> m, price |-> p]
          BY <4>1
        <4> HIDE DEF r, owner, m, p
        <4> DEFINE w == [r EXCEPT !.maxSenderAmount = terms.maxSenderAmount]
        <4>3. w = [delegate |-> d, owner |-> owner, signerToken |-> pair[1],
                   senderToken |-> pair[2], maxSenderAmount |-> terms.maxSenderAmount,
                   price |-> p]
          BY <4>2
        <4>4. [r EXCEPT !.maxSenderAmount = terms.maxSenderAmount, !.price = terms.price]
                = [w EXCEPT !.price = terms.price]
          OBVIOUS
        <4> HIDE DEF w
        <4>5. [w EXCEPT !.price = terms.price] = fresh
          BY <4>3
        <4>6. QED
          BY <4>4, <4>5 DEF r
      <3>5. QED
        BY <2>1, <3>2, <3>4 DEF With
    <2>2. CASE id \notin DOMAIN store.Rule
      <3>1. store' = Save(s, "Rule", id, fresh)
        BY <1>1, <1>3, <2>2 DEF handleSetRule, Exists
      <3>2. QED
        BY <1>3, <3>1, SaveIs DEF Kind
    <2>3. QED
      BY <2>1, <2>2
  <1>6. store'.Delegate = store.Delegate
    BY <1>1, DelegateHandlersKeep DEF SameBut, Kind
  <1>7. QED
    BY <1>1, <1>4, <1>5, <1>6, OneRuleWritten

(* A rule that is unset is gone, in both.                                  *)
LEMMA UnsetRuleKeepsRules ==
    ASSUME LegacyAssumption, Stores, RulesInv, NEW d, NEW pair, UnsetRule(d, pair)
    PROVE  RulesInv'
  <1> IsStore(store) /\ IsLegacy(legacy)
    BY DEF Stores
  <1>1. /\ <<d, pair>> \in DOMAIN legacy.rules
        /\ legacy'.delegates = legacy.delegates
        /\ legacy'.rules = Without(legacy.rules, <<d, pair>>)
        /\ store' = RemoveEntity(store, "Rule", RuleId(d, pair))
    BY DEF UnsetRule, Emit, IsLegacy, LegacyField, handleUnsetRule
  <1>2. /\ store'.Delegate = store.Delegate
        /\ store'.Rule = Without(store.Rule, RuleId(d, pair))
    BY <1>1, RemoveIs DEF SameBut, Kind
  <1>3. QED
    BY <1>1, <1>2, OneRuleRemoved

(* The handler finds the rule that the order takes from, and agrees with   *)
(* the delegate on whether the order uses it up.                           *)
LEMMA ProvideOrderKeepsRules ==
    ASSUME LegacyAssumption, Stores, RulesInv,
           NEW d, NEW pair, NEW amount \in Nat, ProvideOrder(d, pair, amount)
    PROVE  RulesInv'
  <1> DEFINE key == <<d, pair>>
             id == RuleId(d, pair)
             left == legacy.rules[key].maxSenderAmount - amount
  <1> IsStore(store) /\ IsLegacy(legacy)
    BY DEF Stores
  <1>1. /\ key \in DOMAIN legacy.rules /\ left >= 0
        /\ legacy'.delegates = legacy.delegates
        /\ legacy'.rules = IF left = 0 THEN Without(legacy.rules, key)
                           ELSE [legacy.rules EXCEPT ![key].maxSenderAmount = left]
        /\ store' = handleProvideOrder(store, d, pair, amount)
    BY DEF ProvideOrder, Emit, IsLegacy, LegacyField
  <1>2. /\ d \in DOMAIN legacy.delegates /\ pair \in Pair
        /\ legacy.rules[key] \in Terms
        /\ id \in DOMAIN store.Rule /\ store.Rule[id] = RuleOf(key)
    BY <1>1 DEF RulesInv
  <1>3. store.Rule[id].maxSenderAmount = legacy.rules[key].maxSenderAmount
    BY <1>2 DEF RuleOf
  <1>4. legacy.rules[key].maxSenderAmount \in Nat /\ legacy.rules[key].price \in Nat
    BY <1>2 DEF Terms
  <1>5. store'.Delegate = store.Delegate
    <2>1. SameBut(store', store, {"Rule"})
      BY <1>1, DelegateHandlersKeep
    <2>2. QED
      BY <2>1 DEF SameBut, Kind
  <1>6. CASE left = 0
    <2>1. store' = RemoveEntity(store, "Rule", id)
      BY <1>1, <1>3, <1>4, <1>6 DEF handleProvideOrder
    <2>2. store'.Rule = Without(store.Rule, id)
      BY <2>1, RemoveIs DEF Kind
    <2>3. QED
      BY <1>1, <1>5, <1>6, <2>2, OneRuleRemoved
  <1>7. CASE left # 0
    <2> DEFINE terms == [maxSenderAmount |-> left, price |-> legacy.rules[key].price]
    <2>1. terms \in Terms
      BY <1>1, <1>4 DEF Terms
    <2>2. legacy'.rules = With(legacy.rules, key, terms)
      <3>1. legacy'.rules = [legacy.rules EXCEPT ![key] =
                                [legacy.rules[key] EXCEPT !.maxSenderAmount = left]]
        <4> HIDE DEF left, key
        <4>1. QED
          BY <1>1, <1>7
      <3>2. [legacy.rules[key] EXCEPT !.maxSenderAmount = left] = terms
        <4> HIDE DEF left, key
        <4>1. QED
          BY <1>2 DEF Terms
      <3>3. QED
        <4> HIDE DEF terms, left, key
        <4>1. QED
          BY <1>1, <3>1, <3>2 DEF With
    <2>3. RuleOf(key)' = [delegate |-> d, owner |-> legacy.delegates[d],
                          signerToken |-> pair[1], senderToken |-> pair[2],
                          maxSenderAmount |-> left, price |-> legacy.rules[key].price]
      BY <1>1, <2>2 DEF RuleOf, With
    <2>4. store'.Rule = With(store.Rule, id, RuleOf(key)')
      <3>1. store' = [store EXCEPT !.Rule[id].maxSenderAmount = @ - amount]
        BY <1>1, <1>3, <1>4, <1>7 DEF handleProvideOrder
      <3>2. store'.Rule = [store.Rule EXCEPT ![id] =
               [store.Rule[id] EXCEPT !.maxSenderAmount = store.Rule[id].maxSenderAmount - amount]]
        <4> HIDE DEF id
        <4>1. QED
          BY <3>1 DEF IsStore, Kind
      <3>3. [store.Rule[id] EXCEPT !.maxSenderAmount = store.Rule[id].maxSenderAmount - amount]
              = RuleOf(key)'
        BY <1>2, <1>3, <2>3 DEF RuleOf
      <3>4. QED
        <4> HIDE DEF id, left
        <4>1. QED
          BY <1>2, <3>2, <3>3 DEF With
    <2>5. QED
      BY <1>1, <1>2, <1>5, <2>1, <2>2, <2>4, OneRuleWritten
  <1>8. QED
    BY <1>6, <1>7

(* Nothing is there in the beginning.                                      *)
LEMMA InitRules == ASSUME SubgraphInit PROVE Stores /\ RulesInv
  <1>1. store = EmptyStore /\ LegacyInit
    BY DEF SubgraphInit
  <1>2. /\ legacy.rules = NoEntity /\ legacy.delegates = NoEntity
        /\ legacy = [f \in LegacyField |-> legacy[f]]
    BY <1>1 DEF LegacyInit, LegacyField
  <1>3. /\ store.Rule = NoEntity
        /\ store = [kind \in Kind |-> store[kind]]
    BY <1>1 DEF EmptyStore, Kind
  <1>4. QED
    BY <1>2, <1>3 DEF Stores, IsStore, IsLegacy, RulesInv, NoEntity

(* The stores stay stores.                                                 *)
LEMMA StepKeepsStores ==
    ASSUME LightAssumption, SubgraphAssumption, Stores, [SubgraphNext]_subgraphVars
    PROVE  Stores'
  <1>1. ASSUME NEW fields, NEW kinds, StepChanges(fields, kinds) PROVE Stores'
    BY <1>1 DEF StepChanges, LegacyBut, SameBut, Stores
  <1>2. CASE UNCHANGED subgraphVars
    BY <1>2 DEF subgraphVars, Stores
  <1>3. QED
    BY <1>1, <1>2, SwapEventsChange, IndexerEventsChange, DelegateEventsChange,
       LockerEventsChange, LightEventsChange DEF SubgraphNext, LegacyNext

(* Every step keeps the rules: those of a delegate by the lemmas above.    *)
LEMMA StepKeepsRules ==
    ASSUME LightAssumption, LegacyAssumption, SubgraphAssumption,
           Stores, RulesInv, [SubgraphNext]_subgraphVars
    PROVE  RulesInv'
  <1>1. ASSUME NEW fields, NEW kinds, StepChanges(fields, kinds),
               fields \cap {"delegates", "rules"} = {}, kinds \cap {"Delegate", "Rule"} = {}
        PROVE  RulesInv'
    <2>1. RulesUntouched
      BY <1>1 DEF StepChanges, LegacyBut, SameBut, RulesUntouched, Kind, LegacyField
    <2>2. QED
      BY <2>1, UntouchedKeepsRules
  <1>2. CASE SwapNext
    BY <1>1, <1>2, SwapEventsChange
  <1>3. CASE IndexerNext
    BY <1>1, <1>3, IndexerEventsChange
  <1>4. CASE LockerNext
    BY <1>1, <1>4, LockerEventsChange
  <1>5. CASE LightNext
    BY <1>1, <1>5, LightEventsChange
  <1>6. CASE DelegateNext
    <2>1. ASSUME NEW d, NEW u, CreateDelegate(d, u) PROVE RulesInv'
      BY <2>1, CreateDelegateKeepsRules
    <2>2. ASSUME NEW d \in DOMAIN legacy.delegates, NEW pair \in Pair,
                 NEW amount \in 1..MaxAmount, NEW price \in 1..MaxAmount,
                 SetRule(d, pair, [maxSenderAmount |-> amount, price |-> price])
          PROVE  RulesInv'
      <3>1. [maxSenderAmount |-> amount, price |-> price] \in Terms
        BY DEF Terms, LegacyAssumption
      <3>2. QED
        BY <2>2, <3>1, SetRuleKeepsRules
    <2>3. ASSUME NEW d, NEW pair, UnsetRule(d, pair) PROVE RulesInv'
      BY <2>3, UnsetRuleKeepsRules
    <2>4. ASSUME NEW d, NEW pair, NEW amount \in 1..MaxAmount, ProvideOrder(d, pair, amount)
          PROVE  RulesInv'
      <3>1. amount \in Nat
        BY DEF LegacyAssumption
      <3>2. QED
        BY <2>4, <3>1, ProvideOrderKeepsRules
    <2>5. QED
      BY <1>6, <2>1, <2>2, <2>3, <2>4 DEF DelegateNext
  <1>7. CASE UNCHANGED subgraphVars
    <2>1. RulesUntouched
      BY <1>7 DEF subgraphVars, RulesUntouched
    <2>2. QED
      BY <2>1, UntouchedKeepsRules
  <1>8. QED
    BY <1>2, <1>3, <1>4, <1>5, <1>6, <1>7 DEF SubgraphNext, LegacyNext

(* The entities of rules are the rules that are left, whatever the other   *)
(* contracts do to the users and tokens that they share; so no order finds *)
(* its rule missing, and no entity has the owner of another delegate.      *)
THEOREM RulesAreKept == SubgraphSpec => []RulesAreIndexed
  <1>1. SubgraphInit => Stores /\ RulesInv
    BY InitRules
  <1>2. Stores /\ RulesInv /\ [SubgraphNext]_subgraphVars => (Stores /\ RulesInv)'
    BY LightAssumption, LegacyAssumption, SubgraphAssumption, StepKeepsStores, StepKeepsRules
  <1>3. RulesInv => RulesAreIndexed
    BY LegacyAssumption, RulesInvImplies
  <1>4. QED
    BY <1>1, <1>2, <1>3, PTL DEF SubgraphSpec

-----------------------------------------------------------------------------
(* What the stores say of users and of tokens, which several contracts     *)
(* share.  An entity that does not exist yet says what a new one would.    *)

NewUser ==
    [authorizedSigners |-> <<>>, authorizedSenders |-> <<>>, cancelledSwapNonces |-> <<>>,
     cancelledSwapLightNonces |-> <<>>, amountInLocker |-> 0]

UserView(st, u) == IF u \in DOMAIN st.User THEN st.User[u] ELSE NewUser

TokensTyped(st) == \A t \in DOMAIN st.Token : st.Token[t] \in [isBlacklisted: BOOLEAN]

Blacklisted(st) == {t \in DOMAIN st.Token : st.Token[t].isBlacklisted}

SameViews(after, st) ==
    /\ \A u : UserView(after, u) = UserView(st, u)
    /\ TokensTyped(st) => TokensTyped(after) /\ Blacklisted(after) = Blacklisted(st)

(* A handler that only makes sure that users and tokens exist.             *)
Visits(after, st) == IsStore(after) /\ SameViews(after, st)

(* What two handlers only visit, their sequence only visits.               *)
LEMMA VisitsTwice ==
    ASSUME NEW a, NEW b, NEW c, Visits(b, a), Visits(c, b)
    PROVE  Visits(c, a)
  <1>1. \A u : UserView(c, u) = UserView(a, u)
    BY DEF Visits, SameViews
  <1>2. TokensTyped(a) => TokensTyped(c) /\ Blacklisted(c) = Blacklisted(a)
    BY DEF Visits, SameViews
  <1>3. QED
    BY <1>1, <1>2 DEF Visits, SameViews

(* The views depend on the users and the tokens alone.                     *)
LEMMA OtherKindsVisit ==
    ASSUME NEW after, NEW st, NEW kinds, SameBut(after, st, kinds),
           "User" \notin kinds, "Token" \notin kinds
    PROVE  Visits(after, st)
  <1>1. after.User = st.User /\ after.Token = st.Token /\ IsStore(after)
    BY DEF SameBut, Kind
  <1>2. \A u : UserView(after, u) = UserView(st, u)
    BY <1>1 DEF UserView
  <1>3. TokensTyped(after) = TokensTyped(st) /\ Blacklisted(after) = Blacklisted(st)
    BY <1>1 DEF TokensTyped, Blacklisted
  <1>4. QED
    BY <1>1, <1>2, <1>3 DEF Visits, SameViews

(* To get an entity is to visit it: a new one says what none would say.    *)
LEMMA HelpersVisit ==
    ASSUME NEW st, IsStore(st), NEW a
    PROVE  /\ Visits(getUser(st, a), st)
           /\ Visits(getToken(st, a), st)
           /\ Visits(getIndexer(st, a), st)
           /\ Visits(getDelegateFactory(st, a), st)
           /\ Visits(getSwapContract(st, a), st)
           /\ Visits(getCollectedFeesDay(st, a), st)
  <1>1. Visits(getUser(st, a), st)
    <2>1. /\ SameBut(getUser(st, a), st, {"User"})
          /\ getUser(st, a).User = IF a \in DOMAIN st.User THEN st.User
                                   ELSE With(st.User, a, NewUser)
      BY LoadOrCreateIs DEF getUser, NewUser, Kind
    <2>2. \A u : UserView(getUser(st, a), u) = UserView(st, u)
      BY <2>1 DEF UserView, With
    <2>3. getUser(st, a).Token = st.Token /\ IsStore(getUser(st, a))
      BY <2>1 DEF SameBut, Kind
    <2>4. /\ TokensTyped(getUser(st, a)) = TokensTyped(st)
          /\ Blacklisted(getUser(st, a)) = Blacklisted(st)
      BY <2>3 DEF TokensTyped, Blacklisted
    <2>5. QED
      BY <2>2, <2>3, <2>4 DEF Visits, SameViews
  <1>2. Visits(getToken(st, a), st)
    <2>1. /\ SameBut(getToken(st, a), st, {"Token"})
          /\ getToken(st, a).Token = IF a \in DOMAIN st.Token THEN st.Token
                                     ELSE With(st.Token, a, [isBlacklisted |-> FALSE])
      BY LoadOrCreateIs DEF getToken, Kind
    <2>2. /\ TokensTyped(st) => TokensTyped(getToken(st, a))
          /\ Blacklisted(getToken(st, a)) = Blacklisted(st)
      <3>1. CASE a \in DOMAIN st.Token
        BY <2>1, <3>1 DEF TokensTyped, Blacklisted
      <3>2. CASE a \notin DOMAIN st.Token
        BY <2>1, <3>2 DEF TokensTyped, Blacklisted, With
      <3>3. QED
        BY <3>1, <3>2
    <2>3. getToken(st, a).User = st.User /\ IsStore(getToken(st, a))
      BY <2>1 DEF SameBut, Kind
    <2>4. \A u : UserView(getToken(st, a), u) = UserView(st, u)
      BY <2>3 DEF UserView
    <2>5. QED
      BY <2>2, <2>3, <2>4 DEF Visits, SameViews
  <1>3. QED
    BY <1>1, <1>2, HelpersKeep, OtherKindsVisit

(* To save an entity of another kind is a visit.                           *)
LEMMA SaveVisits ==
    ASSUME NEW st, IsStore(st), NEW kind \in Kind \ {"User", "Token"}, NEW id, NEW entity
    PROVE  Visits(Save(st, kind, id, entity), st)
  BY SaveIs, OtherKindsVisit

(* Neither the stakes, locators, delegates and rules nor the swaps change  *)
(* what is said of users and tokens.                                       *)
LEMMA HandlersVisit ==
    ASSUME NEW st, IsStore(st), NEW d, NEW u, NEW pair, NEW x
    PROVE  /\ Visits(handleCreateIndex(st, pair), st)
           /\ Visits(handleStake(st, u, pair, x), st)
           /\ Visits(handleSetLocator(st, u, pair, x), st)
           /\ Visits(handleCreateDelegate(st, d, u), st)
           /\ Visits(handleSetRule(st, d, u, pair, x), st)
           /\ Visits(handleSwap(st, x), st)
           /\ Visits(handleSwapLight(st, x), st)
  <1> {"Index", "Stake", "Locator", "Delegate", "Rule", "Swap", "SwapLight"}
        \subseteq Kind \ {"User", "Token"}
    BY DEF Kind
  <1>1. Visits(handleCreateIndex(st, pair), st)
    <2> DEFINE a == getToken(st, pair[1])
               b == getToken(a, pair[2])
               c == getIndexer(b, "Indexer")
    <2>1. Visits(a, st)
      BY HelpersVisit
    <2>2. Visits(b, st)
      BY <2>1, HelpersVisit, VisitsTwice DEF Visits
    <2>3. Visits(c, st)
      BY <2>2, HelpersVisit, VisitsTwice DEF Visits
    <2>4. PICK entity : handleCreateIndex(st, pair) = Save(c, "Index", pair, entity)
      BY DEF handleCreateIndex
    <2> HIDE DEF c
    <2>5. QED
      BY <2>3, <2>4, SaveVisits, VisitsTwice DEF Visits
  <1>2. Visits(handleStake(st, u, pair, x), st)
    <2> DEFINE a == getUser(st, u)
               b == getIndexer(a, "Indexer")
               c == getToken(b, pair[1])
               e == getToken(c, pair[2])
    <2>1. Visits(a, st)
      BY HelpersVisit
    <2>2. Visits(b, st)
      BY <2>1, HelpersVisit, VisitsTwice DEF Visits
    <2>3. Visits(c, st)
      BY <2>2, HelpersVisit, VisitsTwice DEF Visits
    <2>4. Visits(e, st)
      BY <2>3, HelpersVisit, VisitsTwice DEF Visits
    <2>5. \/ \E entity : handleStake(st, u, pair, x) = Save(e, "Stake", StakeId(u), entity)
          \/ handleStake(st, u, pair, x) = [a EXCEPT !.Stake[StakeId(u)].stakeAmount = x]
      BY DEF handleStake
    <2> HIDE DEF e, a
    <2>6. CASE \E entity : handleStake(st, u, pair, x) = Save(e, "Stake", StakeId(u), entity)
      BY <2>4, <2>6, SaveVisits, VisitsTwice DEF Visits
    <2>7. CASE handleStake(st, u, pair, x) = [a EXCEPT !.Stake[StakeId(u)].stakeAmount = x]
      <3>1. SameBut(handleStake(st, u, pair, x), a, {"Stake"})
        BY <2>1, <2>7 DEF Visits, IsStore, SameBut
      <3>2. QED
        BY <2>1, <3>1, OtherKindsVisit, VisitsTwice
    <2>8. QED
      BY <2>5, <2>6, <2>7
  <1>3. Visits(handleSetLocator(st, u, pair, x), st)
    <2> DEFINE a == getUser(st, u)
               id == LocatorId(u, pair)
    <2>1. Visits(a, st)
      BY HelpersVisit
    <2>2. \/ \E entity : handleSetLocator(st, u, pair, x) = Save(a, "Locator", id, entity)
          \/ handleSetLocator(st, u, pair, x) = [a EXCEPT !.Locator[id].score = x]
      BY DEF handleSetLocator
    <2> HIDE DEF a
    <2>3. SameBut(handleSetLocator(st, u, pair, x), a, {"Locator"})
      BY <2>1, <2>2, SaveIs DEF Visits, IsStore, SameBut
    <2>4. QED
      BY <2>1, <2>3, OtherKindsVisit, VisitsTwice
  <1>4. Visits(handleCreateDelegate(st, d, u), st)
    <2> DEFINE a == getDelegateFactory(st, "DelegateFactory")
               b == getSwapContract(a, "Swap")
               c == getIndexer(b, "Indexer")
               e == getUser(c, u)
    <2>1. Visits(a, st)
      BY HelpersVisit
    <2>2. Visits(b, st)
      BY <2>1, HelpersVisit, VisitsTwice DEF Visits
    <2>3. Visits(c, st)
      BY <2>2, HelpersVisit, VisitsTwice DEF Visits
    <2>4. Visits(e, st)
      BY <2>3, HelpersVisit, VisitsTwice DEF Visits
    <2>5. PICK entity : handleCreateDelegate(st, d, u) = Save(e, "Delegate", d, entity)
      BY DEF handleCreateDelegate
    <2> HIDE DEF e
    <2>6. QED
      BY <2>4, <2>5, SaveVisits, VisitsTwice DEF Visits
  <1>5. Visits(handleSetRule(st, d, u, pair, x), st)
    <2> DEFINE a == getUser(st, u)
               b == getToken(a, pair[1])
               c == getToken(b, pair[2])
               id == RuleId(d, pair)
               after == handleSetRule(st, d, u, pair, x)
    <2>1. Visits(a, st)
      BY HelpersVisit
    <2>2. Visits(b, st)
      BY <2>1, HelpersVisit, VisitsTwice DEF Visits
    <2>3. Visits(c, st)
      BY <2>2, HelpersVisit, VisitsTwice DEF Visits
    <2>4. \/ \E entity : after = Save(c, "Rule", id, entity)
          \/ after = [c EXCEPT !.Rule[id].maxSenderAmount = x.maxSenderAmount,
                               !.Rule[id].price = x.price]
      BY DEF handleSetRule
    <2> HIDE DEF c, id, after
    <2>5. CASE \E entity : after = Save(c, "Rule", id, entity)
      <3>1. Visits(after, st)
        BY <2>3, <2>5, SaveVisits, VisitsTwice DEF Visits
      <3>2. QED
        BY <3>1 DEF after
    <2>6. CASE after = [c EXCEPT !.Rule[id].maxSenderAmount = x.maxSenderAmount,
                                 !.Rule[id].price = x.price]
      <3>1. SameBut(after, c, {"Rule"})
        BY <2>3, <2>6 DEF Visits, IsStore, SameBut
      <3>2. Visits(after, st)
        BY <2>3, <3>1, OtherKindsVisit, VisitsTwice
      <3>3. QED
        BY <3>2 DEF after
    <2>7. QED
      BY <2>4, <2>5, <2>6
  <1>6. Visits(handleSwap(st, x), st)
    <2> DEFINE a == getSwapContract(st, "Swap")
               b == getUser(a, x.signerWallet)
               c == getUser(b, x.senderWallet)
               e == getUser(c, x.affiliateWallet)
               f == getToken(e, x.signerToken)
               g == getToken(f, x.senderToken)
    <2>1. Visits(a, st)
      BY HelpersVisit
    <2>2. Visits(b, st)
      BY <2>1, HelpersVisit, VisitsTwice DEF Visits
    <2>3. Visits(c, st)
      BY <2>2, HelpersVisit, VisitsTwice DEF Visits
    <2>4. Visits(e, st)
      BY <2>3, HelpersVisit, VisitsTwice DEF Visits
    <2>5. Visits(f, st)
      BY <2>4, HelpersVisit, VisitsTwice DEF Visits
    <2>6. Visits(g, st)
      BY <2>5, HelpersVisit, VisitsTwice DEF Visits
    <2>7. PICK entity : handleSwap(st, x) = Save(g, "Swap", <<x.signerWallet, x.nonce>>, entity)
      BY DEF handleSwap
    <2> HIDE DEF g
    <2>8. QED
      BY <2>6, <2>7, SaveVisits, VisitsTwice DEF Visits
  <1>7. Visits(handleSwapLight(st, x), st)
    <2> DEFINE a == LoadOrCreate(st, "SwapLightContract", "Light", [id |-> "Light"])
               b == getUser(a, x.signerWallet)
               c == getUser(b, x.senderWallet)
               e == getToken(c, x.signerToken)
               f == getToken(e, x.senderToken)
               day == x.timestamp \div SecondsInDay
    <2>1. Visits(a, st)
      BY LoadOrCreateIs, OtherKindsVisit DEF Kind
    <2>2. Visits(b, st)
      BY <2>1, HelpersVisit, VisitsTwice DEF Visits
    <2>3. Visits(c, st)
      BY <2>2, HelpersVisit, VisitsTwice DEF Visits
    <2>4. Visits(e, st)
      BY <2>3, HelpersVisit, VisitsTwice DEF Visits
    <2>5. Visits(f, st)
      BY <2>4, HelpersVisit, VisitsTwice DEF Visits
    <2>6. PICK entity :
            handleSwapLight(st, x)
              = updateCollectedFeesDay(
                  Save(f, "SwapLight", SwapLightId(x.signerWallet, x.nonce), entity), x)
      BY DEF handleSwapLight
    <2> DEFINE g == Save(f, "SwapLight", SwapLightId(x.signerWallet, x.nonce), entity)
               h == getCollectedFeesDay(g, day)
    <2>7. Visits(g, st)
      <3> HIDE DEF f
      <3>1. QED
        BY <2>5, SaveVisits, VisitsTwice DEF Visits
    <2>8. Visits(h, st)
      <3> HIDE DEF g
      <3>1. QED
        BY <2>7, HelpersVisit, VisitsTwice DEF Visits
    <2>9. PICK date, amount :
             updateCollectedFeesDay(g, x)
               = [h EXCEPT !.CollectedFeesDay[day].date = date,
                           !.CollectedFeesDay[day].amount = amount]
      <3> HIDE DEF g
      <3>1. QED
        BY DEF updateCollectedFeesDay
    <2>10. SameBut(updateCollectedFeesDay(g, x), h, {"CollectedFeesDay"})
      <3> HIDE DEF h, g
      <3>1. QED
        BY <2>8, <2>9 DEF SameBut, IsStore, Visits
    <2>11. Visits(updateCollectedFeesDay(g, x), st)
      <3> HIDE DEF h, g
      <3>1. QED
        BY <2>8, <2>10, OtherKindsVisit, VisitsTwice
    <2>12. QED
      BY <2>6, <2>11
  <1>8. QED
    BY <1>1, <1>2, <1>3, <1>4, <1>5, <1>6, <1>7

-----------------------------------------------------------------------------
(* The listings: indexes, locators, stakes and the blacklist.              *)

IndexesInv ==
    /\ legacy.indexes \subseteq Pair
    /\ DOMAIN store.Index = legacy.indexes

(* A locator is named by its owner and its pair, as its key is.            *)
LocatorsInv ==
    /\ DOMAIN legacy.locators \subseteq Trader \X Pair
    /\ DOMAIN store.Locator = DOMAIN legacy.locators
    /\ \A key \in DOMAIN legacy.locators :
         store.Locator[key] = [owner |-> key[1], index |-> key[2],
                               score |-> legacy.locators[key]]

StakeOf(key) ==
    [indexer |-> "Indexer", staker |-> key[1], signerToken |-> key[2][1],
     senderToken |-> key[2][2], stakeAmount |-> legacy.stakes[key]]

(* Every stake has the name of its staker.  A staker that never had two at *)
(* once has one key at the most, and an entity for it or none.             *)
StakesInv ==
    /\ DOMAIN legacy.stakes \subseteq Trader \X Pair
    /\ \A id \in DOMAIN store.Stake : id = StakeId(store.Stake[id].staker)
    /\ \A key \in DOMAIN legacy.stakes : key[1] \notin legacy.spread =>
         /\ StakeId(key[1]) \in DOMAIN store.Stake
         /\ store.Stake[StakeId(key[1])] = StakeOf(key)
         /\ \A other \in DOMAIN legacy.stakes : other[1] = key[1] => other = key
    /\ \A u \in Trader \ legacy.spread : StakeId(u) \in DOMAIN store.Stake =>
         \E key \in DOMAIN legacy.stakes : key[1] = u

TokensInv == TokensTyped(store) /\ Blacklisted(store) = legacy.blacklist

ListingsInv == IndexesInv /\ LocatorsInv /\ StakesInv /\ TokensInv

(* The invariant says of each listing what the property says.              *)
LEMMA ListingsInvImplies ==
    ASSUME LegacyAssumption, ListingsInv PROVE ListingsAreIndexed
  <1>1. DOMAIN store.Index = legacy.indexes
    BY DEF ListingsInv, IndexesInv
  <1>2. ASSUME NEW u \in Trader, NEW pair \in Pair
        PROVE  LET key == <<u, pair>>
                   set == {loc \in Range(store.Locator) : loc.owner = u /\ loc.index = pair}
               IN  {loc.score : loc \in set}
                      = IF key \in DOMAIN legacy.locators THEN {legacy.locators[key]} ELSE {}
    <2> DEFINE key == <<u, pair>>
               set == {loc \in Range(store.Locator) : loc.owner = u /\ loc.index = pair}
               LocatorAt(k) == [owner |-> k[1], index |-> k[2], score |-> legacy.locators[k]]
    <2>1. ASSUME NEW loc \in set
          PROVE  key \in DOMAIN legacy.locators /\ loc = LocatorAt(key)
      <3>1. PICK k \in DOMAIN legacy.locators : loc = LocatorAt(k)
        BY DEF ListingsInv, LocatorsInv, Range
      <3>2. k \in Trader \X Pair /\ k[1] = u /\ k[2] = pair
        BY <3>1 DEF ListingsInv, LocatorsInv
      <3>3. QED
        BY <3>1, <3>2
    <2>2. ASSUME key \in DOMAIN legacy.locators PROVE LocatorAt(key) \in set
      <3>1. LocatorAt(key) \in Range(store.Locator)
        BY <2>2 DEF ListingsInv, LocatorsInv, Range
      <3>2. QED
        BY <3>1
    <2>3. LocatorAt(key).score = legacy.locators[key]
      OBVIOUS
    <2> HIDE DEF key, LocatorAt, set
    <2>4. QED
      BY <2>1, <2>2, <2>3 DEF set, key
  <1>3. ASSUME NEW u \in Trader \ legacy.spread, NEW pair \in Pair
        PROVE  <<u, pair>> \in DOMAIN legacy.stakes <=>
                 \E st \in Range(store.Stake) :
                   /\ st.staker = u /\ <<st.signerToken, st.senderToken>> = pair
                   /\ st.stakeAmount = legacy.stakes[<<u, pair>>]
    <2> DEFINE key == <<u, pair>>
    <2>1. ASSUME key \in DOMAIN legacy.stakes
          PROVE  \E st \in Range(store.Stake) :
                   /\ st.staker = u /\ <<st.signerToken, st.senderToken>> = pair
                   /\ st.stakeAmount = legacy.stakes[key]
      <3>1. StakeId(u) \in DOMAIN store.Stake /\ store.Stake[StakeId(u)] = StakeOf(key)
        BY <2>1 DEF ListingsInv, StakesInv
      <3>2. StakeOf(key) \in Range(store.Stake)
        BY <3>1 DEF Range
      <3>3. /\ StakeOf(key).staker = u
            /\ <<StakeOf(key).signerToken, StakeOf(key).senderToken>> = <<pair[1], pair[2]>>
            /\ StakeOf(key).stakeAmount = legacy.stakes[key]
        BY DEF StakeOf
      <3>4. <<pair[1], pair[2]>> = pair
        BY DEF LegacyAssumption
      <3>5. QED
        BY <3>2, <3>3, <3>4
    <2>2. ASSUME NEW st \in Range(store.Stake),
                 st.staker = u, <<st.signerToken, st.senderToken>> = pair
          PROVE  key \in DOMAIN legacy.stakes
      <3>1. PICK id \in DOMAIN store.Stake : st = store.Stake[id]
        BY DEF Range
      <3>2. id = StakeId(u)
        BY <2>2, <3>1 DEF ListingsInv, StakesInv
      <3>3. PICK k \in DOMAIN legacy.stakes : k[1] = u
        BY <3>1, <3>2 DEF ListingsInv, StakesInv
      <3>4. st = StakeOf(k) /\ k \in Trader \X Pair
        BY <3>1, <3>2, <3>3 DEF ListingsInv, StakesInv
      <3>5. k[2] = pair
        <4>1. k[2] = <<k[2][1], k[2][2]>>
          BY <3>4 DEF LegacyAssumption
        <4>2. st.signerToken = k[2][1] /\ st.senderToken = k[2][2]
          BY <3>4 DEF StakeOf
        <4>3. QED
          BY <2>2, <4>1, <4>2
      <3>6. QED
        BY <3>3, <3>4, <3>5
    <2>3. QED
      BY <2>1, <2>2
  <1>4. \A t \in LegacyToken :
          t \in legacy.blacklist <=> Exists(store, "Token", t) /\ store.Token[t].isBlacklisted
    BY DEF ListingsInv, TokensInv, Blacklisted, Exists
  <1>5. QED
    BY <1>1, <1>2, <1>3, <1>4 DEF ListingsAreIndexed

(* What an event leaves alone when it is about something else.             *)
IndexesUntouched == legacy'.indexes = legacy.indexes /\ store'.Index = store.Index

LocatorsUntouched == legacy'.locators = legacy.locators /\ store'.Locator = store.Locator

StakesUntouched ==
    /\ legacy'.stakes = legacy.stakes /\ legacy'.spread = legacy.spread
    /\ store'.Stake = store.Stake

TokensUntouched == legacy'.blacklist = legacy.blacklist /\ Visits(store', store)

(* What an event is not about, it keeps.                                   *)
LEMMA UntouchedKeepsListings ==
    ASSUME ListingsInv
    PROVE  /\ IndexesUntouched => IndexesInv'
           /\ LocatorsUntouched => LocatorsInv'
           /\ StakesUntouched => StakesInv'
           /\ TokensUntouched => TokensInv'
  <1>1. IndexesUntouched => IndexesInv'
    BY DEF ListingsInv, IndexesInv, IndexesUntouched
  <1>2. LocatorsUntouched => LocatorsInv'
    BY DEF ListingsInv, LocatorsInv, LocatorsUntouched
  <1>3. StakesUntouched => StakesInv'
    BY DEF ListingsInv, StakesInv, StakesUntouched, StakeOf
  <1>4. TokensUntouched => TokensInv'
    <2>1. TokensTyped(store) /\ Blacklisted(store) = legacy.blacklist
      BY DEF ListingsInv, TokensInv
    <2>2. TokensUntouched => TokensTyped(store') /\ Blacklisted(store') = Blacklisted(store)
      BY <2>1 DEF TokensUntouched, Visits, SameViews
    <2>3. QED
      BY <2>1, <2>2 DEF TokensInv, TokensUntouched, TokensTyped, Blacklisted
  <1>5. QED
    BY <1>1, <1>2, <1>3, <1>4

(* A token that is put on the blacklist, or taken off it, and no other.    *)
LEMMA BlacklistEventsKeepTokens ==
    ASSUME Stores, ListingsInv, NEW t, AddTokenToBlacklist(t) \/ RemoveTokenFromBlacklist(t)
    PROVE  TokensInv'
  <1> DEFINE s == getToken(store, t)
  <1> IsStore(store) /\ IsLegacy(legacy)
    BY DEF Stores
  <1>1. TokensTyped(s) /\ Blacklisted(s) = legacy.blacklist /\ IsStore(s)
    BY HelpersVisit DEF Visits, SameViews, ListingsInv, TokensInv
  <1>2. t \in DOMAIN s.Token
    <2>1. s.Token = IF t \in DOMAIN store.Token THEN store.Token
                    ELSE With(store.Token, t, [isBlacklisted |-> FALSE])
      BY LoadOrCreateIs DEF getToken, Kind
    <2>2. QED
      BY <2>1 DEF With
  <1>3. PICK bit \in BOOLEAN :
          /\ store' = [s EXCEPT !.Token[t].isBlacklisted = bit]
          /\ legacy'.blacklist = IF bit THEN legacy.blacklist \union {t}
                                 ELSE legacy.blacklist \ {t}
    BY DEF AddTokenToBlacklist, RemoveTokenFromBlacklist, Emit, handleAddTokenToBlacklist,
       handleRemoveTokenFromBlacklist, IsLegacy, LegacyField
  <1>4. store'.Token = [s.Token EXCEPT ![t] = [s.Token[t] EXCEPT !.isBlacklisted = bit]]
    <2> HIDE DEF s
    <2>1. QED
      BY <1>1, <1>3 DEF IsStore, Kind
  <1>5. [s.Token[t] EXCEPT !.isBlacklisted = bit] = [isBlacklisted |-> bit]
    <2>1. s.Token[t] \in [isBlacklisted: BOOLEAN]
      BY <1>1, <1>2 DEF TokensTyped
    <2> HIDE DEF s
    <2>2. QED
      BY <2>1
  <1>6. /\ DOMAIN store'.Token = DOMAIN s.Token
        /\ \A x \in DOMAIN s.Token :
             store'.Token[x] = IF x = t THEN [isBlacklisted |-> bit] ELSE s.Token[x]
    <2> HIDE DEF s
    <2>1. QED
      BY <1>4, <1>5
  <1>7. TokensTyped(store')
    <2> HIDE DEF s
    <2>1. QED
      BY <1>1, <1>6 DEF TokensTyped
  <1>8. Blacklisted(store') = IF bit THEN Blacklisted(s) \union {t} ELSE Blacklisted(s) \ {t}
    <2> HIDE DEF s
    <2>1. QED
      BY <1>2, <1>6 DEF Blacklisted
  <1>9. QED
    BY <1>1, <1>3, <1>7, <1>8 DEF TokensInv, TokensTyped, Blacklisted

(* An index that is created is listed, and no other.                       *)
LEMMA CreateIndexKeepsIndexes ==
    ASSUME Stores, ListingsInv, NEW pair \in Pair, CreateIndex(pair)
    PROVE  IndexesInv'
  <1> DEFINE s == getIndexer(getToken(getToken(store, pair[1]), pair[2]), "Indexer")
  <1> IsStore(store) /\ IsLegacy(legacy)
    BY DEF Stores
  <1>1. SameBut(s, store, {"Token", "Indexer"})
    <2>1. SameBut(getToken(store, pair[1]), store, {"Token"})
      BY HelpersKeep
    <2>2. SameBut(getToken(getToken(store, pair[1]), pair[2]), store, {"Token"})
      BY <2>1, HelpersKeep DEF SameBut
    <2>3. QED
      BY <2>2, HelpersKeep DEF SameBut
  <1>2. PICK entity : store' = Save(s, "Index", pair, entity)
    BY DEF CreateIndex, Emit, handleCreateIndex
  <1>3. store'.Index = With(store.Index, pair, entity)
    <2>1. IsStore(s) /\ s.Index = store.Index
      BY <1>1 DEF SameBut, Kind
    <2> HIDE DEF s
    <2>2. QED
      BY <1>2, <2>1, SaveIs DEF Kind
  <1>4. legacy'.indexes = legacy.indexes \union {pair}
    BY DEF CreateIndex, Emit, IsLegacy, LegacyField
  <1>5. QED
    BY <1>3, <1>4 DEF ListingsInv, IndexesInv, With

(* A locator that is set or unset, and no other.                           *)
LEMMA LocatorEventsKeepLocators ==
    ASSUME Stores, ListingsInv, NEW u \in Trader, NEW pair \in Pair, NEW score,
           SetLocator(u, pair, score) \/ UnsetLocator(u, pair)
    PROVE  LocatorsInv'
  <1> DEFINE key == <<u, pair>>
             s == getUser(store, u)
             fresh == [owner |-> u, index |-> pair, score |-> score]
  <1> IsStore(store) /\ IsLegacy(legacy)
    BY DEF Stores
  <1>1. LocatorsInv
    BY DEF ListingsInv
  <1>2. IsStore(s) /\ s.Locator = store.Locator
    BY HelpersKeep DEF SameBut, Kind
  <1>3. CASE SetLocator(u, pair, score)
    <2>1. /\ legacy'.locators = With(legacy.locators, key, score)
          /\ store' = handleSetLocator(store, u, pair, score)
      BY <1>3 DEF SetLocator, Emit, IsLegacy, LegacyField
    <2>2. store'.Locator = With(store.Locator, key, fresh)
      <3>1. CASE key \in DOMAIN store.Locator
        <4>1. store' = [s EXCEPT !.Locator[key].score = score]
          BY <1>2, <2>1, <3>1 DEF handleSetLocator, Exists, LocatorId
        <4>2. store'.Locator = [store.Locator EXCEPT ![key] =
                                  [store.Locator[key] EXCEPT !.score = score]]
          <5> HIDE DEF s, key
          <5>1. QED
            BY <1>2, <4>1 DEF IsStore, Kind
        <4>3. store.Locator[key] = [owner |-> u, index |-> pair, score |-> legacy.locators[key]]
          BY <1>1, <3>1 DEF LocatorsInv
        <4>4. [store.Locator[key] EXCEPT !.score = score] = fresh
          <5> HIDE DEF key
          <5>1. QED
            BY <4>3
        <4>5. QED
          <5> HIDE DEF key, fresh
          <5>1. QED
            BY <3>1, <4>2, <4>4 DEF With
      <3>2. CASE key \notin DOMAIN store.Locator
        <4>1. store' = Save(s, "Locator", key, fresh)
          BY <1>2, <2>1, <3>2 DEF handleSetLocator, Exists, LocatorId
        <4>2. QED
          BY <1>2, <4>1, SaveIs DEF Kind
      <3>3. QED
        BY <3>1, <3>2
    <2>3. QED
      BY <1>1, <2>1, <2>2 DEF LocatorsInv, With
  <1>4. CASE UnsetLocator(u, pair)
    <2>1. /\ legacy'.locators = Without(legacy.locators, key)
          /\ store' = RemoveEntity(store, "Locator", key)
      BY <1>4 DEF UnsetLocator, Emit, IsLegacy, LegacyField, handleUnsetLocator, LocatorId
    <2>2. store'.Locator = Without(store.Locator, key)
      BY <2>1, RemoveIs DEF Kind
    <2>3. QED
      BY <1>1, <2>1, <2>2 DEF LocatorsInv, Without, Restrict
  <1>5. QED
    BY <1>3, <1>4

(* A stake is written under the name of its staker: the entity that is     *)
(* there says the tokens, which are those of the pair unless the staker    *)
(* has a stake for another one.                                            *)
LEMMA StakeOnKeepsStakes ==
    ASSUME LegacyAssumption, Stores, ListingsInv,
           NEW u \in Trader, NEW pair \in Pair, NEW amount, StakeOn(u, pair, amount)
    PROVE  StakesInv'
  <1> DEFINE key == <<u, pair>>
             id == StakeId(u)
             others == {k \in DOMAIN legacy.stakes : k[1] = u /\ k[2] # pair}
             fresh == [indexer |-> "Indexer", staker |-> u, signerToken |-> pair[1],
                       senderToken |-> pair[2], stakeAmount |-> amount]
             s == getUser(store, u)
             f == getToken(getToken(getIndexer(s, "Indexer"), pair[1]), pair[2])
  <1> IsStore(store) /\ IsLegacy(legacy)
    BY DEF Stores
  <1>1. StakesInv
    BY DEF ListingsInv
  <1>2. /\ legacy'.stakes = With(legacy.stakes, key, amount)
        /\ legacy'.spread = IF others = {} THEN legacy.spread ELSE legacy.spread \union {u}
        /\ store' = handleStake(store, u, pair, amount)
    BY DEF StakeOn, Emit, IsLegacy, LegacyField
  <1>3. IsStore(s) /\ s.Stake = store.Stake
    BY HelpersKeep DEF SameBut, Kind
  <1>4. IsStore(f) /\ f.Stake = store.Stake
    <2>1. SameBut(getIndexer(s, "Indexer"), s, {"Indexer"})
      BY <1>3, HelpersKeep
    <2>2. SameBut(getToken(getIndexer(s, "Indexer"), pair[1]), s, {"Indexer", "Token"})
      BY <2>1, HelpersKeep DEF SameBut
    <2>3. SameBut(f, s, {"Indexer", "Token"})
      BY <2>2, HelpersKeep DEF SameBut
    <2>4. QED
      BY <1>3, <2>3 DEF SameBut, Kind
  <1>5. \E entity :
          /\ store'.Stake = With(store.Stake, id, entity)
          /\ entity.staker = u
          /\ u \notin legacy.spread /\ others = {} => entity = fresh
    <2>1. CASE id \in DOMAIN store.Stake
      <3>1. store' = [s EXCEPT !.Stake[id].stakeAmount = amount]
        BY <1>2, <1>3, <2>1 DEF handleStake, Exists
      <3> DEFINE entity == [store.Stake[id] EXCEPT !.stakeAmount = amount]
      <3>2. store'.Stake = [store.Stake EXCEPT ![id] = entity]
        <4> HIDE DEF s, id
        <4>1. QED
          BY <1>3, <3>1 DEF IsStore, Kind
      <3>3. store'.Stake = With(store.Stake, id, entity)
        <4> HIDE DEF id, entity
        <4>1. QED
          BY <2>1, <3>2 DEF With
      <3>4. store.Stake[id].staker = u
        BY <1>1, <2>1 DEF StakesInv, StakeId
      <3>5. entity.staker = u
        <4> HIDE DEF id
        <4>1. QED
          BY <3>4
      <3>6. ASSUME u \notin legacy.spread, others = {} PROVE entity = fresh
        <4>1. PICK k \in DOMAIN legacy.stakes : k[1] = u
          BY <1>1, <2>1, <3>6 DEF StakesInv
        <4>2. k[2] = pair
          BY <3>6, <4>1
        <4>3. store.Stake[id] = StakeOf(k)
          BY <1>1, <3>6, <4>1 DEF StakesInv
        <4>4. store.Stake[id] = [indexer |-> "Indexer", staker |-> u, signerToken |-> pair[1],
                                 senderToken |-> pair[2], stakeAmount |-> legacy.stakes[k]]
          BY <4>1, <4>2, <4>3 DEF StakeOf
        <4> HIDE DEF id
        <4>5. QED
          BY <4>4
      <3>7. QED
        <4> HIDE DEF entity, fresh, id, others
        <4>1. QED
          BY <3>3, <3>5, <3>6
    <2>2. CASE id \notin DOMAIN store.Stake
      <3>1. store' = Save(f, "Stake", id, fresh)
        BY <1>2, <1>3, <2>2 DEF handleStake, Exists
      <3>2. store'.Stake = With(store.Stake, id, fresh)
        <4> HIDE DEF f, fresh, id
        <4>1. QED
          BY <1>4, <3>1, SaveIs DEF Kind
      <3>3. QED
        BY <3>2
    <2>3. QED
      BY <2>1, <2>2
  <1>6. PICK entity :
          /\ store'.Stake = With(store.Stake, id, entity)
          /\ entity.staker = u
          /\ u \notin legacy.spread /\ others = {} => entity = fresh
    BY <1>5
  <1>7. DOMAIN legacy'.stakes \subseteq Trader \X Pair
    BY <1>1, <1>2 DEF With, StakesInv
  <1>8. \A i \in DOMAIN store'.Stake : i = StakeId(store'.Stake[i].staker)
    BY <1>1, <1>6 DEF With, StakesInv
  <1>9. ASSUME NEW k \in DOMAIN legacy'.stakes, k[1] \notin legacy'.spread
        PROVE  /\ StakeId(k[1]) \in DOMAIN store'.Stake
               /\ store'.Stake[StakeId(k[1])] = StakeOf(k)'
               /\ \A other \in DOMAIN legacy'.stakes : other[1] = k[1] => other = k
    <2>1. CASE k[1] = u
      <3>1. others = {} /\ u \notin legacy.spread
        BY <1>2, <1>9, <2>1
      <3>2. ASSUME NEW l \in DOMAIN legacy'.stakes, l[1] = u PROVE l = key
        <4>1. CASE l \in DOMAIN legacy.stakes
          <5>1. l[2] = pair
            BY <3>1, <3>2, <4>1
          <5>2. l \in Trader \X Pair
            BY <1>1, <4>1 DEF StakesInv
          <5>3. QED
            BY <3>2, <5>1, <5>2
        <4>2. CASE l \notin DOMAIN legacy.stakes
          BY <1>2, <4>2 DEF With
        <4>3. QED
          BY <4>1, <4>2
      <3>3. k = key
        BY <2>1, <3>2
      <3>4. StakeOf(k)' = fresh
        BY <1>2, <3>3 DEF StakeOf, With
      <3>5. store'.Stake[id] = fresh /\ id \in DOMAIN store'.Stake
        BY <1>6, <3>1 DEF With
      <3>6. QED
        BY <2>1, <3>2, <3>3, <3>4, <3>5
    <2>2. CASE k[1] # u
      <3>1. k \in DOMAIN legacy.stakes /\ k[1] \notin legacy.spread
        BY <1>2, <1>9, <2>2 DEF With
      <3>2. StakeId(k[1]) # id
        BY <2>2 DEF StakeId
      <3>3. StakeId(k[1]) \in DOMAIN store.Stake /\ store.Stake[StakeId(k[1])] = StakeOf(k)
        BY <1>1, <3>1 DEF StakesInv
      <3>4. StakeOf(k)' = StakeOf(k)
        BY <1>2, <2>2, <3>1 DEF StakeOf, With
      <3>5. StakeId(k[1]) \in DOMAIN store'.Stake /\ store'.Stake[StakeId(k[1])] = StakeOf(k)'
        BY <1>6, <3>2, <3>3, <3>4 DEF With
      <3>6. ASSUME NEW other \in DOMAIN legacy'.stakes, other[1] = k[1] PROVE other = k
        <4>1. other \in DOMAIN legacy.stakes
          BY <1>2, <2>2, <3>6 DEF With
        <4>2. QED
          BY <1>1, <3>1, <3>6, <4>1 DEF StakesInv
      <3>7. QED
        BY <3>5, <3>6
    <2>3. QED
      BY <2>1, <2>2
  <1>10. ASSUME NEW v \in Trader \ legacy'.spread, StakeId(v) \in DOMAIN store'.Stake
         PROVE  \E k \in DOMAIN legacy'.stakes : k[1] = v
    <2>1. CASE v = u
      <3>1. key \in DOMAIN legacy'.stakes /\ key[1] = u
        BY <1>2 DEF With
      <3>2. QED
        BY <2>1, <3>1
    <2>2. CASE v # u
      <3>1. StakeId(v) \in DOMAIN store.Stake /\ v \notin legacy.spread
        BY <1>2, <1>6, <1>10, <2>2 DEF With, StakeId
      <3>2. QED
        BY <1>1, <1>2, <3>1 DEF StakesInv, With
    <2>3. QED
      BY <2>1, <2>2
  <1>11. QED
    BY <1>7, <1>8, <1>9, <1>10 DEF StakesInv

(* A stake that is taken back, and no other.                               *)
LEMMA UnstakeKeepsStakes ==
    ASSUME Stores, ListingsInv, NEW u \in Trader, NEW pair \in Pair, Unstake(u, pair)
    PROVE  StakesInv'
  <1> DEFINE key == <<u, pair>>
             id == StakeId(u)
  <1> IsStore(store) /\ IsLegacy(legacy)
    BY DEF Stores
  <1>1. StakesInv
    BY DEF ListingsInv
  <1>2. /\ key \in DOMAIN legacy.stakes
        /\ legacy'.stakes = Without(legacy.stakes, key)
        /\ legacy'.spread = legacy.spread
        /\ store' = RemoveEntity(store, "Stake", id)
    BY DEF Unstake, Emit, IsLegacy, LegacyField, handleUnstake
  <1>3. store'.Stake = Without(store.Stake, id)
    BY <1>2, RemoveIs DEF Kind
  <1>4. DOMAIN legacy'.stakes \subseteq Trader \X Pair
    BY <1>1, <1>2 DEF Without, Restrict, StakesInv
  <1>5. \A i \in DOMAIN store'.Stake : i = StakeId(store'.Stake[i].staker)
    BY <1>1, <1>3 DEF Without, Restrict, StakesInv
  <1>6. ASSUME NEW k \in DOMAIN legacy'.stakes, k[1] \notin legacy'.spread
        PROVE  /\ StakeId(k[1]) \in DOMAIN store'.Stake
               /\ store'.Stake[StakeId(k[1])] = StakeOf(k)'
               /\ \A other \in DOMAIN legacy'.stakes : other[1] = k[1] => other = k
    <2>1. k \in DOMAIN legacy.stakes /\ k # key /\ k[1] \notin legacy.spread
      BY <1>2, <1>6 DEF Without, Restrict
    <2>2. /\ StakeId(k[1]) \in DOMAIN store.Stake /\ store.Stake[StakeId(k[1])] = StakeOf(k)
          /\ \A other \in DOMAIN legacy.stakes : other[1] = k[1] => other = k
      BY <1>1, <2>1 DEF StakesInv
    <2>3. k[1] # u
      <3>1. CASE k[1] = u
        BY <1>2, <2>1, <2>2, <3>1
      <3>2. QED
        BY <3>1
    <2>4. StakeId(k[1]) # id
      BY <2>3 DEF StakeId
    <2>5. StakeOf(k)' = StakeOf(k)
      BY <1>2, <2>1 DEF StakeOf, Without, Restrict
    <2>6. StakeId(k[1]) \in DOMAIN store'.Stake /\ store'.Stake[StakeId(k[1])] = StakeOf(k)'
      BY <1>3, <2>2, <2>4, <2>5 DEF Without, Restrict
    <2>7. QED
      BY <1>2, <2>2, <2>6 DEF Without, Restrict
  <1>7. ASSUME NEW v \in Trader \ legacy'.spread, StakeId(v) \in DOMAIN store'.Stake
        PROVE  \E k \in DOMAIN legacy'.stakes : k[1] = v
    <2>1. v # u /\ StakeId(v) \in DOMAIN store.Stake
      BY <1>3, <1>7 DEF Without, Restrict
    <2>2. PICK k \in DOMAIN legacy.stakes : k[1] = v
      BY <1>1, <1>2, <1>7, <2>1 DEF StakesInv
    <2>3. k # key
      BY <2>1, <2>2
    <2>4. QED
      BY <1>2, <2>2, <2>3 DEF Without, Restrict
  <1>8. QED
    BY <1>4, <1>5, <1>6, <1>7 DEF StakesInv

(* Nothing is listed in the beginning.                                     *)
LEMMA InitListings == ASSUME SubgraphInit PROVE ListingsInv
  <1>1. store = EmptyStore /\ LegacyInit
    BY DEF SubgraphInit
  <1>2. /\ legacy.indexes = {} /\ legacy.locators = NoEntity /\ legacy.stakes = NoEntity
        /\ legacy.spread = {} /\ legacy.blacklist = {}
    BY <1>1 DEF LegacyInit
  <1>3. /\ store.Index = NoEntity /\ store.Locator = NoEntity /\ store.Stake = NoEntity
        /\ store.Token = NoEntity
    BY <1>1 DEF EmptyStore, Kind
  <1>4. QED
    BY <1>2, <1>3 DEF ListingsInv, IndexesInv, LocatorsInv, StakesInv, TokensInv, NoEntity,
       TokensTyped, Blacklisted

(* The events of the other contracts may create the tokens they name.      *)
LEMMA OtherEventsVisit ==
    ASSUME LightAssumption, SubgraphAssumption, Stores,
           SwapNext \/ DelegateNext \/ LockerNext \/ LightNext
    PROVE  TokensTyped(store) => TokensTyped(store') /\ Blacklisted(store') = Blacklisted(store)
  <1> IsStore(store)
    BY DEF Stores
  <1>1. ASSUME NEW kinds, SameBut(store', store, kinds), "Token" \notin kinds
        PROVE  TokensTyped(store) => TokensTyped(store') /\ Blacklisted(store') = Blacklisted(store)
    <2>1. store'.Token = store.Token
      BY <1>1 DEF SameBut, Kind
    <2>2. QED
      BY <2>1 DEF TokensTyped, Blacklisted
  <1>2. ASSUME Visits(store', store)
        PROVE  TokensTyped(store) => TokensTyped(store') /\ Blacklisted(store') = Blacklisted(store)
    BY <1>2 DEF Visits, SameViews
  <1>3. CASE SwapNext
    <2>1. ASSUME NEW u, NEW s, \/ AuthorizeSender(u, s) \/ RevokeSender(u, s)
                               \/ AuthorizeSigner(u, s) \/ RevokeSigner(u, s)
                               \/ CancelNonce(u, s) \/ CancelUpTo(u, s)
          PROVE  SameBut(store', store, {"User"})
      BY <2>1, SwapHandlersKeep DEF AuthorizeSender, RevokeSender, AuthorizeSigner,
         RevokeSigner, CancelNonce, CancelUpTo, Emit
    <2>2. ASSUME NEW e, SwapOrder(e) PROVE Visits(store', store)
      BY <2>2, HandlersVisit DEF SwapOrder, Emit
    <2>3. SameBut(store', store, {"User"}) \/ Visits(store', store)
      BY <1>3, <2>1, <2>2 DEF SwapNext
    <2>4. QED
      BY <1>1, <1>2, <2>3
  <1>4. CASE DelegateNext
    <2>1. ASSUME NEW d, NEW u, NEW pair, NEW x, CreateDelegate(d, u) \/ SetRule(d, pair, x)
          PROVE  Visits(store', store)
      BY <2>1, HandlersVisit DEF CreateDelegate, SetRule, Emit
    <2>2. ASSUME NEW d, NEW pair, NEW x, UnsetRule(d, pair) \/ ProvideOrder(d, pair, x)
          PROVE  SameBut(store', store, {"Rule"})
      BY <2>2, DelegateHandlersKeep DEF UnsetRule, ProvideOrder, Emit
    <2>3. SameBut(store', store, {"Rule"}) \/ Visits(store', store)
      BY <1>4, <2>1, <2>2 DEF DelegateNext
    <2>4. QED
      BY <1>1, <1>2, <2>3
  <1>5. CASE LockerNext
    BY <1>1, <1>5, LockerEventsChange DEF StepChanges
  <1>6. CASE LightNext
    <2>1. ASSUME NEW sender, NEW o, NEW sig, IndexedSwap(sender, o, sig)
          PROVE  Visits(store', store)
      BY <2>1, HandlersVisit DEF IndexedSwap
    <2>2. ASSUME NEW c \in Cancellation, IndexedCancel(c[1], c[2])
          PROVE  SameBut(store', store, {"User"})
      <3>1. IsFiniteSet(CancelEvents(c[1], c[2]))
        BY FS_Subset DEF SubgraphAssumption, CancelEvents
      <3>2. store' = CancelAll(store, c[1], CancelEvents(c[1], c[2]))
        BY <2>2 DEF IndexedCancel, CancelAll
      <3>3. QED
        BY <3>1, <3>2, CancelAllKeeps
    <2>3. CASE UnindexedLight \/ \E t \in SupportedToken, p \in OraclePrice : OracleRound(t, p)
      <3>1. store' = store
        BY <2>3 DEF UnindexedLight, OracleRound
      <3>2. QED
        BY <3>1 DEF TokensTyped, Blacklisted
    <2>4. QED
      BY <1>1, <1>2, <1>6, <2>1, <2>2, <2>3 DEF LightNext
  <1>7. QED
    BY <1>3, <1>4, <1>5, <1>6

(* The events of the indexer, by the lemmas above.                         *)
LEMMA IndexerEventsKeepListings ==
    ASSUME LegacyAssumption, Stores, ListingsInv, IndexerNext
    PROVE  ListingsInv'
  <1> IsStore(store) /\ IsLegacy(legacy)
    BY DEF Stores
  <1>1. ASSUME NEW fields, NEW kinds, StepChanges(fields, kinds)
        PROVE  /\ "indexes" \notin fields /\ "Index" \notin kinds => IndexesInv'
               /\ "locators" \notin fields /\ "Locator" \notin kinds => LocatorsInv'
               /\ fields \cap {"stakes", "spread"} = {} /\ "Stake" \notin kinds => StakesInv'
               /\ "blacklist" \notin fields /\ Visits(store', store) => TokensInv'
    <2>1. /\ "indexes" \notin fields /\ "Index" \notin kinds => IndexesUntouched
          /\ "locators" \notin fields /\ "Locator" \notin kinds => LocatorsUntouched
          /\ fields \cap {"stakes", "spread"} = {} /\ "Stake" \notin kinds => StakesUntouched
          /\ "blacklist" \notin fields /\ Visits(store', store) => TokensUntouched
      BY <1>1 DEF StepChanges, LegacyBut, SameBut, Kind, LegacyField, IndexesUntouched,
         LocatorsUntouched, StakesUntouched, TokensUntouched
    <2>2. QED
      BY <2>1, UntouchedKeepsListings
  <1>2. ASSUME NEW t, AddTokenToBlacklist(t) \/ RemoveTokenFromBlacklist(t)
        PROVE  ListingsInv'
    <2>1. LegacyBut(legacy', legacy, {"blacklist"})
      BY <1>2 DEF AddTokenToBlacklist, RemoveTokenFromBlacklist, Emit,
         LegacyBut, IsLegacy, LegacyField
    <2>2. SameBut(store', store, {"Token"})
      BY <1>2, IndexerHandlersKeep DEF AddTokenToBlacklist, RemoveTokenFromBlacklist, Emit
    <2>3. StepChanges({"blacklist"}, {"Token"})
      BY <2>1, <2>2 DEF StepChanges
    <2>4. IndexesInv' /\ LocatorsInv' /\ StakesInv'
      BY <1>1, <2>3
    <2>5. TokensInv'
      BY <1>2, BlacklistEventsKeepTokens
    <2>6. QED
      BY <2>4, <2>5 DEF ListingsInv
  <1>3. ASSUME NEW pair \in Pair, CreateIndex(pair) PROVE ListingsInv'
    <2>1. LegacyBut(legacy', legacy, {"indexes"})
      BY <1>3 DEF CreateIndex, Emit, LegacyBut, IsLegacy, LegacyField
    <2>2. SameBut(store', store, {"Token", "Indexer", "Index"}) /\ Visits(store', store)
      BY <1>3, IndexerHandlersKeep, HandlersVisit DEF CreateIndex, Emit
    <2>3. StepChanges({"indexes"}, {"Token", "Indexer", "Index"})
      BY <2>1, <2>2 DEF StepChanges
    <2>4. TokensInv' /\ LocatorsInv' /\ StakesInv'
      BY <1>1, <2>2, <2>3
    <2>5. IndexesInv'
      BY <1>3, CreateIndexKeepsIndexes
    <2>6. QED
      BY <2>4, <2>5 DEF ListingsInv
  <1>4. ASSUME NEW pair \in Pair, NEW u \in Trader, NEW x, StakeOn(u, pair, x) \/ Unstake(u, pair)
        PROVE  ListingsInv'
    <2>1. LegacyBut(legacy', legacy, {"stakes", "spread"})
      BY <1>4 DEF StakeOn, Unstake, Emit, LegacyBut, IsLegacy, LegacyField
    <2>2. store' = handleStake(store, u, pair, x) \/ store' = handleUnstake(store, u)
      BY <1>4 DEF StakeOn, Unstake, Emit
    <2>3. \/ /\ SameBut(store', store, {"User", "Token", "Indexer", "Stake"})
             /\ Visits(store', store)
          \/ SameBut(store', store, {"Stake"})
      BY <2>2, IndexerHandlersKeep, HandlersVisit
    <2>4. Visits(store', store)
      BY <2>3, OtherKindsVisit
    <2>5. SameBut(store', store, {"User", "Token", "Indexer", "Stake"})
      BY <2>3 DEF SameBut
    <2>6. StepChanges({"stakes", "spread"}, {"User", "Token", "Indexer", "Stake"})
      BY <2>1, <2>5 DEF StepChanges
    <2>7. TokensInv' /\ LocatorsInv' /\ IndexesInv'
      BY <1>1, <2>4, <2>6
    <2>8. StakesInv'
      BY <1>4, StakeOnKeepsStakes, UnstakeKeepsStakes
    <2>9. QED
      BY <2>7, <2>8 DEF ListingsInv
  <1>5. ASSUME NEW pair \in Pair, NEW u \in Trader, NEW x,
               SetLocator(u, pair, x) \/ UnsetLocator(u, pair)
        PROVE  ListingsInv'
    <2>1. LegacyBut(legacy', legacy, {"locators"})
      BY <1>5 DEF SetLocator, UnsetLocator, Emit, LegacyBut, IsLegacy, LegacyField
    <2>2. \/ store' = handleSetLocator(store, u, pair, x)
          \/ store' = handleUnsetLocator(store, u, pair)
      BY <1>5 DEF SetLocator, UnsetLocator, Emit
    <2>3. \/ /\ SameBut(store', store, {"User", "Locator"})
             /\ Visits(store', store)
          \/ SameBut(store', store, {"Locator"})
      BY <2>2, IndexerHandlersKeep, HandlersVisit
    <2>4. Visits(store', store)
      BY <2>3, OtherKindsVisit
    <2>5. SameBut(store', store, {"User", "Locator"})
      BY <2>3 DEF SameBut
    <2>6. StepChanges({"locators"}, {"User", "Locator"})
      BY <2>1, <2>5 DEF StepChanges
    <2>7. TokensInv' /\ StakesInv' /\ IndexesInv'
      BY <1>1, <2>4, <2>6
    <2>8. LocatorsInv'
      BY <1>5, LocatorEventsKeepLocators
    <2>9. QED
      BY <2>7, <2>8 DEF ListingsInv
  <1>6. legacy.indexes \subseteq Pair
    BY DEF ListingsInv, IndexesInv
  <1>7. QED
    BY <1>2, <1>3, <1>4, <1>5, <1>6 DEF IndexerNext

(* Every step keeps the listings.                                          *)
LEMMA StepKeepsListings ==
    ASSUME LightAssumption, LegacyAssumption, SubgraphAssumption,
           Stores, ListingsInv, [SubgraphNext]_subgraphVars
    PROVE  ListingsInv'
  <1>1. CASE IndexerNext
    BY <1>1, IndexerEventsKeepListings
  <1>2. CASE SwapNext \/ DelegateNext \/ LockerNext \/ LightNext
    <2>1. \E fields, kinds :
            /\ StepChanges(fields, kinds)
            /\ fields \cap {"indexes", "locators", "stakes", "spread", "blacklist"} = {}
            /\ kinds \cap {"Index", "Locator", "Stake"} = {}
      <3>1. CASE SwapNext
        BY <3>1, SwapEventsChange
      <3>2. CASE DelegateNext
        BY <3>2, DelegateEventsChange
      <3>3. CASE LockerNext
        BY <3>3, LockerEventsChange
      <3>4. CASE LightNext
        BY <3>4, LightEventsChange
      <3>5. QED
        BY <1>2, <3>1, <3>2, <3>3, <3>4
    <2>2. IndexesUntouched /\ LocatorsUntouched /\ StakesUntouched
          /\ legacy'.blacklist = legacy.blacklist
      BY <2>1 DEF StepChanges, LegacyBut, SameBut, Kind, LegacyField, IndexesUntouched,
         LocatorsUntouched, StakesUntouched
    <2>3. TokensInv'
      <3>1. TokensTyped(store) /\ Blacklisted(store) = legacy.blacklist
        BY DEF ListingsInv, TokensInv
      <3>2. TokensTyped(store') /\ Blacklisted(store') = legacy'.blacklist
        BY <1>2, <2>2, <3>1, OtherEventsVisit
      <3>3. QED
        BY <3>2 DEF TokensInv, TokensTyped, Blacklisted
    <2>4. QED
      BY <2>2, <2>3, UntouchedKeepsListings DEF ListingsInv
  <1>3. CASE UNCHANGED subgraphVars
    BY <1>3 DEF subgraphVars, ListingsInv, IndexesInv, LocatorsInv, StakesInv, TokensInv,
       StakeOf, TokensTyped, Blacklisted
  <1>4. QED
    BY <1>1, <1>2, <1>3 DEF SubgraphNext, LegacyNext

(* The indexes, locators, stakes and blacklisted tokens of the store are   *)
(* those of the contracts; of the stakes, as long as their staker never    *)
(* had two at once, for their entities have the staker's name alone.       *)
THEOREM ListingsAreKept == SubgraphSpec => []ListingsAreIndexed
  <1>1. SubgraphInit => Stores /\ ListingsInv
    BY InitRules, InitListings
  <1>2. Stores /\ ListingsInv /\ [SubgraphNext]_subgraphVars => (Stores /\ ListingsInv)'
    BY LightAssumption, LegacyAssumption, SubgraphAssumption, StepKeepsStores, StepKeepsListings
  <1>3. ListingsInv => ListingsAreIndexed
    BY LegacyAssumption, ListingsInvImplies
  <1>4. QED
    BY <1>1, <1>2, <1>3, PTL DEF SubgraphSpec

-----------------------------------------------------------------------------
(* The swaps of Light.                                                     *)

(* The subgraph lets Light do what it does without it.                     *)
LEMMA StepOfLight ==
    ASSUME [SubgraphNext]_subgraphVars PROVE [Next]_vars
  <1>1. CASE UNCHANGED subgraphVars
    BY <1>1 DEF subgraphVars
  <1>2. CASE LegacyNext
    BY <1>2 DEF LegacyNext
  <1>3. CASE LightNext
    <2>1. ASSUME NEW sender \in Wallet, NEW o \in {s.order : s \in Signature},
                 NEW sig \in Signature, IndexedSwap(sender, o, sig)
          PROVE  Next
      BY <2>1 DEF IndexedSwap, Next, NextBy
    <2>2. ASSUME NEW c \in Cancellation, IndexedCancel(c[1], c[2]) PROVE Next
      BY <2>2 DEF IndexedCancel, Next, NextBy
    <2>3. ASSUME UnindexedLight PROVE Next
      BY <2>3 DEF UnindexedLight, Next, NextBy
    <2>4. ASSUME NEW t, NEW price, OracleRound(t, price) PROVE UNCHANGED vars
      BY <2>4 DEF OracleRound
    <2>5. QED
      BY <1>3, <2>1, <2>2, <2>3, <2>4 DEF LightNext
  <1>4. QED
    BY <1>1, <1>2, <1>3 DEF SubgraphNext

(* An order that was filled once stays filled once.                        *)
LEMMA FilledStays ==
    ASSUME LightAssumption, IInv, [Next]_vars,
           NEW s \in Address, NEW n \in Nonce, filled[s][n] = 1
    PROVE  filled'[s][n] = 1
  <1>1. TypeOK /\ NonceStep
    BY StepOfNonces DEF IInv
  <1>2. nonceUsed(s, n)
    <2>1. filled[s][n] \in Nat /\ cancelled[s][n] \in Nat
      BY <1>1, LogsAreNat
    <2>2. filled[s][n] + cancelled[s][n] = IF nonceUsed(s, n) THEN 1 ELSE 0
      BY DEF IInv, OneEventPerUsedNonce
    <2>3. QED
      BY <2>1, <2>2
  <1>3. CASE \E r \in Address, m \in Nonce : Fills(r, m)
    <2>1. PICK r \in Address, m \in Nonce : Fills(r, m)
      BY <1>3
    <2>2. ~(s = r /\ n = m)
      BY <1>2, <2>1 DEF Fills
    <2>3. filled'[s][n] = filled[s][n] + (IF s = r /\ n = m THEN 1 ELSE 0)
      BY <1>1, <2>1, EffectOfFill
    <2>4. QED
      BY <2>2, <2>3
  <1>4. CASE \E r \in Address, batch \in SUBSET Nonce : Cancels(r, batch)
    BY <1>4 DEF Cancels
  <1>5. CASE UNCHANGED <<nonceGroups, history>>
    BY <1>5 DEF history
  <1>6. QED
    BY <1>1, <1>3, <1>4, <1>5 DEF NonceStep

CountsOnce(r, m) ==
    \A s \in Address, n \in Nonce :
      filled'[s][n] = filled[s][n] + (IF s = r /\ n = m THEN 1 ELSE 0)

(* A nonce is marked by a fill for the first time: its count is one.       *)
LEMMA FillCounts ==
    ASSUME LightAssumption, IInv, NEW r \in Address, NEW m \in Nonce, Fills(r, m)
    PROVE  CountsOnce(r, m) /\ filled'[r][m] = 1
  <1>1. TypeOK
    BY DEF IInv
  <1>2. CountsOnce(r, m)
    BY <1>1, EffectOfFill DEF CountsOnce
  <1>3. filled[r][m] \in Nat /\ cancelled[r][m] \in Nat
    BY <1>1, LogsAreNat
  <1>4. filled[r][m] + cancelled[r][m] = 0
    BY DEF IInv, OneEventPerUsedNonce, Fills
  <1>5. filled'[r][m] = filled[r][m] + 1
    BY <1>2 DEF CountsOnce
  <1>6. QED
    BY <1>2, <1>3, <1>4, <1>5

(* A swap fills one order that was signed, for the first time.             *)
LEMMA SwapFillsSigned ==
    ASSUME LightAssumption, IInv, NEW sender \in Wallet,
           NEW order \in {s.order : s \in Signature}, NEW sig \in Signature,
           Swap(sender, order, sig)
    PROVE  /\ order \in OrderType /\ sig.signatory \in Wallet
           /\ sig.order = OrderHash(order, sender)
           /\ now < order.expiry
           /\ CountsOnce(sig.signatory, order.nonce)
           /\ filled'[sig.signatory][order.nonce] = 1
  <1>1. order \in OrderType /\ order.nonce \in Nonce /\ TypeOK
    BY DEF LightAssumption, SignatureType, OrderType, IInv
  <1>2. CanSwap(sender, sender, order, sig)
    BY DEF Swap, SwapWithRecipient
  <1>3. /\ sig.order = OrderHash(order, sender)
        /\ Recover(OrderHash(order, sender), sig) = sig.signatory
    BY <1>1, <1>2, SwapIsSigned
  <1>4. sig.signatory \in Wallet /\ sig.signatory \in Address
    BY DEF LightAssumption, SignatureType, Address
  <1>5. Fills(sig.signatory, order.nonce)
    BY <1>3 DEF Swap, SwapWithRecipient, CanSwap, RecordSwap, Fills
  <1>6. CountsOnce(sig.signatory, order.nonce) /\ filled'[sig.signatory][order.nonce] = 1
    BY <1>1, <1>4, <1>5, FillCounts
  <1>7. now < order.expiry
    <2>1. order.expiry \in Nat
      BY <1>1 DEF OrderType
    <2>2. now \in Nat
      BY <1>1 DEF TypeOK
    <2>3. QED
      BY <1>2, <2>1, <2>2 DEF CanSwap
  <1>8. QED
    BY <1>1, <1>3, <1>4, <1>6, <1>7

(* The entity of a swap. *)
SwapEntity(e) ==
    [swap |-> "Light", nonce |-> e.nonce, expiry |-> e.timestamp,
     signer |-> e.signerWallet, signerAmount |-> e.signerAmount,
     signerToken |-> e.signerToken, signerFee |-> e.signerFee,
     sender |-> e.senderWallet, senderAmount |-> e.senderAmount,
     senderToken |-> e.senderToken]

(* The handler of a swap saves its entity under the wallet and the nonce.  *)
LEMMA SwapLightIsSaved ==
    ASSUME NEW st, IsStore(st), NEW e
    PROVE  handleSwapLight(st, e).SwapLight
             = With(st.SwapLight, <<e.signerWallet, e.nonce>>, SwapEntity(e))
  <1> DEFINE a == LoadOrCreate(st, "SwapLightContract", "Light", [id |-> "Light"])
             b == getUser(a, e.signerWallet)
             c == getUser(b, e.senderWallet)
             d == getToken(c, e.signerToken)
             f == getToken(d, e.senderToken)
             g == Save(f, "SwapLight", <<e.signerWallet, e.nonce>>, SwapEntity(e))
             day == e.timestamp \div SecondsInDay
             h == getCollectedFeesDay(g, day)
  <1> {"SwapLightContract", "SwapLight", "CollectedFeesDay"} \subseteq Kind
    BY DEF Kind
  <1>1. SameBut(a, st, {"SwapLightContract"})
    BY LoadOrCreateIs
  <1>2. SameBut(b, a, {"User"})
    BY <1>1, HelpersKeep DEF SameBut
  <1>3. SameBut(c, b, {"User"})
    BY <1>2, HelpersKeep DEF SameBut
  <1>4. SameBut(d, c, {"Token"})
    BY <1>3, HelpersKeep DEF SameBut
  <1>5. SameBut(f, d, {"Token"})
    BY <1>4, HelpersKeep DEF SameBut
  <1>6. f.SwapLight = st.SwapLight /\ IsStore(f)
    BY <1>1, <1>2, <1>3, <1>4, <1>5 DEF SameBut
  <1>7. handleSwapLight(st, e) = updateCollectedFeesDay(g, e)
    BY DEF handleSwapLight, SwapEntity, SwapLightId
  <1>8. IsStore(g) /\ g.SwapLight = With(st.SwapLight, <<e.signerWallet, e.nonce>>, SwapEntity(e))
    <2> HIDE DEF f
    <2>1. QED
      BY <1>6, SaveIs DEF SameBut
  <1>9. IsStore(h) /\ h.SwapLight = g.SwapLight
    <2> HIDE DEF g
    <2>1. QED
      BY <1>8, HelpersKeep DEF SameBut
  <1>10. PICK date, amount :
           updateCollectedFeesDay(g, e)
             = [h EXCEPT !.CollectedFeesDay[day].date = date,
                         !.CollectedFeesDay[day].amount = amount]
    <2> HIDE DEF g
    <2>1. QED
      BY DEF updateCollectedFeesDay
  <1>11. updateCollectedFeesDay(g, e).SwapLight = h.SwapLight
    <2> HIDE DEF h, g
    <2>1. QED
      BY <1>9, <1>10 DEF IsStore
  <1>12. QED
    BY <1>7, <1>8, <1>9, <1>11

(* What was filled stays filled, and so does what an entity describes.     *)
LEMMA StepWithoutSwapKeepsSwaps ==
    ASSUME SwapsAreIndexed, store'.SwapLight = store.SwapLight, filled' = filled
    PROVE  SwapsAreIndexed'
  <1>1. \A w, n : FilledOrders(w, n)' = FilledOrders(w, n)
    BY DEF FilledOrders
  <1>2. \A id \in DOMAIN store'.SwapLight :
          \E sig \in FilledOrders(id[1], id[2])' : Describes(store'.SwapLight[id], sig.order)
    BY <1>1 DEF SwapsAreIndexed
  <1>3. ASSUME NEW s \in Wallet, NEW n \in Nonce, filled'[s][n] = 1
        PROVE  \E w \in Wallet :
                 /\ <<w, n>> \in DOMAIN store'.SwapLight
                 /\ \E sig \in FilledOrders(w, n)' : sig.signatory = s
    BY <1>1, <1>3 DEF SwapsAreIndexed, Exists
  <1>4. QED
    BY <1>2, <1>3 DEF SwapsAreIndexed, Exists

(* A swap adds its order to what was filled, and its entity to the store.  *)
LEMMA SwapKeepsSwaps ==
    ASSUME LightAssumption, IInv, Stores, SwapsAreIndexed,
           NEW sender \in Wallet, NEW order \in {s.order : s \in Signature},
           NEW sig \in Signature, IndexedSwap(sender, order, sig), [Next]_vars
    PROVE  SwapsAreIndexed'
  <1> DEFINE e == SwapEvent(sender, order)
             id == <<order.signerWallet, order.nonce>>
  <1>1. /\ order \in OrderType /\ sig.signatory \in Wallet
        /\ sig.order = OrderHash(order, sender)
        /\ now < order.expiry
        /\ CountsOnce(sig.signatory, order.nonce)
        /\ filled'[sig.signatory][order.nonce] = 1
    BY SwapFillsSigned DEF IndexedSwap
  <1>2. /\ sig.order.nonce = order.nonce /\ sig.order.expiry = order.expiry
        /\ sig.order.signerWallet = order.signerWallet
        /\ sig.order.signerToken = order.signerToken
        /\ sig.order.signerAmount = order.signerAmount
        /\ sig.order.signerFee = signerFee
        /\ sig.order.senderWallet = sender
        /\ sig.order.senderToken = order.senderToken
        /\ sig.order.senderAmount = order.senderAmount
    BY <1>1 DEF OrderHash, OrderType
  <1>3. store'.SwapLight = With(store.SwapLight, id, SwapEntity(e))
    <2>1. e.signerWallet = order.signerWallet /\ e.nonce = order.nonce
      BY DEF SwapEvent
    <2>2. store' = handleSwapLight(store, e)
      BY DEF IndexedSwap
    <2> HIDE DEF e
    <2>3. QED
      BY <2>1, <2>2, SwapLightIsSaved DEF Stores
  <1>4. Describes(SwapEntity(e), sig.order)
    <2>1. SwapEntity(e) =
             [swap |-> "Light", nonce |-> order.nonce, expiry |-> now,
              signer |-> order.signerWallet, signerAmount |-> order.signerAmount,
              signerToken |-> order.signerToken, signerFee |-> signerFee,
              sender |-> sender, senderAmount |-> order.senderAmount,
              senderToken |-> order.senderToken]
      BY DEF SwapEntity, SwapEvent
    <2> HIDE DEF e
    <2>2. QED
      BY <1>1, <1>2, <2>1 DEF Describes
  <1>5. order.nonce \in Nonce /\ order.signerWallet \in Wallet
    BY <1>1 DEF OrderType
  <1>6. \A s \in Wallet, n \in Nonce : filled[s][n] = 1 => filled'[s][n] = 1
    BY FilledStays DEF Address
  <1>7. \A x \in Signature : x.signatory \in Wallet /\ x.order.nonce \in Nonce
    BY DEF LightAssumption, SignatureType, OrderType
  <1>8. ASSUME NEW w, NEW n, NEW x \in FilledOrders(w, n) PROVE x \in FilledOrders(w, n)'
    BY <1>6, <1>7 DEF FilledOrders
  <1>9. sig \in FilledOrders(order.signerWallet, order.nonce)'
    BY <1>1, <1>2 DEF FilledOrders
  <1>10. ASSUME NEW i \in DOMAIN store'.SwapLight
         PROVE  \E x \in FilledOrders(i[1], i[2])' : Describes(store'.SwapLight[i], x.order)
    <2>1. CASE i = id
      <3>1. store'.SwapLight[i] = SwapEntity(e) /\ i[1] = order.signerWallet /\ i[2] = order.nonce
        BY <1>3, <2>1 DEF With
      <3> HIDE DEF e, id
      <3>2. QED
        BY <1>4, <1>9, <3>1
    <2>2. CASE i # id
      <3>1. i \in DOMAIN store.SwapLight /\ store'.SwapLight[i] = store.SwapLight[i]
        BY <1>3, <2>2 DEF With
      <3>2. PICK x \in FilledOrders(i[1], i[2]) : Describes(store.SwapLight[i], x.order)
        BY <3>1 DEF SwapsAreIndexed
      <3>3. QED
        BY <1>8, <3>1, <3>2
    <2>3. QED
      BY <2>1, <2>2
  <1>11. ASSUME NEW s \in Wallet, NEW n \in Nonce, filled'[s][n] = 1
         PROVE  \E w \in Wallet :
                  /\ <<w, n>> \in DOMAIN store'.SwapLight
                  /\ \E x \in FilledOrders(w, n)' : x.signatory = s
    <2>1. CASE s = sig.signatory /\ n = order.nonce
      <3>1. <<order.signerWallet, n>> \in DOMAIN store'.SwapLight
        BY <1>3, <2>1 DEF With
      <3>2. QED
        BY <1>5, <1>9, <2>1, <3>1
    <2>2. CASE ~(s = sig.signatory /\ n = order.nonce)
      <3>1. filled'[s][n] = filled[s][n] + 0
        BY <1>1, <2>2 DEF CountsOnce, Address
      <3>2. filled[s][n] = 1
        <4>1. filled[s][n] \in Nat
          BY LogsAreNat DEF IInv, Address
        <4>2. QED
          BY <1>11, <3>1, <4>1
      <3>3. PICK w \in Wallet : /\ <<w, n>> \in DOMAIN store.SwapLight
                                /\ \E x \in FilledOrders(w, n) : x.signatory = s
        BY <3>2 DEF SwapsAreIndexed, Exists
      <3>4. <<w, n>> \in DOMAIN store'.SwapLight
        BY <1>3, <3>3 DEF With
      <3>5. QED
        BY <1>8, <3>3, <3>4
    <2>3. QED
      BY <2>1, <2>2
  <1>12. QED
    BY <1>10, <1>11 DEF SwapsAreIndexed, Exists

(* Every step keeps the swaps.                                             *)
LEMMA StepKeepsSwaps ==
    ASSUME LightAssumption, SubgraphAssumption, IInv, Stores, SwapsAreIndexed,
           [SubgraphNext]_subgraphVars
    PROVE  SwapsAreIndexed'
  <1>1. [Next]_vars
    BY StepOfLight
  <1>2. ASSUME NEW fields, NEW kinds, StepChanges(fields, kinds), "SwapLight" \notin kinds
        PROVE  store'.SwapLight = store.SwapLight
    BY <1>2 DEF StepChanges, SameBut, Kind
  <1>3. CASE LegacyNext
    <2>1. store'.SwapLight = store.SwapLight
      BY <1>2, <1>3, SwapEventsChange, IndexerEventsChange, DelegateEventsChange,
         LockerEventsChange DEF LegacyNext
    <2>2. filled' = filled
      BY <1>3 DEF LegacyNext, vars, history
    <2>3. QED
      BY <2>1, <2>2, StepWithoutSwapKeepsSwaps
  <1>4. CASE LightNext
    <2>1. ASSUME NEW sender \in Wallet, NEW o \in {s.order : s \in Signature},
                 NEW sig \in Signature, IndexedSwap(sender, o, sig)
          PROVE  SwapsAreIndexed'
      BY <1>1, <2>1, SwapKeepsSwaps
    <2>2. ASSUME NEW c \in Cancellation, IndexedCancel(c[1], c[2])
          PROVE  SwapsAreIndexed'
      <3>1. IsFiniteSet(CancelEvents(c[1], c[2]))
        BY FS_Subset DEF SubgraphAssumption, CancelEvents
      <3>2. store' = CancelAll(store, c[1], CancelEvents(c[1], c[2])) /\ filled' = filled
        BY <2>2 DEF IndexedCancel, CancelAll, Cancel
      <3>3. SameBut(store', store, {"User"})
        BY <3>1, <3>2, CancelAllKeeps DEF Stores
      <3>4. store'.SwapLight = store.SwapLight
        BY <3>3 DEF SameBut, Kind
      <3>5. QED
        BY <3>2, <3>4, StepWithoutSwapKeepsSwaps
    <2>3. ASSUME UnindexedLight PROVE store' = store /\ filled' = filled
      BY <2>3 DEF UnindexedLight, Revoke, SetFee, SetFeeWallet, Authorize, ApproveLight, Fork,
         Tick, history
    <2>4. ASSUME NEW t, NEW price, OracleRound(t, price)
          PROVE  store' = store /\ filled' = filled
      BY <2>4 DEF OracleRound, vars, history
    <2>5. QED
      BY <1>4, <2>1, <2>2, <2>3, <2>4, StepWithoutSwapKeepsSwaps DEF LightNext
  <1>5. CASE UNCHANGED subgraphVars
    BY <1>5, StepWithoutSwapKeepsSwaps DEF subgraphVars, vars, history
  <1>6. QED
    BY <1>3, <1>4, <1>5 DEF SubgraphNext

(* Nothing is filled in the beginning.                                     *)
LEMMA InitSwaps == ASSUME SubgraphInit PROVE SwapsAreIndexed
  <1>1. store = EmptyStore /\ Init
    BY DEF SubgraphInit
  <1>2. DOMAIN store.SwapLight = {}
    BY <1>1 DEF EmptyStore, Kind, NoEntity
  <1>3. \A s \in Wallet, n \in Nonce : filled[s][n] = 0
    BY <1>1 DEF Init, Address
  <1>4. QED
    BY <1>2, <1>3 DEF SwapsAreIndexed

(* Every entity of a swap says what a signed order says, that was filled   *)
(* before it expired; and every filled order has an entity of its wallet   *)
(* and nonce, whatever the other handlers do to the store in between.      *)
THEOREM SwapsAreKept == SubgraphSpec => []SwapsAreIndexed
  <1>1. SubgraphInit => IInv /\ Stores /\ SwapsAreIndexed
    BY LightAssumption, InitEstablishes, InitRules, InitSwaps DEF SubgraphInit
  <1>2. IInv /\ Stores /\ SwapsAreIndexed /\ [SubgraphNext]_subgraphVars
          => (IInv /\ Stores /\ SwapsAreIndexed)'
    BY LightAssumption, SubgraphAssumption, StepOfLight, StepKeepsInvariant,
       StepKeepsStores, StepKeepsSwaps
  <1>3. QED
    BY <1>1, <1>2, PTL DEF SubgraphSpec

-----------------------------------------------------------------------------
(* The lists of a user. *)

Distinct(q) == \A i, j \in 1..Len(q) : q[i] = q[j] => i = j

(* No element of a list stands twice: said with positions.                 *)
LEMMA DistinctIsNoRepetition ==
    ASSUME NEW S, NEW q \in Seq(S)
    PROVE  NoRepetition(q) <=> Distinct(q)
  <1>1. q \in Surjection(1..Len(q), ToSet(q))
    BY DEF Surjection, ToSet
  <1>2. IsFiniteSet(1..Len(q)) /\ Cardinality(1..Len(q)) = Len(q)
    <2>1. Len(q) \in Nat
      OBVIOUS
    <2> HIDE DEF Distinct
    <2>2. IsFiniteSet(1..Len(q)) /\ Cardinality(1..Len(q)) = IF 1 > Len(q) THEN 0 ELSE Len(q) - 1 + 1
      BY <2>1, FS_Interval
    <2>3. QED
      BY <2>1, <2>2
  <1>3. NoRepetition(q) <=> q \in Injection(1..Len(q), ToSet(q))
    BY <1>1, <1>2, FS_Surjection DEF NoRepetition
  <1>4. q \in [1..Len(q) -> ToSet(q)]
    BY <1>1 DEF Surjection
  <1>5. q \in Injection(1..Len(q), ToSet(q)) <=> Distinct(q)
    BY <1>4 DEF Injection, IsInjective, Distinct
  <1>6. QED
    BY <1>3, <1>5

(* An element is listed once. *)
LEMMA ListedIs ==
    ASSUME NEW S, NEW q \in Seq(S), NEW x \in S
    PROVE  /\ Listed(q, x) \in Seq(S)
           /\ ToSet(Listed(q, x)) = ToSet(q) \union {x}
           /\ Distinct(q) => Distinct(Listed(q, x))
  <1>1. CASE Contains(q, x)
    BY <1>1 DEF Listed, Contains, ToSet
  <1>2. CASE ~Contains(q, x)
    <2>1. Listed(q, x) = Append(q, x)
      BY <1>2 DEF Listed
    <2>2. \A i \in 1..Len(q) : q[i] # x
      BY <1>2 DEF Contains
    <2> DEFINE r == Append(q, x)
    <2>3. /\ r \in Seq(S) /\ Len(r) = Len(q) + 1 /\ r[Len(q) + 1] = x
          /\ \A i \in 1..Len(q) : r[i] = q[i]
      OBVIOUS
    <2> HIDE DEF r
    <2>4. ToSet(r) = ToSet(q) \union {x}
      <3>1. Len(q) \in Nat /\ DOMAIN q = 1..Len(q) /\ DOMAIN r = 1..(Len(q) + 1)
        BY <2>3
      <3>2. 1..(Len(q) + 1) = (1..Len(q)) \union {Len(q) + 1}
        BY <3>1
      <3>3. QED
        BY <2>3, <3>1, <3>2 DEF ToSet
    <2>5. Distinct(q) => Distinct(r)
      <3>1. Len(q) \in Nat
        OBVIOUS
      <3>2. \A i \in 1..Len(r) : i \in 1..Len(q) \/ i = Len(q) + 1
        BY <2>3, <3>1
      <3>3. QED
        BY <2>2, <2>3, <3>2 DEF Distinct
    <2>6. QED
      BY <2>1, <2>3, <2>4, <2>5 DEF r
  <1>3. QED
    BY <1>1, <1>2

(* An element that stands once is listed no more.                          *)
LEMMA UnlistedIs ==
    ASSUME NEW S, NEW q \in Seq(S), NEW x, Distinct(q)
    PROVE  /\ Unlisted(q, x) \in Seq(S)
           /\ ToSet(Unlisted(q, x)) = ToSet(q) \ {x}
           /\ Distinct(Unlisted(q, x))
  <1>1. CASE \A i \in 1..Len(q) : q[i] # x
    <2>1. Unlisted(q, x) = q
      BY <1>1 DEF Unlisted, RemoveFirst
    <2>2. x \notin ToSet(q)
      BY <1>1 DEF ToSet
    <2>3. QED
      BY <2>1, <2>2
  <1>2. CASE ~ \A i \in 1..Len(q) : q[i] # x
    <2>1. PICK k \in 1..Len(q) : q[k] = x
      BY <1>2
    <2>2. \A i \in 1..Len(q) : q[i] = x <=> i = k
      BY <2>1 DEF Distinct
    <2>3. SelectInSeq(q, LAMBDA v : v = x) = k
      <3>1. {i \in 1..Len(q) : q[i] = x} = {k}
        BY <2>2
      <3>2. Min({k}) = k
        BY DEF Min
      <3>3. QED
        BY <3>1, <3>2 DEF SelectInSeq
    <2> DEFINE a == SubSeq(q, 1, k - 1)
               b == SubSeq(q, k + 1, Len(q))
               r == a \o b
               n == Len(q) - 1
    <2>4. Unlisted(q, x) = r
      BY <2>1, <2>3 DEF Unlisted, RemoveFirst, RemoveAt
    <2>5. Len(q) \in Nat /\ k \in Nat /\ k >= 1 /\ k <= Len(q)
      OBVIOUS
    <2>6. a \in Seq(S) /\ Len(a) = k - 1 /\ \A i \in 1..(k - 1) : a[i] = q[i]
      BY <2>5
    <2>7. b \in Seq(S) /\ Len(b) = Len(q) - k /\ \A i \in 1..(Len(q) - k) : b[i] = q[i + k]
      BY <2>5
    <2> HIDE DEF a, b
    <2>8. r \in Seq(S) /\ Len(r) = n
      BY <2>5, <2>6, <2>7
    <2>9. \A i \in 1..n : r[i] = IF i < k THEN q[i] ELSE q[i + 1]
      <3> SUFFICES ASSUME NEW i \in 1..n PROVE r[i] = IF i < k THEN q[i] ELSE q[i + 1]
        OBVIOUS
      <3>1. CASE i < k
        BY <2>5, <2>6, <2>7, <3>1
      <3>2. CASE i >= k
        <4>1. r[i] = b[i - (k - 1)] /\ i - (k - 1) \in 1..(Len(q) - k)
          BY <2>5, <2>6, <2>7, <3>2
        <4>2. b[i - (k - 1)] = q[i - (k - 1) + k] /\ i - (k - 1) + k = i + 1
          BY <2>5, <2>7, <4>1
        <4>3. QED
          BY <2>5, <3>2, <4>1, <4>2
      <3>3. i \in Nat
        OBVIOUS
      <3>4. i < k \/ i >= k
        BY <2>5, <3>3
      <3> HIDE DEF r
      <3>5. QED
        BY <3>1, <3>2, <3>4
    <2> HIDE DEF r
    <2> DEFINE At(i) == IF i < k THEN i ELSE i + 1
    <2>10. \A i \in 1..n : At(i) \in 1..Len(q) /\ At(i) # k /\ r[i] = q[At(i)]
      BY <2>5, <2>9
    <2>11. \A j \in 1..Len(q) : j # k => \E i \in 1..n : j = At(i)
      <3> SUFFICES ASSUME NEW j \in 1..Len(q), j # k PROVE \E i \in 1..n : j = At(i)
        OBVIOUS
      <3>1. CASE j < k
        <4>1. j \in 1..n /\ j = At(j)
          BY <2>5, <3>1
        <4>2. QED
          BY <4>1
      <3>2. CASE j > k
        <4>1. j - 1 \in 1..n /\ j = At(j - 1)
          BY <2>5, <3>2
        <4>2. QED
          BY <4>1
      <3>3. QED
        BY <2>5, <3>1, <3>2
    <2>12. \A i, j \in 1..n : At(i) = At(j) => i = j
      BY <2>5
    <2> HIDE DEF At
    <2>13. Distinct(r)
      BY <2>8, <2>10, <2>12 DEF Distinct
    <2>14. ToSet(r) = ToSet(q) \ {x}
      <3>1. DOMAIN r = 1..n /\ DOMAIN q = 1..Len(q)
        BY <2>8
      <3> HIDE DEF n
      <3>2. QED
        BY <2>2, <2>10, <2>11, <3>1 DEF ToSet
    <2>15. QED
      BY <2>4, <2>8, <2>13, <2>14
  <1>3. QED
    BY <1>1, <1>2

(* Sorting keeps the elements. *)
LEMMA SortedIs ==
    ASSUME NEW S, S \subseteq Int, NEW q \in Seq(S)
    PROVE  /\ Sorted(q) \in Seq(S)
           /\ Len(Sorted(q)) = Len(q)
           /\ ToSet(Sorted(q)) = ToSet(q)
  <1> DEFINE D == 1..Len(q)
             Upto(i) == {j \in D : q[j] < q[i] \/ (q[j] = q[i] /\ j <= i)}
             p == [i \in D |-> Place(q, i)]
  <1>1. DOMAIN q = D /\ Len(q) \in Nat /\ \A i \in D : q[i] \in Int /\ q[i] \in S
    <2>1. DOMAIN q = D /\ Len(q) \in Nat /\ \A i \in D : q[i] \in S
      OBVIOUS
    <2>2. QED
      BY <2>1
  <1>2. IsFiniteSet(D) /\ Cardinality(D) = Len(q)
    <2>1. IsFiniteSet(1..Len(q)) /\ Cardinality(1..Len(q)) = IF 1 > Len(q) THEN 0 ELSE Len(q) - 1 + 1
      BY <1>1, FS_Interval
    <2>2. QED
      BY <1>1, <2>1
  <1>3. \A i \in D : Place(q, i) = Cardinality(Upto(i))
    BY <1>1 DEF Place
  <1>4. ASSUME NEW i \in D
        PROVE  IsFiniteSet(Upto(i)) /\ Cardinality(Upto(i)) \in D
    <2>1. IsFiniteSet(Upto(i)) /\ Cardinality(Upto(i)) <= Len(q)
      BY <1>2, FS_Subset
    <2>2. i \in Upto(i)
      BY <1>1
    <2>3. Cardinality(Upto(i)) \in Nat /\ Cardinality(Upto(i)) # 0
      BY <2>1, <2>2, FS_CardinalityType, FS_EmptySet
    <2> HIDE DEF Upto
    <2>4. QED
      BY <1>1, <2>1, <2>3
  <1>5. ASSUME NEW i \in D, NEW j \in D, i # j, q[i] < q[j] \/ (q[i] = q[j] /\ i <= j)
        PROVE  Cardinality(Upto(i)) < Cardinality(Upto(j))
    <2>1. Upto(i) \subseteq Upto(j)
      <3> SUFFICES ASSUME NEW k \in D, q[k] < q[i] \/ (q[k] = q[i] /\ k <= i)
                   PROVE  q[k] < q[j] \/ (q[k] = q[j] /\ k <= j)
        OBVIOUS
      <3>1. q[k] \in Int /\ q[i] \in Int /\ q[j] \in Int /\ k \in Int /\ i \in Int /\ j \in Int
        BY <1>1
      <3>2. QED
        BY <1>5, <3>1
    <2>2. j \in Upto(j) /\ j \notin Upto(i)
      <3>1. q[i] \in Int /\ q[j] \in Int /\ i \in Int /\ j \in Int
        BY <1>1
      <3>2. QED
        BY <1>5, <3>1
    <2>3. Upto(i) # Upto(j) /\ IsFiniteSet(Upto(i)) /\ IsFiniteSet(Upto(j))
      BY <1>4, <2>2
    <2> HIDE DEF Upto
    <2>4. Cardinality(Upto(i)) \in Nat /\ Cardinality(Upto(j)) \in Nat
      BY <2>3, FS_CardinalityType
    <2>5. Cardinality(Upto(i)) <= Cardinality(Upto(j)) /\ Cardinality(Upto(i)) # Cardinality(Upto(j))
      BY <2>1, <2>3, FS_Subset
    <2>6. QED
      BY <2>4, <2>5
  <1> HIDE DEF Upto
  <1>6. p \in Injection(D, D)
    <2>1. p \in [D -> D]
      BY <1>3, <1>4
    <2>2. ASSUME NEW i \in D, NEW j \in D, i # j PROVE p[i] # p[j]
      <3>1. q[i] \in Int /\ q[j] \in Int /\ i \in Int /\ j \in Int
        BY <1>1
      <3>2. \/ q[i] < q[j] \/ (q[i] = q[j] /\ i <= j)
            \/ q[j] < q[i] \/ (q[j] = q[i] /\ j <= i)
        BY <3>1
      <3>3. Cardinality(Upto(i)) \in Int /\ Cardinality(Upto(j)) \in Int
        BY <1>4
      <3>4. Cardinality(Upto(i)) # Cardinality(Upto(j))
        BY <1>5, <2>2, <3>2, <3>3
      <3>5. QED
        BY <1>3, <3>4
    <2>3. QED
      BY <2>1, <2>2 DEF Injection, IsInjective
  <1>7. p \in Surjection(D, D)
    BY <1>2, <1>6, FS_Injection
  <1> DEFINE r == Sorted(q)
  <1>8. r = [k \in D |-> q[CHOOSE i \in D : Place(q, i) = k]]
    BY <1>1 DEF Sorted
  <1>9. ASSUME NEW k \in D
        PROVE  \E i \in D : p[i] = k /\ r[k] = q[i]
    <2>1. \E i \in D : Place(q, i) = k
      BY <1>7 DEF Surjection
    <2>2. PICK i \in D : i = CHOOSE j \in D : Place(q, j) = k
      BY <2>1
    <2>3. Place(q, i) = k
      BY <2>1, <2>2
    <2>4. QED
      BY <1>8, <2>2, <2>3
  <1> HIDE DEF r
  <1>10. \A i \in D : \E k \in D : r[k] = q[i]
    <2> SUFFICES ASSUME NEW i \in D PROVE \E k \in D : r[k] = q[i]
      OBVIOUS
    <2>1. p[i] \in D
      BY <1>6 DEF Injection
    <2>2. PICK j \in D : p[j] = p[i] /\ r[p[i]] = q[j]
      BY <1>9, <2>1
    <2>3. j = i
      BY <1>6, <2>2 DEF Injection, IsInjective
    <2>4. QED
      BY <2>1, <2>2, <2>3
  <1> HIDE DEF p
  <1>11. r \in [1..Len(q) -> S]
    BY <1>1, <1>8, <1>9
  <1>12. r \in Seq(S) /\ Len(r) = Len(q)
    BY <1>1, <1>11
  <1>13. ToSet(r) = ToSet(q)
    <2>1. DOMAIN r = D /\ DOMAIN q = D
      BY <1>1, <1>11
    <2> HIDE DEF D
    <2>2. QED
      BY <1>9, <1>10, <2>1 DEF ToSet
  <1>14. QED
    BY <1>12, <1>13 DEF r

(* A finite set has a list. *)
LEMMA SetToSeqIs ==
    ASSUME NEW S, NEW T \in SUBSET S, IsFiniteSet(T)
    PROVE  SetToSeq(T) \in Seq(S) /\ ToSet(SetToSeq(T)) = T
  <1> DEFINE n == Cardinality(T)
             f == SetToSeq(T)
  <1>1. n \in Nat
    BY FS_CardinalityType
  <1>2. ExistsBijection(1..n, T)
    BY FS_NatBijection, FS_CountingElements
  <1>3. \E g \in [1..n -> T] : IsInjective(g)
    BY <1>2 DEF ExistsBijection, Bijection, Injection
  <1>4. f \in [1..n -> T] /\ IsInjective(f)
    BY <1>3 DEF SetToSeq
  <1> HIDE DEF f
  <1>5. f \in Injection(1..n, T) /\ IsFiniteSet(1..n) /\ Cardinality(1..n) = n
    <2>1. f \in Injection(1..n, T)
      BY <1>4 DEF Injection
    <2>2. Cardinality(1..n) = IF 1 > n THEN 0 ELSE n - 1 + 1
      BY <1>1, FS_Interval
    <2> HIDE DEF n
    <2>3. QED
      BY <1>1, <2>1, <2>2, FS_Interval
  <1>6. f \in Surjection(1..n, T)
    BY <1>5, FS_Injection
  <1> HIDE DEF n
  <1>7. f \in Seq(S)
    BY <1>1, <1>4
  <1>8. ToSet(f) = T
    BY <1>4, <1>6 DEF ToSet, Surjection
  <1>9. QED
    BY <1>7, <1>8 DEF f

(* The elements of two lists, one after the other. *)
LEMMA ElementsOfBoth ==
    ASSUME NEW S, NEW a, NEW b, a \in Seq(S), b \in Seq(S)
    PROVE  a \o b \in Seq(S) /\ ToSet(a \o b) = ToSet(a) \union ToSet(b)
  <1> DEFINE r == a \o b
  <1>1. /\ r \in Seq(S) /\ Len(a) \in Nat /\ Len(b) \in Nat /\ Len(r) = Len(a) + Len(b)
        /\ \A i \in 1..Len(a) : r[i] = a[i]
        /\ \A i \in 1..Len(b) : r[i + Len(a)] = b[i]
    <2>1. r \in Seq(S) /\ Len(a) \in Nat /\ Len(b) \in Nat /\ Len(r) = Len(a) + Len(b)
      OBVIOUS
    <2>2. \A i \in 1..Len(r) : r[i] = IF i <= Len(a) THEN a[i] ELSE b[i - Len(a)]
      OBVIOUS
    <2> HIDE DEF r
    <2>3. \A i \in 1..Len(a) : i \in 1..Len(r) /\ i <= Len(a)
      BY <2>1
    <2>4. \A i \in 1..Len(b) :
             i + Len(a) \in 1..Len(r) /\ ~(i + Len(a) <= Len(a)) /\ (i + Len(a)) - Len(a) = i
      BY <2>1
    <2>5. QED
      BY <2>1, <2>2, <2>3, <2>4
  <1>2. DOMAIN a = 1..Len(a) /\ DOMAIN b = 1..Len(b) /\ DOMAIN r = 1..Len(r)
    BY <1>1
  <1> HIDE DEF r
  <1>3. \A i \in 1..Len(r) : i \in 1..Len(a) \/ \E j \in 1..Len(b) : i = j + Len(a)
    <2> SUFFICES ASSUME NEW i \in 1..Len(r), i \notin 1..Len(a)
                 PROVE  \E j \in 1..Len(b) : i = j + Len(a)
      OBVIOUS
    <2>1. i - Len(a) \in 1..Len(b) /\ i = (i - Len(a)) + Len(a)
      BY <1>1
    <2>2. QED
      BY <2>1
  <1>4. /\ \A i \in 1..Len(a) : i \in 1..Len(r)
        /\ \A i \in 1..Len(b) : i + Len(a) \in 1..Len(r)
    BY <1>1
  <1>5. ToSet(r) = ToSet(a) \union ToSet(b)
    <2>1. \A x : x \in ToSet(a) <=> \E i \in 1..Len(a) : x = a[i]
      BY <1>2 DEF ToSet
    <2>2. \A x : x \in ToSet(b) <=> \E i \in 1..Len(b) : x = b[i]
      BY <1>2 DEF ToSet
    <2>3. \A x : x \in ToSet(r) <=> \E i \in 1..Len(r) : x = r[i]
      BY <1>2 DEF ToSet
    <2>4. ToSet(r) \subseteq ToSet(a) \union ToSet(b)
      <3> SUFFICES ASSUME NEW i \in 1..Len(r) PROVE r[i] \in ToSet(a) \union ToSet(b)
        BY <2>3
      <3>1. CASE i \in 1..Len(a)
        BY <1>1, <2>1, <3>1
      <3>2. CASE \E j \in 1..Len(b) : i = j + Len(a)
        BY <1>1, <2>2, <3>2
      <3>3. QED
        BY <1>3, <3>1, <3>2
    <2>5. ToSet(a) \subseteq ToSet(r)
      BY <1>1, <1>4, <2>1, <2>3
    <2>6. ToSet(b) \subseteq ToSet(r)
      BY <1>1, <1>4, <2>2, <2>3
    <2>7. QED
      BY <2>4, <2>5, <2>6
  <1>6. QED
    BY <1>1, <1>5 DEF r

(* What the handlers of cancellations make of a list. *)
LEMMA SortedAppendIs ==
    ASSUME NEW S, S \subseteq Int, NEW q \in Seq(S), NEW n \in S
    PROVE  /\ Sorted(Append(q, n)) \in Seq(S)
           /\ ToSet(Sorted(Append(q, n))) = ToSet(q) \union {n}
           /\ Distinct(q) /\ n \notin ToSet(q) => Distinct(Sorted(Append(q, n)))
  <1> DEFINE a == Append(q, n)
             r == Sorted(a)
  <1>1. a \in Seq(S)
    OBVIOUS
  <1>2. r \in Seq(S) /\ Len(r) = Len(a) /\ ToSet(r) = ToSet(a)
    <2> HIDE DEF a
    <2>1. QED
      BY <1>1, SortedIs
  <1>3. ToSet(a) = ToSet(q) \union {n}
    <2> DEFINE b == <<n>>
    <2>1. a = q \o b /\ b \in Seq(S)
      OBVIOUS
    <2>2. ToSet(b) = {n}
      BY DEF ToSet
    <2> HIDE DEF a, b
    <2>3. ToSet(q \o b) = ToSet(q) \union ToSet(b)
      BY <2>1, ElementsOfBoth
    <2>4. QED
      BY <2>1, <2>2, <2>3
  <1>4. ASSUME Distinct(q), n \notin ToSet(q) PROVE Distinct(r)
    <2>1. ~Contains(q, n)
      BY <1>4 DEF Contains, ToSet
    <2>2. Distinct(a)
      <3>1. a = Listed(q, n)
        BY <2>1 DEF Listed
      <3> HIDE DEF a
      <3>2. QED
        BY <1>4, <3>1, ListedIs
    <2> HIDE DEF a, r
    <2>3. NoRepetition(a)
      BY <1>1, <2>2, DistinctIsNoRepetition
    <2>4. NoRepetition(r)
      BY <1>2, <2>3 DEF NoRepetition
    <2>5. QED
      BY <1>2, <2>4, DistinctIsNoRepetition
  <1> HIDE DEF a, r
  <1>5. QED
    BY <1>2, <1>3, <1>4 DEF a, r

(* What the handlers write of a user. *)
UserEntity ==
    [authorizedSigners: Seq(Trader), authorizedSenders: Seq(Trader),
     cancelledSwapNonces: Seq(Nat), cancelledSwapLightNonces: Seq(Nonce),
     amountInLocker: Int]

Rewrites(after, st, w, entity) ==
    /\ IsStore(after)
    /\ \A u : UserView(after, u) = IF u = w THEN entity ELSE UserView(st, u)

(* Whoever is got exists, and whoever existed still does. *)
LEMMA GetUserHas ==
    ASSUME NEW st, IsStore(st), NEW w
    PROVE  w \in DOMAIN getUser(st, w).User /\ DOMAIN st.User \subseteq DOMAIN getUser(st, w).User
  <1>1. getUser(st, w).User = IF w \in DOMAIN st.User THEN st.User ELSE With(st.User, w, NewUser)
    BY LoadOrCreateIs DEF getUser, NewUser, Kind
  <1>2. QED
    BY <1>1 DEF With

(* Of the views, to write a user changes the one of that user.             *)
LEMMA OneUserWritten ==
    ASSUME NEW a, NEW st, Visits(a, st), NEW w \in DOMAIN a.User, NEW entity
    PROVE  Rewrites([a EXCEPT !.User[w] = entity], st, w, entity)
  <1> DEFINE after == [a EXCEPT !.User[w] = entity]
  <1>1. "User" \in Kind /\ a = [k \in Kind |-> a[k]]
    BY DEF Visits, IsStore, Kind
  <1>2. IsStore(after) /\ after.User = [a.User EXCEPT ![w] = entity]
    BY <1>1 DEF IsStore
  <1> HIDE DEF after
  <1>3. \A u : UserView(after, u) = IF u = w THEN entity ELSE UserView(a, u)
    BY <1>2 DEF UserView
  <1>4. \A u : UserView(a, u) = UserView(st, u)
    BY DEF Visits, SameViews
  <1>5. QED
    BY <1>2, <1>3, <1>4 DEF Rewrites, after

(* Each handler of an authorization rewrites one list of one user.         *)
LEMMA SwapHandlersRewrite ==
    ASSUME NEW st, IsStore(st), NEW u, NEW v
    PROVE  LET user == UserView(st, u)
           IN  /\ Rewrites(handleAuthorizeSender(st, u, v), st, u,
                    [user EXCEPT !.authorizedSenders = Listed(user.authorizedSenders, v)])
               /\ Rewrites(handleRevokeSender(st, u, v), st, u,
                    [user EXCEPT !.authorizedSenders = Unlisted(user.authorizedSenders, v)])
               /\ Rewrites(handleAuthorizeSigner(st, u, v), st, u,
                    [user EXCEPT !.authorizedSigners = Listed(user.authorizedSigners, v)])
               /\ Rewrites(handleRevokeSigner(st, u, v), st, u,
                    [user EXCEPT !.authorizedSigners = Unlisted(user.authorizedSigners, v)])
  <1> DEFINE a == getUser(getUser(st, u), v)
             user == UserView(st, u)
  <1>1. Visits(getUser(st, u), st)
    BY HelpersVisit
  <1>2. Visits(a, st)
    BY <1>1, HelpersVisit, VisitsTwice DEF Visits
  <1>3. u \in DOMAIN a.User
    BY <1>1, GetUserHas DEF Visits
  <1>4. a.User[u] = user
    BY <1>2, <1>3 DEF Visits, SameViews, UserView
  <1>5. a = [k \in Kind |-> a[k]] /\ "User" \in Kind
    BY <1>2 DEF Visits, IsStore, Kind
  <1> DEFINE b == [user EXCEPT !.authorizedSenders = Listed(user.authorizedSenders, v)]
             c == [user EXCEPT !.authorizedSenders = Unlisted(user.authorizedSenders, v)]
             d == [user EXCEPT !.authorizedSigners = Listed(user.authorizedSigners, v)]
             e == [user EXCEPT !.authorizedSigners = Unlisted(user.authorizedSigners, v)]
  <1>6. /\ handleAuthorizeSender(st, u, v) = [a EXCEPT !.User[u] = b]
        /\ handleRevokeSender(st, u, v) = [a EXCEPT !.User[u] = c]
        /\ handleAuthorizeSigner(st, u, v) = [a EXCEPT !.User[u] = d]
        /\ handleRevokeSigner(st, u, v) = [a EXCEPT !.User[u] = e]
    <2>1. /\ handleAuthorizeSender(st, u, v)
               = [a EXCEPT !.User[u].authorizedSenders = Listed(a.User[u].authorizedSenders, v)]
          /\ handleRevokeSender(st, u, v)
               = [a EXCEPT !.User[u].authorizedSenders = Unlisted(a.User[u].authorizedSenders, v)]
          /\ handleAuthorizeSigner(st, u, v)
               = [a EXCEPT !.User[u].authorizedSigners = Listed(a.User[u].authorizedSigners, v)]
          /\ handleRevokeSigner(st, u, v)
               = [a EXCEPT !.User[u].authorizedSigners = Unlisted(a.User[u].authorizedSigners, v)]
      BY DEF handleAuthorizeSender, handleRevokeSender, handleAuthorizeSigner, handleRevokeSigner
    <2> HIDE DEF a, user
    <2>2. QED
      BY <1>4, <1>5, <2>1
  <1> HIDE DEF a, user, b, c, d, e
  <1>7. /\ Rewrites([a EXCEPT !.User[u] = b], st, u, b) /\ Rewrites([a EXCEPT !.User[u] = c], st, u, c)
        /\ Rewrites([a EXCEPT !.User[u] = d], st, u, d) /\ Rewrites([a EXCEPT !.User[u] = e], st, u, e)
    BY <1>2, <1>3, OneUserWritten
  <1>8. QED
    BY <1>6, <1>7 DEF user, b, c, d, e

(* So do those of cancellations, and those of the locker its amount.       *)
LEMMA NonceHandlersRewrite ==
    ASSUME NEW st, IsStore(st), NEW u, NEW n
    PROVE  LET user == UserView(st, u)
           IN  /\ Rewrites(handleCancel(st, n, u), st, u,
                    [user EXCEPT !.cancelledSwapNonces =
                       Sorted(Append(user.cancelledSwapNonces, n))])
               /\ Rewrites(handleCancelUpTo(st, n, u), st, u,
                    [user EXCEPT !.cancelledSwapNonces =
                       Sorted(user.cancelledSwapNonces
                                \o SetToSeq((0..(n - 1)) \ ToSet(user.cancelledSwapNonces)))])
               /\ Rewrites(handleSwapLightCancel(st, n, u), st, u,
                    [user EXCEPT !.cancelledSwapLightNonces =
                       Sorted(Append(user.cancelledSwapLightNonces, n))])
               /\ Rewrites(handleLock(st, u, n), st, u,
                    [user EXCEPT !.amountInLocker = user.amountInLocker + n])
               /\ Rewrites(handleUnlock(st, u, n), st, u,
                    [user EXCEPT !.amountInLocker = user.amountInLocker - n])
  <1> DEFINE a == getUser(st, u)
             user == UserView(st, u)
  <1>1. Visits(a, st)
    BY HelpersVisit
  <1>2. u \in DOMAIN a.User
    BY GetUserHas
  <1>3. a.User[u] = user
    BY <1>1, <1>2 DEF Visits, SameViews, UserView
  <1>4. a = [k \in Kind |-> a[k]] /\ "User" \in Kind
    BY <1>1 DEF Visits, IsStore, Kind
  <1> DEFINE old == user.cancelledSwapNonces
             b == [user EXCEPT !.cancelledSwapNonces = Sorted(Append(old, n))]
             c == [user EXCEPT !.cancelledSwapNonces =
                      Sorted(old \o SetToSeq((0..(n - 1)) \ ToSet(old)))]
             d == [user EXCEPT !.cancelledSwapLightNonces =
                      Sorted(Append(user.cancelledSwapLightNonces, n))]
             e == [user EXCEPT !.amountInLocker = user.amountInLocker + n]
             f == [user EXCEPT !.amountInLocker = user.amountInLocker - n]
  <1>5. /\ handleCancel(st, n, u) = [a EXCEPT !.User[u] = b]
        /\ handleCancelUpTo(st, n, u) = [a EXCEPT !.User[u] = c]
        /\ handleSwapLightCancel(st, n, u) = [a EXCEPT !.User[u] = d]
        /\ handleLock(st, u, n) = [a EXCEPT !.User[u] = e]
        /\ handleUnlock(st, u, n) = [a EXCEPT !.User[u] = f]
    <2> DEFINE list == a.User[u].cancelledSwapNonces
    <2>1. /\ handleCancel(st, n, u)
               = [a EXCEPT !.User[u].cancelledSwapNonces = Sorted(Append(list, n))]
          /\ handleCancelUpTo(st, n, u)
               = [a EXCEPT !.User[u].cancelledSwapNonces =
                             Sorted(list \o SetToSeq((0..(n - 1)) \ ToSet(list)))]
          /\ handleSwapLightCancel(st, n, u)
               = [a EXCEPT !.User[u].cancelledSwapLightNonces =
                             Sorted(Append(a.User[u].cancelledSwapLightNonces, n))]
          /\ handleLock(st, u, n)
               = [a EXCEPT !.User[u].amountInLocker = a.User[u].amountInLocker + n]
          /\ handleUnlock(st, u, n)
               = [a EXCEPT !.User[u].amountInLocker = a.User[u].amountInLocker - n]
      BY DEF handleCancel, handleCancelUpTo, handleSwapLightCancel, handleLock, handleUnlock
    <2> HIDE DEF a, user
    <2>2. QED
      BY <1>3, <1>4, <2>1
  <1> HIDE DEF a, user, b, c, d, e, f
  <1>6. /\ Rewrites([a EXCEPT !.User[u] = b], st, u, b) /\ Rewrites([a EXCEPT !.User[u] = c], st, u, c)
        /\ Rewrites([a EXCEPT !.User[u] = d], st, u, d) /\ Rewrites([a EXCEPT !.User[u] = e], st, u, e)
        /\ Rewrites([a EXCEPT !.User[u] = f], st, u, f)
    BY <1>1, <1>2, OneUserWritten
  <1>7. QED
    BY <1>5, <1>6 DEF user, b, c, d, e, f

(* The entity that the properties look at. *)
LEMMA UserOfIsView == ASSUME IsStore(store), NEW u PROVE UserOf(u) = UserView(store, u)
  <1>1. CASE u \in DOMAIN store.User
    BY <1>1 DEF UserOf, getUser, LoadOrCreate, Exists, UserView
  <1>2. CASE u \notin DOMAIN store.User
    <2>1. UserOf(u) = Save(store, "User", u, NewUser).User[u]
      BY <1>2 DEF UserOf, getUser, LoadOrCreate, Exists, NewUser
    <2>2. Save(store, "User", u, NewUser).User = With(store.User, u, NewUser)
      BY SaveIs DEF Kind
    <2>3. QED
      BY <1>2, <2>1, <2>2 DEF With, UserView
  <1>3. QED
    BY <1>1, <1>2

-----------------------------------------------------------------------------
(* The users of the earlier protocol.                                      *)

(* What an entity says of the events about its user.                       *)
UserSays(user, l, u) ==
    /\ ToSet(user.authorizedSenders) = {v \in Trader : <<u, v>> \in l.senders}
    /\ ToSet(user.authorizedSigners) = {v \in Trader : <<u, v>> \in l.signers}
    /\ Distinct(user.authorizedSenders) /\ Distinct(user.authorizedSigners)
    /\ ToSet(user.cancelledSwapNonces) = l.cancelled[u]
    /\ user.amountInLocker = l.locked[u]

LegacyTyped(l) == l.cancelled \in [Trader -> SUBSET Nat] /\ l.locked \in [Trader -> Int]

UsersInv ==
    /\ LegacyTyped(legacy)
    /\ \A u \in DOMAIN store.User : store.User[u] \in UserEntity
    /\ \A u \in Trader : UserSays(UserView(store, u), legacy, u)

(* A new entity says that nothing happened. *)
LEMMA NewUserIs ==
    /\ NewUser \in UserEntity
    /\ \A x \in {NewUser.authorizedSenders, NewUser.authorizedSigners,
                 NewUser.cancelledSwapNonces, NewUser.cancelledSwapLightNonces} :
          ToSet(x) = {} /\ Distinct(x)
  <1>1. <<>> \in Seq(Trader) /\ <<>> \in Seq(Nat) /\ <<>> \in Seq(Nonce)
    OBVIOUS
  <1>2. ToSet(<<>>) = {} /\ Distinct(<<>>)
    BY DEF ToSet, Distinct
  <1>3. QED
    BY <1>1, <1>2 DEF NewUser, UserEntity

(* The invariant says of each user what the property says. *)
LEMMA UsersInvImplies == ASSUME IsStore(store), UsersInv PROVE UsersAreIndexed
  <1> SUFFICES ASSUME NEW u \in Trader
        PROVE  /\ ToSet(UserOf(u).authorizedSenders) = {v \in Trader : <<u, v>> \in legacy.senders}
               /\ ToSet(UserOf(u).authorizedSigners) = {v \in Trader : <<u, v>> \in legacy.signers}
               /\ NoRepetition(UserOf(u).authorizedSenders)
               /\ NoRepetition(UserOf(u).authorizedSigners)
               /\ ToSet(UserOf(u).cancelledSwapNonces) = legacy.cancelled[u]
               /\ UserOf(u).amountInLocker = legacy.locked[u]
    BY DEF UsersAreIndexed
  <1>1. UserOf(u) = UserView(store, u)
    BY UserOfIsView
  <1>2. UserSays(UserView(store, u), legacy, u)
    BY DEF UsersInv
  <1>3. UserView(store, u) \in UserEntity
    BY NewUserIs DEF UsersInv, UserView
  <1>4. /\ UserView(store, u).authorizedSenders \in Seq(Trader)
        /\ UserView(store, u).authorizedSigners \in Seq(Trader)
    BY <1>3 DEF UserEntity
  <1>5. QED
    BY <1>1, <1>2, <1>4, DistinctIsNoRepetition DEF UserSays

(* An event that rewrites one user.                                        *)
LEMMA OneUserRewritten ==
    ASSUME UsersInv, NEW w, NEW entity \in UserEntity, Rewrites(store', store, w, entity),
           LegacyTyped(legacy'), w \in Trader => UserSays(entity, legacy', w),
           \A u \in Trader \ {w} : UserSays(UserView(store, u), legacy', u)
    PROVE  UsersInv'
  <1>1. \A u : UserView(store', u) = IF u = w THEN entity ELSE UserView(store, u)
    BY DEF Rewrites
  <1>2. \A u : UserView(store', u) \in UserEntity
    BY <1>1, NewUserIs DEF UsersInv, UserView
  <1>3. \A u \in Trader : UserSays(UserView(store', u), legacy', u)
    BY <1>1
  <1>4. \A u \in DOMAIN store'.User : store'.User[u] \in UserEntity
    BY <1>2 DEF UserView
  <1>5. QED
    BY <1>3, <1>4 DEF UsersInv, UserView, UserSays, LegacyTyped

(* An event that changes nothing that is said of users.                    *)
LEMMA UsersVisited ==
    ASSUME UsersInv, \A u : UserView(store', u) = UserView(store, u),
           legacy'.senders = legacy.senders, legacy'.signers = legacy.signers,
           legacy'.cancelled = legacy.cancelled, legacy'.locked = legacy.locked
    PROVE  UsersInv'
  <1>1. \A u : UserView(store', u) \in UserEntity
    BY NewUserIs DEF UsersInv, UserView
  <1>2. \A u \in DOMAIN store'.User : store'.User[u] \in UserEntity
    BY <1>1 DEF UserView
  <1>3. \A u \in Trader : UserSays(UserView(store', u), legacy', u)
    BY DEF UsersInv, UserSays
  <1>4. LegacyTyped(legacy')
    BY DEF UsersInv, LegacyTyped
  <1>5. QED
    BY <1>2, <1>3, <1>4 DEF UsersInv, UserView, UserSays, LegacyTyped

(* A pair of a relation, added or taken away, concerns its first alone.    *)
LEMMA OnePairChanges ==
    ASSUME NEW u \in Trader, NEW v \in Trader, NEW R
    PROVE  /\ {x \in Trader : <<u, x>> \in R \union {<<u, v>>}}
                 = {x \in Trader : <<u, x>> \in R} \union {v}
           /\ {x \in Trader : <<u, x>> \in R \ {<<u, v>>}}
                 = {x \in Trader : <<u, x>> \in R} \ {v}
           /\ \A w \in Trader \ {u} :
                /\ {x \in Trader : <<w, x>> \in R \union {<<u, v>>}} = {x \in Trader : <<w, x>> \in R}
                /\ {x \in Trader : <<w, x>> \in R \ {<<u, v>>}} = {x \in Trader : <<w, x>> \in R}
  OBVIOUS

(* A sender is authorized, or no longer. *)
LEMMA SenderEventsKeepUsers ==
    ASSUME Stores, UsersInv, NEW u \in Trader, NEW v \in Trader,
           AuthorizeSender(u, v) \/ RevokeSender(u, v)
    PROVE  UsersInv'
  <1> DEFINE user == UserView(store, u)
             old == user.authorizedSenders
             Authorized(w, R) == {x \in Trader : <<w, x>> \in R}
  <1> IsStore(store) /\ IsLegacy(legacy)
    BY DEF Stores
  <1>1. user \in UserEntity /\ UserSays(user, legacy, u) /\ LegacyTyped(legacy)
    BY NewUserIs DEF UsersInv, UserView
  <1>2. old \in Seq(Trader) /\ Distinct(old) /\ ToSet(old) = Authorized(u, legacy.senders)
    BY <1>1 DEF UserEntity, UserSays
  <1> HIDE DEF user, old
  <1>3. \E list, R :
          /\ Rewrites(store', store, u, [user EXCEPT !.authorizedSenders = list])
          /\ legacy' = [legacy EXCEPT !.senders = R]
          /\ list \in Seq(Trader) /\ Distinct(list) /\ ToSet(list) = Authorized(u, R)
          /\ \A w \in Trader \ {u} : Authorized(w, R) = Authorized(w, legacy.senders)
    <2>1. CASE AuthorizeSender(u, v)
      <3> DEFINE R == legacy.senders \union {<<u, v>>}
      <3>1. Rewrites(store', store, u, [user EXCEPT !.authorizedSenders = Listed(old, v)])
        BY <2>1, SwapHandlersRewrite DEF AuthorizeSender, Emit, user, old
      <3>2. legacy' = [legacy EXCEPT !.senders = R]
        BY <2>1 DEF AuthorizeSender, Emit
      <3>3. /\ Listed(old, v) \in Seq(Trader) /\ Distinct(Listed(old, v))
            /\ ToSet(Listed(old, v)) = Authorized(u, legacy.senders) \union {v}
        <4> HIDE DEF R, Authorized
        <4>1. /\ Listed(old, v) \in Seq(Trader) /\ ToSet(Listed(old, v)) = ToSet(old) \union {v}
              /\ Distinct(old) => Distinct(Listed(old, v))
          BY <1>2, ListedIs
        <4>2. QED
          BY <1>2, <4>1
      <3>4. /\ Authorized(u, R) = Authorized(u, legacy.senders) \union {v}
            /\ \A w \in Trader \ {u} : Authorized(w, R) = Authorized(w, legacy.senders)
        BY OnePairChanges
      <3> HIDE DEF R, Authorized
      <3>5. QED
        BY <3>1, <3>2, <3>3, <3>4
    <2>2. CASE RevokeSender(u, v)
      <3> DEFINE R == legacy.senders \ {<<u, v>>}
      <3>1. Rewrites(store', store, u, [user EXCEPT !.authorizedSenders = Unlisted(old, v)])
        BY <2>2, SwapHandlersRewrite DEF RevokeSender, Emit, user, old
      <3>2. legacy' = [legacy EXCEPT !.senders = R]
        BY <2>2 DEF RevokeSender, Emit
      <3>3. /\ Unlisted(old, v) \in Seq(Trader) /\ Distinct(Unlisted(old, v))
            /\ ToSet(Unlisted(old, v)) = Authorized(u, legacy.senders) \ {v}
        BY <1>2, UnlistedIs
      <3>4. /\ Authorized(u, R) = Authorized(u, legacy.senders) \ {v}
            /\ \A w \in Trader \ {u} : Authorized(w, R) = Authorized(w, legacy.senders)
        BY OnePairChanges
      <3> HIDE DEF R, Authorized
      <3>5. QED
        BY <3>1, <3>2, <3>3, <3>4
    <2>3. QED
      BY <2>1, <2>2
  <1>4. PICK list, R :
          /\ Rewrites(store', store, u, [user EXCEPT !.authorizedSenders = list])
          /\ legacy' = [legacy EXCEPT !.senders = R]
          /\ list \in Seq(Trader) /\ Distinct(list) /\ ToSet(list) = Authorized(u, R)
          /\ \A w \in Trader \ {u} : Authorized(w, R) = Authorized(w, legacy.senders)
    BY <1>3
  <1> DEFINE entity == [user EXCEPT !.authorizedSenders = list]
  <1>5. entity \in UserEntity
    BY <1>1, <1>4 DEF UserEntity
  <1>6. /\ legacy'.senders = R /\ legacy'.signers = legacy.signers
        /\ legacy'.cancelled = legacy.cancelled /\ legacy'.locked = legacy.locked
    BY <1>4 DEF IsLegacy, LegacyField
  <1>7. UserSays(entity, legacy', u)
    <2>1. /\ entity.authorizedSenders = list
          /\ entity.authorizedSigners = user.authorizedSigners
          /\ entity.cancelledSwapNonces = user.cancelledSwapNonces
          /\ entity.amountInLocker = user.amountInLocker
      BY <1>1 DEF UserEntity
    <2> HIDE DEF entity
    <2>2. QED
      BY <1>1, <1>4, <1>6, <2>1 DEF UserSays
  <1>8. \A w \in Trader \ {u} : UserSays(UserView(store, w), legacy', w)
    <2>1. \A w \in Trader \ {u} : UserSays(UserView(store, w), legacy, w)
      BY DEF UsersInv
    <2>2. QED
      BY <1>4, <1>6, <2>1 DEF UserSays
  <1>9. LegacyTyped(legacy')
    BY <1>1, <1>6 DEF LegacyTyped
  <1> HIDE DEF entity
  <1>10. QED
    BY <1>4, <1>5, <1>7, <1>8, <1>9, OneUserRewritten DEF entity

(* A signer is authorized, or no longer. *)
LEMMA SignerEventsKeepUsers ==
    ASSUME Stores, UsersInv, NEW u \in Trader, NEW v \in Trader,
           AuthorizeSigner(u, v) \/ RevokeSigner(u, v)
    PROVE  UsersInv'
  <1> DEFINE user == UserView(store, u)
             old == user.authorizedSigners
             Authorized(w, R) == {x \in Trader : <<w, x>> \in R}
  <1> IsStore(store) /\ IsLegacy(legacy)
    BY DEF Stores
  <1>1. user \in UserEntity /\ UserSays(user, legacy, u) /\ LegacyTyped(legacy)
    BY NewUserIs DEF UsersInv, UserView
  <1>2. old \in Seq(Trader) /\ Distinct(old) /\ ToSet(old) = Authorized(u, legacy.signers)
    BY <1>1 DEF UserEntity, UserSays
  <1> HIDE DEF user, old
  <1>3. \E list, R :
          /\ Rewrites(store', store, u, [user EXCEPT !.authorizedSigners = list])
          /\ legacy' = [legacy EXCEPT !.signers = R]
          /\ list \in Seq(Trader) /\ Distinct(list) /\ ToSet(list) = Authorized(u, R)
          /\ \A w \in Trader \ {u} : Authorized(w, R) = Authorized(w, legacy.signers)
    <2>1. CASE AuthorizeSigner(u, v)
      <3> DEFINE R == legacy.signers \union {<<u, v>>}
      <3>1. Rewrites(store', store, u, [user EXCEPT !.authorizedSigners = Listed(old, v)])
        BY <2>1, SwapHandlersRewrite DEF AuthorizeSigner, Emit, user, old
      <3>2. legacy' = [legacy EXCEPT !.signers = R]
        BY <2>1 DEF AuthorizeSigner, Emit
      <3>3. /\ Listed(old, v) \in Seq(Trader) /\ Distinct(Listed(old, v))
            /\ ToSet(Listed(old, v)) = Authorized(u, legacy.signers) \union {v}
        <4> HIDE DEF R, Authorized
        <4>1. /\ Listed(old, v) \in Seq(Trader) /\ ToSet(Listed(old, v)) = ToSet(old) \union {v}
              /\ Distinct(old) => Distinct(Listed(old, v))
          BY <1>2, ListedIs
        <4>2. QED
          BY <1>2, <4>1
      <3>4. /\ Authorized(u, R) = Authorized(u, legacy.signers) \union {v}
            /\ \A w \in Trader \ {u} : Authorized(w, R) = Authorized(w, legacy.signers)
        BY OnePairChanges
      <3> HIDE DEF R, Authorized
      <3>5. QED
        BY <3>1, <3>2, <3>3, <3>4
    <2>2. CASE RevokeSigner(u, v)
      <3> DEFINE R == legacy.signers \ {<<u, v>>}
      <3>1. Rewrites(store', store, u, [user EXCEPT !.authorizedSigners = Unlisted(old, v)])
        BY <2>2, SwapHandlersRewrite DEF RevokeSigner, Emit, user, old
      <3>2. legacy' = [legacy EXCEPT !.signers = R]
        BY <2>2 DEF RevokeSigner, Emit
      <3>3. /\ Unlisted(old, v) \in Seq(Trader) /\ Distinct(Unlisted(old, v))
            /\ ToSet(Unlisted(old, v)) = Authorized(u, legacy.signers) \ {v}
        BY <1>2, UnlistedIs
      <3>4. /\ Authorized(u, R) = Authorized(u, legacy.signers) \ {v}
            /\ \A w \in Trader \ {u} : Authorized(w, R) = Authorized(w, legacy.signers)
        BY OnePairChanges
      <3> HIDE DEF R, Authorized
      <3>5. QED
        BY <3>1, <3>2, <3>3, <3>4
    <2>3. QED
      BY <2>1, <2>2
  <1>4. PICK list, R :
          /\ Rewrites(store', store, u, [user EXCEPT !.authorizedSigners = list])
          /\ legacy' = [legacy EXCEPT !.signers = R]
          /\ list \in Seq(Trader) /\ Distinct(list) /\ ToSet(list) = Authorized(u, R)
          /\ \A w \in Trader \ {u} : Authorized(w, R) = Authorized(w, legacy.signers)
    BY <1>3
  <1> DEFINE entity == [user EXCEPT !.authorizedSigners = list]
  <1>5. entity \in UserEntity
    BY <1>1, <1>4 DEF UserEntity
  <1>6. /\ legacy'.signers = R /\ legacy'.senders = legacy.senders
        /\ legacy'.cancelled = legacy.cancelled /\ legacy'.locked = legacy.locked
    BY <1>4 DEF IsLegacy, LegacyField
  <1>7. UserSays(entity, legacy', u)
    <2>1. /\ entity.authorizedSigners = list
          /\ entity.authorizedSenders = user.authorizedSenders
          /\ entity.cancelledSwapNonces = user.cancelledSwapNonces
          /\ entity.amountInLocker = user.amountInLocker
      BY <1>1 DEF UserEntity
    <2> HIDE DEF entity
    <2>2. QED
      BY <1>1, <1>4, <1>6, <2>1 DEF UserSays
  <1>8. \A w \in Trader \ {u} : UserSays(UserView(store, w), legacy', w)
    <2>1. \A w \in Trader \ {u} : UserSays(UserView(store, w), legacy, w)
      BY DEF UsersInv
    <2>2. QED
      BY <1>4, <1>6, <2>1 DEF UserSays
  <1>9. LegacyTyped(legacy')
    BY <1>1, <1>6 DEF LegacyTyped
  <1> HIDE DEF entity
  <1>10. QED
    BY <1>4, <1>5, <1>7, <1>8, <1>9, OneUserRewritten DEF entity

(* A nonce is cancelled, or all below it. *)
LEMMA NonceEventsKeepUsers ==
    ASSUME LegacyAssumption, Stores, UsersInv, NEW u \in Trader, NEW n \in 0..MaxNonce,
           CancelNonce(u, n) \/ CancelUpTo(u, n)
    PROVE  UsersInv'
  <1> DEFINE user == UserView(store, u)
             old == user.cancelledSwapNonces
  <1> IsStore(store) /\ IsLegacy(legacy) /\ n \in Nat
    BY DEF Stores, LegacyAssumption
  <1>1. user \in UserEntity /\ UserSays(user, legacy, u) /\ LegacyTyped(legacy)
    BY NewUserIs DEF UsersInv, UserView
  <1>2. old \in Seq(Nat) /\ ToSet(old) = legacy.cancelled[u]
    BY <1>1 DEF UserEntity, UserSays
  <1> HIDE DEF user, old
  <1>3. \E list, nonces :
          /\ Rewrites(store', store, u, [user EXCEPT !.cancelledSwapNonces = list])
          /\ legacy' = [legacy EXCEPT !.cancelled[u] = nonces]
          /\ list \in Seq(Nat) /\ ToSet(list) = nonces
    <2>1. CASE CancelNonce(u, n)
      <3> DEFINE list == Sorted(Append(old, n))
      <3>1. Rewrites(store', store, u, [user EXCEPT !.cancelledSwapNonces = list])
        BY <2>1, NonceHandlersRewrite DEF CancelNonce, Emit, user, old
      <3>2. legacy' = [legacy EXCEPT !.cancelled[u] = legacy.cancelled[u] \union {n}]
        BY <2>1 DEF CancelNonce, Emit
      <3>3. list \in Seq(Nat) /\ ToSet(list) = ToSet(old) \union {n}
        BY <1>2, SortedAppendIs
      <3> HIDE DEF list
      <3>4. QED
        BY <1>2, <3>1, <3>2, <3>3
    <2>2. CASE CancelUpTo(u, n)
      <3> DEFINE new == (0..(n - 1)) \ ToSet(old)
                 more == SetToSeq(new)
                 both == old \o more
                 list == Sorted(both)
      <3>1. Rewrites(store', store, u, [user EXCEPT !.cancelledSwapNonces = list])
        BY <2>2, NonceHandlersRewrite DEF CancelUpTo, Emit, user, old
      <3>2. legacy' = [legacy EXCEPT !.cancelled[u] = legacy.cancelled[u] \union 0..(n - 1)]
        BY <2>2 DEF CancelUpTo, Emit
      <3>3. IsFiniteSet(new) /\ new \in SUBSET Nat
        <4>1. 0 \in Int /\ n - 1 \in Int
          OBVIOUS
        <4>2. IsFiniteSet(0..(n - 1))
          BY <4>1, FS_Interval
        <4>3. QED
          BY <4>2, FS_Subset
      <3>4. ToSet(old) \union new = ToSet(old) \union 0..(n - 1)
        OBVIOUS
      <3>5. more \in Seq(Nat) /\ ToSet(more) = new
        <4> HIDE DEF new
        <4>1. QED
          BY <3>3, SetToSeqIs
      <3> HIDE DEF more, new
      <3>6. both \in Seq(Nat) /\ ToSet(both) = ToSet(old) \union new
        BY <1>2, <3>5, ElementsOfBoth
      <3> HIDE DEF both
      <3>7. list \in Seq(Nat) /\ ToSet(list) = ToSet(both)
        BY <3>6, SortedIs
      <3> HIDE DEF list
      <3>8. QED
        BY <1>2, <3>1, <3>2, <3>4, <3>6, <3>7
    <2>3. QED
      BY <2>1, <2>2
  <1>4. PICK list, nonces :
          /\ Rewrites(store', store, u, [user EXCEPT !.cancelledSwapNonces = list])
          /\ legacy' = [legacy EXCEPT !.cancelled[u] = nonces]
          /\ list \in Seq(Nat) /\ ToSet(list) = nonces
    BY <1>3
  <1> DEFINE entity == [user EXCEPT !.cancelledSwapNonces = list]
  <1>5. entity \in UserEntity
    BY <1>1, <1>4 DEF UserEntity
  <1>6. /\ legacy'.cancelled = [legacy.cancelled EXCEPT ![u] = nonces]
        /\ legacy'.senders = legacy.senders /\ legacy'.signers = legacy.signers
        /\ legacy'.locked = legacy.locked
    BY <1>4 DEF IsLegacy, LegacyField
  <1>7. nonces \in SUBSET Nat
    BY <1>4 DEF ToSet
  <1>8. LegacyTyped(legacy')
    BY <1>1, <1>6, <1>7 DEF LegacyTyped
  <1>9. UserSays(entity, legacy', u)
    <2>1. /\ entity.authorizedSenders = user.authorizedSenders
          /\ entity.authorizedSigners = user.authorizedSigners
          /\ entity.cancelledSwapNonces = list
          /\ entity.amountInLocker = user.amountInLocker
      BY <1>1 DEF UserEntity
    <2>2. legacy'.cancelled[u] = nonces
      BY <1>1, <1>6 DEF LegacyTyped
    <2> HIDE DEF entity
    <2>3. QED
      BY <1>1, <1>4, <1>6, <2>1, <2>2 DEF UserSays
  <1>10. \A w \in Trader \ {u} : UserSays(UserView(store, w), legacy', w)
    <2>1. \A w \in Trader \ {u} : UserSays(UserView(store, w), legacy, w)
      BY DEF UsersInv
    <2>2. \A w \in Trader \ {u} : legacy'.cancelled[w] = legacy.cancelled[w]
      BY <1>1, <1>6 DEF LegacyTyped
    <2>3. QED
      BY <1>6, <2>1, <2>2 DEF UserSays
  <1> HIDE DEF entity
  <1>11. QED
    BY <1>4, <1>5, <1>8, <1>9, <1>10, OneUserRewritten DEF entity

(* An amount goes into the locker, or comes out of it. *)
LEMMA LockEventsKeepUsers ==
    ASSUME LegacyAssumption, Stores, UsersInv, NEW u \in Trader, NEW n \in 1..MaxAmount,
           Lock(u, n) \/ Unlock(u, n)
    PROVE  UsersInv'
  <1> DEFINE user == UserView(store, u)
  <1> IsStore(store) /\ IsLegacy(legacy) /\ n \in Int
    BY DEF Stores, LegacyAssumption
  <1>1. user \in UserEntity /\ UserSays(user, legacy, u) /\ LegacyTyped(legacy)
    BY NewUserIs DEF UsersInv, UserView
  <1>2. user.amountInLocker = legacy.locked[u] /\ legacy.locked[u] \in Int
    BY <1>1 DEF LegacyTyped, UserSays
  <1> HIDE DEF user
  <1>3. \E amount \in Int :
          /\ Rewrites(store', store, u, [user EXCEPT !.amountInLocker = amount])
          /\ legacy' = [legacy EXCEPT !.locked[u] = amount]
    <2>1. CASE Lock(u, n)
      <3> DEFINE amount == legacy.locked[u] + n
      <3>1. Rewrites(store', store, u, [user EXCEPT !.amountInLocker = user.amountInLocker + n])
        BY <2>1, NonceHandlersRewrite DEF Lock, Emit, user
      <3>2. legacy' = [legacy EXCEPT !.locked[u] = amount]
        BY <2>1 DEF Lock, Emit
      <3>3. user.amountInLocker + n = amount /\ amount \in Int
        BY <1>2
      <3> HIDE DEF amount
      <3>4. QED
        BY <3>1, <3>2, <3>3
    <2>2. CASE Unlock(u, n)
      <3> DEFINE amount == legacy.locked[u] - n
      <3>1. Rewrites(store', store, u, [user EXCEPT !.amountInLocker = user.amountInLocker - n])
        BY <2>2, NonceHandlersRewrite DEF Unlock, Emit, user
      <3>2. legacy' = [legacy EXCEPT !.locked[u] = amount]
        BY <2>2 DEF Unlock, Emit
      <3>3. user.amountInLocker - n = amount /\ amount \in Int
        BY <1>2
      <3> HIDE DEF amount
      <3>4. QED
        BY <3>1, <3>2, <3>3
    <2>3. QED
      BY <2>1, <2>2
  <1>4. PICK amount \in Int :
          /\ Rewrites(store', store, u, [user EXCEPT !.amountInLocker = amount])
          /\ legacy' = [legacy EXCEPT !.locked[u] = amount]
    BY <1>3
  <1> DEFINE entity == [user EXCEPT !.amountInLocker = amount]
  <1>5. entity \in UserEntity
    BY <1>1 DEF UserEntity
  <1>6. /\ legacy'.locked = [legacy.locked EXCEPT ![u] = amount]
        /\ legacy'.senders = legacy.senders /\ legacy'.signers = legacy.signers
        /\ legacy'.cancelled = legacy.cancelled
    BY <1>4 DEF IsLegacy, LegacyField
  <1>7. LegacyTyped(legacy')
    BY <1>1, <1>6 DEF LegacyTyped
  <1>8. UserSays(entity, legacy', u)
    <2>1. /\ entity.authorizedSenders = user.authorizedSenders
          /\ entity.authorizedSigners = user.authorizedSigners
          /\ entity.cancelledSwapNonces = user.cancelledSwapNonces
          /\ entity.amountInLocker = amount
      BY <1>1 DEF UserEntity
    <2>2. legacy'.locked[u] = amount
      BY <1>1, <1>6 DEF LegacyTyped
    <2> HIDE DEF entity
    <2>3. QED
      BY <1>1, <1>6, <2>1, <2>2 DEF UserSays
  <1>9. \A w \in Trader \ {u} : UserSays(UserView(store, w), legacy', w)
    <2>1. \A w \in Trader \ {u} : UserSays(UserView(store, w), legacy, w)
      BY DEF UsersInv
    <2>2. \A w \in Trader \ {u} : legacy'.locked[w] = legacy.locked[w]
      BY <1>1, <1>6 DEF LegacyTyped
    <2>3. QED
      BY <1>6, <2>1, <2>2 DEF UserSays
  <1> HIDE DEF entity
  <1>10. QED
    BY <1>4, <1>5, <1>7, <1>8, <1>9, OneUserRewritten DEF entity

SameUsers == \A u : UserView(store', u) = UserView(store, u)

(* The events that are not about users say nothing of them. *)
LEMMA OtherEventsKeepUsers ==
    ASSUME Stores,
           \/ IndexerNext \/ DelegateNext
           \/ \E e : SwapOrder(e)
           \/ \E value : SetThrottling(value)
    PROVE  SameUsers
  <1> IsStore(store)
    BY DEF Stores
  <1>1. ASSUME NEW kinds, SameBut(store', store, kinds), "User" \notin kinds
        PROVE  SameUsers
    <2>1. store'.User = store.User
      BY <1>1 DEF SameBut, Kind
    <2>2. QED
      BY <2>1 DEF SameUsers, UserView
  <1>2. ASSUME Visits(store', store) PROVE SameUsers
    BY <1>2 DEF Visits, SameViews, SameUsers
  <1>3. CASE IndexerNext
    <2>1. ASSUME NEW t, AddTokenToBlacklist(t) \/ RemoveTokenFromBlacklist(t)
          PROVE  SameBut(store', store, {"Token"})
      BY <2>1, IndexerHandlersKeep DEF AddTokenToBlacklist, RemoveTokenFromBlacklist, Emit
    <2>2. ASSUME NEW u, NEW pair, NEW x,
                 CreateIndex(pair) \/ StakeOn(u, pair, x) \/ SetLocator(u, pair, x)
          PROVE  Visits(store', store)
      BY <2>2, HandlersVisit DEF CreateIndex, StakeOn, SetLocator, Emit
    <2>3. ASSUME NEW u, NEW pair, Unstake(u, pair)
          PROVE  SameBut(store', store, {"Stake"})
      BY <2>3, IndexerHandlersKeep DEF Unstake, Emit
    <2>4. ASSUME NEW u, NEW pair, UnsetLocator(u, pair)
          PROVE  SameBut(store', store, {"Locator"})
      BY <2>4, IndexerHandlersKeep DEF UnsetLocator, Emit
    <2>5. \/ SameBut(store', store, {"Token"}) \/ SameBut(store', store, {"Stake"})
          \/ SameBut(store', store, {"Locator"}) \/ Visits(store', store)
      BY <1>3, <2>1, <2>2, <2>3, <2>4 DEF IndexerNext
    <2>6. QED
      BY <1>1, <1>2, <2>5
  <1>4. CASE DelegateNext
    <2>1. ASSUME NEW d, NEW u, NEW pair, NEW x, CreateDelegate(d, u) \/ SetRule(d, pair, x)
          PROVE  Visits(store', store)
      BY <2>1, HandlersVisit DEF CreateDelegate, SetRule, Emit
    <2>2. ASSUME NEW d, NEW pair, NEW x, UnsetRule(d, pair) \/ ProvideOrder(d, pair, x)
          PROVE  SameBut(store', store, {"Rule"})
      BY <2>2, DelegateHandlersKeep DEF UnsetRule, ProvideOrder, Emit
    <2>3. SameBut(store', store, {"Rule"}) \/ Visits(store', store)
      BY <1>4, <2>1, <2>2 DEF DelegateNext
    <2>4. QED
      BY <1>1, <1>2, <2>3
  <1>5. ASSUME NEW e, SwapOrder(e) PROVE SameUsers
    BY <1>2, <1>5, HandlersVisit DEF SwapOrder, Emit
  <1>6. ASSUME NEW value, SetThrottling(value) PROVE SameUsers
    <2>1. SameBut(store', store, {"Locker"})
      BY <1>6, SettingHandlersKeep DEF SetThrottling, Emit
    <2>2. QED
      BY <1>1, <2>1
  <1>7. QED
    BY <1>3, <1>4, <1>5, <1>6

(* Every step keeps the users; those of Light rewrite another list.        *)
LEMMA LegacyStepKeepsUsers ==
    ASSUME LegacyAssumption, Stores, UsersInv, LegacyNext
    PROVE  UsersInv'
  <1>1. ASSUME SameUsers, NEW fields, NEW kinds, StepChanges(fields, kinds),
               fields \cap {"senders", "signers", "cancelled", "locked"} = {}
        PROVE  UsersInv'
    <2>1. /\ legacy'.senders = legacy.senders /\ legacy'.signers = legacy.signers
          /\ legacy'.cancelled = legacy.cancelled /\ legacy'.locked = legacy.locked
      BY <1>1 DEF StepChanges, LegacyBut, LegacyField
    <2>2. QED
      BY <1>1, <2>1, UsersVisited DEF SameUsers
  <1>2. CASE SwapNext
    <2>1. ASSUME NEW u \in Trader, NEW s \in Trader,
                 \/ AuthorizeSender(u, s) \/ RevokeSender(u, s)
                 \/ AuthorizeSigner(u, s) \/ RevokeSigner(u, s)
          PROVE  UsersInv'
      BY <2>1, SenderEventsKeepUsers, SignerEventsKeepUsers
    <2>2. ASSUME NEW u \in Trader, NEW n \in 0..MaxNonce, CancelNonce(u, n) \/ CancelUpTo(u, n)
          PROVE  UsersInv'
      BY <2>2, NonceEventsKeepUsers
    <2>3. ASSUME NEW e, SwapOrder(e) PROVE UsersInv'
      <3>1. SameUsers
        BY <2>3, OtherEventsKeepUsers
      <3>2. /\ legacy'.senders = legacy.senders /\ legacy'.signers = legacy.signers
            /\ legacy'.cancelled = legacy.cancelled /\ legacy'.locked = legacy.locked
        BY <2>3 DEF SwapOrder, Emit, Stores, IsLegacy, LegacyField
      <3>3. QED
        BY <3>1, <3>2, UsersVisited DEF SameUsers
    <2>4. QED
      BY <1>2, <2>1, <2>2, <2>3 DEF SwapNext
  <1>3. CASE IndexerNext
    BY <1>1, <1>3, IndexerEventsChange, OtherEventsKeepUsers
  <1>4. CASE DelegateNext
    BY <1>1, <1>4, DelegateEventsChange, OtherEventsKeepUsers
  <1>5. CASE LockerNext
    <2>1. ASSUME NEW value, SetThrottling(value) PROVE UsersInv'
      <3>1. SameUsers /\ legacy' = legacy
        BY <2>1, OtherEventsKeepUsers DEF SetThrottling, Emit
      <3>2. QED
        BY <3>1, UsersVisited DEF SameUsers
    <2>2. QED
      BY <1>5, <2>1, LockEventsKeepUsers DEF LockerNext
  <1>6. QED
    BY <1>2, <1>3, <1>4, <1>5 DEF LegacyNext

-----------------------------------------------------------------------------
(* The cancellations of Light.                                             *)

(* The store after some cancellations of a wallet: its list has their      *)
(* nonces too, and none twice if they are new.                             *)
LightListed(after, base, w, nonces) ==
    LET user == UserView(base, w)
        old == user.cancelledSwapLightNonces
    IN  \E list \in Seq(Nonce) :
          /\ Rewrites(after, base, w, [user EXCEPT !.cancelledSwapLightNonces = list])
          /\ ToSet(list) = ToSet(old) \union nonces
          /\ Distinct(old) /\ ToSet(old) \cap nonces = {} => Distinct(list)

(* Before the first cancellation.                                          *)
LEMMA NoCancellation ==
    ASSUME NEW base, IsStore(base), NEW w, UserView(base, w) \in UserEntity
    PROVE  LightListed(base, base, w, {})
  <1> DEFINE user == UserView(base, w)
             old == user.cancelledSwapLightNonces
  <1>1. old \in Seq(Nonce) /\ [user EXCEPT !.cancelledSwapLightNonces = old] = user
    BY DEF UserEntity
  <1>2. Rewrites(base, base, w, user)
    BY DEF Rewrites
  <1> HIDE DEF user, old
  <1>3. Rewrites(base, base, w, [user EXCEPT !.cancelledSwapLightNonces = old])
    BY <1>1, <1>2
  <1>4. QED
    BY <1>1, <1>3 DEF LightListed, user, old

(* After one more.                                                         *)
LEMMA OneMoreCancellation ==
    ASSUME LightAssumption, NEW base, NEW w, UserView(base, w) \in UserEntity,
           NEW after, NEW nonces, LightListed(after, base, w, nonces),
           NEW n \in Nonce, n \notin nonces
    PROVE  LightListed(handleSwapLightCancel(after, n, w), base, w, nonces \union {n})
  <1> DEFINE user == UserView(base, w)
             old == user.cancelledSwapLightNonces
  <1>1. PICK list \in Seq(Nonce) :
          /\ Rewrites(after, base, w, [user EXCEPT !.cancelledSwapLightNonces = list])
          /\ ToSet(list) = ToSet(old) \union nonces
          /\ Distinct(old) /\ ToSet(old) \cap nonces = {} => Distinct(list)
    BY DEF LightListed
  <1> DEFINE entity == [user EXCEPT !.cancelledSwapLightNonces = list]
             more == Sorted(Append(list, n))
             last == handleSwapLightCancel(after, n, w)
  <1>2. /\ entity.cancelledSwapLightNonces = list
        /\ [entity EXCEPT !.cancelledSwapLightNonces = more]
              = [user EXCEPT !.cancelledSwapLightNonces = more]
    <2> HIDE DEF more
    <2>1. QED
      BY DEF UserEntity
  <1> HIDE DEF user, old, entity
  <1>3. IsStore(after) /\ \A u : UserView(after, u) = IF u = w THEN entity ELSE UserView(base, u)
    BY <1>1 DEF Rewrites, entity
  <1>4. Rewrites(last, after, w, [entity EXCEPT !.cancelledSwapLightNonces = more])
    <2>1. UserView(after, w) = entity
      BY <1>3
    <2>2. LET v == UserView(after, w)
          IN  Rewrites(handleSwapLightCancel(after, n, w), after, w,
                [v EXCEPT !.cancelledSwapLightNonces =
                    Sorted(Append(v.cancelledSwapLightNonces, n))])
      BY <1>3, NonceHandlersRewrite
    <2>3. QED
      BY <1>2, <2>1, <2>2
  <1>5. Rewrites(last, base, w, [user EXCEPT !.cancelledSwapLightNonces = more])
    <2> HIDE DEF more, last
    <2>1. Rewrites(last, after, w, [user EXCEPT !.cancelledSwapLightNonces = more])
      BY <1>2, <1>4
    <2>2. QED
      BY <1>3, <2>1 DEF Rewrites
  <1>6. /\ more \in Seq(Nonce) /\ ToSet(more) = ToSet(list) \union {n}
        /\ Distinct(list) /\ n \notin ToSet(list) => Distinct(more)
    <2>1. Nonce \subseteq Int
      BY DEF LightAssumption
    <2>2. /\ Sorted(Append(list, n)) \in Seq(Nonce)
          /\ ToSet(Sorted(Append(list, n))) = ToSet(list) \union {n}
          /\ Distinct(list) /\ n \notin ToSet(list) => Distinct(Sorted(Append(list, n)))
      BY <2>1, SortedAppendIs
    <2>3. QED
      BY <2>2
  <1> HIDE DEF more, last
  <1>7. ToSet(more) = ToSet(old) \union (nonces \union {n})
    BY <1>1, <1>6
  <1>8. Distinct(old) /\ ToSet(old) \cap (nonces \union {n}) = {} => Distinct(more)
    BY <1>1, <1>6
  <1>9. QED
    BY <1>5, <1>6, <1>7, <1>8 DEF LightListed, user, old, last

(* After the whole batch.                                                  *)
LEMMA CancelAllLists ==
    ASSUME LightAssumption, NEW base, IsStore(base), NEW w, UserView(base, w) \in UserEntity,
           NEW S, S \subseteq Nonce, IsFiniteSet(S)
    PROVE  LightListed(CancelAll(base, w, S), base, w, S)
  <1>1. PICK g : AreStoresOf(g, base, w, S)
    BY CancelAllUnfolds
  <1> DEFINE G == {s \in SUBSET S : LightListed(g[s], base, w, s)}
  <1>2. ASSUME NEW s \in SUBSET S,
               \A t \in SUBSET S : Cardinality(t) < Cardinality(s) => t \in G
        PROVE  s \in G
    <2>1. CASE s = {}
      BY <1>1, <2>1, NoCancellation DEF AreStoresOf
    <2>2. CASE s # {}
      <3> DEFINE t == s \ {Pick(s)}
      <3>1. /\ Pick(s) \in s /\ s \ {Pick(s)} \in SUBSET S /\ Cardinality(s) \in Nat
            /\ Cardinality(s \ {Pick(s)}) = Cardinality(s) - 1
        BY <2>2, PickRemoves
      <3>2. t \in SUBSET S /\ Cardinality(t) < Cardinality(s)
        BY <3>1
      <3>3. LightListed(g[t], base, w, t)
        BY <1>2, <3>2
      <3>4. g[s] = handleSwapLightCancel(g[t], Pick(s), w)
        BY <1>1, <2>2 DEF AreStoresOf
      <3>5. Pick(s) \in Nonce /\ Pick(s) \notin t /\ t \union {Pick(s)} = s
        BY <3>1
      <3> HIDE DEF t
      <3>6. LightListed(handleSwapLightCancel(g[t], Pick(s), w), base, w, t \union {Pick(s)})
        BY <3>3, <3>5, OneMoreCancellation
      <3>7. LightListed(g[s], base, w, s)
        BY <3>4, <3>5, <3>6
      <3>8. QED
        BY <3>7
    <2>3. QED
      BY <2>1, <2>2
  <1>3. S \in G
    <2> HIDE DEF G
    <2>1. QED
      BY <1>2, SubsetInduction
  <1>4. QED
    BY <1>1, <1>3 DEF AreStoresOf

(* A batch adds its new nonces to the list of its wallet and nothing else. *)
LEMMA CancelEventsList ==
    ASSUME LightAssumption, SubgraphAssumption, Stores, UsersInv,
           NEW c \in Cancellation, IndexedCancel(c[1], c[2])
    PROVE  /\ c[1] \in Wallet /\ c[2] \in SUBSET Nonce
           /\ LightListed(store', store, c[1], CancelEvents(c[1], c[2]))
           /\ legacy' = legacy
  <1>1. c[1] \in Wallet /\ c[2] \in SUBSET Nonce /\ IsFiniteSet(c[2])
    BY DEF LightAssumption, SubgraphAssumption
  <1>2. CancelEvents(c[1], c[2]) \subseteq c[2]
    BY DEF CancelEvents
  <1>3. CancelEvents(c[1], c[2]) \subseteq Nonce /\ IsFiniteSet(CancelEvents(c[1], c[2]))
    BY <1>1, <1>2, FS_Subset
  <1>4. store' = CancelAll(store, c[1], CancelEvents(c[1], c[2])) /\ legacy' = legacy
    BY DEF IndexedCancel, CancelAll
  <1>5. UserView(store, c[1]) \in UserEntity /\ IsStore(store)
    BY NewUserIs DEF UsersInv, UserView, Stores
  <1>6. QED
    BY <1>1, <1>3, <1>4, <1>5, CancelAllLists

(* Light says nothing of what the users said to the earlier protocol.      *)
LEMMA LightStepKeepsUsers ==
    ASSUME LightAssumption, SubgraphAssumption, Stores, UsersInv, LightNext
    PROVE  UsersInv'
  <1>1. ASSUME NEW sender, NEW o, NEW sig, IndexedSwap(sender, o, sig) PROVE UsersInv'
    <2>1. Visits(store', store) /\ legacy' = legacy
      BY <1>1, HandlersVisit DEF IndexedSwap, Stores
    <2>2. QED
      BY <2>1, UsersVisited DEF Visits, SameViews
  <1>2. ASSUME NEW c \in Cancellation, IndexedCancel(c[1], c[2]) PROVE UsersInv'
    <2> DEFINE w == c[1]
               user == UserView(store, w)
    <2>1. LightListed(store', store, w, CancelEvents(c[1], c[2])) /\ legacy' = legacy
      BY <1>2, CancelEventsList
    <2>2. user \in UserEntity
      BY NewUserIs DEF UsersInv, UserView
    <2>3. PICK list \in Seq(Nonce) :
            Rewrites(store', store, w, [user EXCEPT !.cancelledSwapLightNonces = list])
      BY <2>1 DEF LightListed
    <2> DEFINE entity == [user EXCEPT !.cancelledSwapLightNonces = list]
    <2> HIDE DEF user, w
    <2>4. entity \in UserEntity
      BY <2>2 DEF UserEntity
    <2>5. w \in Trader => UserSays(entity, legacy', w)
      <3>1. w \in Trader => UserSays(user, legacy, w)
        BY DEF UsersInv, user
      <3>2. /\ entity.authorizedSenders = user.authorizedSenders
            /\ entity.authorizedSigners = user.authorizedSigners
            /\ entity.cancelledSwapNonces = user.cancelledSwapNonces
            /\ entity.amountInLocker = user.amountInLocker
        BY <2>2 DEF UserEntity
      <3> HIDE DEF entity
      <3>3. QED
        BY <2>1, <3>1, <3>2 DEF UserSays
    <2>6. /\ LegacyTyped(legacy')
          /\ \A u \in Trader \ {w} : UserSays(UserView(store, u), legacy', u)
      BY <2>1 DEF UsersInv
    <2>7. Rewrites(store', store, w, entity)
      BY <2>3
    <2> HIDE DEF entity
    <2>8. QED
      BY <2>4, <2>5, <2>6, <2>7, OneUserRewritten
  <1>3. ASSUME UnindexedLight PROVE UsersInv'
    BY <1>3, UsersVisited DEF UnindexedLight
  <1>4. ASSUME NEW t, NEW price, OracleRound(t, price) PROVE UsersInv'
    BY <1>4, UsersVisited DEF OracleRound
  <1>5. QED
    BY <1>1, <1>2, <1>3, <1>4 DEF LightNext

(* Nobody said anything in the beginning.                                  *)
LEMMA InitUsers == ASSUME SubgraphInit PROVE UsersInv
  <1>1. store = EmptyStore /\ LegacyInit
    BY DEF SubgraphInit
  <1>2. DOMAIN store.User = {}
    BY <1>1 DEF EmptyStore, Kind, NoEntity
  <1>3. /\ legacy.senders = {} /\ legacy.signers = {}
        /\ legacy.cancelled = [u \in Trader |-> {}] /\ legacy.locked = [u \in Trader |-> 0]
    BY <1>1 DEF LegacyInit
  <1>4. /\ NewUser.authorizedSenders = <<>> /\ NewUser.authorizedSigners = <<>>
        /\ NewUser.cancelledSwapNonces = <<>> /\ NewUser.amountInLocker = 0
    BY DEF NewUser
  <1>5. ToSet(<<>>) = {} /\ Distinct(<<>>)
    BY DEF ToSet, Distinct
  <1>6. \A u \in Trader : UserSays(NewUser, legacy, u)
    BY <1>3, <1>4, <1>5 DEF UserSays
  <1>7. LegacyTyped(legacy)
    BY <1>3 DEF LegacyTyped
  <1>8. QED
    BY <1>2, <1>6, <1>7 DEF UsersInv, UserView

(* Every step keeps the users.                                             *)
LEMMA StepKeepsUsers ==
    ASSUME LightAssumption, LegacyAssumption, SubgraphAssumption,
           Stores, UsersInv, [SubgraphNext]_subgraphVars
    PROVE  UsersInv'
  <1>1. CASE UNCHANGED subgraphVars
    BY <1>1, UsersVisited DEF subgraphVars
  <1>2. CASE LegacyNext
    BY <1>2, LegacyStepKeepsUsers
  <1>3. CASE LightNext
    BY <1>3, LightStepKeepsUsers
  <1>4. QED
    BY <1>1, <1>2, <1>3 DEF SubgraphNext

(* The entity of a user, which the handlers of four contracts rewrite,     *)
(* says what the events of each said: whom it authorizes, which nonces it  *)
(* cancelled and what it has in the locker.                                *)
THEOREM UsersAreKept == SubgraphSpec => []UsersAreIndexed
  <1>1. SubgraphInit => Stores /\ UsersInv
    BY InitRules, InitUsers
  <1>2. Stores /\ UsersInv /\ [SubgraphNext]_subgraphVars => (Stores /\ UsersInv)'
    BY LightAssumption, LegacyAssumption, SubgraphAssumption, StepKeepsStores, StepKeepsUsers
  <1>3. Stores /\ UsersInv => UsersAreIndexed
    BY UsersInvImplies DEF Stores
  <1>4. QED
    BY <1>1, <1>2, <1>3, PTL DEF SubgraphSpec

-----------------------------------------------------------------------------
(* The cancelled nonces of Light. *)

LightList(st, w) == UserView(st, w).cancelledSwapLightNonces

CancelledOf(w) == {n \in Nonce : cancelled[w][n] = 1}

LightListsInv ==
    \A w \in Wallet : ToSet(LightList(store, w)) = CancelledOf(w) /\ Distinct(LightList(store, w))

SameLightLists == \A u : LightList(store', u) = LightList(store, u)

(* A step that neither cancels a nonce nor writes a list.                  *)
LEMMA SameListsKept ==
    ASSUME LightListsInv, SameLightLists, cancelled' = cancelled
    PROVE  LightListsInv'
  BY DEF LightListsInv, SameLightLists, CancelledOf, LightList, UserView

(* No event of the earlier protocol touches the list. *)
LEMMA OtherFieldRewritten ==
    ASSUME NEW w, NEW entity, Rewrites(store', store, w, entity),
           entity.cancelledSwapLightNonces = LightList(store, w)
    PROVE  SameLightLists
  BY DEF Rewrites, SameLightLists, LightList

(* By what each handler rewrites, the events of the others keep the lists. *)
LEMMA LegacyStepKeepsLightLists ==
    ASSUME Stores, UsersInv, LegacyNext
    PROVE  SameLightLists
  <1> IsStore(store)
    BY DEF Stores
  <1>1. \A u : UserView(store, u) \in UserEntity
    BY NewUserIs DEF UsersInv, UserView
  <1>2. ASSUME SameUsers PROVE SameLightLists
    BY <1>2 DEF SameUsers, SameLightLists, LightList
  <1>3. ASSUME NEW u, NEW v,
               \/ AuthorizeSender(u, v) \/ RevokeSender(u, v)
               \/ AuthorizeSigner(u, v) \/ RevokeSigner(u, v)
        PROVE  SameLightLists
    <2> DEFINE user == UserView(store, u)
               a == Listed(user.authorizedSenders, v)
               b == Unlisted(user.authorizedSenders, v)
               c == Listed(user.authorizedSigners, v)
               d == Unlisted(user.authorizedSigners, v)
    <2>1. \/ Rewrites(store', store, u, [user EXCEPT !.authorizedSenders = a])
          \/ Rewrites(store', store, u, [user EXCEPT !.authorizedSenders = b])
          \/ Rewrites(store', store, u, [user EXCEPT !.authorizedSigners = c])
          \/ Rewrites(store', store, u, [user EXCEPT !.authorizedSigners = d])
      BY <1>3, SwapHandlersRewrite DEF AuthorizeSender, RevokeSender, AuthorizeSigner,
         RevokeSigner, Emit
    <2>2. user \in UserEntity
      BY <1>1
    <2> HIDE DEF user, a, b, c, d
    <2>3. \A list :
            /\ [user EXCEPT !.authorizedSenders = list].cancelledSwapLightNonces
                  = user.cancelledSwapLightNonces
            /\ [user EXCEPT !.authorizedSigners = list].cancelledSwapLightNonces
                  = user.cancelledSwapLightNonces
      BY <2>2 DEF UserEntity
    <2>4. QED
      BY <2>1, <2>3, OtherFieldRewritten DEF LightList, user
  <1>4. ASSUME NEW u, NEW n, CancelNonce(u, n) \/ CancelUpTo(u, n)
        PROVE  SameLightLists
    <2> DEFINE user == UserView(store, u)
               old == user.cancelledSwapNonces
               a == Sorted(Append(old, n))
               b == Sorted(old \o SetToSeq((0..(n - 1)) \ ToSet(old)))
    <2>1. \/ Rewrites(store', store, u, [user EXCEPT !.cancelledSwapNonces = a])
          \/ Rewrites(store', store, u, [user EXCEPT !.cancelledSwapNonces = b])
      <3>1. CASE CancelNonce(u, n)
        <4>1. Rewrites(store', store, u, [user EXCEPT !.cancelledSwapNonces = a])
          BY <3>1, NonceHandlersRewrite DEF CancelNonce, Emit
        <4>2. QED
          BY <4>1
      <3>2. CASE CancelUpTo(u, n)
        <4>1. Rewrites(store', store, u, [user EXCEPT !.cancelledSwapNonces = b])
          BY <3>2, NonceHandlersRewrite DEF CancelUpTo, Emit
        <4>2. QED
          BY <4>1
      <3>3. QED
        BY <1>4, <3>1, <3>2
    <2>2. user \in UserEntity
      BY <1>1
    <2> HIDE DEF user, a, b
    <2>3. \A list : [user EXCEPT !.cancelledSwapNonces = list].cancelledSwapLightNonces
                           = user.cancelledSwapLightNonces
      BY <2>2 DEF UserEntity
    <2>4. QED
      BY <2>1, <2>3, OtherFieldRewritten DEF LightList, user
  <1>5. ASSUME NEW u, NEW n, Lock(u, n) \/ Unlock(u, n)
        PROVE  SameLightLists
    <2> DEFINE user == UserView(store, u)
               a == user.amountInLocker + n
               b == user.amountInLocker - n
    <2>1. \/ Rewrites(store', store, u, [user EXCEPT !.amountInLocker = a])
          \/ Rewrites(store', store, u, [user EXCEPT !.amountInLocker = b])
      <3>1. CASE Lock(u, n)
        <4>1. Rewrites(store', store, u, [user EXCEPT !.amountInLocker = a])
          BY <3>1, NonceHandlersRewrite DEF Lock, Emit
        <4>2. QED
          BY <4>1
      <3>2. CASE Unlock(u, n)
        <4>1. Rewrites(store', store, u, [user EXCEPT !.amountInLocker = b])
          BY <3>2, NonceHandlersRewrite DEF Unlock, Emit
        <4>2. QED
          BY <4>1
      <3>3. QED
        BY <1>5, <3>1, <3>2
    <2>2. user \in UserEntity
      BY <1>1
    <2> HIDE DEF user, a, b
    <2>3. \A amount : [user EXCEPT !.amountInLocker = amount].cancelledSwapLightNonces
                           = user.cancelledSwapLightNonces
      BY <2>2 DEF UserEntity
    <2>4. QED
      BY <2>1, <2>3, OtherFieldRewritten DEF LightList, user
  <1>6. QED
    BY <1>2, <1>3, <1>4, <1>5, OtherEventsKeepUsers DEF LegacyNext, SwapNext, LockerNext

(* A batch lists and counts the same nonces, which were not listed before. *)
LEMMA CancelKeepsLightLists ==
    ASSUME LightAssumption, SubgraphAssumption, IInv, Stores, UsersInv, LightListsInv,
           NEW c \in Cancellation, IndexedCancel(c[1], c[2])
    PROVE  LightListsInv'
  <1> DEFINE r == c[1]
             batch == c[2]
             new == CancelEvents(r, batch)
             old == LightList(store, r)
  <1>1. /\ r \in Wallet /\ batch \in SUBSET Nonce
        /\ LightListed(store', store, r, new)
    BY CancelEventsList
  <1>2. Cancels(r, batch) /\ TypeOK
    BY DEF IndexedCancel, Cancel, Cancels, IInv
  <1>3. new = {n \in batch : ~nonceUsed(r, n)}
    BY DEF CancelEvents
  <1> HIDE DEF r, batch, new
  <1>4. \A w \in Wallet : w \in Address
    BY DEF Address
  <1>5. ASSUME NEW w \in Wallet, NEW n \in Nonce
        PROVE  cancelled'[w][n] = 1 <=> cancelled[w][n] = 1 \/ (w = r /\ n \in new)
    <2>1. cancelled'[w][n] = cancelled[w][n] +
            (IF w = r /\ n \in batch /\ ~nonceUsed(w, n) THEN 1 ELSE 0)
      BY <1>1, <1>2, <1>4, EffectOfCancel
    <2>2. cancelled[w][n] \in Nat /\ filled[w][n] \in Nat
      BY <1>2, <1>4, LogsAreNat
    <2>3. filled[w][n] + cancelled[w][n] = IF nonceUsed(w, n) THEN 1 ELSE 0
      BY <1>4 DEF IInv, OneEventPerUsedNonce
    <2>4. CASE w = r /\ n \in batch /\ ~nonceUsed(w, n)
      BY <1>3, <2>1, <2>2, <2>3, <2>4
    <2>5. CASE ~(w = r /\ n \in batch /\ ~nonceUsed(w, n))
      BY <1>3, <2>1, <2>2, <2>5
    <2>6. QED
      BY <2>4, <2>5
  <1>6. \A n \in new : cancelled[r][n] # 1
    <2> SUFFICES ASSUME NEW n \in new PROVE cancelled[r][n] # 1
      OBVIOUS
    <2>1. n \in Nonce /\ ~nonceUsed(r, n)
      BY <1>1, <1>3
    <2>2. cancelled[r][n] \in Nat /\ filled[r][n] \in Nat
      BY <1>1, <1>2, <1>4, <2>1, LogsAreNat
    <2>3. filled[r][n] + cancelled[r][n] = 0
      BY <1>1, <1>4, <2>1 DEF IInv, OneEventPerUsedNonce
    <2>4. QED
      BY <2>2, <2>3
  <1>7. new \subseteq Nonce
    BY <1>1, <1>3
  <1>8. ToSet(old) = CancelledOf(r) /\ Distinct(old)
    BY <1>1 DEF LightListsInv
  <1>9. PICK list \in Seq(Nonce) :
          /\ Rewrites(store', store, r, [UserView(store, r) EXCEPT !.cancelledSwapLightNonces = list])
          /\ ToSet(list) = ToSet(old) \union new
          /\ Distinct(old) /\ ToSet(old) \cap new = {} => Distinct(list)
    BY <1>1 DEF LightListed, LightList
  <1>10. ToSet(old) \cap new = {}
    BY <1>6, <1>8 DEF CancelledOf
  <1>11. CancelledOf(r)' = CancelledOf(r) \union new
    BY <1>1, <1>5, <1>7 DEF CancelledOf
  <1>12. \A w \in Wallet \ {r} : CancelledOf(w)' = CancelledOf(w)
    BY <1>5 DEF CancelledOf
  <1> HIDE DEF old
  <1>13. LightList(store', r) = list
    <2>1. UserView(store, r) \in UserEntity
      BY NewUserIs DEF UsersInv, UserView
    <2>2. UserView(store', r) = [UserView(store, r) EXCEPT !.cancelledSwapLightNonces = list]
      BY <1>9 DEF Rewrites
    <2>3. QED
      BY <2>1, <2>2 DEF UserEntity, LightList
  <1>14. \A w \in Wallet \ {r} : LightList(store', w) = LightList(store, w)
    BY <1>9 DEF Rewrites, LightList
  <1>15. ASSUME NEW w \in Wallet
         PROVE  ToSet(LightList(store', w)) = CancelledOf(w)' /\ Distinct(LightList(store', w))
    <2>1. CASE w = r
      BY <1>8, <1>9, <1>10, <1>11, <1>13, <2>1
    <2>2. CASE w # r
      BY <1>12, <1>14, <2>2 DEF LightListsInv
    <2>3. QED
      BY <2>1, <2>2
  <1>16. QED
    BY <1>15 DEF LightListsInv, LightList, UserView

(* Every step keeps the lists.                                             *)
LEMMA StepKeepsLightLists ==
    ASSUME LightAssumption, SubgraphAssumption, IInv, Stores, UsersInv, LightListsInv,
           [SubgraphNext]_subgraphVars
    PROVE  LightListsInv'
  <1>1. ASSUME store' = store, cancelled' = cancelled PROVE LightListsInv'
    BY <1>1, SameListsKept DEF SameLightLists
  <1>2. CASE UNCHANGED subgraphVars
    BY <1>1, <1>2 DEF subgraphVars, vars, history
  <1>3. CASE LegacyNext
    <2>1. SameLightLists
      BY <1>3, LegacyStepKeepsLightLists
    <2>2. cancelled' = cancelled
      BY <1>3 DEF LegacyNext, vars, history
    <2>3. QED
      BY <2>1, <2>2, SameListsKept
  <1>4. CASE LightNext
    <2>1. ASSUME NEW sender, NEW o, NEW sig, IndexedSwap(sender, o, sig)
          PROVE  LightListsInv'
      <3>1. Visits(store', store)
        BY <2>1, HandlersVisit DEF IndexedSwap, Stores
      <3>2. cancelled' = cancelled
        BY <2>1 DEF IndexedSwap, Swap, SwapWithRecipient, RecordSwap
      <3>3. SameLightLists
        BY <3>1 DEF Visits, SameViews, SameLightLists, LightList
      <3>4. QED
        BY <3>2, <3>3, SameListsKept
    <2>2. ASSUME NEW c \in Cancellation, IndexedCancel(c[1], c[2]) PROVE LightListsInv'
      BY <2>2, CancelKeepsLightLists
    <2>3. ASSUME UnindexedLight PROVE store' = store /\ cancelled' = cancelled
      BY <2>3 DEF UnindexedLight, Revoke, SetFee, SetFeeWallet, Authorize, ApproveLight, Fork,
         Tick, history
    <2>4. ASSUME NEW t, NEW price, OracleRound(t, price)
          PROVE  store' = store /\ cancelled' = cancelled
      BY <2>4 DEF OracleRound, vars, history
    <2>5. QED
      BY <1>1, <1>4, <2>1, <2>2, <2>3, <2>4 DEF LightNext
  <1>5. QED
    BY <1>2, <1>3, <1>4 DEF SubgraphNext

(* Nothing is cancelled in the beginning.                                  *)
LEMMA InitLightLists == ASSUME SubgraphInit PROVE LightListsInv
  <1>1. store = EmptyStore /\ Init
    BY DEF SubgraphInit
  <1>2. \A w : LightList(store, w) = <<>>
    BY <1>1 DEF EmptyStore, Kind, NoEntity, UserView, NewUser, LightList
  <1>3. \A w \in Wallet : CancelledOf(w) = {}
    <2>1. \A w \in Wallet, n \in Nonce : cancelled[w][n] = 0
      BY <1>1 DEF Init, Address
    <2>2. QED
      BY <2>1 DEF CancelledOf
  <1>4. ToSet(<<>>) = {} /\ Distinct(<<>>)
    BY DEF ToSet, Distinct
  <1>5. QED
    BY <1>2, <1>3, <1>4 DEF LightListsInv

(* The invariant says of each wallet what the property says.               *)
LEMMA LightListsInvImplies ==
    ASSUME Stores, UsersInv, LightListsInv
    PROVE  CancelledLightNoncesAreIndexed
  <1> SUFFICES ASSUME NEW w \in Wallet
        PROVE  /\ ToSet(UserOf(w).cancelledSwapLightNonces) = {n \in Nonce : cancelled[w][n] = 1}
               /\ NoRepetition(UserOf(w).cancelledSwapLightNonces)
    BY DEF CancelledLightNoncesAreIndexed
  <1>1. UserOf(w) = UserView(store, w)
    BY UserOfIsView DEF Stores
  <1>2. UserView(store, w) \in UserEntity
    BY NewUserIs DEF UsersInv, UserView
  <1>3. LightList(store, w) \in Seq(Nonce)
    BY <1>2 DEF UserEntity, LightList
  <1>4. ToSet(LightList(store, w)) = CancelledOf(w) /\ Distinct(LightList(store, w))
    BY DEF LightListsInv
  <1>5. NoRepetition(LightList(store, w))
    BY <1>3, <1>4, DistinctIsNoRepetition
  <1>6. QED
    BY <1>1, <1>4, <1>5 DEF LightList, CancelledOf

(* The list of a wallet has every nonce that Light cancelled for it, once: *)
(* also when batches repeat nonces or name some that were used, and        *)
(* whatever the other contracts write of the same user.                    *)
THEOREM CancelledNoncesAreKept == SubgraphSpec => []CancelledLightNoncesAreIndexed
  <1>1. SubgraphInit => IInv /\ Stores /\ UsersInv /\ LightListsInv
    BY LightAssumption, InitEstablishes, InitRules, InitUsers, InitLightLists DEF SubgraphInit
  <1>2. IInv /\ Stores /\ UsersInv /\ LightListsInv /\ [SubgraphNext]_subgraphVars
          => (IInv /\ Stores /\ UsersInv /\ LightListsInv)'
    BY LightAssumption, LegacyAssumption, SubgraphAssumption, StepOfLight, StepKeepsInvariant,
       StepKeepsStores, StepKeepsUsers, StepKeepsLightLists
  <1>3. Stores /\ UsersInv /\ LightListsInv => CancelledLightNoncesAreIndexed
    BY LightListsInvImplies
  <1>4. QED
    BY <1>1, <1>2, <1>3, PTL DEF SubgraphSpec

-----------------------------------------------------------------------------
(* The collected fees. *)

(* What a division rounds.                                                 *)
LEMMA Division ==
    ASSUME NEW a \in Nat, NEW b \in Nat \ {0}
    PROVE  LET q == a \div b IN q \in Nat /\ q * b <= a /\ a < q * b + b
  OBVIOUS

(* Products of numbers that do not shrink.                                 *)
LEMMA ProductGrows ==
    ASSUME NEW a \in Nat, NEW b \in Nat, NEW c \in Nat, NEW d \in Nat, a <= b, c <= d
    PROVE  a * c <= b * d
  <1>1. a * c <= b * c
    OBVIOUS
  <1>2. b * c <= b * d
    OBVIOUS
  <1>3. a * c \in Nat /\ b * c \in Nat /\ b * d \in Nat
    OBVIOUS
  <1>4. QED
    BY <1>1, <1>2, <1>3

(* The fee in dollars, rounded three times, and what it rounds. *)
LEMMA FeeInDollars ==
    ASSUME NEW f \in Nat, NEW p \in Nat,
           NEW B \in Nat \ {0}, NEW U \in Nat \ {0}, NEW P \in Nat \ {0},
           NEW gain, gain = (((f * B) \div U) * ((p * B) \div P)) \div B
    PROVE  /\ gain \in Nat
           /\ gain * U * P <= B * f * p
           /\ B * f * p < (gain + 1) * U * P + f * P + p * U
  <1> DEFINE fB == f * B
             pB == p * B
             g == fB \div U
             n == pB \div P
             gU == g * U
             nP == n * P
             gn == g * n
             gB == gain * B
             UP == U * P
             exact == B * f * p
             paid == gain * U * P
             more == (gain + 1) * U * P
             lost == f * P + p * U
  <1>1. fB \in Nat /\ pB \in Nat
    OBVIOUS
  <1>2. g \in Nat /\ gU <= fB /\ fB < gU + U /\ gU \in Nat
    <2>1. g \in Nat /\ g * U <= fB /\ fB < g * U + U
      <3> HIDE DEF fB
      <3>1. QED
        BY <1>1, Division
    <2>2. g * U \in Nat
      <3> HIDE DEF g
      <3>1. QED
        BY <2>1
    <2>3. QED
      BY <2>1, <2>2
  <1>3. n \in Nat /\ nP <= pB /\ pB < nP + P /\ nP \in Nat
    <2>1. n \in Nat /\ n * P <= pB /\ pB < n * P + P
      <3> HIDE DEF pB
      <3>1. QED
        BY <1>1, Division
    <2>2. n * P \in Nat
      <3> HIDE DEF n
      <3>1. QED
        BY <2>1
    <2>3. QED
      BY <2>1, <2>2
  <1>4. gain = gn \div B
    OBVIOUS
  <1> HIDE DEF g, n
  <1>5. gn \in Nat
    BY <1>2, <1>3
  <1>6. gain \in Nat /\ gB <= gn /\ gn < gB + B /\ gB \in Nat
    <2>1. gain \in Nat /\ gain * B <= gn /\ gn < gain * B + B
      <3> HIDE DEF gn
      <3>1. QED
        BY <1>4, <1>5, Division
    <2>2. QED
      BY <2>1
  <1>7. UP \in Nat /\ UP > 0
    OBVIOUS
  <1>8. exact \in Nat /\ paid \in Nat /\ more \in Nat /\ lost \in Nat
    BY <1>6
  <1>9. gn * UP = gU * nP
    BY <1>2, <1>3
  <1>10. fB * pB = exact * B
    OBVIOUS
  <1>11. gB * UP = paid * B
    BY <1>6
  <1>12. (gB + B) * UP = more * B
    BY <1>6
  <1>13. fB * P + pB * U = lost * B
    OBVIOUS
  <1>14. paid * B <= exact * B
    <2> HIDE DEF gB, UP, gn, gU, nP, fB, pB, exact, paid
    <2>1. gB * UP <= gn * UP
      BY <1>5, <1>6, <1>7
    <2>2. gU * nP <= fB * pB
      BY <1>1, <1>2, <1>3, ProductGrows
    <2>3. gn * UP \in Nat /\ gU * nP \in Nat /\ paid * B \in Nat /\ exact * B \in Nat
      BY <1>2, <1>3, <1>5, <1>7, <1>8
    <2>4. QED
      BY <1>9, <1>10, <1>11, <2>1, <2>2, <2>3
  <1>15. exact * B < more * B + lost * B
    <2> HIDE DEF gB, UP, gn, gU, nP, fB, pB, exact, more, lost
    <2>1. fB * pB <= gU * nP + (fB * P + pB * U)
      <3>1. fB * pB <= (gU + U) * pB
        BY <1>1, <1>2, ProductGrows
      <3>2. (gU + U) * pB = gU * pB + pB * U
        BY <1>1, <1>2
      <3>3. gU * pB <= gU * (nP + P)
        BY <1>1, <1>2, <1>3, ProductGrows
      <3>4. gU * (nP + P) = gU * nP + gU * P
        BY <1>2, <1>3
      <3>5. gU * P <= fB * P
        BY <1>1, <1>2, ProductGrows
      <3>6. /\ fB * pB \in Nat /\ gU * pB \in Nat /\ pB * U \in Nat /\ gU * nP \in Nat
            /\ gU * P \in Nat /\ fB * P \in Nat
        BY <1>1, <1>2, <1>3
      <3>7. QED
        BY <3>1, <3>2, <3>3, <3>4, <3>5, <3>6
    <2>2. gn * UP < (gB + B) * UP
      BY <1>5, <1>6, <1>7
    <2>3. /\ gU * nP \in Nat /\ fB * pB \in Nat /\ lost * B \in Nat /\ more * B \in Nat
      BY <1>1, <1>2, <1>3, <1>8
    <2>4. QED
      BY <1>9, <1>10, <1>12, <1>13, <2>1, <2>2, <2>3
  <1>16. paid <= exact /\ exact < more + lost
    <2> HIDE DEF exact, paid, more, lost
    <2>1. more * B + lost * B = (more + lost) * B
      BY <1>8
    <2>2. ASSUME NEW a \in Nat, NEW b \in Nat
          PROVE  /\ a * B <= b * B => a <= b
                 /\ a * B < b * B => a < b
      OBVIOUS
    <2>3. QED
      BY <1>8, <1>14, <1>15, <2>1, <2>2
  <1>17. more + lost = (gain + 1) * U * P + f * P + p * U
    BY <1>6
  <1>18. QED
    BY <1>6, <1>16, <1>17

(* The days of a store, and what a swap adds to one of them. *)
DaysTyped(st) ==
    \A d \in DOMAIN st.CollectedFeesDay : st.CollectedFeesDay[d] \in [date: Int, amount: Nat]

(* What a day collected is a number.                                       *)
LEMMA DayIsNat ==
    ASSUME NEW st, DaysTyped(st), NEW d
    PROVE  DayAmount(st, d) \in Nat
  BY DEF DaysTyped, DayAmount, Exists

(* A swap adds its fee in dollars to the day of its block, and to no other. *)
LEMMA SwapAddsToItsDay ==
    ASSUME NEW st, IsStore(st), DaysTyped(st), NEW e, e.timestamp \div SecondsInDay \in Int,
           SecondsInDay \in Nat, NEW usd \in Nat,
           usd = computeFeeAmountUsd(e.signerToken, e.signerAmount, e.signerFee, FEE_DIVISOR)
    PROVE  LET after == handleSwapLight(st, e)
           IN  /\ DaysTyped(after)
               /\ \A d : DayAmount(after, d) = DayAmount(st, d) +
                     (IF d = e.timestamp \div SecondsInDay THEN usd ELSE 0)
  <1> DEFINE a == LoadOrCreate(st, "SwapLightContract", "Light", [id |-> "Light"])
             b == getUser(a, e.signerWallet)
             c == getUser(b, e.senderWallet)
             s == getToken(c, e.signerToken)
             f == getToken(s, e.senderToken)
             g == Save(f, "SwapLight", <<e.signerWallet, e.nonce>>, SwapEntity(e))
             day == e.timestamp \div SecondsInDay
             h == getCollectedFeesDay(g, day)
             after == handleSwapLight(st, e)
  <1> {"SwapLightContract", "SwapLight", "CollectedFeesDay"} \subseteq Kind
    BY DEF Kind
  <1>1. SameBut(a, st, {"SwapLightContract"})
    BY LoadOrCreateIs
  <1>2. SameBut(b, a, {"User"})
    BY <1>1, HelpersKeep DEF SameBut
  <1>3. SameBut(c, b, {"User"})
    BY <1>2, HelpersKeep DEF SameBut
  <1>4. SameBut(s, c, {"Token"})
    BY <1>3, HelpersKeep DEF SameBut
  <1>5. SameBut(f, s, {"Token"})
    BY <1>4, HelpersKeep DEF SameBut
  <1>6. f.CollectedFeesDay = st.CollectedFeesDay /\ IsStore(f)
    BY <1>1, <1>2, <1>3, <1>4, <1>5 DEF SameBut
  <1>7. after = updateCollectedFeesDay(g, e)
    BY DEF handleSwapLight, SwapEntity, SwapLightId
  <1>8. IsStore(g) /\ g.CollectedFeesDay = st.CollectedFeesDay
    <2> HIDE DEF f
    <2>1. QED
      BY <1>6, SaveIs DEF SameBut
  <1>9. /\ IsStore(h)
        /\ h.CollectedFeesDay = IF day \in DOMAIN st.CollectedFeesDay THEN st.CollectedFeesDay
                                ELSE With(st.CollectedFeesDay, day, [date |-> 0, amount |-> 0])
    <2> HIDE DEF g
    <2>1. QED
      BY <1>8, LoadOrCreateIs DEF SameBut, getCollectedFeesDay
  <1> DEFINE old == h.CollectedFeesDay[day]
             when == IF old.date = 0 THEN day * SecondsInDay ELSE old.date
             sum == old.amount + usd
  <1>10. after = [h EXCEPT !.CollectedFeesDay[day].date = when,
                           !.CollectedFeesDay[day].amount = sum]
    <2> HIDE DEF g, after
    <2>1. QED
      BY <1>7 DEF updateCollectedFeesDay
  <1>11. /\ DOMAIN h.CollectedFeesDay = DOMAIN st.CollectedFeesDay \union {day}
         /\ \A d \in DOMAIN h.CollectedFeesDay : h.CollectedFeesDay[d] \in [date: Int, amount: Nat]
         /\ \A d : DayAmount(h, d) = DayAmount(st, d)
    <2> DEFINE new == [date |-> 0, amount |-> 0]
    <2>1. new \in [date: Int, amount: Nat] /\ new.amount = 0
      OBVIOUS
    <2> HIDE DEF h, day, new
    <2>2. CASE day \in DOMAIN st.CollectedFeesDay
      BY <1>9, <2>2 DEF DaysTyped, DayAmount, Exists, new
    <2>3. CASE day \notin DOMAIN st.CollectedFeesDay
      <3>1. h.CollectedFeesDay = With(st.CollectedFeesDay, day, new)
        BY <1>9, <2>3 DEF new
      <3>2. QED
        BY <2>1, <2>3, <3>1 DEF With, DaysTyped, DayAmount, Exists
    <2>4. QED
      BY <2>2, <2>3
  <1>12. old \in [date: Int, amount: Nat] /\ old.amount = DayAmount(st, day)
    <2> HIDE DEF h, day
    <2>1. QED
      BY <1>11 DEF DayAmount, Exists
  <1>13. when \in Int /\ sum \in Nat
    <2>1. day * SecondsInDay \in Int
      <3> HIDE DEF day
      <3>1. QED
        BY DEF day
    <2> HIDE DEF h, day, old
    <2>2. QED
      BY <1>12, <2>1
  <1> DEFINE entity == [date |-> when, amount |-> sum]
  <1>14. after.CollectedFeesDay = [h.CollectedFeesDay EXCEPT ![day] = entity]
    <2>1. h = [k \in Kind |-> h[k]] /\ old = [date |-> old.date, amount |-> old.amount]
      <3> HIDE DEF h, old
      <3>1. QED
        BY <1>9, <1>12 DEF IsStore
    <2> DEFINE i == [h EXCEPT !.CollectedFeesDay[day].date = when]
    <2>2. after = [i EXCEPT !.CollectedFeesDay[day].amount = sum]
      <3> HIDE DEF after, h, when, sum
      <3>1. QED
        BY <1>10
    <2> HIDE DEF after, h, when, sum, day
    <2>3. i.CollectedFeesDay = [h.CollectedFeesDay EXCEPT ![day].date = when]
      BY <2>1
    <2>4. i = [k \in Kind |-> i[k]]
      BY <2>1
    <2>5. i.CollectedFeesDay[day] = [date |-> when, amount |-> old.amount]
      BY <1>11, <2>1, <2>3
    <2> HIDE DEF i
    <2>6. after.CollectedFeesDay = [i.CollectedFeesDay EXCEPT ![day].amount = sum]
      BY <2>2, <2>4
    <2>7. after.CollectedFeesDay = [i.CollectedFeesDay EXCEPT ![day] = entity]
      BY <2>5, <2>6
    <2>8. QED
      BY <2>3, <2>7
  <1>15. DaysTyped(after)
    <2>1. entity \in [date: Int, amount: Nat]
      <3> HIDE DEF when, sum
      <3>1. QED
        BY <1>13
    <2> HIDE DEF after, h, day, entity
    <2>2. QED
      BY <1>11, <1>14, <2>1 DEF DaysTyped
  <1>16. ASSUME NEW d
         PROVE  DayAmount(after, d) = DayAmount(st, d) + (IF d = day THEN usd ELSE 0)
    <2>1. DayAmount(st, d) \in Nat
      BY DayIsNat
    <2>2. CASE d = day
      <3>1. entity.amount = DayAmount(st, d) + usd
        <4> HIDE DEF when, h, day, old
        <4>1. QED
          BY <1>12, <2>2
      <3> HIDE DEF after, h, day, entity
      <3>2. QED
        BY <1>11, <1>14, <2>2, <3>1 DEF DayAmount, Exists
    <2>3. CASE d # day
      <3> HIDE DEF after, h, day, entity
      <3>1. DayAmount(after, d) = DayAmount(h, d)
        BY <1>14, <2>3 DEF DayAmount, Exists
      <3>2. QED
        BY <1>11, <2>1, <2>3, <3>1
    <2>4. QED
      BY <2>2, <2>3
  <1>17. QED
    BY <1>15, <1>16

-----------------------------------------------------------------------------
(* Fees are measured by what the fee wallet receives, so it must be no     *)
(* party to an order: the amounts that it trades would be counted too.     *)
FeeWalletsDoNotTrade ==
    \A sig \in Signature : FeeWallet \cap {sig.order.signerWallet, sig.order.senderWallet} = {}

(* A fee wallet is one that the owner may set, and the entities of days    *)
(* and the answers of the oracles are numbers.                             *)
FeesInv ==
    /\ feeWallet \in FeeWallet
    /\ oracle \in [SupportedToken -> Nat]
    /\ DaysTyped(store)

(* What a step does to the days, and to the balances of the fee wallet.    *)
Gain(d) == DayAmount(store', d) - DayAmount(store, d)

FeePaid(t) == tokens.bal'[t][feeWallet] - tokens.bal[t][feeWallet]

(* A day gains a fee of f in t, rounded as the prices are. *)
GainsFee(gain, t, f) ==
    /\ gain * TokenUnit[t] * PriceUnit <= Base * f * getPrice(t)
    /\ Base * f * getPrice(t) < (gain + 1) * TokenUnit[t] * PriceUnit
                                  + f * PriceUnit + getPrice(t) * TokenUnit[t]

FeesAreAdded ==
    \A d \in 0..(MaxTime \div SecondsInDay) :
        /\ d # now \div SecondsInDay => Gain(d) = 0
        /\ d = now \div SecondsInDay =>
             IF \A t \in Token : FeePaid(t) = 0 THEN Gain(d) = 0
             ELSE \E t \in Token : FeePaid(t) > 0 /\ GainsFee(Gain(d), t, FeePaid(t))

(* The fee of an order is a number.                                        *)
LEMMA FeeOfOrderIsNat ==
    ASSUME LightAssumption, TypeOK, NEW order \in OrderType
    PROVE  FeeAmount(order, signerFee) \in Nat
  <1>1. signerFee \in Nat
    BY DEF TypeOK, FEE_DIVISOR
  <1>2. QED
    BY <1>1, FeeIsNat

(* And so is a price.                                                      *)
LEMMA PriceIsNat == ASSUME FeesInv, NEW t PROVE getPrice(t) \in Nat
  BY DEF FeesInv, getPrice

(* The fee in dollars of a swap.                                           *)
LEMMA FeeIsNormalized ==
    ASSUME LightAssumption, SubgraphAssumption, TypeOK, FeesInv,
           NEW order \in OrderType, NEW sender, NEW usd,
           usd = computeFeeAmountUsd(SwapEvent(sender, order).signerToken,
                                     SwapEvent(sender, order).signerAmount,
                                     SwapEvent(sender, order).signerFee, FEE_DIVISOR)
    PROVE  /\ usd \in Nat
           /\ GainsFee(usd, order.signerToken, FeeAmount(order, signerFee))
  <1> DEFINE f == FeeAmount(order, signerFee)
             t == order.signerToken
             p == getPrice(t)
             U == TokenUnit[t]
  <1>1. f \in Nat /\ t \in Token
    BY FeeOfOrderIsNat DEF OrderType
  <1>2. p \in Nat
    BY PriceIsNat
  <1>3. U \in Nat \ {0} /\ Base \in Nat \ {0} /\ PriceUnit \in Nat \ {0}
    BY <1>1 DEF SubgraphAssumption
  <1>4. usd = (((f * Base) \div U) * ((p * Base) \div PriceUnit)) \div Base
    BY DEF computeFeeAmountUsd, SwapEvent, FeeAmount
  <1> HIDE DEF f, p, U
  <1>5. /\ usd \in Nat
        /\ usd * U * PriceUnit <= Base * f * p
        /\ Base * f * p < (usd + 1) * U * PriceUnit + f * PriceUnit + p * U
    BY <1>1, <1>2, <1>3, <1>4, FeeInDollars
  <1>6. QED
    BY <1>5 DEF GainsFee, f, p, U

(* No fee, no gain. *)
LEMMA NoFeeNoGain ==
    ASSUME SubgraphAssumption, NEW t \in Token, NEW gain \in Nat, getPrice(t) \in Nat,
           GainsFee(gain, t, 0)
    PROVE  gain = 0
  <1> DEFINE U == TokenUnit[t]
             UP == U * PriceUnit
             p == getPrice(t)
  <1>1. U \in Nat \ {0} /\ PriceUnit \in Nat \ {0} /\ Base \in Nat
    BY DEF SubgraphAssumption
  <1>2. gain * U * PriceUnit <= Base * 0 * p
    BY DEF GainsFee
  <1> HIDE DEF U, p
  <1>3. Base * 0 * p = 0
    BY <1>1 DEF p
  <1>4. gain * UP <= 0 /\ UP \in Nat /\ UP > 0
    BY <1>1, <1>2, <1>3
  <1> HIDE DEF UP
  <1>5. QED
    BY <1>4

(* The fee wallet receives the fee of the order, and no more.              *)
LEMMA FeeWalletReceivesFee ==
    ASSUME LightAssumption, FeeWalletsDoNotTrade, TypeOK, feeWallet \in FeeWallet,
           NEW sender \in Wallet, NEW order \in {s.order : s \in Signature},
           NEW sig \in Signature, Swap(sender, order, sig)
    PROVE  /\ order \in OrderType
           /\ \A t \in Token :
                FeePaid(t) = IF t = order.signerToken THEN FeeAmount(order, signerFee) ELSE 0
  <1>1. order \in OrderType /\ sig.order \in OrderType
    BY DEF LightAssumption, SignatureType
  <1>2. sig.order = OrderHash(order, sender)
    BY <1>1, SwapIsSigned DEF Swap, SwapWithRecipient
  <1>3. /\ sig.order.signerWallet = order.signerWallet
        /\ sig.order.signerToken = order.signerToken
        /\ sig.order.signerAmount = order.signerAmount
        /\ sig.order.signerFee = signerFee
        /\ sig.order.senderWallet = sender
    BY <1>1, <1>2 DEF OrderHash, OrderType
  <1>4. feeWallet # sig.order.signerWallet /\ feeWallet # sig.order.senderWallet
    BY DEF FeeWalletsDoNotTrade
  <1>5. \A t \in Token, w \in Wallet :
          tokens.bal'[t][w] + Paid(sig.order, t, w)
             = tokens.bal[t][w] + Received(sig.order, t, w, sender)
    BY SwapSettlesAsSigned DEF Swap
  <1>6. tokens' \in Holdings(Token, Wallet) /\ tokens \in Holdings(Token, Wallet)
    BY <1>1, SettlementKeepsHoldings DEF TypeOK, Swap, SwapWithRecipient, CanSwap
  <1>7. FeeAmount(order, signerFee) \in Nat
    BY <1>1, FeeOfOrderIsNat
  <1>8. ASSUME NEW t \in Token
        PROVE  FeePaid(t) = IF t = order.signerToken THEN FeeAmount(order, signerFee) ELSE 0
    <2>1. feeWallet \in Wallet
      BY DEF TypeOK
    <2>2. tokens'.bal[t][feeWallet] \in Nat /\ tokens.bal[t][feeWallet] \in Nat
      BY <1>6, <2>1 DEF Holdings
    <2>3. Paid(sig.order, t, feeWallet) = 0
      BY <1>4 DEF Paid
    <2>4. FeeAmount(sig.order, sig.order.signerFee) = FeeAmount(order, signerFee)
      BY <1>3 DEF FeeAmount
    <2>5. Received(sig.order, t, feeWallet, sender)
            = IF t = order.signerToken THEN FeeAmount(order, signerFee) ELSE 0
      BY <1>3, <1>4, <1>7, <2>4 DEF Received
    <2>6. tokens.bal'[t][feeWallet] + Paid(sig.order, t, feeWallet)
             = tokens.bal[t][feeWallet] + Received(sig.order, t, feeWallet, sender)
      BY <1>5, <2>1
    <2>7. QED
      BY <1>7, <2>2, <2>3, <2>5, <2>6 DEF FeePaid
  <1>9. QED
    BY <1>1, <1>8

(* A swap adds to its day the fee that it paid, and to no other.           *)
LEMMA SwapAddsItsFee ==
    ASSUME LightAssumption, SubgraphAssumption, FeeWalletsDoNotTrade,
           TypeOK, IsStore(store), FeesInv,
           NEW sender \in Wallet, NEW order \in {s.order : s \in Signature},
           NEW sig \in Signature, IndexedSwap(sender, order, sig)
    PROVE  DaysTyped(store') /\ FeesAreAdded
  <1> DEFINE e == SwapEvent(sender, order)
             f == FeeAmount(order, signerFee)
             today == now \div SecondsInDay
             usd == computeFeeAmountUsd(e.signerToken, e.signerAmount, e.signerFee, FEE_DIVISOR)
             token == order.signerToken
  <1>1. store' = handleSwapLight(store, e) /\ Swap(sender, order, sig)
    BY DEF IndexedSwap
  <1>2. order \in OrderType /\ f \in Nat /\ token \in Token
    <2>1. order \in OrderType
      BY <1>1, FeeWalletReceivesFee DEF FeesInv
    <2>2. QED
      BY <2>1, FeeOfOrderIsNat DEF OrderType
  <1>3. \A t \in Token : FeePaid(t) = IF t = token THEN f ELSE 0
    BY <1>1, FeeWalletReceivesFee DEF FeesInv
  <1>4. usd \in Nat /\ GainsFee(usd, token, f)
    BY <1>2, FeeIsNormalized
  <1>5. e.timestamp \div SecondsInDay = today /\ today \in Int /\ SecondsInDay \in Nat
    <2>1. e.timestamp = now
      BY DEF SwapEvent
    <2>2. now \in Nat /\ SecondsInDay \in Nat \ {0}
      BY DEF TypeOK, SubgraphAssumption, LightAssumption
    <2>3. QED
      BY <2>1, <2>2
  <1>6. /\ DaysTyped(store')
        /\ \A d : DayAmount(store', d) = DayAmount(store, d) + (IF d = today THEN usd ELSE 0)
    <2> HIDE DEF e, today
    <2>1. e.timestamp \div SecondsInDay \in Int
      BY <1>5
    <2>2. DaysTyped(store)
      BY DEF FeesInv
    <2>3. QED
      BY <1>1, <1>4, <1>5, <2>1, <2>2, SwapAddsToItsDay
  <1> HIDE DEF usd, e, f, today, token
  <1>7. \A d : Gain(d) = IF d = today THEN usd ELSE 0
    <2>1. ASSUME NEW d PROVE DayAmount(store, d) \in Nat
      BY DayIsNat DEF FeesInv
    <2>2. QED
      BY <1>4, <1>6, <2>1 DEF Gain
  <1>8. (\A t \in Token : FeePaid(t) = 0) => usd = 0
    <2>1. SUFFICES ASSUME \A t \in Token : FeePaid(t) = 0 PROVE usd = 0
      OBVIOUS
    <2>2. f = 0
      BY <1>2, <1>3, <2>1
    <2>3. QED
      BY <1>2, <1>4, <2>2, PriceIsNat, NoFeeNoGain
  <1>9. (\E t \in Token : FeePaid(t) # 0) => FeePaid(token) = f /\ f > 0
    BY <1>2, <1>3
  <1>10. FeesAreAdded
    <2> SUFFICES ASSUME NEW d
                 PROVE  /\ d # today => Gain(d) = 0
                        /\ d = today =>
                             IF \A t \in Token : FeePaid(t) = 0 THEN Gain(d) = 0
                             ELSE \E t \in Token :
                                    FeePaid(t) > 0 /\ GainsFee(Gain(d), t, FeePaid(t))
      BY DEF FeesAreAdded, today
    <2>1. d # today => Gain(d) = 0
      BY <1>7
    <2>2. CASE \A t \in Token : FeePaid(t) = 0
      BY <1>7, <1>8, <2>1, <2>2
    <2>3. CASE ~ \A t \in Token : FeePaid(t) = 0
      <3>1. FeePaid(token) = f /\ f > 0
        BY <1>9, <2>3
      <3>2. FeePaid(token) > 0 /\ GainsFee(usd, token, FeePaid(token))
        BY <1>4, <3>1
      <3>3. QED
        BY <1>2, <1>7, <2>1, <2>3, <3>2
    <2>4. QED
      BY <2>2, <2>3
  <1>11. QED
    BY <1>6, <1>10

(* Nothing but a swap adds to a day or pays a fee.                         *)
FeesUntouched ==
    store'.CollectedFeesDay = store.CollectedFeesDay /\ tokens.bal' = tokens.bal

(* Where neither changed, nothing was added and nothing was paid.          *)
LEMMA UntouchedAddsNothing ==
    ASSUME TypeOK, FeesInv, FeesUntouched
    PROVE  DaysTyped(store') /\ FeesAreAdded
  <1>1. DaysTyped(store')
    BY DEF FeesUntouched, FeesInv, DaysTyped
  <1>2. ASSUME NEW d PROVE Gain(d) = 0
    <2>1. DayAmount(store', d) = DayAmount(store, d)
      BY DEF FeesUntouched, DayAmount, Exists
    <2>2. DayAmount(store, d) \in Nat
      BY DayIsNat DEF FeesInv
    <2>3. QED
      BY <2>1, <2>2 DEF Gain
  <1>3. ASSUME NEW t \in Token PROVE FeePaid(t) = 0
    <2>1. tokens.bal[t][feeWallet] \in Nat
      BY DEF TypeOK, Holdings
    <2>2. QED
      BY <2>1 DEF FeesUntouched, FeePaid
  <1>4. QED
    BY <1>1, <1>2, <1>3 DEF FeesAreAdded

(* Every step keeps the invariant of the fees, and adds what was paid.     *)
LEMMA StepAddsFees ==
    ASSUME LightAssumption, SubgraphAssumption, FeeWalletsDoNotTrade,
           TypeOK, Stores, FeesInv, [SubgraphNext]_subgraphVars
    PROVE  FeesInv' /\ FeesAreAdded
  <1> DEFINE Same == feeWallet' = feeWallet /\ oracle' = oracle
  <1>1. ASSUME NEW fields, NEW kinds, StepChanges(fields, kinds), "CollectedFeesDay" \notin kinds
        PROVE  store'.CollectedFeesDay = store.CollectedFeesDay
    BY <1>1 DEF StepChanges, SameBut, Kind
  <1>2. ASSUME Same, DaysTyped(store') PROVE FeesInv'
    BY <1>2 DEF FeesInv, DaysTyped
  <1>3. CASE LegacyNext
    <2>1. store'.CollectedFeesDay = store.CollectedFeesDay
      BY <1>1, <1>3, SwapEventsChange, IndexerEventsChange, DelegateEventsChange,
         LockerEventsChange DEF LegacyNext
    <2>2. tokens' = tokens /\ Same
      BY <1>3 DEF LegacyNext, vars, config
    <2>3. QED
      BY <1>2, <2>1, <2>2, UntouchedAddsNothing DEF FeesUntouched
  <1>4. ASSUME NEW sender \in Wallet, NEW o \in {s.order : s \in Signature},
               NEW sig \in Signature, IndexedSwap(sender, o, sig)
        PROVE  FeesInv' /\ FeesAreAdded
    <2>1. DaysTyped(store') /\ FeesAreAdded
      BY <1>4, SwapAddsItsFee DEF Stores
    <2>2. Same
      BY <1>4 DEF IndexedSwap, Swap, SwapWithRecipient, RecordSwap, config
    <2>3. QED
      BY <1>2, <2>1, <2>2
  <1>5. ASSUME NEW c \in Cancellation, IndexedCancel(c[1], c[2])
        PROVE  FeesInv' /\ FeesAreAdded
    <2>1. IsFiniteSet(CancelEvents(c[1], c[2]))
      BY FS_Subset DEF SubgraphAssumption, CancelEvents
    <2>2. store' = CancelAll(store, c[1], CancelEvents(c[1], c[2]))
      BY <1>5 DEF IndexedCancel, CancelAll
    <2>3. SameBut(store', store, {"User"})
      BY <2>1, <2>2, CancelAllKeeps DEF Stores
    <2>4. store'.CollectedFeesDay = store.CollectedFeesDay
      BY <2>3 DEF SameBut, Kind
    <2>5. tokens' = tokens /\ Same
      BY <1>5 DEF IndexedCancel, Cancel, config
    <2>6. QED
      BY <1>2, <2>4, <2>5, UntouchedAddsNothing DEF FeesUntouched
  <1>6. ASSUME UnindexedLight PROVE FeesInv' /\ FeesAreAdded
    <2>1. store' = store /\ oracle' = oracle
      BY <1>6 DEF UnindexedLight
    <2>2. tokens.bal' = tokens.bal
      <3>1. ASSUME NEW w, NEW t, NEW amount, ApproveLight(w, t, amount)
            PROVE  tokens.bal' = tokens.bal
        BY <3>1 DEF ApproveLight, Approve
      <3>2. QED
        BY <1>6, <3>1 DEF UnindexedLight, Revoke, SetFee, SetFeeWallet, Authorize, Fork, Tick
    <2>3. feeWallet' \in FeeWallet
      BY <1>6 DEF UnindexedLight, Revoke, SetFee, SetFeeWallet, Authorize, ApproveLight, Fork,
         Tick, config, FeesInv
    <2>4. QED
      BY <2>1, <2>2, <2>3, UntouchedAddsNothing DEF FeesUntouched, FeesInv
  <1>7. ASSUME NEW t \in SupportedToken, NEW price \in OraclePrice, OracleRound(t, price)
        PROVE  FeesInv' /\ FeesAreAdded
    <2>1. store' = store /\ tokens' = tokens /\ feeWallet' = feeWallet
      BY <1>7 DEF OracleRound, vars, config
    <2>2. oracle' \in [SupportedToken -> Nat]
      BY <1>7 DEF OracleRound, FeesInv, SubgraphAssumption
    <2>3. QED
      BY <2>1, <2>2, UntouchedAddsNothing DEF FeesUntouched, FeesInv
  <1>8. CASE UNCHANGED subgraphVars
    <2>1. store' = store /\ tokens' = tokens /\ Same
      BY <1>8 DEF subgraphVars, vars, config
    <2>2. QED
      BY <1>2, <2>1, UntouchedAddsNothing DEF FeesUntouched
  <1>9. QED
    BY <1>3, <1>4, <1>5, <1>6, <1>7, <1>8 DEF SubgraphNext, LightNext

(* Nothing is collected in the beginning.                                  *)
LEMMA InitFees == ASSUME SubgraphAssumption, SubgraphInit PROVE FeesInv
  <1>1. store = EmptyStore /\ Init /\ oracle \in [SupportedToken -> OraclePrice]
    BY DEF SubgraphInit
  <1>2. DOMAIN store.CollectedFeesDay = {}
    BY <1>1 DEF EmptyStore, Kind, NoEntity
  <1>3. QED
    BY <1>1, <1>2 DEF Init, FeesInv, DaysTyped, SubgraphAssumption

(* Where fee wallets do not trade, a day collects what the fee wallet was  *)
(* paid on it, at the prices of the moment and less only by the roundings, *)
(* whatever the prices, the fees and the wallets are set to in between.    *)
THEOREM CollectedFeesAreKept ==
    ASSUME FeeWalletsDoNotTrade
    PROVE  SubgraphSpec => CollectedFeesAreIndexed
  <1> DEFINE Fees ==
        \A d \in 0..(MaxTime \div SecondsInDay) :
         LET gain == DayAmount(store', d) - DayAmount(store, d)
             fee == [t \in Token |-> tokens.bal'[t][feeWallet] - tokens.bal[t][feeWallet]]
         IN  /\ d # now \div SecondsInDay => gain = 0
             /\ d = now \div SecondsInDay =>
                  IF \A t \in Token : fee[t] = 0 THEN gain = 0
                  ELSE \E t \in Token :
                         LET exact == Base * fee[t] * getPrice(t)
                         IN  /\ fee[t] > 0
                             /\ gain * TokenUnit[t] * PriceUnit <= exact
                             /\ exact < (gain + 1) * TokenUnit[t] * PriceUnit
                                          + fee[t] * PriceUnit + getPrice(t) * TokenUnit[t]
  <1>1. SubgraphInit => IInv /\ Stores /\ FeesInv
    BY LightAssumption, SubgraphAssumption, InitEstablishes, InitRules, InitFees
       DEF SubgraphInit
  <1>2. IInv /\ Stores /\ FeesInv /\ [SubgraphNext]_subgraphVars
          => (IInv /\ Stores /\ FeesInv)'
    BY LightAssumption, SubgraphAssumption, FeeWalletsDoNotTrade, StepOfLight,
       StepKeepsInvariant, StepKeepsStores, StepAddsFees DEF IInv
  <1>3. IInv /\ Stores /\ FeesInv /\ [SubgraphNext]_subgraphVars => [Fees]_subgraphVars
    <2> SUFFICES ASSUME IInv, Stores, FeesInv, [SubgraphNext]_subgraphVars PROVE Fees
      OBVIOUS
    <2>1. FeesAreAdded
      BY LightAssumption, SubgraphAssumption, FeeWalletsDoNotTrade, StepAddsFees DEF IInv
    <2>2. QED
      BY <2>1 DEF FeesAreAdded, Gain, FeePaid, GainsFee
  <1>4. QED
    BY <1>1, <1>2, <1>3, PTL DEF SubgraphSpec, CollectedFeesAreIndexed

=============================================================================
