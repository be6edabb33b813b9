------------------------------ MODULE Subgraph ------------------------------
(***************************************************************************)
(* The subgraph over the contracts that it indexes: Light.tla, with the    *)
(* handlers of SwapLightMapping.ts and the fees of PricingHelper.ts, and   *)
(* the contracts of the earlier protocol, all in one store of entities.    *)
(* A network has some of the contracts in use.  A transaction of Light and *)
(* the handlers of its events are one step.                                *)
(***************************************************************************)
EXTENDS Light, LegacyContracts

CONSTANTS
    Budget,         \* a function from the sets of contracts that may be in use
                    \* to a bound on the events of the earlier protocol
    OraclePrice,    \* prices that the oracles may answer, 0 for a revert
    PriceUnit,      \* 10^8, the unit of an answer
    TokenUnit,      \* TokenUnit[t]: 10 to the power of the decimals of t
    Base,           \* 2^64, "used to keep precision"
    SupportedToken, \* the tokens with an oracle
    SecondsInDay    \* 86400

ASSUME SubgraphAssumption ==
    /\ Trader \subseteq Wallet
    /\ \A n \in DOMAIN Budget : Budget[n] \in Nat
    /\ OraclePrice \subseteq Nat
    /\ PriceUnit \in Nat \ {0} /\ Base \in Nat \ {0} /\ SecondsInDay \in Nat \ {0}
    /\ \A t \in Token : TokenUnit[t] \in Nat \ {0}
    /\ \A c \in Cancellation : IsFiniteSet(c[2])

VARIABLES
    network,    \* the contracts that are in use
    oracle      \* oracle[t]: what the oracle of t answers now

subgraphVars == <<vars, store, legacy, events, network, oracle>>

-----------------------------------------------------------------------------
(* PricingHelper.ts: the fee of a swap in dollars, times Base. *)

getPrice(t) == IF t \in SupportedToken THEN oracle[t] ELSE 0

(* Mutant: the fee is the one of the whole amount. *)
FeeOfWholeAmount(t, amount, fee, divisor) ==
    (((amount * Base) \div TokenUnit[t]) * ((getPrice(t) * Base) \div PriceUnit)) \div Base

computeFeeAmountUsd(t, amount, fee, divisor) ==
    LET priceNormalized == (getPrice(t) * Base) \div PriceUnit
        feeAmount == (amount * fee) \div divisor
        feeNormalized == (feeAmount * Base) \div TokenUnit[t]
    IN  (feeNormalized * priceNormalized) \div Base

updateCollectedFeesDay(st, e) ==
    LET dayId == e.timestamp \div SecondsInDay
        usd == computeFeeAmountUsd(e.signerToken, e.signerAmount, e.signerFee, FEE_DIVISOR)
    IN  [getCollectedFeesDay(st, dayId) EXCEPT
            !.CollectedFeesDay[dayId].date = IF @ = 0 THEN dayId * SecondsInDay ELSE @,
            !.CollectedFeesDay[dayId].amount = @ + usd]

-----------------------------------------------------------------------------
(* SwapLightMapping.ts. *)

handleSwapLightCancel(st, nonce, wallet) ==
    [getUser(st, wallet) EXCEPT
        !.User[wallet].cancelledSwapLightNonces = Sorted(Append(@, nonce))]

(* Mutant: the wallet is no part of the name of a swap. *)
SwapLightIdOfNonce(wallet, nonce) == <<"Light", nonce>>

SwapLightId(wallet, nonce) == <<wallet, nonce>>

handleSwapLight(st, e) ==
    LET contract == LoadOrCreate(st, "SwapLightContract", "Light", [id |-> "Light"])
        users == getUser(getUser(contract, e.signerWallet), e.senderWallet)
        s == getToken(getToken(users, e.signerToken), e.senderToken)
        completedSwap ==
            [swap |-> "Light", nonce |-> e.nonce, expiry |-> e.timestamp,
             signer |-> e.signerWallet, signerAmount |-> e.signerAmount,
             signerToken |-> e.signerToken, signerFee |-> e.signerFee,
             sender |-> e.senderWallet, senderAmount |-> e.senderAmount,
             senderToken |-> e.senderToken]
    IN  updateCollectedFeesDay(
            Save(s, "SwapLight", SwapLightId(e.signerWallet, e.nonce), completedSwap), e)

-----------------------------------------------------------------------------
(* The events of Light. *)

(* The event of a swap is made of the arguments and of the fee in force.   *)
SwapEvent(sender, o) ==
    [nonce |-> o.nonce, timestamp |-> now, signerWallet |-> o.signerWallet,
     signerToken |-> o.signerToken, signerAmount |-> o.signerAmount,
     signerFee |-> signerFee, senderWallet |-> sender, senderToken |-> o.senderToken,
     senderAmount |-> o.senderAmount]

(* Mutant: cancel does not skip the nonces that were used. *)
CancelEventsForAll(wallet, batch) == batch

(* cancel emits an event for each nonce that was not used. *)
CancelEvents(wallet, batch) == {n \in batch : ~nonceUsed(wallet, n)}

IndexedSwap(sender, o, sig) ==
    /\ Swap(sender, o, sig)
    /\ store' = handleSwapLight(store, SwapEvent(sender, o))
    /\ UNCHANGED <<legacy, events, network, oracle>>

IndexedCancel(wallet, batch) ==
    /\ Cancel(wallet, batch)
    /\ store' = FoldSet(LAMBDA n, st : handleSwapLightCancel(st, n, wallet),
                        store, CancelEvents(wallet, batch))
    /\ UNCHANGED <<legacy, events, network, oracle>>

(* What Light does without an event that the subgraph handles. *)
UnindexedLight ==
    /\ \/ \E w \in Wallet :
            \/ Revoke(w)
            \/ \E fee \in FeeValue : SetFee(w, fee)
            \/ \E fw \in FeeWallet : SetFeeWallet(w, fw)
       \/ \E a \in Authorization : Authorize(a[1], a[2])
       \/ \E a \in Approval : ApproveLight(a[1], a[2], a[3])
       \/ \E id \in ChainId : Fork(id)
       \/ Tick
    /\ UNCHANGED <<store, legacy, events, network, oracle>>

OracleRound(t, price) ==
    /\ oracle' = [oracle EXCEPT ![t] = price]
    /\ UNCHANGED <<vars, store, legacy, events, network>>

LightNext ==
    \/ \E sender \in Wallet, o \in {s.order : s \in Signature}, sig \in Signature :
          IndexedSwap(sender, o, sig)
    \/ \E c \in Cancellation : IndexedCancel(c[1], c[2])
    \/ UnindexedLight
    \/ \E t \in SupportedToken, price \in OraclePrice : OracleRound(t, price)

SubgraphInit ==
    /\ Init
    /\ LegacyInit
    /\ store = EmptyStore
    /\ network \in DOMAIN Budget
    /\ events = Budget[network]
    /\ oracle \in [SupportedToken -> OraclePrice]

LegacyNext ==
    /\ \/ "Swap" \in network /\ SwapNext
       \/ "Indexer" \in network /\ IndexerNext
       \/ "Delegate" \in network /\ DelegateNext
       \/ "Locker" \in network /\ LockerNext
    /\ UNCHANGED <<vars, network, oracle>>

SubgraphNext == ("Light" \in network /\ LightNext) \/ LegacyNext

SubgraphSpec == SubgraphInit /\ [][SubgraphNext]_subgraphVars

-----------------------------------------------------------------------------
(* Correctness. *)

UserOf(u) == getUser(store, u).User[u]

NoRepetition(list) == Cardinality(ToSet(list)) = Len(list)

(* A wallet's entity lists the nonces that Light cancelled for it, each    *)
(* once, although the handler appends without a look at the list: it       *)
(* relies on Light emitting no Cancel for a nonce that was used, also when *)
(* batches repeat nonces or name some that were swapped.                   *)
CancelledLightNoncesAreIndexed ==
    \A w \in Wallet :
        LET list == UserOf(w).cancelledSwapLightNonces
        IN  /\ ToSet(list) = {n \in Nonce : cancelled[w][n] = 1}
            /\ NoRepetition(list)

(* The entity of a swap says what the order of a signature says, that was  *)
(* filled, and every filled order has an entity under the name of its      *)
(* wallet and nonce.  It may be that of another order: when a wallet and   *)
(* its authorized signer use one nonce, one of the two swaps has no entity *)
(* of its own.                                                             *)
Describes(entity, o) ==
    /\ entity.signer = o.signerWallet /\ entity.sender = o.senderWallet
    /\ entity.signerToken = o.signerToken /\ entity.signerAmount = o.signerAmount
    /\ entity.senderToken = o.senderToken /\ entity.senderAmount = o.senderAmount
    /\ entity.signerFee = o.signerFee /\ entity.nonce = o.nonce
    /\ entity.expiry < o.expiry

FilledOrders(wallet, nonce) ==
    {sig \in Signature : /\ sig.order.signerWallet = wallet /\ sig.order.nonce = nonce
                         /\ filled[sig.signatory][nonce] = 1}

SwapsAreIndexed ==
    /\ \A id \in DOMAIN store.SwapLight :
         \E sig \in FilledOrders(id[1], id[2]) : Describes(store.SwapLight[id], sig.order)
    /\ \A s \in Wallet, n \in Nonce : filled[s][n] = 1 =>
         \E w \in Wallet :
            /\ Exists(store, "SwapLight", <<w, n>>)
            /\ \E sig \in FilledOrders(w, n) : sig.signatory = s

(* The collected fees are those that were paid: a swap adds to its day,    *)
(* and to no other, what the fee wallet received, at the price of the      *)
(* oracle, in units of a Base-th dollar and less only by the roundings of  *)
(* the two normalized factors; and nothing else adds anything.             *)
DayAmount(st, d) == IF Exists(st, "CollectedFeesDay", d) THEN st.CollectedFeesDay[d].amount ELSE 0

CollectedFeesAreIndexed ==
    [][\A d \in 0..(MaxTime \div SecondsInDay) :
         LET gain == DayAmount(store', d) - DayAmount(store, d)
             fee == [t \in Token |-> tokens.bal'[t][feeWallet] - tokens.bal[t][feeWallet]]
         IN  /\ d # now \div SecondsInDay => gain = 0
             /\ d = now \div SecondsInDay =>
                  IF \A t \in Token : fee[t] = 0 THEN gain = 0
                  ELSE \E t \in Token :
                         LET exact == Base * fee[t] * getPrice(t)
                         IN  /\ fee[t] > 0
                             /\ gain * TokenUnit[t] * PriceUnit <= exact
                             /\ exact < (gain + 1) * TokenUnit[t] * PriceUnit
                                          + fee[t] * PriceUnit + getPrice(t) * TokenUnit[t]]_subgraphVars

(* A user's entity, which the handlers of four contracts share, says what  *)
(* the events of each said: whom the user authorized as senders and as     *)
(* signers, without repetitions; which nonces it cancelled, one by one or  *)
(* up to a number; and what it has in the locker.                          *)
UsersAreIndexed ==
    \A u \in Trader :
        /\ ToSet(UserOf(u).authorizedSenders) = {v \in Trader : <<u, v>> \in legacy.senders}
        /\ ToSet(UserOf(u).authorizedSigners) = {v \in Trader : <<u, v>> \in legacy.signers}
        /\ NoRepetition(UserOf(u).authorizedSenders) /\ NoRepetition(UserOf(u).authorizedSigners)
        /\ ToSet(UserOf(u).cancelledSwapNonces) = legacy.cancelled[u]
        /\ UserOf(u).amountInLocker = legacy.locked[u]

(* The locators are those that are set, of each user on each index, and    *)
(* refer to an index that has an entity.  The stake of a user is the one   *)
(* it has as long as it never had stakes for two pairs: then the two would *)
(* share an entity, because the name of a stake leaves the pair out.       *)
ListingsAreIndexed ==
    /\ DOMAIN store.Index = legacy.indexes
    /\ \A u \in Trader, pair \in Pair :
         LET key == <<u, pair>>
             set == {loc \in Range(store.Locator) : loc.owner = u /\ loc.index = pair}
         IN  {loc.score : loc \in set}
                = IF key \in DOMAIN legacy.locators THEN {legacy.locators[key]} ELSE {}
    /\ \A u \in Trader \ legacy.spread, pair \in Pair :
         <<u, pair>> \in DOMAIN legacy.stakes <=>
            \E st \in Range(store.Stake) :
               /\ st.staker = u /\ <<st.signerToken, st.senderToken>> = pair
               /\ st.stakeAmount = legacy.stakes[<<u, pair>>]
    /\ \A t \in LegacyToken :
         t \in legacy.blacklist <=> Exists(store, "Token", t) /\ store.Token[t].isBlacklisted

(* The rules are those that are left: their terms, what orders took off    *)
(* their maximum, and nothing of a rule that was used up or unset.  Hence  *)
(* no order finds its rule missing, where the handler would fail and with  *)
(* it all indexing.                                                        *)
RulesAreIndexed ==
    \A d \in DelegateAddr, pair \in Pair :
        LET key == <<d, pair>>
            set == {r \in Range(store.Rule) :
                       r.delegate = d /\ r.signerToken = pair[1] /\ r.senderToken = pair[2]}
        IN  /\ {[maxSenderAmount |-> r.maxSenderAmount, price |-> r.price] : r \in set}
                  = IF key \in DOMAIN legacy.rules THEN {legacy.rules[key]} ELSE {}
            /\ \A r \in set : r.owner = store.Delegate[d].owner
=============================================================================
