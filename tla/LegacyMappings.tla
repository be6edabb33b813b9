--------------------------- MODULE LegacyMappings ---------------------------
(***************************************************************************)
(* The event handlers of the subgraph for the contracts of the earlier     *)
(* protocol (tools/subgraph/src): Swap, Indexer and its indexes, the       *)
(* delegate factory and its delegates, and Locker.  A handler takes the    *)
(* parameters of its event that it uses.  Every contract but indexes and   *)
(* delegates is deployed once, and its address is its name.                *)
(***************************************************************************)
EXTENDS SubgraphStore

-----------------------------------------------------------------------------
(* SwapMapping.ts. *)

(* Mutant: a sender is added without a look at the list. *)
AuthorizeSenderAgain(st, authorizer, sender) ==
    LET s == getUser(getUser(st, authorizer), sender)
    IN  [s EXCEPT !.User[authorizer].authorizedSenders = Append(@, sender)]

handleAuthorizeSender(st, authorizer, sender) ==
    LET s == getUser(getUser(st, authorizer), sender)
    IN  [s EXCEPT !.User[authorizer].authorizedSenders = Listed(@, sender)]

handleRevokeSender(st, authorizer, sender) ==
    LET s == getUser(getUser(st, authorizer), sender)
    IN  [s EXCEPT !.User[authorizer].authorizedSenders = Unlisted(@, sender)]

handleAuthorizeSigner(st, authorizer, signer) ==
    LET s == getUser(getUser(st, authorizer), signer)
    IN  [s EXCEPT !.User[authorizer].authorizedSigners = Listed(@, signer)]

handleRevokeSigner(st, authorizer, signer) ==
    LET s == getUser(getUser(st, authorizer), signer)
    IN  [s EXCEPT !.User[authorizer].authorizedSigners = Unlisted(@, signer)]

handleCancel(st, nonce, wallet) ==
    [getUser(st, wallet) EXCEPT
        !.User[wallet].cancelledSwapNonces = Sorted(Append(@, nonce))]

(* All nonces below the one of the event that are not in the list yet. *)
handleCancelUpTo(st, nonce, wallet) ==
    [getUser(st, wallet) EXCEPT
        !.User[wallet].cancelledSwapNonces =
            Sorted(@ \o SetToSeq((0..(nonce - 1)) \ ToSet(@)))]

(* The token of the affiliate is read from the parameter of the sender's.  *)
handleSwap(st, e) ==
    LET users == getUser(getUser(getUser(getSwapContract(st, "Swap"), e.signerWallet),
                                 e.senderWallet), e.affiliateWallet)
        s == getToken(getToken(users, e.signerToken), e.senderToken)
    IN  Save(s, "Swap", <<e.signerWallet, e.nonce>>,
             [swap |-> "Swap", nonce |-> e.nonce, expiry |-> e.timestamp,
              signer |-> e.signerWallet, signerToken |-> e.signerToken,
              sender |-> e.senderWallet, senderToken |-> e.senderToken,
              affiliate |-> e.affiliateWallet, affiliateToken |-> e.senderToken])

-----------------------------------------------------------------------------
(* IndexerMapping.ts and IndexMapping.ts.  An index is named by its pair   *)
(* of a signer and a sender token; the protocol is left out.               *)

handleAddTokenToBlacklist(st, t) ==
    [getToken(st, t) EXCEPT !.Token[t].isBlacklisted = TRUE]

handleRemoveTokenFromBlacklist(st, t) ==
    [getToken(st, t) EXCEPT !.Token[t].isBlacklisted = FALSE]

handleCreateIndex(st, pair) ==
    Save(getIndexer(getToken(getToken(st, pair[1]), pair[2]), "Indexer"), "Index", pair,
         [indexer |-> "Indexer", signerToken |-> pair[1], senderToken |-> pair[2]])

(* "staker + indexer": the pair is no part of the name, and only a new     *)
(* entity takes it.                                                        *)
StakeId(staker) == <<staker, "Indexer">>

handleStake(st, staker, pair, amount) ==
    LET s == getUser(st, staker)
        id == StakeId(staker)
    IN  IF Exists(s, "Stake", id)
        THEN [s EXCEPT !.Stake[id].stakeAmount = amount]
        ELSE Save(getToken(getToken(getIndexer(s, "Indexer"), pair[1]), pair[2]), "Stake", id,
                  [indexer |-> "Indexer", staker |-> staker, signerToken |-> pair[1],
                   senderToken |-> pair[2], stakeAmount |-> amount])

handleUnstake(st, staker) == RemoveEntity(st, "Stake", StakeId(staker))

(* Mutant: a locator is named by its owner alone. *)
LocatorIdOfOwner(owner, index) == <<owner>>

LocatorId(owner, index) == <<owner, index>>

handleSetLocator(st, owner, index, score) ==
    LET s == getUser(st, owner)
        id == LocatorId(owner, index)
    IN  IF Exists(s, "Locator", id)
        THEN [s EXCEPT !.Locator[id].score = score]
        ELSE Save(s, "Locator", id, [owner |-> owner, index |-> index, score |-> score])

handleUnsetLocator(st, owner, index) ==
    RemoveEntity(st, "Locator", LocatorId(owner, index))

-----------------------------------------------------------------------------
(* DelegateFactoryMapping.ts and DelegateMapping.ts. *)

handleCreateDelegate(st, delegate, owner) ==
    LET s == getUser(getIndexer(getSwapContract(
                 getDelegateFactory(st, "DelegateFactory"), "Swap"), "Indexer"), owner)
    IN  Save(s, "Delegate", delegate,
             [factory |-> "DelegateFactory", swap |-> "Swap", indexer |-> "Indexer",
              owner |-> owner])

(* A rule is named by its delegate and the sender's and signer's token. *)
RuleId(delegate, pair) == <<delegate, pair[2], pair[1]>>

(* The owner and the tokens of a rule are written once, the terms always. *)
handleSetRule(st, delegate, owner, pair, terms) ==
    LET s == getToken(getToken(getUser(st, owner), pair[1]), pair[2])
        id == RuleId(delegate, pair)
    IN  IF Exists(s, "Rule", id)
        THEN [s EXCEPT !.Rule[id].maxSenderAmount = terms.maxSenderAmount,
                       !.Rule[id].price = terms.price]
        ELSE Save(s, "Rule", id,
                  [delegate |-> delegate, owner |-> owner, signerToken |-> pair[1],
                   senderToken |-> pair[2], maxSenderAmount |-> terms.maxSenderAmount,
                   price |-> terms.price])

handleUnsetRule(st, delegate, pair) == RemoveEntity(st, "Rule", RuleId(delegate, pair))

(* Mutant: a rule that was consumed is kept. *)
ProvideOrderKeepingRule(st, delegate, pair, senderAmount) ==
    [st EXCEPT !.Rule[RuleId(delegate, pair)].maxSenderAmount = @ - senderAmount]

(* The rule must exist: its maximum is read through a null assertion. *)
handleProvideOrder(st, delegate, pair, senderAmount) ==
    LET id == RuleId(delegate, pair)
    IN  IF st.Rule[id].maxSenderAmount = senderAmount
        THEN RemoveEntity(st, "Rule", id)
        ELSE [st EXCEPT !.Rule[id].maxSenderAmount = @ - senderAmount]

-----------------------------------------------------------------------------
(* LockerMapping.ts.  All three settings are written to the percentage. *)

handleLock(st, participant, amount) ==
    [getUser(st, participant) EXCEPT !.User[participant].amountInLocker = @ + amount]

handleUnlock(st, participant, amount) ==
    [getUser(st, participant) EXCEPT !.User[participant].amountInLocker = @ - amount]

handleSetThrottlingPercentage(st, value) ==
    [getLocker(st, "Locker") EXCEPT !.Locker["Locker"].throttlingPercentage = value]

handleSetThrottlingDuration(st, value) ==
    [getLocker(st, "Locker") EXCEPT !.Locker["Locker"].throttlingPercentage = value]

handleSetThrottlingBalance(st, value) ==
    [getLocker(st, "Locker") EXCEPT !.Locker["Locker"].throttlingPercentage = value]
=============================================================================
