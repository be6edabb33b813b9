-------------------------- MODULE LegacyContracts --------------------------
(***************************************************************************)
(* The contracts of the earlier protocol as the subgraph sees them.  The   *)
(* repository has their ABIs and the handlers of their events only, so     *)
(* this is external: `legacy' is what the events emitted so far say, and   *)
(* an event is possible unless the handlers themselves take for granted    *)
(* that it is not.  An event and its handler are one step: handlers run in *)
(* the order of the events and read nothing but the event and the store.   *)
(***************************************************************************)
EXTENDS LegacyMappings

CONSTANTS
    Trader,         \* accounts that use the contracts
    Pair,           \* pairs of a signer and a sender token
    DelegateAddr,   \* addresses of delegates
    MaxNonce,       \* bound on nonces
    MaxAmount       \* bound on amounts

ASSUME LegacyAssumption ==
    /\ MaxNonce \in Nat /\ MaxAmount \in Nat
    /\ \A pair \in Pair : pair = <<pair[1], pair[2]>>

VARIABLES
    store,      \* the entities
    legacy,     \* what the contracts hold
    events      \* how many more events they emit: a bound

LegacyToken == UNION {{pair[1], pair[2]} : pair \in Pair}

LegacyInit ==
    legacy = [senders   |-> {},         \* pairs of an authorizer and a sender
              signers   |-> {},         \* pairs of an authorizer and a signer
              cancelled |-> [u \in Trader |-> {}],
              swaps     |-> {},         \* the Swap events
              blacklist |-> {},
              indexes   |-> {},         \* pairs for which there is an index
              stakes    |-> NoEntity,   \* stakes[<<u, pair>>]: its amount
              spread    |-> {},         \* who ever had stakes for two pairs
              locators  |-> NoEntity,   \* locators[<<u, pair>>]: its score
              delegates |-> NoEntity,   \* delegates[d]: its owner
              rules     |-> NoEntity,   \* rules[<<d, pair>>]: its terms
              locked    |-> [u \in Trader |-> 0]]

(* An event: what it changes, and what its handler makes of it.            *)
Emit(after, indexed) ==
    /\ events > 0
    /\ events' = events - 1
    /\ legacy' = after
    /\ store' = indexed

Without(f, x) == Restrict(f, DOMAIN f \ {x})

-----------------------------------------------------------------------------
(* Swap. *)

AuthorizeSender(u, s) ==
    Emit([legacy EXCEPT !.senders = @ \union {<<u, s>>}], handleAuthorizeSender(store, u, s))

RevokeSender(u, s) ==
    Emit([legacy EXCEPT !.senders = @ \ {<<u, s>>}], handleRevokeSender(store, u, s))

AuthorizeSigner(u, s) ==
    Emit([legacy EXCEPT !.signers = @ \union {<<u, s>>}], handleAuthorizeSigner(store, u, s))

RevokeSigner(u, s) ==
    Emit([legacy EXCEPT !.signers = @ \ {<<u, s>>}], handleRevokeSigner(store, u, s))

CancelNonce(u, nonce) ==
    Emit([legacy EXCEPT !.cancelled[u] = @ \union {nonce}], handleCancel(store, nonce, u))

CancelUpTo(u, nonce) ==
    Emit([legacy EXCEPT !.cancelled[u] = @ \union 0..(nonce - 1)],
         handleCancelUpTo(store, nonce, u))

(* An order of a wallet settles once. *)
SwapOrder(e) ==
    /\ \A f \in legacy.swaps : <<f.signerWallet, f.nonce>> # <<e.signerWallet, e.nonce>>
    /\ Emit([legacy EXCEPT !.swaps = @ \union {e}], handleSwap(store, e))

SwapEvents ==
    {[nonce |-> n, timestamp |-> 0, signerWallet |-> u, senderWallet |-> v,
      affiliateWallet |-> v, signerToken |-> pair[1], senderToken |-> pair[2]] :
        n \in 0..MaxNonce, u \in Trader, v \in Trader, pair \in Pair}

SwapNext ==
    \/ \E u, s \in Trader :
         \/ AuthorizeSender(u, s)
         \/ RevokeSender(u, s)
         \/ AuthorizeSigner(u, s)
         \/ RevokeSigner(u, s)
    \/ \E u \in Trader, n \in 0..MaxNonce : CancelNonce(u, n) \/ CancelUpTo(u, n)
    \/ \E e \in SwapEvents : SwapOrder(e)

-----------------------------------------------------------------------------
(* Indexer, and its indexes, which emit events once they are created.      *)

AddTokenToBlacklist(t) ==
    Emit([legacy EXCEPT !.blacklist = @ \union {t}], handleAddTokenToBlacklist(store, t))

RemoveTokenFromBlacklist(t) ==
    Emit([legacy EXCEPT !.blacklist = @ \ {t}], handleRemoveTokenFromBlacklist(store, t))

CreateIndex(pair) ==
    /\ pair \notin legacy.indexes
    /\ Emit([legacy EXCEPT !.indexes = @ \union {pair}], handleCreateIndex(store, pair))

StakeOn(u, pair, amount) ==
    LET others == {key \in DOMAIN legacy.stakes : key[1] = u /\ key[2] # pair}
    IN  Emit([legacy EXCEPT !.stakes = With(@, <<u, pair>>, amount),
                            !.spread = IF others = {} THEN @ ELSE @ \union {u}],
             handleStake(store, u, pair, amount))

Unstake(u, pair) ==
    /\ <<u, pair>> \in DOMAIN legacy.stakes
    /\ Emit([legacy EXCEPT !.stakes = Without(@, <<u, pair>>)], handleUnstake(store, u))

SetLocator(u, pair, score) ==
    Emit([legacy EXCEPT !.locators = With(@, <<u, pair>>, score)],
         handleSetLocator(store, u, pair, score))

UnsetLocator(u, pair) ==
    /\ <<u, pair>> \in DOMAIN legacy.locators
    /\ Emit([legacy EXCEPT !.locators = Without(@, <<u, pair>>)],
            handleUnsetLocator(store, u, pair))

IndexerNext ==
    \/ \E t \in LegacyToken : AddTokenToBlacklist(t) \/ RemoveTokenFromBlacklist(t)
    \/ \E pair \in Pair : CreateIndex(pair)
    \/ \E pair \in legacy.indexes, u \in Trader :
         \/ \E amount \in 1..MaxAmount : StakeOn(u, pair, amount) \/ SetLocator(u, pair, amount)
         \/ Unstake(u, pair)
         \/ UnsetLocator(u, pair)

-----------------------------------------------------------------------------
(* The delegate factory and its delegates, which have rules for pairs.     *)

CreateDelegate(d, owner) ==
    /\ d \notin DOMAIN legacy.delegates
    /\ Emit([legacy EXCEPT !.delegates = With(@, d, owner)],
            handleCreateDelegate(store, d, owner))

SetRule(d, pair, terms) ==
    Emit([legacy EXCEPT !.rules = With(@, <<d, pair>>, terms)],
         handleSetRule(store, d, legacy.delegates[d], pair, terms))

UnsetRule(d, pair) ==
    /\ <<d, pair>> \in DOMAIN legacy.rules
    /\ Emit([legacy EXCEPT !.rules = Without(@, <<d, pair>>)], handleUnsetRule(store, d, pair))

(* An order takes no more than is left of the rule, which it may use up.   *)
ProvideOrder(d, pair, amount) ==
    /\ <<d, pair>> \in DOMAIN legacy.rules
    /\ LET left == legacy.rules[<<d, pair>>].maxSenderAmount - amount
       IN  /\ left >= 0
           /\ Emit([legacy EXCEPT !.rules =
                       IF left = 0 THEN Without(@, <<d, pair>>)
                       ELSE [@ EXCEPT ![<<d, pair>>].maxSenderAmount = left]],
                   handleProvideOrder(store, d, pair, amount))

DelegateNext ==
    \/ \E d \in DelegateAddr, u \in Trader : CreateDelegate(d, u)
    \/ \E d \in DOMAIN legacy.delegates, pair \in Pair :
         \/ \E amount \in 1..MaxAmount, price \in 1..MaxAmount :
              SetRule(d, pair, [maxSenderAmount |-> amount, price |-> price])
         \/ \E amount \in 1..MaxAmount : ProvideOrder(d, pair, amount)
         \/ UnsetRule(d, pair)

-----------------------------------------------------------------------------
(* Locker. *)

Lock(u, amount) ==
    Emit([legacy EXCEPT !.locked[u] = @ + amount], handleLock(store, u, amount))

Unlock(u, amount) ==
    /\ amount <= legacy.locked[u]
    /\ Emit([legacy EXCEPT !.locked[u] = @ - amount], handleUnlock(store, u, amount))

SetThrottling(value) ==
    \/ Emit(legacy, handleSetThrottlingPercentage(store, value))
    \/ Emit(legacy, handleSetThrottlingDuration(store, value))
    \/ Emit(legacy, handleSetThrottlingBalance(store, value))

LockerNext ==
    \/ \E u \in Trader, amount \in 1..MaxAmount : Lock(u, amount) \/ Unlock(u, amount)
    \/ \E value \in 1..MaxAmount : SetThrottling(value)
=============================================================================
