----------------------------- MODULE PoolIndex -----------------------------
(***************************************************************************)
(* The Pool contract and the part of the subgraph that indexes it          *)
(* (tools/subgraph/src/PoolMapping.ts).  A transaction and the handler of  *)
(* its event are one step.  Several transactions may be in one block, that *)
(* is, at one block.timestamp.                                             *)
(***************************************************************************)
EXTENDS Pool, SubgraphStore

CONSTANTS
    PayoutToken,    \* the token that the pool pays
    TextOf,         \* TextOf[root] is what Bytes.toString reads from the root
    MaxTime         \* bound on the clock

ASSUME PoolIndexAssumption == MaxTime \in Nat

VARIABLES
    store,      \* the entities
    now,        \* block.timestamp
    changed,    \* history: the settings, "scale" and "max", that were set
    payouts     \* history: the withdrawals, with the block and what was received

indexVars == <<vars, store, now, changed, payouts>>

-----------------------------------------------------------------------------
(* PoolMapping.ts. *)

(* Mutant: the root is no part of the name. *)
EnabledRootIdOfPool(root) == <<Contract>>

(* toString reads the bytes of the root as UTF-8: bytes that are none are  *)
(* replaced by one and the same character, so that roots may read alike.   *)
EnabledRootId(root) == <<Contract, TextOf[root]>>

handleEnable(st, root) ==
    Save(getPool(st, Contract), "EnabledRoot", EnabledRootId(root),
         [pool |-> Contract, root |-> root])

(* Mutant: the time is no part of the name. *)
PoolClaimIdOfAccount(account, timestamp) == <<account, PayoutToken>>

PoolClaimId(account, timestamp) == <<account, PayoutToken, timestamp>>

handleWithdraw(st, account, amount, timestamp) ==
    Save(getToken(getUser(getPool(st, Contract), account), PayoutToken),
         "PoolClaim", PoolClaimId(account, timestamp),
         [pool |-> Contract, user |-> account, token |-> PayoutToken, amount |-> amount])

(* Mutant: the event is not stored. *)
handleSetScaleUnstored(st, value) == getPool(st, Contract)

handleSetScale(st, value) == [getPool(st, Contract) EXCEPT !.Pool[Contract].scale = value]

handleSetMax(st, value) == [getPool(st, Contract) EXCEPT !.Pool[Contract].max = value]

-----------------------------------------------------------------------------
(* The transactions with their events. *)

Indexed(st) == store' = st /\ UNCHANGED <<now, changed, payouts>>

IndexedSetting(st, setting) ==
    /\ store' = st
    /\ changed' = changed \union {setting}
    /\ UNCHANGED <<now, payouts>>

(* Withdraw carries the amount that calculate gave. *)
IndexedWithdrawal(account, claims) ==
    LET amount == calculate(TotalScore(claims))
    IN  /\ store' = handleWithdraw(store, account, amount, now)
        /\ payouts' = Append(payouts, [account |-> account, at |-> now,
                                       received |-> balance'[account] - balance[account]])
        /\ UNCHANGED <<now, changed>>

NextBlock ==
    /\ now < MaxTime
    /\ now' = now + 1
    /\ UNCHANGED <<vars, store, changed, payouts>>

IndexInit ==
    /\ Init
    /\ store = EmptyStore
    /\ now = 0
    /\ changed = {}
    /\ payouts = <<>>

IndexNext ==
    \/ \E caller \in Account :
        \/ \E n \in Scale : setScale(caller, n) /\ IndexedSetting(handleSetScale(store, n), "scale")
        \/ \E n \in Percentage : setMax(caller, n) /\ IndexedSetting(handleSetMax(store, n), "max")
        \/ \E root \in Root : enable(caller, root) /\ Indexed(handleEnable(store, root))
        \/ \E dest \in Account : drainTo(caller, dest) /\ Indexed(store)
        \/ \E claims \in BoundedSeq(Claim, MaxClaims) :
             /\ \/ withdraw(caller, claims)
                \/ \E minimum \in MinimumAmount : withdrawProtected(caller, claims, minimum)
             /\ IndexedWithdrawal(caller, claims)
    \/ NextBlock

IndexSpec == IndexInit /\ [][IndexNext]_indexVars

-----------------------------------------------------------------------------
(* Correctness. *)

(* The claims of an account, as the subgraph adds them up, never exceed    *)
(* what it received from the pool, and are the same unless the account     *)
(* withdrew twice in one block: then the later claim has replaced the      *)
(* earlier.                                                                *)
ClaimsMatchPayouts ==
    \A a \in Account :
        LET own == {i \in DOMAIN payouts : payouts[i].account = a}
            received == SumFunction([i \in own |-> payouts[i].received])
            ids == {id \in DOMAIN store.PoolClaim : store.PoolClaim[id].user = a}
            claimedAmount == SumFunction([id \in ids |-> store.PoolClaim[id].amount])
        IN  /\ claimedAmount <= received
            /\ (\A i, j \in own : payouts[i].at = payouts[j].at => i = j)
                  => claimedAmount = received

(* An entity of an enabled root exists only for a root that is enabled,    *)
(* and for each enabled root there is one that reads like it: of roots     *)
(* that read alike one has replaced the others.  A setting of the pool's   *)
(* entity is the contract's from its first event on, before that it is the *)
(* default of getPool, which is not that of the contract; and there is no  *)
(* entity of the pool only if no root was enabled and no setting changed.  *)
PoolIsIndexed ==
    LET enabled == {e.root : e \in Range(store.EnabledRoot)}
    IN  /\ enabled \subseteq roots
        /\ \A r \in roots : \E q \in enabled : TextOf[q] = TextOf[r]
        /\ IF Exists(store, "Pool", Contract)
           THEN /\ store.Pool[Contract].scale = IF "scale" \in changed THEN scale ELSE 10
                /\ store.Pool[Contract].max = IF "max" \in changed THEN max ELSE 604800
           ELSE roots = {} /\ changed = {}
=============================================================================
