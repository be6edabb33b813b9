--------------------------- MODULE SubgraphStore ---------------------------
(***************************************************************************)
(* The entity store of the subgraph (tools/subgraph/schema.graphql) and    *)
(* the functions of EntityHelper.ts, by which every event handler reaches  *)
(* it.  A store is a record with one field for each kind of entity, a      *)
(* function from the ids that exist to the entities.  The handlers run one *)
(* at a time, so each is an operator from a store to the store it leaves.  *)
(* An id that the code joins from strings of fixed length is a tuple.      *)
(***************************************************************************)
EXTENDS Integers, SequencesExt

Kind ==
    {"User", "Token", "SwapContract", "Swap", "SwapLightContract", "SwapLight",
     "Indexer", "Index", "Stake", "Locator", "DelegateFactory", "Delegate",
     "Rule", "Locker", "Pool", "PoolClaim", "EnabledRoot", "CollectedFeesDay"}

NoEntity == [id \in {} |-> {}]
EmptyStore == [kind \in Kind |-> NoEntity]

Exists(st, kind, id) == id \in DOMAIN st[kind]

(* A function with one more argument, or with another value for one. *)
With(f, x, v) == [y \in DOMAIN f \union {x} |-> IF y = x THEN v ELSE f[y]]

(* entity.save(): the entity is created or replaced. *)
Save(st, kind, id, entity) == [st EXCEPT ![kind] = With(@, id, entity)]

(* store.remove: nothing happens if there is no such entity. *)
RemoveEntity(st, kind, id) == [st EXCEPT ![kind] = Restrict(@, DOMAIN @ \ {id})]

(* The helpers load an entity and save it with defaults if it is new.      *)
LoadOrCreate(st, kind, id, defaults) ==
    IF Exists(st, kind, id) THEN st ELSE Save(st, kind, id, defaults)

-----------------------------------------------------------------------------
(* EntityHelper.ts.  An entity that has only an id is a record of it.      *)

getUser(st, address) ==
    LoadOrCreate(st, "User", address,
        [authorizedSigners |-> <<>>, authorizedSenders |-> <<>>,
         cancelledSwapNonces |-> <<>>, cancelledSwapLightNonces |-> <<>>,
         amountInLocker |-> 0])

getToken(st, address) ==
    LoadOrCreate(st, "Token", address, [isBlacklisted |-> FALSE])

getIndexer(st, address) ==
    LoadOrCreate(st, "Indexer", address, [id |-> address])

getDelegateFactory(st, address) ==
    LoadOrCreate(st, "DelegateFactory", address, [id |-> address])

getSwapContract(st, address) ==
    LoadOrCreate(st, "SwapContract", address, [id |-> address])

getLocker(st, address) ==
    LoadOrCreate(st, "Locker", address,
        [throttlingPercentage |-> 10, throttlingDuration |-> 604800,
         throttlingBalance |-> 100])

getPool(st, address) ==
    LoadOrCreate(st, "Pool", address, [scale |-> 10, max |-> 604800, roots |-> <<>>])

getCollectedFeesDay(st, dayId) ==
    LoadOrCreate(st, "CollectedFeesDay", dayId, [date |-> 0, amount |-> 0])

-----------------------------------------------------------------------------
(* Lists of an entity. *)

(* push, only if indexOf finds nothing. *)
Listed(list, x) == IF Contains(list, x) THEN list ELSE Append(list, x)

(* splice at what indexOf found. *)
Unlisted(list, x) == RemoveFirst(list, x)

(* The place that a sort gives to the i-th element. *)
Place(list, i) ==
    Cardinality({j \in DOMAIN list : list[j] < list[i] \/ (list[j] = list[i] /\ j <= i)})

(* push and sort(): the nonces of a batch are added, in ascending order.   *)
Sorted(list) == [k \in DOMAIN list |-> list[CHOOSE i \in DOMAIN list : Place(list, i) = k]]
=============================================================================
