# AirSwap protocols: models and proofs

This directory holds TLA+ models of the AirSwap protocols repository, the TLC
configurations that check them on small instances, and proofs that TLAPS checks
for every value of the constants. Paths below are relative to the repository.

- [1. The system](#1-the-system)
- [2. Modules and the code they model](#2-modules-and-the-code-they-model)
- [3. Runs, bounds and what they show](#3-runs-bounds-and-what-they-show)
- [4. Fairness and deadlock](#4-fairness-and-deadlock)
- [5. What is proved](#5-what-is-proved)
- [6. Where the code and its documentation disagree](#6-where-the-code-and-its-documentation-disagree)
- [7. Abstractions and known gaps](#7-abstractions-and-known-gaps)
- [8. What is not modelled](#8-what-is-not-modelled)
- [9. Next steps](#9-next-steps)

To check a configuration, `tlc -config light.cfg MCLight.tla`; to check proofs,
`tlapm LightProofs.tla`. `PROJECT.json` lists the runs, and for each definition the lines
of the source that it models. It also lists for each property a mutation of the code that
breaks it; the mutated operators stand in the modules beside the originals, under a
comment that begins with "Mutant".

## 1. The system

AirSwap is peer-to-peer trading. A market maker (the *signer*) signs orders off chain; a
taker (the *sender*) submits one to the Light contract, which moves the two tokens.
Around that there are a registry where market makers list the URLs of their servers and
the tokens they trade, a JSON-RPC client for those servers, a staking contract, a pool
that shares the protocol's fees among those with a claim, a converter that turns the fees
into one token, and a wrapper that lets a taker trade ether.

```
   application ── Server.ts ══ JSON-RPC ══ market maker ── signs orders
       │              │                                       │
       │         Registry.sol (URLs by token)                 │
       │                                                      │
       ├── Validator.sol ── reads ─┐                          │
       │                           ▼                          ▼
       ├── Wrapper.sol ──────► Light.sol ◄──── authorize, cancel
       │      │ WETH               │ transferFrom, fee
       │      ▼                    ▼
       └────────────────────── ERC20 tokens ◄── Staking, Registry, Pool, Converter
                                                             ▲            │
                              merkle tools (roots, proofs) ──┘      Uniswap router
```

### Components

| Component | State | Operations | Talks to |
|---|---|---|---|
| Light, `source/light/contracts/Light.sol` | fee and fee wallet, one authorized signer for each wallet, a bitmap of used nonces in words of 256 for each signatory | `swap`, `swapWithRecipient`, `cancel`, `authorize`, `revoke`, `setFee`, `setFeeWallet` | two tokens for each swap (three transfers), events for the subgraph |
| Validator, `source/validator/contracts/Validator.sol` | the address of Light | `checkSwap` (a view) | reads Light and the tokens |
| Wrapper, `source/wrapper/contracts/Wrapper.sol` | none; the ether and tokens it is left with | `swap` | deposits to and withdraws from WETH, calls Light as the sender with its caller as the recipient |
| Staking, `source/staking/contracts/Staking.sol` | the vesting schedule in force, a list of stakes for each account, each with a schedule of its own | `stake`, `stakeFor`, `extend`, `extendFor`, `unstake`, `setVesting` | the staked token |
| Registry, `source/registry/contracts/Registry.sol` | a URL for each staker, tokens by staker and stakers by token | `setURL`, `addTokens`, `removeTokens`, `removeAllTokens` | the staking token; read by clients |
| Pool, `source/pool/contracts/Pool.sol` | scale and max of the formula, enabled roots, who claimed which root | `setScale`, `setMax`, `enable`, `drainTo`, `withdraw`, `withdrawProtected` | the token paid; proofs of the merkle tools |
| Merkle tools, `tools/merkle/src/merkle.ts` | none | layers, root and proof of a tree | the Pool's roots and proofs |
| Converter, `source/converter/contracts/*.sol` | payees, shares and their total; a router path for each token; WETH, the token to convert to, the fee of the trigger | `addPayee`, `removePayee`, `setWETH`, `setSwapToToken`, `setTriggerFee`, `setTokenPath`, `convertAndTransfer`, `drainTo` | the router, the tokens |
| Server client, `tools/libraries/src/Server.ts` | the socket, the initialization timer and promise, what the server announced, the HTTP client, listeners, calls in flight | `Server.for`, the calls of the protocols, `on`, `disconnect`; handlers of `initialize` and `updatePricing` | a market maker, over HTTP or a WebSocket |
| Contract clients, `tools/libraries/src/{Light,Validator,Registry,Wrapper}.ts` | none, but for the answers a call of `getServers` waits for | one contract call each; `Registry.getServers` joins two reads and opens several servers | the contracts, `Server.for` |
| Utilities, `tools/utils/src/*.ts` | none | the cost of an amount by price levels, the best of several quotes; conversions and hashes | |
| Subgraph, `tools/subgraph/src/*.ts` | a store of entities | one handler for each event, run in the order of the events | events of Light, Pool and of contracts that are not in the repository |
| Metadata, constants, types, `tools/*` | none | downloads of token lists; tables, declarations | |

### What is hard about it

A contract's function is one transaction that completes or reverts, so the difficulty is
not in threads; it is in what independent wallets may do *between* two transactions, and
in long sequences of calls:

- **interleaving of wallets**: requotes under one nonce, a cancellation that crosses a
  swap, an authorization that is withdrawn after a signer has signed, a fee that changes
  between the signature and the swap;
- **state kept twice**: the bitmap and the event log of Light, the two indexes of the
  registry, payees, shares and total of the converter, stakes and balance of the staking
  contract, and everything that the subgraph keeps a second time under names that it
  composes of parts of the events;
- **loops over lists that change**: `unstake` and `removePayee` remove by swapping with
  the last element;
- **stored decisions**: a stake keeps the schedule it was made under, the converter keeps
  the first default path;
- **arithmetic that rounds**: vesting, the time stamp of an extended stake, shares, the
  formula of the pool;
- **two contracts that have to agree**: the validator repeats the checks of Light, the
  wrapper depends on the allowances of Light, the pool on the shape of the trees the
  tools build;
- **asynchronous JavaScript**: in the server client a timer that races with messages,
  a socket that closes at any moment, continuations that run after handlers; in
  `getServers` two awaited reads of a registry that changes between them, and several
  servers of which any may fail.

`PROJECT.json` names each of these hazards at its line, with the properties that would
catch it.

### What makes each component correct

- **Light**: an order settles at most once and never after it was cancelled; tokens move
  only as a live signature says, whoever the parties are; a used nonce stays used.
- **Validator**: a clean report means that the swap does not revert, and a report of
  errors that it does.
- **Wrapper**: an order that Light would settle settles through the wrapper; wrapped ether
  is made only against ether and paid out as ether.
- **Staking**: nothing is released before it vests, extending loses and gains nothing,
  the contract holds what the stakes say.
- **Registry**: both indexes describe one relation; each staker has the price of its own list
  on deposit, and nobody else's changes with it; the contract holds what all can take back.
- **`getServers` and the quotes**: a staker that stays is found; the call is answered,
  with all servers or with a failure; the taker gets the best offer.
- **Pool**: a leaf is paid once, for the score it has in the tree and at most the
  permitted percentage; every leaf can be claimed.
- **Subgraph**: the entities say what the contracts hold and paid.
- **Converter**: payees, shares and total agree; a payout leaves only dust and is made in
  the token that was bought.
- **Server client**: `Server.for` always settles and leaves no socket behind when it
  rejects; prices are heard in order; `consider` goes to the server that was named last; only a
  silent server times out.

## 2. Modules and the code they model

| Module | Models | Extends |
|---|---|---|
| `ERC20` | tokens as the contracts use them: balances, allowances, `transfer`, `transferFrom`, `approve` (external) | |
| `Light` | `Light.sol` | `ERC20` |
| `NonceLedger` | abstract: what Light promises of an order | |
| `LightProofs` | theorems about Light, the reports of the Validator, and the Wrapper | `Validator`, `Wrapper`, `SumsAndArrays` |
| `Validator` | `Validator.sol` over every behaviour of Light | `Light` |
| `MCLight` | an instance of Light and Validator | `Validator` |
| `Wrapper`, `MCWrapper` | `Wrapper.sol` with a deployment of Light | `Light`, an `INSTANCE` of it |
| `SumsAndArrays` | lemmas on induction, sums over finite sets, and arrays | |
| `Staking`, `MCStaking` | `Staking.sol` | `ERC20` |
| `StakingProofs` | theorems about the stakes | `Staking`, `SumsAndArrays` |
| `Registry` | `Registry.sol` | `ERC20` |
| `Directory` | abstract: what the Registry promises to stakers and takers | |
| `Quotes` | the operators of `tools/utils` that compare offers | |
| `RegistryClient`, `MCRegistry` | `Registry.ts` over the contract, and a taker that compares (external) | `Registry`, `Quotes` |
| `RegistryProofs` | theorems about the registry, `getServers` and the comparison | `RegistryClient`, `SumsAndArrays` |
| `MerkleTree` | `merkle.ts`, and `MerkleProof.verify` (external) | |
| `Pool` | `Pool.sol` | `ERC20`, `MerkleTree` |
| `SubgraphStore` | the entity store and `EntityHelper.ts` | |
| `PoolIndex`, `MCPool` | `PoolMapping.ts` over the Pool | `Pool`, `SubgraphStore` |
| `PoolProofs` | theorems about merkle trees, the pool and its index | `PoolIndex`, `SumsAndArrays` |
| `LegacyMappings` | the handlers for Swap, Indexer, Index, Delegate, DelegateFactory and Locker | `SubgraphStore` |
| `LegacyContracts` | the events of those contracts (external) | `LegacyMappings` |
| `Subgraph`, `MCSubgraph` | `SwapLightMapping.ts`, `PricingHelper.ts`; Light and the earlier contracts with one index | `Light`, `LegacyContracts` |
| `SubgraphProofs` | theorems about that index | `Subgraph`, `LightProofs`, `SumsAndArrays` |
| `Converter`, `MCConverter` | `Converter.sol`, `TokenPaymentSplitter.sol`, the router (external) | |
| `ConverterProofs` | theorems about shares and payouts | `Converter`, `SumsAndArrays` |
| `ServerClient`, `MCServerClient` | `Server.ts`, the market maker and the network (external) | |
| `ServerClientProofs` | theorems about the client | `ServerClient` |

**Contracts.** The state variables of a contract are the variables of its module, under
the names of the source. Each external function is one action that takes the caller and
the arguments as parameters; it is enabled exactly when no `require` on its path, and no
call it makes, reverts, and it makes all of the function's changes at once. A transaction
that reverts changes nothing and is no step. `Next` lets every account call every
function with every argument of small sets, so that the guards on the caller are tested.
A variable `now` and an action `Tick` stand for the block's time stamp where it is read,
an action `Fork` for a chain that takes another id.

*Light.* A signature is a record of who signed which order. `OrderHash` is the order with
the sender and the fee of the moment, as the hash in the code has them and not the
caller's arguments, and `Recover` gives the signatory for the hash that was signed, an
address that nobody holds for another, and null for malformed bytes. `nonceGroups` is the
bitmap: a set of bits for each word. `AfterSender`, `AfterSigner` and `Settled` are the
three transfers in order, each on the holdings that the one before left; that is what
makes trades in which accounts or tokens coincide come out as in the code. `filled` and
`cancelled` are histories of the events.

*NonceLedger* keeps one status for each signatory and nonce: open, filled or cancelled.
`Ledger` in Light reads the status from the bitmap and the log.

*Validator* has no state. `CheckSwap` is the set of errors, `Question` is everything one
may ask, and the properties compare a report with `CanSwap` of Light in the same state.

*Wrapper* is an account among the others to Light. `Wrapped`, `Traded` and `Unwrapped`
are the holdings after the deposit, after Light returns, and after the withdrawal; the
middle one is Light's own definition, instantiated with the holdings that the deposit
left. `WrapperNext` interleaves the wrapper's `swap` with all that wallets do with Light.

*Staking.* `unstake` is the loop from the last index to the first as a recursive
function: `after[i]` is the list when the indices from `i` on are handled, so that a
removal by swapping with the last stake is seen by the indices below. `vested` and
`available` have a `...Defined` beside them that says when the code does not revert.

*Registry.* `EnumerableSet`s are sets; `locked` is a history of what each staker paid in
and got back, which the code recomputes from the tokens (`balanceOf`).

*Directory* keeps for each staker a list of tokens, a URL and a deposit, which is always the
price of the list; a step replaces one staker's list or its URL. Registry reads the list from the
index by token (`Listed`), which is what takers are served from, and the deposit from
`locked`. The refinement says that the two indexes, the amounts of the two ways to remove
tokens and the single obligation come to this.

*MerkleTree* builds layers by pairing nodes; a node without a partner moves up unhashed,
and `getProof` leaves out the missing partner, as `merkle.ts` does. Hashes are symbolic
terms: equal exactly if what was hashed is equal. *Pool* takes its trees, roots and proofs
from there. A call carries an array of claims; `CanClaim` is the loop with its
`require`s, including the mark that an earlier claim of the same array leaves.

*RegistryClient.* One call of `getServers`. `ReadSignerURLs` and `ReadSenderURLs` are the
two awaited reads, each of the registry as it is at that moment, and `Transact` is any
transaction of `Registry` between them. `InBoth` is the filter, by URL and not by staker,
as the code has it. `ServerSettles(s)` is the outcome of one `Server.for` and `AfterServer`
what `Promise.all` makes of it: the first failure rejects, the other servers settle all
the same. The contacted URLs and the stakers that did not change are histories. *Quotes*
has the loop over price levels as a recursive function, with `decimalPlaces(6)` as a rounding
half up of prices that are numbers of 10^-7. Levels are lists of cumulative amounts in
ascending order, as in `tools/utils/test/orders.ts`. `Compare` is a taker that uses these operators; the
property compares its choice with a cost added up unit by unit.

*Subgraph.* A store is a record of functions, one for each kind of entity, from the ids
that exist to the entities; a handler is an operator from a store to the store it leaves.
A transaction and the handlers of its events are one step, because handlers run one at a
time, in the order of the events, and read nothing but the event and the store. Ids keep the
parts of which the code joins them; of a root that is the text `Bytes.toString` reads from
its bytes (`TextOf`, a constant that need not tell roots apart). `changed` in `PoolIndex` is
a history of the settings that were set. `Subgraph` and `PoolIndex` take the events from the
actions of `Light` and `Pool`. The other contracts are not in the repository: in
`LegacyContracts`, `legacy` is what the events so far say, and an event is possible unless
a handler takes for granted that it is not (an order under a rule that exists).

*Converter.* `convertAndTransfer` is the disjunction of the case in which the token is
already the one to pay in, and the case of a swap by the router, each followed by the
same `Distribute`. `event` and `paid` are a history of the last conversion.

*ServerClient.* JavaScript runs one macrotask at a time and then all the continuations it
made ready: a handler, a timer or a call of the application is one action, and `Turn`
keeps the next one waiting while a call is answered and its continuation has not run.
`forPromise` is where the two `await`s of `Server.for` stand. The market maker sends any
message at any time over a connection that keeps their order and may break at any moment.
`CallMethod` is a public method: it requires support of its protocol and makes the call,
whose record, with the host it is sent to, `callRPCMethod` gives. `accepted` is a history of
what sender server, if any, each initialization named that succeeded. An answer in which
`compare` finds something that is no text makes it throw inside the callback
(`Server.ts:341`): the browser's client then calls back with the error, with the one for
Node the call stays `"unsettled"`.

## 3. Runs, bounds and what they show

All runs are exhaustive for their bounds.

| Run | Shows | States |
|---|---|---|
| `light` | `TypeOK`, `OneEventPerUsedNonce`, `UsedNoncesStayUsed`, `SettlesAsSigned`, `ImplementsLedger`; with the Validator `CleanReportsHold`, `ReportedErrorsAreReal` | 64 512 |
| `validator_nonce` | violates `UsedNoncesAreDetected` | |
| `wrapper` | violates `OrdersForEtherSettle` | |
| `staking` | `TypeOK`, `StakesWellFormed`, `TotalSupplyIsSumOfBalances`; until the schedule changes `WithdrawnIsVested`, `ExtendKeepsVesting`, `VestedStakesAreLeftAlone` | 601 645 |
| `staking_refresh` | violates `FullyVestedStakesAreNotExtended`, the schedule changing | |
| `registry` | `IndexesAgree`, `ContractOwesWhatItHolds`, `ImplementsDirectory`; of the client `SteadyStakersAreFound`, `QuietRegistryIsReadExactly`, `AllServersOrNone`, `BestOfferIsTaken`, and the liveness property `GetServersSettles` | 158 940 |
| `pool` | `EachLeafPaidOnce`, `EveryLeafIsClaimable`, `WithdrawalIsBounded`, `WithdrawalPaysLeafScores`; of its index `ClaimsMatchPayouts`, `PoolIsIndexed` | 68 306 |
| `subgraph` | `CancelledLightNoncesAreIndexed`, `SwapsAreIndexed`, `CollectedFeesAreIndexed`, `UsersAreIndexed`, `ListingsAreIndexed`, `RulesAreIndexed` | 461 656 |
| `converter_split` | `PayeesMatchShares`, `PayoutIsComplete` | 465 192 |
| `converter_stale` | violates `BuysSwapToToken` | |
| `server_client` | `WaitIsTimed`, `RejectedLeavesNoSocket`, `PricesInOrder`, the action property `ConsiderGoesToSenderServer`, and the liveness property `ForSettles` | 649 582 |
| `server_timer` | violates `OnlySilentServersTimeOut` | |

**light, validator_nonce.** A quotes to B, and C may be authorized to sign for A, owns
Light and may be the fee wallet. Three nonces, two of one word and the first of the next
(0, 1, 256): every way in which marking one nonce can disturb another needs two nonces of
one word or two words. Five signatures: an order with a fee of half the amount, its
requote under the same nonce without a fee, a trade of a token for itself, a trade with
oneself, and one that C signs for A under a nonce that A uses. Four units of each
token and approvals of less let transfers fail for balance and for allowance. Fees are 0,
5000 and the refused 10000, a clock of two instants lets orders expire, and two chain ids
let the chain fork. Every signature may be submitted with every other order, and so may a
malformed one. More wallets only repeat these roles.

**wrapper.** Ann sells X for wrapped ether, X for nothing and wrapped ether for nothing;
Bob takes through the wrapper with up to two units of ether.

**staking.** Ann has three tokens and Bob one; either may stake for the other and extend the
other's stakes, and the owner goes back and forth between the schedules <<1, 0>> and <<3, 1>>.
A stake of three units under <<3, 1>> can be before its cliff, partly vested with remainders in
the division, at its end (a clock to 4) and past it. Two stakes for each account are the
shortest list in which removing one moves another over it. `MaxInitial` bounds how often a
stake can be extended. `WithdrawnIsVested`, `ExtendKeepsVesting` and
`VestedStakesAreLeftAlone` are stated until the history `rescheduled` is set, because under a
changing schedule `vested` may fall, by the design of `setVesting`.

**registry.** Two stakers, three tokens and all batches of them, two URLs which the stakers
may share, an obligation of 2, a cost of 1 for each token and 6 units for each staker:
enough to list all three tokens and one unit to spare. The taker asks for one pair, so that
the third token is one that does not matter to it. Two stakers are one that stays and one
that comes, goes or takes the other's URL between the reads; with three the run takes
over four million states and shows no new case. A server has announced no levels, or
one, two or three; amounts of 1, 2 and 4 lie on a level, between two, and beyond the last, and
a price of 1.5 millionths makes the rounding go up for one unit and not for two.

**pool.** A tree of five leaves, in which the last leaf has no partner in two layers and
one account stands twice, and two trees of one leaf, of which one is nobody's who withdraws;
the roots of these two read alike, that of the first does not. Arrays have up to two claims, also two
of one root; scores, proofs, roots and accounts are tried in all combinations. The scale
is 0 (where the scores outweigh it), 1 and the refused 78; the percentage 50, 100 and the
refused 101. Two blocks let withdrawals share one or not.

**subgraph.** A network has two of the contracts in use, paired so that every kind of entity
that two of them write is written by both: Light with the Locker, the earlier Swap with the
Locker, Indexer with the Locker, Delegate with Indexer, and Delegate alone, with from 2 to 7
events of the earlier contracts: enough to create a delegate, set a rule, use it up, set it
again and use that. A and its signer C use one nonce for A, and C the same for itself; batches of
nonces overlap with each other and with what was swapped. One of the two tokens has an
oracle, which may change or revert. `Base`, `PriceUnit` and `TokenUnit` are small and
divide nothing evenly, so that all four roundings of the fee are met; a day is one instant.

**converter_split.** Three accounts, shares of 0 (refused), 1 and 2, a fee of 40 and the
refused 101, an amount of 5 that none of the totals divides evenly; a direct path between
two tokens. **converter_stale** has three tokens and no set path, so that conversions
store the default one.

**server_client, server_timer.** Two calls and three messages of the market maker, among
them initialization with one of two sender servers, an unparsable one, none, or invalid
parameters. Two calls are what it takes for one answer to overtake another, two messages
for an initialization that follows another; the third lets a price come between, or a third
initialization, so that one naming a server is followed by one that fails and one that names
none.

Bounds on counters (`MaxTime`, `MaxStakes`, `MaxInitial`, `MaxClaims`, `MaxHolding`,
`MaxPath`, `MaxMessages`) are guards, named as constants in the module that has them.

## 4. Fairness and deadlock

No fairness is assumed of the contracts: nobody is obliged to send a transaction, and all
that is stated of them is safety. For the same reason `CHECK_DEADLOCK` is off: once the
clock has reached its bound and the funds are used, no call of a bounded model need be
possible.

`ServerClient` states weak fairness of `InitTimeout` (the runtime fires a timer that is
due), of `ConnectionFails` (a socket that is opening opens or fails; one that is closed
while it opens fails) and of `Continue(c)` (the microtasks of a settled promise run before
the next macrotask). Nothing is assumed of the market maker, of the application or of the
network: the market maker may stay silent, and the connection may be lost or not.
`ForSettles` needs just these: without the timer a silent server leaves `Server.for`
pending for ever. An HTTP server is settled from the start.

`RegistryClient` states weak fairness of each read (the provider answers it or fails it)
and of `ServerSettles(s)`, which is what `ForSettles` shows of every server that is opened.
Nothing is assumed of the stakers, who may transact between the reads or not, nor of the
application that compares.

## 5. What is proved

| Theorem | Says | From |
|---|---|---|
| `LightProofs!NoncesMatchEvents` | `Spec => [](TypeOK /\ OneEventPerUsedNonce)` | inductive |
| `LightProofs!ConfigurationIsValid` | `Spec => []TypeOK` | a part of the first |
| `LightProofs!UsedNoncesAreFinal` | `Spec => UsedNoncesStayUsed` | the first, and what a step does to the nonces |
| `LightProofs!LightImplementsLedger` | `Spec => ImplementsLedger` | the same |
| `LightProofs!SwapsSettleAsSigned` | `Spec => SettlesAsSigned` | `TypeOK`, and what three transfers do |
| `LightProofs!SwapsConserveTokens` | `Spec => []TokensConserved`: balances add up to those at the start | what three transfers do, and sums |
| `LightProofs!CleanReportsArePromises` | `Spec => []CleanReportsHold` | `TypeOK`, and when a settlement succeeds |
| `LightProofs!AlarmsAreReal` | `Spec => []ReportedErrorsAreReal` | the same |
| `LightProofs!CleanReportsAreExact` | `Spec => []CleanReportsLeaveThreeGaps`: after a clean report, but for a wallet that trades a token with itself, the swap succeeds unless the chain forked, the order expires now, or the signatory's nonce is used | the same |
| `LightProofs!WrapperKeepsNonces` | `WrapperSpec => [](TypeOK /\ OneEventPerUsedNonce)` | `WrapperInv` |
| `LightProofs!NothingIsSoldThroughTheWrapper` | `WrapperSpec => []OnlyGiftsSettle` | the same, and that no step raises the wrapper's allowance |
| `LightProofs!WrappedEtherIsBacked` | `WrapperSpec => []EtherIsBacked`: ether and wrapped ether together are conserved, and every other token | the same, and what each stage of a swap mints, moves and burns |
| `RegistryProofs!ListingsAndDeposits` | `Spec => [](TypeOK /\ IndexesAgree /\ LockedIsBalance)` | inductive |
| `RegistryProofs!ListingsAgree` | `Spec => []IndexesAgree` | a part of it |
| `RegistryProofs!EveryDepositIsHeld` | `Spec => []ContractOwesWhatItHolds` | `SolvencyInv` |
| `RegistryProofs!RegistryImplementsDirectory` | `ClientSpec => ImplementsDirectory` | `ListingsAndDeposits` |
| `RegistryProofs!StayingIsBeingFound` | `ClientSpec => []SteadyStakersAreFound` | `SteadyInv` |
| `RegistryProofs!QuietReadIsExact` | `ClientSpec => QuietRegistryIsReadExactly` | `SteadyInv` |
| `RegistryProofs!AllOrNothing` | `ClientSpec => []AllServersOrNone` | `ServersInv` |
| `RegistryProofs!BestOfferIsChosen` | `ClientSpec => []BestOfferIsTaken` | `OffersInv`, and what the three loops of `Quotes` compute |
| `StakingProofs!StakesAreWellFormed` | `Spec => [](TypeOK /\ StakesWellFormed)` | `IInv` of `StakingProofs` |
| `StakingProofs!StakingTypes` | `Spec => []TypeOK` | a part of it |
| `StakingProofs!SupplyIsSum` | `Spec => []TotalSupplyIsSumOfBalances` | a part of it |
| `StakingProofs!NothingLeavesUnvested` | `Spec => []WithdrawnIsVested` | the same |
| `StakingProofs!ExtendingKeepsVested` | `Spec => ExtendKeepsVesting` | the same, and the arithmetic of the time stamp |
| `StakingProofs!OnlyLengtheningReopens` | `Spec => [][ReopensOnlyShorterStakes]_vars`: a fully vested stake is added to only under a longer duration than its own | the same, and the arithmetic of `vested` |
| `StakingProofs!VestedStakesStay` | `Spec => VestedStakesAreLeftAlone` | the theorem before |
| `StakingProofs!BatchesArePartByPart` | `Spec => []BatchIsPartByPart`: `unstake` accepts a batch if and only if it would accept each part alone | the same, and the loop |
| `ConverterProofs!SharesAddUp` | `Spec => []PayeesMatchShares` | `SplitterInv` |
| `ConverterProofs!ConversionPaysOut` | `Spec => []PayoutIsComplete` | `PayoutInv` |
| `ConverterProofs!OnlyStalePathsMisbuy` | `Spec /\ [][LeavesSwapToToken]_vars => []BuysSwapToToken` | `BuyingInv` |
| `PoolProofs!OnlyElementsHaveProofs` | a proof that is accepted for the root of a tree is for an element of it | the nodes of a tree |
| `PoolProofs!GeneratedProofsVerify` | the proof `getProof` gives for an element is accepted | the layers of a tree |
| `PoolProofs!LeavesPaidOnce` | `Spec => []EachLeafPaidOnce` | `TypeOK /\ EachLeafPaidOnce` |
| `PoolProofs!WithdrawalsPayForLeaves` | `Spec => WithdrawalPaysLeafScores` | the same, and `OnlyElementsHaveProofs` |
| `PoolProofs!LeavesAreClaimable` | `Spec => []EveryLeafIsClaimable` | the same, and `GeneratedProofsVerify` |
| `PoolProofs!WithdrawalsAreBounded` | `Spec => WithdrawalIsBounded` | the same, and `ShareIsBounded` |
| `PoolProofs!PoolSettingsAreIndexed` | `IndexSpec => []PoolIsIndexed` | `IInv /\ Indexes` |
| `PoolProofs!ClaimsNeverExceedPayouts` | `IndexSpec => []ClaimsMatchPayouts` | the same |
| `SubgraphProofs!RulesAreKept` | `SubgraphSpec => []RulesAreIndexed` | `RulesInv` |
| `SubgraphProofs!ListingsAreKept` | `SubgraphSpec => []ListingsAreIndexed` | `ListingsInv` |
| `SubgraphProofs!SwapsAreKept` | `SubgraphSpec => []SwapsAreIndexed` | `IInv` of Light, and itself |
| `SubgraphProofs!UsersAreKept` | `SubgraphSpec => []UsersAreIndexed` | `UsersInv` |
| `SubgraphProofs!CancelledNoncesAreKept` | `SubgraphSpec => []CancelledLightNoncesAreIndexed` | `IInv` of Light, `UsersInv`, `LightListsInv` |
| `SubgraphProofs!CollectedFeesAreKept` | `SubgraphSpec => CollectedFeesAreIndexed`, where fee wallets do not trade | `FeesInv`, what a settlement pays, and what the roundings lose |
| `ServerClientProofs!RejectionLeavesNoSocket` | `Spec => []RejectedLeavesNoSocket` | `SocketInv` |
| `ServerClientProofs!WaitingIsTimed` | `Spec => []WaitIsTimed` | `WaitInv` |
| `ServerClientProofs!OnlyTheTimerDisconnects` | `Spec => []OnlyTimerDisconnects`: a server that initialized stays connected until the timer fires, the application disconnects, or the connection is lost | `TimerInv` |
| `ServerClientProofs!ConsiderIsDelivered` | `Spec => ConsiderGoesToSenderServer` | `ClientInv`, `OrderInv` |
| `ServerClientProofs!PricesArriveInOrder` | `Spec => []PricesInOrder` | `OrderInv` |

They hold for all wallets, tokens, signatures and nonces (in any number of words), all
stakers, tokens, costs and lists of levels, all schedules and any number of stakes, all
payees and shares, all trees and arrays of claims of any length, all servers'
announcements and any number of messages and calls, and all users, pairs, prices and numbers
of events. The assumptions are those of the modules (`LightAssumption`, `StakingAssumption`,
`RegistryAssumption`, `RegistryClientAssumption`, `PoolAssumption`, `ConverterAssumption`,
`ServerClientAssumption`, `LegacyAssumption`, `SubgraphAssumption`): special addresses differ
from the others, nonces and amounts are natural numbers, arguments have their types, where
amounts are added up the sets of accounts or tokens are finite, an array of nonces is finite,
units and bases are positive, a tree is a list without repetitions of leaves that have an
account and a score, the levels that a server announces ascend, and a market maker that
announces a sender server offers last look. Some theorems have premises of their own:

- `CollectedFeesAreKept` is stated for fee wallets that are no party to an order, because the
  property measures what was paid by the balance of the fee wallet, and a fee wallet that
  trades gains and loses other amounts in the same step. The instance of `subgraph`
  satisfies it.
- The theorems about the wrapper assume that it is an account, WETH a token and the ether at
  the start a natural number for each account (`WrapperAssumption`). `NothingIsSoldThroughTheWrapper`
  assumes that the wrapper starts without an allowance and is not among those who may approve
  (`ApprovesNothing`): `Wrapper.sol` has no call of `approve`. The instance of `wrapper` satisfies
  both.
- The two theorems on conservation assume finitely many wallets, or there would be no sum.
- `OnlyStalePathsMisbuy` is about the behaviours in which the owner keeps `swapToToken` and sets
  paths to it only (`LeavesSwapToToken`): those of an owner who does not make use of
  `setSwapToToken`. Without the premise the run `converter_stale` has a counterexample.

Of the five statements of section 6 that the code does not keep, each has a theorem that says
how far it goes: `CleanReportsAreExact`, `OnlyLengtheningReopens`, `OnlyStalePathsMisbuy`,
`OnlyTheTimerDisconnects` and `NothingIsSoldThroughTheWrapper`. A run shows that the case
exists, the theorem in which circumstances it must lie.

*SumsAndArrays.* The inductions over numbers, lengths and finite sets are done with sets
in place of predicates: `LeastNumber` says that a set of natural numbers with a member has a
least one, and `SetInduction`, `MeasureInduction` and `SubsetInduction` follow from it. A
recursive function is defined by a CHOOSE, so that every proof about one begins with
the existence of a function that satisfies its equation: if one satisfies it up to an
index, then one satisfies it up to the next. The folds of the community modules, with which
sums are written, are treated in the same way (`SumIsIteration`, `IterationExists`); from
`SumUnfold` come the laws of sums that all the other modules cite.

*Light.* The bitmap is indexed by word and bit, the log by nonce. The lemma
`MarkSetsTheBatch` says that marking a batch makes used exactly the nonces of the batch
and what was used; it rests on a nonce being determined by its quotient and its remainder
by 256. `OneEventPerUsedNonce` is inductive only together with the types (of
`nonceGroups` and of the counters). `StepOfNonces` classifies every step: it fills one
unused nonce of one signatory, or cancels a batch, or leaves bitmap and log alone. The
refinement then needs `EffectOfFill` and `EffectOfCancel`, what each of these does to the
outcome that is read from both, and `FillRefines` and `CancelRefines`, that this is a
step of `NonceLedger`. The invariant is needed there too: "cancelled" is read as used and
without a Swap event, which is right only because an unused nonce has no event.
`SwapsSettleAsSigned` adds up three transfers: `TransferMovesBalances` is what one of them
does to the balance of any account in any token, `SettlementMovesBalances` what the three do,
which for parties or tokens that coincide is a sum of up to six amounts, `SwapIsSigned` that
the order whose hash was recovered is the order signed, with the fee of the moment, and
`OnlySwapsMoveBalances` that no other step moves anything. `SwapsConserveTokens` does not
need that sum of six: each transfer takes from one account of a finite set what it adds to
another, or to the same one, and so leaves the sum of the set alone.

*Validator.* Both promises hold in every state of the right types: no history of Light is
needed. `SettlementOfTwoWallets` and `SettlementWithOneself` say what the three transfers
require, in terms of the balances and allowances before the first of them, which is what
`checkSwap` looks at. The second shows where the two differ: what a wallet pays itself funds
its fee, so `ReportedErrorsAreReal` leaves out the trades of a wallet with itself. `CleanReportDecides` goes
through the conditions of `swapWithRecipient` after a clean report. All of them follow,
for delegated orders too, but three: the chain's id, which the validator does not ask for, the
expiry in the block of the expiry, and the nonce of the signatory, where the report has
looked at the wallet's.

*Wrapper.* `WrapperInv` is the invariant of Light with the ether typed. A swap of the wrapper is
a step of Light on other holdings, those after the deposit; Light's lemmas about nonces
apply to it as they are, and those about transfers are cited for the instance
(`SettlementFromHoldings` says what the three of them require of the holdings they
begin with). Deposits and withdrawals change no allowance, and Light only lowers those it
uses, so that the wrapper's stays 0 and an order that asks something of its sender fails at the first transfer.
For the conservation `WrappingMints` and the lemmas after it follow the total of each token
through the three stages, and that of the ether beside it: what is minted is what the caller
pays, what is burnt is what the caller gets. Ether that stays in the wrapper (section 7) is
counted as the wrapper's.

*Registry.* `LockedIsBalance` is not inductive alone: `removeTokens` refunds the
obligation if the set of tokens becomes empty, so the amount has to be computed from
cardinalities of finite sets before and after (`CostOfDisjoint`, `RemoveAllIsRemove`),
and the index by token has to agree with the index by staker. `SolvencyInv` adds that the
contract holds the sum of what is locked, which a step changes by what one staker pays or
takes. `RegistryImplementsDirectory` uses both invariants in the state before and after a step:
the list of the directory is `supportedTokens` by `IndexesAgree` and the deposit its price by
`LockedIsBalance`, so that a step which adds or removes tokens is a `Relist` of one staker
(`RelistingRefines`), and the read of a client a stutter. `LockedIsBalance` is not among the
invariants of the run, because a state that breaks it breaks the directory too.

*RegistryClient.* `SteadyInv` says of a staker that did not change since the first read that
the answer of that read has its present URL and that it is still on the list of the second
token; the join by URL then finds it, whoever else has that URL. `ServersInv` says that
servers exist only after the reads and are pending, open or failed: a call that is neither
resolved nor rejected then has one pending. The comparison is one step, so that `OffersInv`
need only know that the servers are finitely many. What the step computes is proved of the
loops: `CostIsWorth` says that after the levels up to an index the loop has charged the
units up to the amount of that level, each at the price of the first level that reaches it,
for which the levels must ascend; `BestIsFound` that a loop which keeps the first of the best
so far ends with a best of all, which serves for `getLowest` and `getHighest`.

*Staking.* `IInv` says of every stake that it is not empty, holds no more than was put in and
began in the past, and, until the schedule is replaced, that it has the schedule in force and
that what was withdrawn had vested; and that all balances add up to the contract's tokens. The
loop of `unstake` removes by moving the last stake, so its induction (`UnstakingIs`) runs
down from the last index with a list that changes: below the index the list is what it
was at the start, every stake in it is good, and what it has lost is the sum of the amounts
handled. `ExtensionArithmetic` is the time stamp of an extended stake: rounded, it
neither takes away what had vested nor vests a unit of time of the new total in advance.
The same induction shows that what the loop meets at an index is the stake as it was before
the call, and `ContractCoversAccount` that the contract has the sum of the parts, whence
`BatchesArePartByPart`. `VestsAtMostInitial` says that a stake vests more than its initial
amount only if the duration in force is longer than its own; that is why `extendFor`, which
compares for equality, can be wrong about full vesting in that case and no other.

*Converter.* `SplitterInv` is the types and `PayeesMatchShares`; removing a payee moves the last
one over it, which keeps the payees distinct and every account with shares listed.
`PayoutInv` adds the types of a conversion. `RoundingLoss` is the arithmetic, for any shares
that add up to their total: amounts of `(r * share) \div total` lose less than one unit
each; `PaymentsAddUp` shows that the payments of `Distribute` are those amounts and the
trigger's fee, although they are listed by position and the shares by account. `BuyingInv` says
that every stored path ends in the token of the payees; a default path does when it is
stored, and `setTokenPath`, which appends, does when what it appends ends so.

*Merkle trees.* `LayersAre` says that layers shrink to one node. A proof that is
accepted is followed backwards from the root (`OnlyElementsHaveProofs`): every node of a tree
is the hash of an element or of two nodes of the layer below (`NodesAreMade`), and what was
hashed follows from a hash, so each step of the check began at a node, the first at
the hash of an element. In the other direction (`GeneratedProofsVerify`) the part of the
generated proof up to a layer leads to the node above the element there (`WayStaysOn`), which
holds because a node without a partner moves up as it is (`PairGivesNext`).

*Pool.* `EachLeafPaidOnce` relates the mark to the number of paid claims. The loop of one
call is covered by `RootsOfClaimsAreDistinct`: an array that passes `CanClaim` names each
root at most once, so that the count grows by 0 or 1. The bound on a withdrawal is
`ShareIsBounded`, for any divisor that contains the score. That a withdrawal pays for leaves
needs the trees: a claim that is accepted has the account's leaf in a tree with that root, and
the scores of the array are a sum over its positions, that of the leaves one over their
roots (`SumRenamed`).

*PoolIndex.* A handler's effect on the store is taken apart by kind of entity (`SaveIs`,
`LoadOrCreateIs`). A claim's entity is named by account, token and block, and a later one of
the same name replaces it; `Indexes` therefore says that the entities are the last payouts
of their names. The sum over the last payouts is at most that over all payouts, and equal if
there are no others (`SumOfPart`), which is `ClaimsMatchPayouts`. `PoolIsIndexed` rests on
`PoolEntity`, which gives the settings exactly (a pool that is not in the store has the
defaults), and on `RootEntities`, by which the name of each enabled root has an entity with
some enabled root of that name. Nothing is assumed of `TextOf`.

*Subgraph.* The proofs go from the handlers up. For each handler a lemma says which kinds of
entity it may write (`SwapHandlersKeep` and the like), and from these one lemma for each
contract says what its events may change of `legacy` and of the store (`StepChanges`). A
property is disturbed by the events of one or two contracts only, and each of those has a
lemma. Users and tokens are the exception: nearly every handler creates those it names.
A store is therefore read through views, in which an entity that does not exist says what
a new one would (`UserView`); a handler that only makes sure that a user or a token
exists changes no view (`Visits`), and one that writes a list of one user changes the view
of that user (`Rewrites`).

- `RulesInv` says that an entity is there under the name of each rule that is left, that it
  says what the rule and its delegate say, and that no other is; no two rules have one name.
- `ListingsInv` does so for indexes, locators and the blacklist, and for the stake of a user who
  never had two: `spread` is in the property because the name leaves the pair out.
- `UsersInv` says that the lists of each user, as sets, are what was authorized and cancelled,
  and that those of authorizations have no repetition. For that the list operations are
  taken apart: what `push`, `splice` and `sort()` keep (`ListedIs`, `UnlistedIs`,
  `SortedIs`). A sort puts each element at the number of those that come before it, ties
  going to the earlier one; that these places are all places, each once, is shown by
  counting.
- `SwapsAreIndexed` is inductive with the invariant of Light: a filled order stays filled, and
  a swap fills the order that its signature is for. When a swap overwrites the entity of another,
  the two have the same wallet and nonce, which is what the property allows.
- `LightListsInv` says that a wallet's list has the nonces that Light cancelled, each once. One call
  of `cancel` is a fold of the handler over the nonces that were not used; the lemma
  `CancelAllUnfolds` gives the stores in between, and `CancelAllLists` what is on the list after
  each subset. That the new nonces are not on the list yet is
  `OneEventPerUsedNonce`: the handler does not look.
- `FeesInv` has the types of days and prices. `SwapAddsToItsDay` is what the handler adds,
  `FeeWalletReceivesFee` what Light paid, from the lemma behind `SwapsSettleAsSigned`, and
  `FeeInDollars` compares the two: `(((f * B) \div U) * ((p * B) \div P)) \div B` is at most
  the exact fee, and less than it by no more than the three roundings can take.

*ServerClient.* `RejectedLeavesNoSocket` is not inductive: that nothing opens the socket
after the rejection needs `SocketInv`, which relates the socket to the two promises and says
that no message waits while `Server.for` can still fail. `PricesInOrder` says nothing of
prices that are still to be heard; `OrderInv` puts those of the inbox after those that were
heard, and between the two the price of the one answer whose continuation has not run, which
is where the order of handlers and continuations enters. That a `consider` goes to the server
that was named last needs `ClientInv`: over a WebSocket the HTTP client is one for the last
server in `accepted` that is not `NoHost` (`LastNamedOfLonger`), and none exists while no
sender server is set, so that `consider` cannot go over HTTP by mistake nor over the socket; a
server of HTTP, whose client is another, never comes to support last look. `WaitInv` adds to
`SocketInv` that the timer is set when the connection is requested and that nobody has made a call before `Server.for`
resolved, so that `Turn` cannot hold the timer up. Weak fairness of the timer and of
`ConnectionFails` do the rest in `ForSettles`. `TimerInv` relates the two promises:
they are resolved by one step, the initialization, after which only `InitTimeout`, `disconnect`
and a loss of the connection touch the socket.

**Model-checked only.** Liveness (`ForSettles`, `GetServersSettles`), which is beyond the
prover: it rests on fairness and on which actions are enabled. Of `ForSettles` the safety half
is proved (`WaitingIsTimed`); of `GetServersSettles` it is in `ServersInv`, by which a call
that has not settled is before a read or has a server pending. Every other property of a
passing run has a theorem.

## 6. Where the code and its documentation disagree

Five runs end in a counterexample, each to what a comment, a doc or a test says. The theorem
in brackets says in which cases only.

1. `validator_nonce`: `checkSwap` looks up the nonce of `signerWallet`
   (`Validator.sol:161`), Light that of the recovered signatory (`Light.sol:233`). For an
   order of an authorized signer a used nonce goes unreported (`CleanReportsAreExact`).
2. `staking_refresh`: after `setVesting` lengthens the duration, `vested` of a stake with a
   shorter one exceeds its initial amount; `extendFor` compares for equality
   (`Staking.sol:198`), extends the stake, and what was fully vested vests anew
   (`OnlyLengtheningReopens`).
3. `converter_stale`: the default path that the first conversion stores
   (`Converter.sol:125`) is kept after `setSwapToToken`: the router goes on buying the old
   token, which nobody is paid (`OnlyStalePathsMisbuy`).
4. `server_timer`: the initialization timer (`Server.ts:286`) is not cleared; it
   disconnects a server that did initialize and is in use (`OnlyTheTimerDisconnects`).
5. `wrapper`: the wrapper never approves Light for WETH (`Wrapper.sol:69`), so a swap
   that pays with ether reverts, and one that pays with any token too
   (`NothingIsSoldThroughTheWrapper`); the unit test has mocks for Light and WETH.

## 7. Abstractions and known gaps

- **Data.** Hashes and signatures are symbolic. Amounts are natural numbers: the
  contracts use checked arithmetic, and the models stay far below 2^256. URLs, symbols and
  names are model values. Sets replace `EnumerableSet` and arrays whose order and
  repetitions have no effect (nonces of `cancel`, errors of `checkSwap`).
- **Owner.** The owner of each contract is a constant: `transferOwnership` is not
  modelled.
- **Tokens** move exactly what they are asked to, and do not call back. Light re-reads
  the fee between transfers; a token that re-enters is outside the model.
- **Validator.** `InScope` leaves out four kinds of questions for which a report is
  known to differ from Light: after a fork (Validator does not compare chain ids), in the
  block of the expiry (`<` against `<=`), orders of authorized signers (finding 1), and a
  wallet that trades a token with itself. False alarms are left out for two more: a trade of
  a token for itself, and a wallet that takes its own order, which is reported as
  `SIGNER_BALANCE_LOW` if it has the amount but not the fee with it, and settles.
- **Staking.** After the schedule was shortened and lengthened again, what was withdrawn
  may exceed `vested`, and `available` reverts (the guard `AvailableDefined`) until time
  catches up. `WithdrawnIsVested` shows that this cannot happen under one schedule.
- **Converter.** `setTokenPath` appends to what is stored, as the code does. Converting
  the target token leaves an allowance to the router until the next conversion.
- **Wrapper.** Ether that is sent with an order for another token than WETH stays in
  the contract. For an order that pays WETH the recipient is the caller, and the wrapper
  then withdraws wrapped ether of its own, if it has any. The model has both steps:
  `WrappedEtherIsBacked` says that nothing is lost or made by them, no property says who
  should have it.
- **Pool** is modelled for one token; `calculateMultiple` is `calculate` over a list.
  The empty tree is left out. The amount depends on the balance, scale and max at the
  moment of the withdrawal, so that other transactions may change it after the claims were
  made; `withdrawProtected` is the answer of the code, and its minimum is in the model.
- **Registry client.** `Light.getAddress` and the provider's errors are one failing read.
  When `Promise.all` rejects, the servers that did open stay open, and the caller has no
  reference to them; the model keeps them, no property forbids it. Transactions after the
  second read are left out, because the client does not read again.
- **Subgraph.** Names of entities are tuples of the parts that the code joins. A few handlers
  differ from what their entities' fields promise, and the model has them as they are:
  `LockerMapping.ts:24` and `:30` write `throttlingPercentage` for the duration and the
  balance; the name of a stake leaves its pair out, so the stakes of one user for two pairs
  share an entity; `PoolMapping.ts:6` reads the bytes of a root as UTF-8 (`toString`, where
  `schema.graphql` says "Pool + root"), which turns whatever is not UTF-8 into the same
  replacement character, so that enabled roots may share an entity and the last one stays
  in it (only of roots that read differently is every one in the index); the claims of one account and token in one block replace each other; a
  swap of a wallet and one of its authorized signer under the same nonce do too;
  `SwapMapping.ts:110` takes the affiliate's token from `senderToken`; the `expiry` of a
  `SwapLight` is the time of the event; `getPool` has the defaults of the locker, and the constructor of `Pool` emits no events, so that
  these stay until the owner sets a value;
  the fees in dollars stay multiplied by 2^64. The properties state what holds in spite of
  these. `swapWithRecipient` emits the same event as `swap`, without the recipient, and is
  therefore not a second action there.
- **ServerClient.** `getMaxQuote`, `subscribe`, `unsubscribe` and `consider` stand for
  the methods, which differ in their parameters. Version comparison, comparison of a
  result with the parameters and `getSenderWallet` are abstracted to their outcome. How
  an HTTP client is built, and the `error` event of the socket, are left out. An
  initialization that names no sender server leaves the one named before in place, and so
  does one that names a server whose locator does not parse, which only makes `consider`
  fail if no other was named before; `ConsiderGoesToSenderServer` says so. A
  rejection of `initPromise` before `Server.for` awaits it is in the model, what the
  runtime reports then is not.
- **Outside the models**: `Validator.ts:31` returns `Validator[chainId]`, a property of the
  class, where the constructor reads `ValidatorDeploys[chainId]`; `metadata/index.ts:25` throws
  if a list answers without tokens.

## 8. What is not modelled

- `Light.ts` and `Validator.ts`: each function passes its arguments to one contract call.
- `tools/utils` but for the quotes: conversions, checks of field names, and hashes of a
  contract that is not in the repository.
- The contracts of the earlier protocol (Swap, Indexer, Index, Delegate, Locker): the
  repository has their ABIs and the handlers of their events, which are modelled; what the
  contracts themselves require is not.
- `tools/metadata`: downloads of token lists and calls of token contracts.
- `tools/constants`, `tools/types`, `scripts`, deployment: tables, declarations, build.

## 9. Next steps

The order of the plan was: settlement and its abstract specification; the contracts that
hold funds (staking, registry, pool, converter); the client of the market maker; the
compositions (validator, wrapper, registry client, subgraph); then proofs component by
component. What is left:

*Models.*
1. Who is paid when the wrapper holds ether or wrapped ether: a wrapper that approved Light,
   in a module of its own, would be the specification to check `Wrapper` against.
2. Tokens that call back into Light between the transfers of a swap.
3. Transfer of ownership, where it decides who may act.

*Proofs.* Invariants of the models above, when they exist.
