------------------------------ MODULE Registry ------------------------------
(***************************************************************************)
(* The Registry contract (source/registry/contracts/Registry.sol): servers *)
(* lock tokens to be listed as supporting tokens for trade.  The lists are *)
(* kept twice, by staker and by token; they are OpenZeppelin's enumerable  *)
(* sets, modelled as sets.  An array argument with a repeated token        *)
(* reverts, so the arguments are sets too.                                 *)
(***************************************************************************)
EXTENDS ERC20, Integers, FiniteSetsExt

CONSTANTS
    Staker,           \* accounts that list servers
    Contract,         \* the address of the contract
    Token,            \* tokens that may be supported
    URL,              \* URLs of servers
    NoURL,            \* the empty string
    obligationCost,   \* locked once by a staker with any token
    tokenCost,        \* locked for each token
    InitBalance       \* staking tokens of each staker at the start

ASSUME RegistryAssumption ==
    /\ Contract \notin Staker
    /\ IsFiniteSet(Token) /\ IsFiniteSet(Staker)
    /\ NoURL \notin URL
    /\ obligationCost \in Nat /\ tokenCost \in Nat
    /\ InitBalance \in Nat

VARIABLES
    supportedTokens,    \* supportedTokens[s]: the tokens of staker s
    supportingStakers,  \* supportingStakers[t]: the stakers of token t
    stakerURLs,         \* stakerURLs[s]
    balance,            \* balances of the staking token
    locked              \* history: what each staker paid in and did not get back

vars == <<supportedTokens, supportingStakers, stakerURLs, balance, locked>>

balanceOf(s) ==
    IF supportedTokens[s] = {} THEN 0
    ELSE obligationCost + tokenCost * Cardinality(supportedTokens[s])

(* Mutant: the obligation is charged with every call. *)
AddingCostEveryTime(s, tokens) ==
    obligationCost + tokenCost * Cardinality(tokens)

(* What addTokens charges: the obligation with the first tokens only. *)
AddingCost(s, tokens) ==
    (IF supportedTokens[s] = {} THEN obligationCost ELSE 0)
        + tokenCost * Cardinality(tokens)

(* Mutant: the obligation is kept. *)
RefundWithoutObligation(s, tokens) == tokenCost * Cardinality(tokens)

(* What removing tokens pays back: the obligation with the last ones. *)
Refund(s, tokens) ==
    (IF supportedTokens[s] \subseteq tokens THEN obligationCost ELSE 0)
        + tokenCost * Cardinality(tokens)

setURL(s, url) ==
    /\ stakerURLs' = [stakerURLs EXCEPT ![s] = url]
    /\ UNCHANGED <<supportedTokens, supportingStakers, balance, locked>>

addTokens(s, tokens) ==
    /\ tokens # {}
    /\ tokens \intersect supportedTokens[s] = {}
    /\ balance[s] >= AddingCost(s, tokens)
    /\ supportedTokens' = [supportedTokens EXCEPT ![s] = @ \union tokens]
    /\ supportingStakers' = [t \in Token |-> IF t \in tokens
                                 THEN supportingStakers[t] \union {s}
                                 ELSE supportingStakers[t]]
    /\ balance' = Move(balance, s, Contract, AddingCost(s, tokens))
    /\ locked' = [locked EXCEPT ![s] = @ + AddingCost(s, tokens)]
    /\ UNCHANGED stakerURLs

(* Mutant: the staker stays on the lists of its tokens. *)
DelistedBySupportOnly(s, tokens) == supportingStakers

(* The lists by token after a staker leaves some of them. *)
Delisted(s, tokens) ==
    [t \in Token |-> IF t \in tokens THEN supportingStakers[t] \ {s}
                     ELSE supportingStakers[t]]

removeTokens(s, tokens) ==
    /\ tokens # {}
    /\ tokens \subseteq supportedTokens[s]
    /\ balance[Contract] >= Refund(s, tokens)
    /\ supportedTokens' = [supportedTokens EXCEPT ![s] = @ \ tokens]
    /\ supportingStakers' = Delisted(s, tokens)
    /\ balance' = Move(balance, Contract, s, Refund(s, tokens))
    /\ locked' = [locked EXCEPT ![s] = @ - Refund(s, tokens)]
    /\ UNCHANGED stakerURLs

(* removeAllTokens pays the obligation and all token costs. *)
removeAllTokens(s) ==
    LET amount == obligationCost + tokenCost * Cardinality(supportedTokens[s])
    IN  /\ supportedTokens[s] # {}
        /\ balance[Contract] >= amount
        /\ supportedTokens' = [supportedTokens EXCEPT ![s] = {}]
        /\ supportingStakers' = Delisted(s, supportedTokens[s])
        /\ balance' = Move(balance, Contract, s, amount)
        /\ locked' = [locked EXCEPT ![s] = @ - amount]
        /\ UNCHANGED stakerURLs

Init ==
    /\ supportedTokens = [s \in Staker |-> {}]
    /\ supportingStakers = [t \in Token |-> {}]
    /\ stakerURLs = [s \in Staker |-> NoURL]
    /\ balance = [a \in Staker \union {Contract} |-> IF a = Contract THEN 0 ELSE InitBalance]
    /\ locked = [s \in Staker |-> 0]

Next ==
    \E s \in Staker :
        \/ \E url \in URL \union {NoURL} : setURL(s, url)
        \/ \E tokens \in SUBSET Token : addTokens(s, tokens) \/ removeTokens(s, tokens)
        \/ removeAllTokens(s)

Spec == Init /\ [][Next]_vars

-----------------------------------------------------------------------------
(* Correctness. *)

TypeOK ==
    /\ supportedTokens \in [Staker -> SUBSET Token]
    /\ supportingStakers \in [Token -> SUBSET Staker]
    /\ stakerURLs \in [Staker -> URL \union {NoURL}]
    /\ balance \in [Staker \union {Contract} -> Nat]
    /\ locked \in [Staker -> Int]

(* The two indexes describe one relation: a taker who asks for the servers *)
(* of a token finds exactly the stakers that support it.                   *)
IndexesAgree ==
    \A s \in Staker, t \in Token :
        t \in supportedTokens[s] <=> s \in supportingStakers[t]

(* What a staker has locked is what balanceOf recomputes from the tokens   *)
(* it supports, by whatever batches they were added and removed: the       *)
(* obligation is charged with the first token and returned with the last.  *)
LockedIsBalance == \A s \in Staker : locked[s] = balanceOf(s)

(* The registry implements the directory: a taker finds a staker under the *)
(* tokens on whose lists it is, and the deposit is what the staker paid    *)
(* in and did not get back.                                                *)
Listed == [s \in Staker |-> {t \in Token : s \in supportingStakers[t]}]

Dir == INSTANCE Directory WITH listed <- Listed, url <- stakerURLs, deposit <- locked

ImplementsDirectory == Dir!Spec

(* The contract holds exactly what it owes, so that every staker can leave *)
(* at any time with all it has locked.                                     *)
ContractOwesWhatItHolds ==
    balance[Contract] = SumFunction([s \in Staker |-> balanceOf(s)])
=============================================================================
