-------------------------------- MODULE Pool --------------------------------
(***************************************************************************)
(* The Pool contract (source/pool/contracts/Pool.sol): accounts withdraw a *)
(* share of the pool's tokens against scores that are the leaves of merkle *)
(* trees whose roots the owner enables.                                    *)
(***************************************************************************)
EXTENDS ERC20, MerkleTree, FiniteSetsExt

CONSTANTS
    Account,       \* who withdraws
    Contract,      \* the address of the contract
    Owner,         \* its owner
    Tree,          \* merkle trees: sequences of an account's score
    Proof,         \* the proofs an account may claim with
    Score,         \* the scores an account may claim
    Scale,         \* values tried for setScale
    Percentage,    \* values tried for setMax
    MinimumAmount, \* values tried for minimumAmount
    MaxClaims,     \* bound on the claims of one call
    InitBalance    \* tokens in the pool at the start

MAX_PERCENTAGE == 100
MAX_SCALE == 77

ASSUME PoolAssumption ==
    /\ Contract \notin Account
    /\ Owner \in Account
    /\ \A tree \in Tree : tree \in Seq(Range(tree)) /\ tree # <<>> /\ IsInjective(tree)
    /\ \A proof \in Proof : proof \in Seq(Range(proof))
    /\ \A tree \in Tree : \A i \in DOMAIN tree :
          /\ tree[i] = [account |-> tree[i].account, score |-> tree[i].score]
          /\ tree[i].score \in Score
    /\ Score \subseteq Nat
    /\ Scale \subseteq Nat /\ Percentage \subseteq Nat
    /\ MinimumAmount \subseteq Nat
    /\ MaxClaims \in Nat
    /\ InitBalance \in Nat

(* The roots of all trees there are. *)
Root == {getRoot(tree) : tree \in Tree}

VARIABLES
    scale,      \* the larger the scale, the lower the output for a claim
    max,        \* percentage for a claim with infinite score
    roots,      \* the enabled roots
    claimed,    \* claimed[r]: the accounts that claimed their leaf of r
    balance,    \* balances of one token
    withdrawn   \* history: claims of each account that were paid, by root

vars == <<scale, max, roots, claimed, balance, withdrawn>>

Claim == [root: Root, score: Score, proof: Proof]

setScale(caller, newScale) ==
    /\ caller = Owner
    /\ newScale <= MAX_SCALE
    /\ scale' = newScale
    /\ UNCHANGED <<max, roots, claimed, balance, withdrawn>>

setMax(caller, newMax) ==
    /\ caller = Owner
    /\ newMax <= MAX_PERCENTAGE
    /\ max' = newMax
    /\ UNCHANGED <<scale, roots, claimed, balance, withdrawn>>

enable(caller, root) ==
    /\ caller = Owner
    /\ root \notin roots
    /\ roots' = roots \union {root}
    /\ UNCHANGED <<scale, max, claimed, balance, withdrawn>>

drainTo(caller, dest) ==
    /\ caller = Owner
    /\ balance' = Move(balance, Contract, dest, balance[Contract])
    /\ UNCHANGED <<scale, max, roots, claimed, withdrawn>>

(* Mutant: the score that counts is not the score that was proved. *)
verifyAnyScore(account, claim) ==
    \E score \in Score :
        verifyProof(claim.proof, claim.root, leafHash([account |-> account, score |-> score]))

verify(account, claim) ==
    verifyProof(claim.proof, claim.root,
                leafHash([account |-> account, score |-> claim.score]))

powerOfTen(n) ==
    LET power[k \in 0..n] == IF k = 0 THEN 1 ELSE 10 * power[k - 1]
    IN  power[n]

(* Mutant: the percentage is applied to the score alone. *)
calculateOfScore(score) ==
    ((max * score * balance[Contract]) \div powerOfTen(scale)) \div 100

calculate(score) ==
    ((max * score * balance[Contract]) \div (powerOfTen(scale) + score)) \div 100

(* Mutant: claims are marked only after the loop, so that an array may     *)
(* name a root twice.                                                      *)
CanClaimTwice(account, claims) ==
    \A i \in DOMAIN claims :
        /\ claims[i].root \in roots
        /\ account \notin claimed[claims[i].root]
        /\ verify(account, claims[i])

(* The loop over the claims: each root is enabled and not claimed before,  *)
(* nor by a claim earlier in the array, and each proof is valid.           *)
CanClaim(account, claims) ==
    \A i \in DOMAIN claims :
        /\ claims[i].root \in roots
        /\ account \notin claimed[claims[i].root]
        /\ \A j \in DOMAIN claims : j < i => claims[j].root # claims[i].root
        /\ verify(account, claims[i])

TotalScore(claims) == SumFunction([i \in DOMAIN claims |-> claims[i].score])

(* How often an array names a root. *)
Occurrences(claims, root) == Cardinality({i \in DOMAIN claims : claims[i].root = root})

withdrawProtected(account, claims, minimumAmount) ==
    LET amount == calculate(TotalScore(claims))
    IN  /\ claims # <<>>
        /\ CanClaim(account, claims)
        /\ amount >= minimumAmount
        /\ balance[Contract] >= amount
        /\ claimed' = [r \in Root |-> IF Occurrences(claims, r) > 0
                                      THEN claimed[r] \union {account} ELSE claimed[r]]
        /\ balance' = Move(balance, Contract, account, amount)
        /\ withdrawn' = [withdrawn EXCEPT ![account] =
                            [r \in Root |-> @[r] + Occurrences(claims, r)]]
        /\ UNCHANGED <<scale, max, roots>>

withdraw(account, claims) == withdrawProtected(account, claims, 0)

Init ==
    /\ scale \in {s \in Scale : s <= MAX_SCALE}
    /\ max \in {m \in Percentage : m <= MAX_PERCENTAGE}
    /\ roots = {}
    /\ claimed = [r \in Root |-> {}]
    /\ balance = [a \in Account \union {Contract} |-> IF a = Contract THEN InitBalance ELSE 0]
    /\ withdrawn = [a \in Account |-> [r \in Root |-> 0]]

Next ==
    \E caller \in Account :
        \/ \E n \in Scale : setScale(caller, n)
        \/ \E n \in Percentage : setMax(caller, n)
        \/ \E root \in Root : enable(caller, root)
        \/ \E dest \in Account : drainTo(caller, dest)
        \/ \E claims \in BoundedSeq(Claim, MaxClaims) :
              \/ withdraw(caller, claims)
              \/ \E minimum \in MinimumAmount : withdrawProtected(caller, claims, minimum)

Spec == Init /\ [][Next]_vars

-----------------------------------------------------------------------------
(* Correctness. *)

TypeOK ==
    /\ scale \in 0..MAX_SCALE
    /\ max \in 0..MAX_PERCENTAGE
    /\ roots \subseteq Root
    /\ claimed \in [Root -> SUBSET Account]
    /\ balance \in [Account \union {Contract} -> Nat]
    /\ withdrawn \in [Account -> [Root -> Nat]]

(* A leaf is paid at most once, and only under an enabled root: the mark   *)
(* on the root and the number of paid claims agree, also for an array that *)
(* names several roots, or one root several times.                         *)
EachLeafPaidOnce ==
    \A a \in Account, r \in Root :
        /\ withdrawn[a][r] = IF a \in claimed[r] THEN 1 ELSE 0
        /\ a \in claimed[r] => r \in roots

(* The scores of an account's leaves, one in some tree of each root.       *)
ScoreChoices(a, Roots) ==
    {scores \in [Roots -> Score] :
        \A r \in Roots : \E tree \in Tree :
            /\ getRoot(tree) = r
            /\ [account |-> a, score |-> scores[r]] \in ToSet(tree)}

PaidForLeaves(a) ==
    LET used == {r \in Root : a \in claimed'[r] \ claimed[r]}
    IN  used # {} => \E scores \in ScoreChoices(a, used) :
                        balance'[a] - balance[a] = calculate(SumFunction(scores))

(* A withdrawal pays its account for leaves that its account has in trees  *)
(* of the roots it uses up, one leaf of each root, and for nothing else:   *)
(* no proof carries another score or account past the check.               *)
WithdrawalPaysLeafScores == [][\A a \in Account : PaidForLeaves(a)]_vars

(* Every leaf of an enabled root can be claimed with the proof the merkle  *)
(* tools generate for it, wherever it stands in a tree of any shape, until *)
(* its account has claimed a leaf of that root.                            *)
EveryLeafIsClaimable ==
    \A tree \in Tree : \A i \in DOMAIN tree :
        LET root == getRoot(tree)
        IN  root \in roots /\ tree[i].account \notin claimed[root] =>
              CanClaim(tree[i].account,
                       <<[root |-> root, score |-> tree[i].score, proof |-> getProof(tree, i)]>>)

TookItsShare(a) ==
    /\ \A r \in Root : claimed'[r] \subseteq claimed[r] \union {a}
    /\ balance'[a] - balance[a] = balance[Contract] - balance'[Contract]
    /\ 100 * (balance'[a] - balance[a]) <= max * balance[Contract]
    /\ \A b \in Account \ {a} : balance'[b] = balance[b]

(* A withdrawal takes at most the percentage `max' of the pool, whatever   *)
(* scores are added up in it, and leaves the other accounts' tokens alone: *)
(* all it takes goes to the account whose claims it uses up.               *)
WithdrawalIsBounded == [][claimed' # claimed => \E a \in Account : TookItsShare(a)]_vars
=============================================================================
