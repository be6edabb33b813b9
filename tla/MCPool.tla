------------------------------- MODULE MCPool -------------------------------
(* A small instance of Pool and its index: a tree of five leaves, whose    *)
(* last leaf has no partner in two layers and in which one account stands  *)
(* twice, and two trees of a single leaf, whose roots read alike.          *)
EXTENDS PoolIndex

CONSTANTS Ann, Bob, Cat

LeafOf(account, score) == [account |-> account, score |-> score]

Five == <<LeafOf(Ann, 10), LeafOf(Cat, 10), LeafOf(Bob, 15), LeafOf(Cat, 15), LeafOf(Ann, 15)>>
Single == <<LeafOf(Ann, 10)>>

Other == <<LeafOf(Cat, 10)>>

MCTree == {Five, Single, Other}

MCTextOf == [root \in Root |-> IF root = getRoot(Five) THEN "a" ELSE "b"]

(* The proofs of the leaves of Ann and Bob, each of which may be tried for *)
(* any root and score.                                                     *)
MCProof == {getProof(Five, i) : i \in {1, 3, 5}} \union {getProof(Single, 1)}
=============================================================================
