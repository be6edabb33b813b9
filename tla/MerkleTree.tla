----------------------------- MODULE MerkleTree -----------------------------
(***************************************************************************)
(* The merkle trees of tools/merkle/src/merkle.ts, and the check of their  *)
(* proofs (MerkleProof of OpenZeppelin, external).  Hashes are symbolic: a *)
(* hash is equal to another one only if what was hashed is.  Buffers are   *)
(* sorted by their hashes, whose order says nothing about what was hashed: *)
(* a tree is given by the sequence of its elements in that order, and a    *)
(* hash of two nodes by the set of the two.                                *)
(***************************************************************************)
EXTENDS Integers, SequencesExt

(* keccak256 of an element and of two sorted, concatenated nodes. *)
leafHash(data) == [leaf |-> data]
combinedHash(first, second) == [pair |-> {first, second}]

(* Mutant: a last node without a partner is hashed with itself. *)
getNextLayerDoubling(layer) ==
    [i \in 1..((Len(layer) + 1) \div 2) |->
        combinedHash(layer[2*i - 1], layer[IF 2*i <= Len(layer) THEN 2*i ELSE 2*i - 1])]

(* Neighbours are hashed; a last node without a partner moves up as it is. *)
getNextLayer(layer) ==
    [i \in 1..((Len(layer) + 1) \div 2) |->
        IF 2*i <= Len(layer) THEN combinedHash(layer[2*i - 1], layer[2*i])
                             ELSE layer[2*i - 1]]

(* The layers of a tree from the elements to the root. *)
getLayers(elements) ==
    LET layer[k \in 0..Len(elements)] ==
            IF k = 0 THEN [i \in DOMAIN elements |-> leafHash(elements[i])]
                     ELSE getNextLayer(layer[k - 1])
        top == CHOOSE k \in 0..Len(elements) :
                    Len(layer[k]) = 1 /\ \A j \in 0..(k - 1) : Len(layer[j]) > 1
    IN  [k \in 1..(top + 1) |-> layer[k - 1]]

getRoot(elements) == LET layers == getLayers(elements) IN layers[Len(layers)][1]

(* The neighbour of the node at idx (from 0), if the layer has one. *)
getPairElement(idx, layer) ==
    LET pairIdx == IF idx % 2 = 0 THEN idx + 1 ELSE idx - 1
    IN  IF pairIdx < Len(layer) THEN <<layer[pairIdx + 1]>> ELSE <<>>

(* The proof of the i-th element: the neighbours on its way to the root,   *)
(* from whose place in one layer the place in the next follows.            *)
getProof(elements, i) ==
    LET layers == getLayers(elements)
        way[k \in 0..Len(layers)] ==
            IF k = 0 THEN [proof |-> <<>>, idx |-> i - 1]
            ELSE [proof |-> way[k - 1].proof \o getPairElement(way[k - 1].idx, layers[k]),
                  idx   |-> way[k - 1].idx \div 2]
    IN  way[Len(layers)].proof

(* MerkleProof.verify: the leaf hashed with each node of the proof in turn. *)
processProof(proof, leaf) ==
    LET hash[j \in 0..Len(proof)] ==
            IF j = 0 THEN leaf ELSE combinedHash(hash[j - 1], proof[j])
    IN  hash

verifyProof(proof, root, leaf) == processProof(proof, leaf)[Len(proof)] = root
=============================================================================
