----------------------------- MODULE PoolProofs -----------------------------
(***************************************************************************)
(* Proofs about Pool, for any trees of leaves and arrays of claims.  First *)
(* about merkle trees: the check of a proof accepts the elements of a tree *)
(* and nothing else.  Then about the amounts, about the contract, and last *)
(* about its index.                                                        *)
(***************************************************************************)
EXTENDS PoolIndex, SumsAndArrays, FiniteSetTheorems, TLAPS

-----------------------------------------------------------------------------
(* The layers of a tree.  The recursive function of getLayers exists: one  *)
(* that is right up to a layer gives one that is right up to the next.     *)

IsArray(q, n) == q = [i \in 1..n |-> q[i]]

LEMMA ArrayLength ==
    ASSUME NEW n \in Nat, NEW q, IsArray(q, n)
    PROVE  DOMAIN q = 1..n /\ Len(q) = n
  BY DEF IsArray

LayerStep(elements, g, k) ==
    IF k = 0 THEN [i \in DOMAIN elements |-> leafHash(elements[i])]
             ELSE getNextLayer(g[k - 1])

IsLayering(elements, g) == g = [k \in 0..Len(elements) |-> LayerStep(elements, g, k)]

LayersOf(elements) == CHOOSE g : IsLayering(elements, g)

LEMMA LayeringExists ==
    ASSUME NEW elements, Len(elements) \in Nat
    PROVE  IsLayering(elements, LayersOf(elements))
  <1> DEFINE UpTo(g, m) == g = [k \in 0..m |-> LayerStep(elements, g, k)]
             G == {m \in Nat : \E g : UpTo(g, m)}
  <1>1. 0 \in G
    <2> DEFINE g == [k \in 0..0 |-> LayerStep(elements, <<>>, k)]
    <2>1. \A k \in 0..0 : LayerStep(elements, <<>>, k) = LayerStep(elements, g, k)
      BY DEF LayerStep
    <2>2. UpTo(g, 0)
      BY <2>1
    <2>3. QED
      BY <2>2
  <1>2. ASSUME NEW m \in Nat, m \in G PROVE m + 1 \in G
    <2>1. PICK g : UpTo(g, m)
      BY <1>2
    <2> DEFINE h == [k \in 0..(m + 1) |-> LayerStep(elements, g, k)]
    <2>2. ASSUME NEW k \in 0..m PROVE h[k] = g[k]
      <3>1. k \in 0..(m + 1)
        OBVIOUS
      <3>2. g[k] = LayerStep(elements, g, k)
        BY <2>1
      <3>3. QED
        BY <3>1, <3>2
    <2>3. ASSUME NEW k \in 0..(m + 1)
          PROVE  LayerStep(elements, g, k) = LayerStep(elements, h, k)
      <3>1. k # 0 => h[k - 1] = g[k - 1]
        BY <2>2
      <3> HIDE DEF h
      <3>2. QED
        BY <3>1 DEF LayerStep
    <2>4. UpTo(h, m + 1)
      BY <2>3
    <2>5. QED
      <3> HIDE DEF h, UpTo
      <3>1. QED
        BY <2>4
  <1>3. Len(elements) \in G
    <2> HIDE DEF G
    <2>1. QED
      BY <1>1, <1>2, SetInduction
  <1>4. \E g : IsLayering(elements, g)
    BY <1>3 DEF IsLayering
  <1>5. QED
    BY <1>4 DEF LayersOf

(* The next layer has half as many nodes, rounded up. *)
LEMMA NextLayerIs ==
    ASSUME NEW n \in Nat, n >= 1, NEW layer, IsArray(layer, n)
    PROVE  /\ (n + 1) \div 2 \in Nat /\ (n + 1) \div 2 >= 1
           /\ IsArray(getNextLayer(layer), (n + 1) \div 2)
           /\ \A i \in 1..((n + 1) \div 2) :
                 getNextLayer(layer)[i]
                   = IF 2*i <= n THEN combinedHash(layer[2*i - 1], layer[2*i])
                                 ELSE layer[2*i - 1]
  <1>1. Len(layer) = n
    BY ArrayLength
  <1>2. (n + 1) \div 2 \in Nat /\ (n + 1) \div 2 >= 1
    OBVIOUS
  <1>3. QED
    BY <1>1, <1>2 DEF IsArray, getNextLayer

(* No layer is empty, and each is smaller than the one below until one has *)
(* a single node.                                                          *)
LayerIsArray(elements, k) ==
    LET layer == LayersOf(elements)[k]
    IN  /\ Len(layer) \in Nat /\ Len(layer) >= 1
        /\ IsArray(layer, Len(layer))
        /\ Len(layer) = 1 \/ Len(layer) + k <= Len(elements)

LEMMA LayersAre ==
    ASSUME NEW X, NEW elements \in Seq(X), elements # <<>>
    PROVE  /\ Len(elements) \in Nat /\ Len(elements) >= 1
           /\ LayersOf(elements)[0] = [i \in 1..Len(elements) |-> leafHash(elements[i])]
           /\ \A k \in 1..Len(elements) :
                 LayersOf(elements)[k] = getNextLayer(LayersOf(elements)[k - 1])
           /\ \A k \in 0..Len(elements) : LayerIsArray(elements, k)
  <1> DEFINE n == Len(elements)
             g == LayersOf(elements)
  <1>1. n \in Nat /\ n >= 1 /\ DOMAIN elements = 1..n
    OBVIOUS
  <1>2. g = [k \in 0..n |-> LayerStep(elements, g, k)]
    BY <1>1, LayeringExists DEF IsLayering
  <1> HIDE DEF g
  <1>3. \A k \in 0..n : g[k] = LayerStep(elements, g, k)
    BY <1>2
  <1>4. g[0] = [i \in 1..n |-> leafHash(elements[i])]
    BY <1>1, <1>3 DEF LayerStep
  <1>5. \A k \in 1..n : g[k] = getNextLayer(g[k - 1])
    <2>1. ASSUME NEW k \in 1..n PROVE g[k] = getNextLayer(g[k - 1])
      <3>1. k \in 0..n /\ k # 0
        BY <1>1
      <3>2. g[k] = LayerStep(elements, g, k)
        BY <1>3, <3>1
      <3>3. QED
        BY <3>1, <3>2 DEF LayerStep
    <2>2. QED
      BY <2>1
  <1> DEFINE G == {k \in Nat : k <= n => LayerIsArray(elements, k)}
  <1>6. 0 \in G
    <2>1. IsArray(g[0], n)
      BY <1>4 DEF IsArray
    <2>2. Len(g[0]) = n
      BY <1>1, <2>1, ArrayLength
    <2>3. QED
      BY <1>1, <2>1, <2>2 DEF LayerIsArray, g
  <1>7. ASSUME NEW k \in Nat, k \in G PROVE k + 1 \in G
    <2> SUFFICES ASSUME k + 1 <= n PROVE LayerIsArray(elements, k + 1)
      OBVIOUS
    <2> DEFINE low == g[k]
               w == Len(low)
               high == g[k + 1]
               v == (w + 1) \div 2
    <2>1. /\ w \in Nat /\ w >= 1 /\ IsArray(low, w)
          /\ w = 1 \/ w + k <= n
      BY <1>1, <1>7 DEF LayerIsArray, g
    <2>2. high = getNextLayer(low)
      <3>1. k + 1 \in 1..n /\ (k + 1) - 1 = k
        BY <1>1
      <3>2. QED
        BY <1>5, <3>1
    <2> HIDE DEF w, low, n
    <2>3. v \in Nat /\ v >= 1 /\ IsArray(getNextLayer(low), v)
      BY <2>1, NextLayerIs
    <2>4. v = 1 \/ v + (k + 1) <= n
      BY <1>1, <2>1
    <2> HIDE DEF v, high
    <2>5. IsArray(high, v)
      BY <2>2, <2>3
    <2>6. Len(high) = v
      BY <2>3, <2>5, ArrayLength
    <2>7. /\ Len(high) \in Nat /\ Len(high) >= 1 /\ IsArray(high, Len(high))
          /\ Len(high) = 1 \/ Len(high) + (k + 1) <= n
      BY <2>3, <2>4, <2>5, <2>6
    <2>8. QED
      BY <2>7 DEF LayerIsArray, g, high, n
  <1>8. \A k \in 0..n : LayerIsArray(elements, k)
    <2>1. Nat \subseteq G
      <3> HIDE DEF G
      <3>1. QED
        BY <1>6, <1>7, SetInduction
    <2>2. QED
      BY <1>1, <2>1
  <1>9. QED
    BY <1>1, <1>4, <1>5, <1>8 DEF g

(* The first layer of one node is the top. *)
IsTop(elements, k) ==
    /\ Len(LayersOf(elements)[k]) = 1
    /\ \A j \in 0..(k - 1) : Len(LayersOf(elements)[j]) > 1

TopOf(elements) == CHOOSE k \in 0..Len(elements) : IsTop(elements, k)

LEMMA TopIs ==
    ASSUME NEW X, NEW elements \in Seq(X), elements # <<>>
    PROVE  /\ TopOf(elements) \in 0..Len(elements)
           /\ Len(LayersOf(elements)[TopOf(elements)]) = 1
  <1> DEFINE n == Len(elements)
             g == LayersOf(elements)
             T == {k \in 0..n : Len(g[k]) = 1}
  <1>1. n \in Nat /\ \A k \in 0..n : LayerIsArray(elements, k)
    BY LayersAre
  <1>2. n \in T
    <2>1. n \in 0..n /\ Len(g[n]) \in Nat /\ Len(g[n]) >= 1
          /\ (Len(g[n]) = 1 \/ Len(g[n]) + n <= n)
      BY <1>1 DEF LayerIsArray
    <2>2. QED
      BY <1>1, <2>1
  <1>3. T \in SUBSET Nat /\ T # {}
    BY <1>1, <1>2
  <1>4. PICK k \in T : \A j \in T : k <= j
    <2> HIDE DEF T
    <2>1. QED
      BY <1>3, LeastNumber
  <1>5. ASSUME NEW j \in 0..(k - 1) PROVE Len(g[j]) > 1
    <2>1. j \in 0..n /\ k \in Nat /\ ~(k <= j)
      BY <1>1
    <2>2. j \notin T
      BY <1>4, <2>1
    <2>3. Len(g[j]) # 1 /\ Len(g[j]) \in Nat /\ Len(g[j]) >= 1
      BY <1>1, <2>1, <2>2 DEF LayerIsArray
    <2> DEFINE l == Len(g[j])
    <2>4. l # 1 /\ l \in Nat /\ l >= 1
      BY <2>3
    <2> HIDE DEF l
    <2>5. l > 1
      BY <2>4
    <2>6. QED
      BY <2>5 DEF l
  <1>6. k \in 0..n /\ IsTop(elements, k)
    BY <1>5 DEF IsTop
  <1>7. QED
    BY <1>6 DEF TopOf, IsTop

LEMMA GetLayersIs ==
    ASSUME NEW X, NEW elements \in Seq(X), elements # <<>>
    PROVE  /\ getLayers(elements) = [k \in 1..(TopOf(elements) + 1) |-> LayersOf(elements)[k - 1]]
           /\ Len(getLayers(elements)) = TopOf(elements) + 1
           /\ getRoot(elements) = LayersOf(elements)[TopOf(elements)][1]
  <1> DEFINE t == TopOf(elements)
  <1>1. getLayers(elements) = [k \in 1..(t + 1) |-> LayersOf(elements)[k - 1]]
    BY DEF getLayers, TopOf, IsTop, LayersOf, IsLayering, LayerStep
  <1>2. t \in Nat
    <2>1. Len(elements) \in Nat
      BY LayersAre
    <2>2. QED
      BY <2>1, TopIs
  <1> HIDE DEF t
  <1>3. Len(getLayers(elements)) = t + 1
    <2>1. t + 1 \in Nat
      BY <1>2
    <2>2. QED
      BY <1>1, <2>1
  <1>4. t + 1 \in 1..(t + 1) /\ (t + 1) - 1 = t
    BY <1>2
  <1>5. getRoot(elements) = LayersOf(elements)[t][1]
    BY <1>1, <1>3, <1>4 DEF getRoot
  <1>6. QED
    BY <1>1, <1>3, <1>5 DEF t

-----------------------------------------------------------------------------
(* The nodes of a tree: an element's hash, or a hash of two nodes.         *)

Nodes(elements) ==
    {LayersOf(elements)[x[1]][x[2]] : x \in
        {y \in (0..Len(elements)) \X Nat : y[2] \in 1..Len(LayersOf(elements)[y[1]])}}

LEMMA LayersHoldNodes ==
    ASSUME NEW X, NEW elements \in Seq(X), elements # <<>>, NEW k \in 0..Len(elements)
    PROVE  /\ LayersOf(elements)[k] \in Seq(Nodes(elements))
           /\ \A i \in 1..Len(LayersOf(elements)[k]) :
                 LayersOf(elements)[k][i] \in Nodes(elements)
  <1> DEFINE layer == LayersOf(elements)[k]
             w == Len(layer)
  <1>1. w \in Nat /\ IsArray(layer, w)
    BY LayersAre DEF LayerIsArray
  <1>2. ASSUME NEW i \in 1..w PROVE layer[i] \in Nodes(elements)
    <2>1. <<k, i>> \in {y \in (0..Len(elements)) \X Nat :
                            y[2] \in 1..Len(LayersOf(elements)[y[1]])}
      BY <1>1
    <2>2. QED
      BY <2>1 DEF Nodes
  <1> HIDE DEF w
  <1>3. layer \in Seq(Nodes(elements))
    <2> HIDE DEF layer
    <2>1. QED
      BY <1>1, <1>2 DEF IsArray
  <1>4. QED
    BY <1>2, <1>3 DEF w

(* A node is in a lowest layer, where it was made.                         *)
LEMMA NodesAreMade ==
    ASSUME NEW X, NEW elements \in Seq(X), elements # <<>>, NEW x \in Nodes(elements)
    PROVE  \/ \E i \in 1..Len(elements) : x = leafHash(elements[i])
           \/ \E a, b \in Nodes(elements) : x = combinedHash(a, b)
  <1> DEFINE n == Len(elements)
             g == LayersOf(elements)
             T == {k \in 0..n : \E i \in 1..Len(g[k]) : x = g[k][i]}
  <1>1. /\ n \in Nat /\ n >= 1
        /\ g[0] = [i \in 1..n |-> leafHash(elements[i])]
        /\ \A k \in 1..n : g[k] = getNextLayer(g[k - 1])
        /\ \A k \in 0..n : LayerIsArray(elements, k)
    BY LayersAre
  <1>2. T \in SUBSET Nat /\ T # {}
    <2>1. PICK y \in (0..n) \X Nat : y[2] \in 1..Len(g[y[1]]) /\ x = g[y[1]][y[2]]
      BY DEF Nodes
    <2>2. y[1] \in T
      BY <2>1
    <2>3. QED
      BY <1>1, <2>2
  <1>3. PICK k \in T : \A j \in T : k <= j
    <2> HIDE DEF T
    <2>1. QED
      BY <1>2, LeastNumber
  <1>4. PICK i \in 1..Len(g[k]) : x = g[k][i]
    OBVIOUS
  <1>5. CASE k = 0
    <2>1. Len(g[0]) = n
      <3> HIDE DEF n
      <3>1. IsArray(g[0], n)
        BY <1>1 DEF IsArray
      <3>2. QED
        BY <1>1, <3>1, ArrayLength
    <2>2. i \in 1..n /\ x = g[0][i]
      BY <1>4, <1>5, <2>1
    <2>3. x = leafHash(elements[i])
      BY <1>1, <2>2
    <2>4. QED
      BY <2>2, <2>3
  <1>6. CASE k # 0
    <2> DEFINE low == g[k - 1]
               w == Len(low)
    <2>1. k \in 1..n /\ k - 1 \in 0..n
      BY <1>1, <1>6
    <2>2. w \in Nat /\ w >= 1 /\ IsArray(low, w)
      BY <1>1, <2>1 DEF LayerIsArray
    <2>3. g[k] = getNextLayer(low)
      BY <1>1, <2>1
    <2>4. \A j \in 1..w : low[j] \in Nodes(elements) /\ x # low[j]
      <3>1. \A j \in 1..w : low[j] \in Nodes(elements)
        BY <2>1, LayersHoldNodes
      <3>2. k - 1 \notin T
        <4>1. k \in Int /\ ~(k <= k - 1)
          BY <2>1
        <4>2. QED
          BY <1>3, <4>1
      <3>3. \A j \in 1..w : x # low[j]
        BY <2>1, <3>2
      <3>4. QED
        BY <3>1, <3>3
    <2> HIDE DEF low, w
    <2> DEFINE v == (w + 1) \div 2
    <2>5. /\ v \in Nat /\ IsArray(getNextLayer(low), v)
          /\ \A j \in 1..v : getNextLayer(low)[j]
                   = IF 2*j <= w THEN combinedHash(low[2*j - 1], low[2*j]) ELSE low[2*j - 1]
      BY <2>2, NextLayerIs
    <2>6. Len(getNextLayer(low)) = v
      BY <2>5, ArrayLength
    <2>7. i \in 1..v /\ x = getNextLayer(low)[i]
      BY <1>4, <2>3, <2>6
    <2>8. 2*i - 1 \in 1..w /\ (2*i <= w => 2*i \in 1..w)
      BY <2>2, <2>7
    <2>9. x = IF 2*i <= w THEN combinedHash(low[2*i - 1], low[2*i]) ELSE low[2*i - 1]
      <3> HIDE DEF v
      <3>1. QED
        BY <2>5, <2>7
    <2>10. x = combinedHash(low[2*i - 1], low[2*i]) /\ 2*i \in 1..w
      BY <2>4, <2>8, <2>9
    <2>11. QED
      BY <2>4, <2>8, <2>10
  <1>7. QED
    BY <1>5, <1>6

(* What is hashed follows from the hash.                                   *)
LEMMA LeavesDiffer == ASSUME NEW a, NEW b, leafHash(a) = leafHash(b) PROVE a = b
  BY DEF leafHash

LEMMA LeafIsNoPair == ASSUME NEW a, NEW c, NEW d PROVE leafHash(a) # combinedHash(c, d)
  BY DEF leafHash, combinedHash

LEMMA PairHoldsBoth ==
    ASSUME NEW a, NEW b, NEW c, NEW d, combinedHash(a, b) = combinedHash(c, d)
    PROVE  a = c \/ a = d
  BY DEF combinedHash

LEMMA PairIsUnordered == ASSUME NEW a, NEW b PROVE combinedHash(a, b) = combinedHash(b, a)
  BY DEF combinedHash

LEMMA RootIsNode ==
    ASSUME NEW X, NEW elements \in Seq(X), elements # <<>>
    PROVE  getRoot(elements) \in Nodes(elements)
  <1> DEFINE t == TopOf(elements)
             layer == LayersOf(elements)[t]
  <1>1. t \in 0..Len(elements) /\ Len(layer) = 1
    BY TopIs
  <1> HIDE DEF t
  <1>2. \A i \in 1..Len(layer) : layer[i] \in Nodes(elements)
    BY <1>1, LayersHoldNodes
  <1>3. getRoot(elements) = layer[1]
    BY GetLayersIs DEF t
  <1> HIDE DEF layer
  <1>4. QED
    BY <1>1, <1>2, <1>3

-----------------------------------------------------------------------------
(* The check of a proof.                                                   *)

HashStep(proof, leaf, g, j) == IF j = 0 THEN leaf ELSE combinedHash(g[j - 1], proof[j])

IsHashing(proof, leaf, g) == g = [j \in 0..Len(proof) |-> HashStep(proof, leaf, g, j)]

LEMMA HashingExists ==
    ASSUME NEW proof, NEW leaf, Len(proof) \in Nat
    PROVE  \E g : IsHashing(proof, leaf, g)
  <1> DEFINE UpTo(g, m) == g = [k \in 0..m |-> HashStep(proof, leaf, g, k)]
             G == {m \in Nat : \E g : UpTo(g, m)}
  <1>1. 0 \in G
    <2> DEFINE g == [k \in 0..0 |-> HashStep(proof, leaf, <<>>, k)]
    <2>1. \A k \in 0..0 : HashStep(proof, leaf, <<>>, k) = HashStep(proof, leaf, g, k)
      BY DEF HashStep
    <2>2. UpTo(g, 0)
      BY <2>1
    <2>3. QED
      BY <2>2
  <1>2. ASSUME NEW m \in Nat, m \in G PROVE m + 1 \in G
    <2>1. PICK g : UpTo(g, m)
      BY <1>2
    <2> DEFINE h == [k \in 0..(m + 1) |-> HashStep(proof, leaf, g, k)]
    <2>2. ASSUME NEW k \in 0..m PROVE h[k] = g[k]
      <3>1. k \in 0..(m + 1)
        OBVIOUS
      <3>2. g[k] = HashStep(proof, leaf, g, k)
        BY <2>1
      <3>3. QED
        BY <3>1, <3>2
    <2>3. ASSUME NEW k \in 0..(m + 1)
          PROVE  HashStep(proof, leaf, g, k) = HashStep(proof, leaf, h, k)
      <3>1. k # 0 => h[k - 1] = g[k - 1]
        BY <2>2
      <3> HIDE DEF h
      <3>2. QED
        BY <3>1 DEF HashStep
    <2>4. UpTo(h, m + 1)
      BY <2>3
    <2>5. QED
      <3> HIDE DEF h, UpTo
      <3>1. QED
        BY <2>4
  <1>3. Len(proof) \in G
    <2> HIDE DEF G
    <2>1. QED
      BY <1>1, <1>2, SetInduction
  <1>4. QED
    BY <1>3 DEF IsHashing

LEMMA ProcessIs ==
    ASSUME NEW X, NEW proof \in Seq(X), NEW leaf
    PROVE  /\ processProof(proof, leaf)[0] = leaf
           /\ \A j \in 0..Len(proof) : j + 1 <= Len(proof) =>
                 processProof(proof, leaf)[j + 1]
                   = combinedHash(processProof(proof, leaf)[j], proof[j + 1])
  <1> DEFINE h == processProof(proof, leaf)
             n == Len(proof)
  <1>1. h = CHOOSE g : IsHashing(proof, leaf, g)
    BY DEF processProof, IsHashing, HashStep
  <1>2. n \in Nat
    OBVIOUS
  <1>3. IsHashing(proof, leaf, h)
    BY <1>1, <1>2, HashingExists
  <1> HIDE DEF h
  <1>4. \A j \in 0..n : h[j] = HashStep(proof, leaf, h, j)
    BY <1>3 DEF IsHashing
  <1>5. h[0] = leaf
    BY <1>2, <1>4 DEF HashStep
  <1>6. ASSUME NEW j \in 0..n, j + 1 <= n
        PROVE  h[j + 1] = combinedHash(h[j], proof[j + 1])
    <2>1. j + 1 \in 0..n /\ j + 1 # 0 /\ (j + 1) - 1 = j
      BY <1>2, <1>6
    <2>2. h[j + 1] = HashStep(proof, leaf, h, j + 1)
      BY <1>4, <2>1
    <2>3. QED
      BY <2>1, <2>2 DEF HashStep
  <1>7. QED
    BY <1>5, <1>6 DEF h

(* A proof that ends at the root started at an element: going back from a  *)
(* node, a step of the check starts at a node that it was made from.       *)
THEOREM OnlyElementsHaveProofs ==
    ASSUME NEW X, NEW elements \in Seq(X), elements # <<>>,
           NEW Y, NEW proof \in Seq(Y), NEW data,
           verifyProof(proof, getRoot(elements), leafHash(data))
    PROVE  \E i \in 1..Len(elements) : data = elements[i]
  <1> DEFINE h == processProof(proof, leafHash(data))
             n == Len(proof)
             N == Nodes(elements)
             G == {m \in Nat : m <= n => h[n - m] \in N}
  <1>1. n \in Nat
    OBVIOUS
  <1>2. h[n] \in N
    <2>1. getRoot(elements) \in N
      BY RootIsNode
    <2>2. QED
      BY <2>1 DEF verifyProof
  <1>0. ASSUME NEW x \in N
           PROVE  \/ \E i \in 1..Len(elements) : x = leafHash(elements[i])
                  \/ \E a \in N, b \in N : x = combinedHash(a, b)
    BY NodesAreMade
  <1>3. /\ h[0] = leafHash(data)
        /\ \A j \in 0..n : j + 1 <= n => h[j + 1] = combinedHash(h[j], proof[j + 1])
    BY ProcessIs
  <1> HIDE DEF h, N
  <1>4. 0 \in G
    <2>1. n - 0 = n
      BY <1>1
    <2>2. QED
      BY <1>2, <2>1
  <1>5. ASSUME NEW m \in Nat, m \in G PROVE m + 1 \in G
    <2> SUFFICES ASSUME m + 1 <= n PROVE h[n - (m + 1)] \in N
      OBVIOUS
    <2> DEFINE j == n - (m + 1)
    <2>1. j \in 0..n /\ j + 1 <= n /\ j + 1 = n - m /\ m <= n
      BY <1>1
    <2>2. h[j + 1] \in N
      BY <1>5, <2>1
    <2>3. h[j + 1] = combinedHash(h[j], proof[j + 1])
      BY <1>3, <2>1
    <2> HIDE DEF j
    <2>4. PICK a \in N, b \in N : h[j + 1] = combinedHash(a, b)
      <3>1. \A i \in 1..Len(elements) : h[j + 1] # leafHash(elements[i])
        BY <2>3, LeafIsNoPair
      <3>2. QED
        BY <1>0, <2>2, <3>1
    <2>5. h[j] = a \/ h[j] = b
      <3>1. combinedHash(h[j], proof[j + 1]) = combinedHash(a, b)
        BY <2>3, <2>4
      <3>2. QED
        BY <3>1, PairHoldsBoth
    <2>6. QED
      BY <2>5 DEF j
  <1>6. n \in G
    <2> HIDE DEF G
    <2>1. QED
      BY <1>1, <1>4, <1>5, SetInduction
  <1>7. leafHash(data) \in N
    <2>1. n - n = 0 /\ n <= n
      BY <1>1
    <2>2. QED
      BY <1>3, <1>6, <2>1
  <1>8. QED
    <2>1. \A a, b : leafHash(data) # combinedHash(a, b)
      BY LeafIsNoPair
    <2>2. PICK i \in 1..Len(elements) : leafHash(data) = leafHash(elements[i])
      BY <1>7, <1>0, <2>1
    <2>3. QED
      BY <2>2, LeavesDiffer

-----------------------------------------------------------------------------
(* The proofs that the tools generate.                                     *)

(* A node at the end of a proof is hashed last. *)
LEMMA ProofExtended ==
    ASSUME NEW X, NEW proof \in Seq(X), NEW x \in X, NEW leaf
    PROVE  processProof(proof \o <<x>>, leaf)[Len(proof) + 1]
             = combinedHash(processProof(proof, leaf)[Len(proof)], x)
  <1> DEFINE n == Len(proof)
             longer == proof \o <<x>>
             g == processProof(proof, leaf)
             h == processProof(longer, leaf)
             G == {j \in Nat : j <= n => h[j] = g[j]}
  <1>1. /\ n \in Nat /\ longer \in Seq(X) /\ Len(longer) = n + 1
        /\ longer[n + 1] = x /\ \A j \in 1..n : longer[j] = proof[j]
    OBVIOUS
  <1> HIDE DEF longer
  <1>2. /\ g[0] = leaf
        /\ \A j \in 0..n : j + 1 <= n => g[j + 1] = combinedHash(g[j], proof[j + 1])
    BY ProcessIs
  <1>3. /\ h[0] = leaf
        /\ \A j \in 0..Len(longer) : j + 1 <= Len(longer) =>
              h[j + 1] = combinedHash(h[j], longer[j + 1])
    BY <1>1, ProcessIs
  <1> HIDE DEF n, g, h
  <1>4. 0 \in G
    BY <1>2, <1>3
  <1>5. ASSUME NEW j \in Nat, j \in G PROVE j + 1 \in G
    <2> SUFFICES ASSUME j + 1 <= n PROVE h[j + 1] = g[j + 1]
      OBVIOUS
    <2>1. /\ j \in 0..n /\ j \in 0..Len(longer) /\ j + 1 <= Len(longer)
          /\ j <= n /\ j + 1 \in 1..n
      BY <1>1
    <2>2. h[j] = g[j] /\ longer[j + 1] = proof[j + 1]
      BY <1>1, <1>5, <2>1
    <2>3. g[j + 1] = combinedHash(g[j], proof[j + 1])
      BY <1>2, <2>1
    <2>4. h[j + 1] = combinedHash(h[j], longer[j + 1])
      BY <1>3, <2>1
    <2>5. QED
      BY <2>2, <2>3, <2>4
  <1>6. n \in G
    <2> HIDE DEF G
    <2>1. QED
      BY <1>1, <1>4, <1>5, SetInduction
  <1>7. h[n] = g[n]
    BY <1>1, <1>6
  <1>8. h[n + 1] = combinedHash(h[n], longer[n + 1])
    <2>1. n \in 0..Len(longer) /\ n + 1 <= Len(longer)
      BY <1>1
    <2>2. QED
      BY <1>3, <2>1
  <1>9. QED
    BY <1>1, <1>7, <1>8 DEF longer, g, h, n

WayStep(layers, i, g, k) ==
    IF k = 0 THEN [proof |-> <<>>, idx |-> i - 1]
    ELSE [proof |-> g[k - 1].proof \o getPairElement(g[k - 1].idx, layers[k]),
          idx   |-> g[k - 1].idx \div 2]

IsWay(layers, i, g) == g = [k \in 0..Len(layers) |-> WayStep(layers, i, g, k)]

WayOf(layers, i) == CHOOSE g : IsWay(layers, i, g)

LEMMA WayExists ==
    ASSUME NEW layers, NEW i, Len(layers) \in Nat
    PROVE  IsWay(layers, i, WayOf(layers, i))
  <1> DEFINE UpTo(g, m) == g = [k \in 0..m |-> WayStep(layers, i, g, k)]
             G == {m \in Nat : \E g : UpTo(g, m)}
  <1>1. 0 \in G
    <2> DEFINE g == [k \in 0..0 |-> WayStep(layers, i, <<>>, k)]
    <2>1. \A k \in 0..0 : WayStep(layers, i, <<>>, k) = WayStep(layers, i, g, k)
      BY DEF WayStep
    <2>2. UpTo(g, 0)
      BY <2>1
    <2>3. QED
      BY <2>2
  <1>2. ASSUME NEW m \in Nat, m \in G PROVE m + 1 \in G
    <2>1. PICK g : UpTo(g, m)
      BY <1>2
    <2> DEFINE h == [k \in 0..(m + 1) |-> WayStep(layers, i, g, k)]
    <2>2. ASSUME NEW k \in 0..m PROVE h[k] = g[k]
      <3>1. k \in 0..(m + 1)
        OBVIOUS
      <3>2. g[k] = WayStep(layers, i, g, k)
        BY <2>1
      <3>3. QED
        BY <3>1, <3>2
    <2>3. ASSUME NEW k \in 0..(m + 1)
          PROVE  WayStep(layers, i, g, k) = WayStep(layers, i, h, k)
      <3>1. k # 0 => h[k - 1] = g[k - 1]
        BY <2>2
      <3> HIDE DEF h
      <3>2. QED
        BY <3>1 DEF WayStep
    <2>4. UpTo(h, m + 1)
      BY <2>3
    <2>5. QED
      <3> HIDE DEF h, UpTo
      <3>1. QED
        BY <2>4
  <1>3. Len(layers) \in G
    <2> HIDE DEF G
    <2>1. QED
      BY <1>1, <1>2, SetInduction
  <1>4. \E g : IsWay(layers, i, g)
    BY <1>3 DEF IsWay
  <1>5. QED
    BY <1>4 DEF WayOf

(* One step of the way: hashed with its neighbour, if it has one, a node   *)
(* gives the node of the next layer at half its place.                     *)
LEMMA PairGivesNext ==
    ASSUME NEW N, NEW layer \in Seq(N), NEW idx \in Nat, idx < Len(layer)
    PROVE  LET pair == getPairElement(idx, layer)
               next == getNextLayer(layer)
           IN  /\ idx \div 2 \in Nat /\ idx \div 2 < Len(next)
               /\ \/ pair = <<>> /\ next[idx \div 2 + 1] = layer[idx + 1]
                  \/ \E x \in N : /\ pair = <<x>>
                                  /\ next[idx \div 2 + 1] = combinedHash(layer[idx + 1], x)
  <1> DEFINE w == Len(layer)
             v == (w + 1) \div 2
             next == getNextLayer(layer)
             pair == getPairElement(idx, layer)
             i == idx \div 2 + 1
  <1>1. w \in Nat /\ w >= 1 /\ IsArray(layer, w) /\ \A j \in 1..w : layer[j] \in N
    BY DEF IsArray
  <1>2. /\ v \in Nat /\ IsArray(next, v)
        /\ \A j \in 1..v : next[j] = IF 2*j <= w THEN combinedHash(layer[2*j - 1], layer[2*j])
                                               ELSE layer[2*j - 1]
    <2> HIDE DEF w
    <2>1. QED
      BY <1>1, NextLayerIs
  <1>3. Len(next) = v
    <2> HIDE DEF next, v
    <2>1. QED
      BY <1>2, ArrayLength
  <1>4. idx \div 2 \in Nat /\ i \in 1..v /\ idx \div 2 < v
    BY <1>1
  <1>5. next[i] = IF 2*i <= w THEN combinedHash(layer[2*i - 1], layer[2*i]) ELSE layer[2*i - 1]
    <2> HIDE DEF i, v, w, next
    <2>1. QED
      BY <1>2, <1>4
  <1>6. CASE idx % 2 = 0
    <2>1. 2*i - 1 = idx + 1 /\ 2*i = idx + 2
      BY <1>6
    <2>2. pair = IF idx + 1 < w THEN <<layer[idx + 2]>> ELSE <<>>
      <3>1. (idx + 1) + 1 = idx + 2
        OBVIOUS
      <3>2. QED
        BY <1>6, <3>1 DEF getPairElement
    <2> HIDE DEF pair, next, i
    <2>3. CASE idx + 1 < w
      <3>1. 2*i <= w /\ idx + 2 \in 1..w
        BY <1>1, <2>1, <2>3
      <3>2. pair = <<layer[idx + 2]>> /\ layer[idx + 2] \in N
        BY <1>1, <2>2, <2>3, <3>1
      <3>3. next[i] = combinedHash(layer[idx + 1], layer[idx + 2])
        BY <1>5, <2>1, <3>1
      <3>4. QED
        BY <1>3, <1>4, <3>2, <3>3 DEF i, next, pair
    <2>4. CASE ~(idx + 1 < w)
      <3>1. ~(2*i <= w)
        BY <1>1, <2>1, <2>4
      <3>2. pair = <<>> /\ next[i] = layer[idx + 1]
        BY <1>5, <2>1, <2>2, <2>4, <3>1
      <3>3. QED
        BY <1>3, <1>4, <3>2 DEF i, next, pair
    <2>5. QED
      BY <2>3, <2>4
  <1>7. CASE idx % 2 # 0
    <2>1. 2*i - 1 = idx /\ 2*i = idx + 1 /\ idx - 1 < w /\ idx \in 1..w /\ 2*i <= w
      BY <1>1, <1>7
    <2>2. pair = <<layer[idx]>>
      <3>1. (idx - 1) + 1 = idx
        OBVIOUS
      <3>2. QED
        BY <1>7, <2>1, <3>1 DEF getPairElement
    <2> HIDE DEF pair, next, i
    <2>3. next[i] = combinedHash(layer[idx], layer[idx + 1])
      BY <1>5, <2>1
    <2>4. next[i] = combinedHash(layer[idx + 1], layer[idx])
      BY <2>3, PairIsUnordered
    <2>5. layer[idx] \in N
      BY <1>1, <2>1
    <2>6. QED
      BY <1>3, <1>4, <2>2, <2>4, <2>5 DEF i, next, pair
  <1>8. QED
    BY <1>6, <1>7

(* In each layer the proof so far leads to the node above the element.     *)
OnTheWay(elements, leaf, way, k) ==
    LET layer == LayersOf(elements)[k]
    IN  /\ way[k].proof \in Seq(Nodes(elements))
        /\ way[k].idx \in Nat /\ way[k].idx < Len(layer)
        /\ processProof(way[k].proof, leaf)[Len(way[k].proof)] = layer[way[k].idx + 1]

LEMMA WayStaysOn ==
    ASSUME NEW X, NEW elements \in Seq(X), elements # <<>>, NEW leaf, NEW way,
           NEW k \in Nat, k < Len(elements), OnTheWay(elements, leaf, way, k),
           way[k + 1].proof = way[k].proof \o getPairElement(way[k].idx, LayersOf(elements)[k]),
           way[k + 1].idx = way[k].idx \div 2
    PROVE  OnTheWay(elements, leaf, way, k + 1)
  <1> DEFINE layer == LayersOf(elements)[k]
             N == Nodes(elements)
             idx == way[k].idx
             p == way[k].proof
             q == way[k + 1].proof
             pair == getPairElement(idx, layer)
             next == getNextLayer(layer)
             up == idx \div 2
  <1>1. k \in 0..Len(elements) /\ k + 1 \in 1..Len(elements) /\ (k + 1) - 1 = k
    <2>1. Len(elements) \in Nat
      OBVIOUS
    <2>2. QED
      BY <2>1
  <1>2. layer \in Seq(N)
    BY <1>1, LayersHoldNodes
  <1>3. next = LayersOf(elements)[k + 1]
    <2> DEFINE j == k + 1
    <2>1. j \in 1..Len(elements) /\ j - 1 = k
      BY <1>1
    <2> HIDE DEF j
    <2>2. LayersOf(elements)[j] = getNextLayer(LayersOf(elements)[j - 1])
      BY <2>1, LayersAre
    <2>3. QED
      BY <2>1, <2>2 DEF j
  <1>4. /\ p \in Seq(N) /\ idx \in Nat /\ idx < Len(layer)
        /\ processProof(p, leaf)[Len(p)] = layer[idx + 1]
        /\ q = p \o pair /\ way[k + 1].idx = up
    BY DEF OnTheWay
  <1> HIDE DEF layer, N, idx, p, q, pair, next, up
  <1>5. /\ up \in Nat /\ up < Len(next)
        /\ \/ pair = <<>> /\ next[up + 1] = layer[idx + 1]
           \/ \E x \in N : pair = <<x>> /\ next[up + 1] = combinedHash(layer[idx + 1], x)
    <2>1. QED
      BY <1>2, <1>4, PairGivesNext DEF pair, next, up
  <1>6. q \in Seq(N) /\ processProof(q, leaf)[Len(q)] = next[up + 1]
    <2>1. CASE pair = <<>> /\ next[up + 1] = layer[idx + 1]
      <3>1. q = p
        BY <1>4, <2>1
      <3>2. QED
        BY <1>4, <2>1, <3>1
    <2>2. CASE \E x \in N : pair = <<x>> /\ next[up + 1] = combinedHash(layer[idx + 1], x)
      <3>1. PICK x \in N : pair = <<x>> /\ next[up + 1] = combinedHash(layer[idx + 1], x)
        BY <2>2
      <3>2. processProof(p \o <<x>>, leaf)[Len(p) + 1]
              = combinedHash(processProof(p, leaf)[Len(p)], x)
        BY <1>4, ProofExtended
      <3>3. q = p \o <<x>> /\ Len(q) = Len(p) + 1 /\ q \in Seq(N)
        BY <1>4, <3>1
      <3>4. QED
        BY <1>4, <3>1, <3>2, <3>3
    <2>3. QED
      BY <1>5, <2>1, <2>2
  <1>7. QED
    BY <1>3, <1>4, <1>5, <1>6 DEF OnTheWay, N, q

(* The check accepts the proof that is generated for an element, wherever  *)
(* it stands in a tree of any size.                                        *)
THEOREM GeneratedProofsVerify ==
    ASSUME NEW X, NEW elements \in Seq(X), elements # <<>>, NEW i \in 1..Len(elements)
    PROVE  verifyProof(getProof(elements, i), getRoot(elements), leafHash(elements[i]))
  <1> DEFINE n == Len(elements)
             L == LayersOf(elements)
             leaf == leafHash(elements[i])
             t == TopOf(elements)
             layers == getLayers(elements)
             way == WayOf(layers, i)
  <1>1. /\ n \in Nat /\ n >= 1
        /\ L[0] = [j \in 1..n |-> leafHash(elements[j])]
        /\ t \in 0..n /\ Len(L[t]) = 1
    BY LayersAre, TopIs
  <1>2. /\ layers = [k \in 1..(t + 1) |-> L[k - 1]]
        /\ Len(layers) = t + 1
        /\ getRoot(elements) = L[t][1]
    BY GetLayersIs
  <1>3. getProof(elements, i) = way[Len(layers)].proof
    BY DEF getProof, WayOf, IsWay, WayStep
  <1> HIDE DEF layers, t
  <1>4. t \in Nat /\ Len(layers) \in Nat
    BY <1>1, <1>2
  <1>5. way = [k \in 0..(t + 1) |-> WayStep(layers, i, way, k)]
    <2>1. IsWay(layers, i, way)
      BY <1>4, WayExists
    <2> HIDE DEF way
    <2>2. QED
      BY <1>2, <2>1 DEF IsWay
  <1> HIDE DEF way
  <1>6. way[0].proof = <<>> /\ way[0].idx = i - 1
    <2>1. way[0] = WayStep(layers, i, way, 0)
      BY <1>4, <1>5
    <2>2. QED
      BY <2>1 DEF WayStep
  <1>7. ASSUME NEW k \in 0..t
        PROVE  /\ way[k + 1].proof = way[k].proof \o getPairElement(way[k].idx, L[k])
               /\ way[k + 1].idx = way[k].idx \div 2
    <2>1. k + 1 \in 0..(t + 1) /\ k + 1 \in 1..(t + 1) /\ (k + 1) - 1 = k /\ k + 1 # 0
      BY <1>4
    <2>2. way[k + 1] = WayStep(layers, i, way, k + 1)
      BY <1>5, <2>1
    <2>3. layers[k + 1] = L[k]
      BY <1>2, <2>1
    <2> HIDE DEF L
    <2> DEFINE p == way[k].proof \o getPairElement(way[k].idx, L[k])
               idx == way[k].idx \div 2
    <2>4. way[k + 1] = [proof |-> p, idx |-> idx]
      BY <2>1, <2>2, <2>3 DEF WayStep
    <2> HIDE DEF p, idx
    <2>5. way[k + 1].proof = p /\ way[k + 1].idx = idx
      BY <2>4
    <2>6. QED
      BY <2>5 DEF p, idx
  <1> DEFINE G == {k \in Nat : k <= t => OnTheWay(elements, leaf, way, k)}
  <1>8. 0 \in G
    <2>1. processProof(<<>>, leaf)[0] = leaf
      <3>1. <<>> \in Seq({})
        OBVIOUS
      <3>2. QED
        BY <3>1, ProcessIs
    <2>2. Len(L[0]) = n
      <3> HIDE DEF n, L
      <3>1. IsArray(L[0], n)
        BY <1>1 DEF IsArray
      <3>2. QED
        BY <1>1, <3>1, ArrayLength
    <2>3. i - 1 \in Nat /\ i - 1 < n /\ (i - 1) + 1 = i /\ L[0][i] = leaf
      BY <1>1
    <2>4. <<>> \in Seq(Nodes(elements)) /\ Len(<<>>) = 0
      OBVIOUS
    <2>5. OnTheWay(elements, leaf, way, 0)
      <3> HIDE DEF n, leaf
      <3>1. QED
        BY <1>6, <2>1, <2>2, <2>3, <2>4 DEF OnTheWay
    <2>6. QED
      BY <2>5
  <1>9. ASSUME NEW k \in Nat, k \in G PROVE k + 1 \in G
    <2> SUFFICES ASSUME k + 1 <= t PROVE OnTheWay(elements, leaf, way, k + 1)
      OBVIOUS
    <2>1. k \in 0..t /\ k < n /\ k <= t
      BY <1>1, <1>4
    <2>2. OnTheWay(elements, leaf, way, k)
      BY <1>9, <2>1
    <2>3. /\ way[k + 1].proof = way[k].proof \o getPairElement(way[k].idx, L[k])
          /\ way[k + 1].idx = way[k].idx \div 2
      BY <1>7, <2>1
    <2> HIDE DEF leaf
    <2>4. QED
      BY <2>1, <2>2, <2>3, WayStaysOn
  <1>10. OnTheWay(elements, leaf, way, t)
    <2>1. t \in G
      <3> HIDE DEF G
      <3>1. QED
        BY <1>4, <1>8, <1>9, SetInduction
    <2>2. QED
      BY <1>4, <2>1
  <1>11. getProof(elements, i) = way[t].proof
    <2>1. way[t].idx = 0
      BY <1>1, <1>10 DEF OnTheWay
    <2>2. getPairElement(0, L[t]) = <<>>
      BY <1>1 DEF getPairElement
    <2>3. way[t].proof \in Seq(Nodes(elements))
      BY <1>10 DEF OnTheWay
    <2>4. way[t + 1].proof = way[t].proof \o <<>>
      <3>1. t \in 0..t
        BY <1>4
      <3> HIDE DEF L
      <3>2. QED
        BY <1>7, <2>1, <2>2, <3>1
    <2>5. QED
      BY <1>2, <1>3, <2>3, <2>4
  <1>12. processProof(way[t].proof, leaf)[Len(way[t].proof)] = L[t][1]
    BY <1>1, <1>10 DEF OnTheWay
  <1>13. QED
    BY <1>2, <1>11, <1>12 DEF verifyProof

-----------------------------------------------------------------------------
(* What a withdrawal pays.                                                 *)

PowerStep(g, k) == IF k = 0 THEN 1 ELSE 10 * g[k - 1]

IsPower(n, g) == g = [k \in 0..n |-> PowerStep(g, k)]

(* The powers of ten exist, and the divisor of calculate is not zero. *)
LEMMA PowerIsPositive ==
    ASSUME NEW n \in Nat
    PROVE  powerOfTen(n) \in Nat /\ powerOfTen(n) > 0
  <1> DEFINE Right(g, m) == /\ g = [k \in 0..m |-> PowerStep(g, k)]
                            /\ \A k \in 0..m : g[k] \in Nat /\ g[k] > 0
             G == {m \in Nat : \E g : Right(g, m)}
  <1>1. 0 \in G
    <2> DEFINE g == [k \in 0..0 |-> 1]
    <2>1. \A k \in 0..0 : g[k] = PowerStep(g, k)
      BY DEF PowerStep
    <2>2. Right(g, 0)
      BY <2>1
    <2>3. QED
      BY <2>2
  <1>2. ASSUME NEW m \in Nat, m \in G PROVE m + 1 \in G
    <2>1. PICK g : Right(g, m)
      BY <1>2
    <2> DEFINE h == [k \in 0..(m + 1) |-> PowerStep(g, k)]
    <2>2. ASSUME NEW k \in 0..m PROVE h[k] = g[k]
      <3>1. k \in 0..(m + 1)
        OBVIOUS
      <3>2. g[k] = PowerStep(g, k)
        BY <2>1
      <3>3. QED
        BY <3>1, <3>2
    <2>3. ASSUME NEW k \in 0..(m + 1)
          PROVE  PowerStep(g, k) = PowerStep(h, k) /\ h[k] \in Nat /\ h[k] > 0
      <3>1. k # 0 => h[k - 1] = g[k - 1] /\ g[k - 1] \in Nat /\ g[k - 1] > 0
        BY <2>1, <2>2
      <3>2. h[k] = PowerStep(g, k)
        OBVIOUS
      <3> HIDE DEF h
      <3>3. QED
        BY <3>1, <3>2 DEF PowerStep
    <2>4. Right(h, m + 1)
      BY <2>3
    <2>5. QED
      <3> HIDE DEF h, Right
      <3>1. QED
        BY <2>4
  <1>3. n \in G
    <2> HIDE DEF G
    <2>1. QED
      BY <1>1, <1>2, SetInduction
  <1> DEFINE power == CHOOSE g : IsPower(n, g)
  <1>4. \E g : IsPower(n, g)
    BY <1>3 DEF IsPower
  <1>5. power = [k \in 0..n |-> PowerStep(power, k)]
    BY <1>4 DEF IsPower
  <1>6. powerOfTen(n) = power[n]
    BY DEF powerOfTen, IsPower, PowerStep
  <1> HIDE DEF power
  <1> DEFINE P == {m \in Nat : m <= n => power[m] \in Nat /\ power[m] > 0}
  <1>7. 0 \in P
    <2>1. power[0] = PowerStep(power, 0)
      BY <1>5
    <2>2. QED
      BY <2>1 DEF PowerStep
  <1>8. ASSUME NEW m \in Nat, m \in P PROVE m + 1 \in P
    <2>1. m + 1 <= n => power[m + 1] = 10 * power[m]
      <3>1. (m + 1) - 1 = m /\ m + 1 # 0 /\ (m + 1 <= n => m + 1 \in 0..n)
        OBVIOUS
      <3>2. m + 1 <= n => power[m + 1] = PowerStep(power, m + 1)
        BY <1>5, <3>1
      <3>3. QED
        BY <3>1, <3>2 DEF PowerStep
    <2>2. QED
      BY <1>8, <2>1
  <1>9. n \in P
    <2> HIDE DEF P
    <2>1. QED
      BY <1>7, <1>8, SetInduction
  <1>10. QED
    BY <1>6, <1>9

(* The share of a score in any divisor that contains it. *)
LEMMA ShareIsBounded ==
    ASSUME NEW m \in Nat, NEW s \in Nat, NEW b \in Nat, NEW p \in Nat, p > 0
    PROVE  /\ ((m * s * b) \div (p + s)) \div 100 \in Nat
           /\ 100 * (((m * s * b) \div (p + s)) \div 100) <= m * b
  <1> DEFINE x == m * s * b
             d == p + s
             y == m * b
             q == x \div d
  <1>1. x \in Nat /\ y \in Nat /\ d \in Nat /\ d > 0
    OBVIOUS
  <1>2. x <= d * y
    <2>1. x = s * y
      OBVIOUS
    <2>2. p * y \in Nat /\ s * y \in Nat /\ d * y = p * y + s * y
      BY <1>1
    <2>3. QED
      BY <2>1, <2>2
  <1>3. q \in Nat /\ d * q <= x
    <2>1. ASSUME NEW u \in Nat, NEW v \in Nat, v > 0
          PROVE  u \div v \in Nat /\ v * (u \div v) <= u
      BY <2>1
    <2> HIDE DEF x, d
    <2>2. QED
      BY <1>1, <2>1
  <1> HIDE DEF x, d, q, y
  <1>4. q <= y
    <2> SUFFICES ASSUME ~(q <= y) PROVE FALSE
      OBVIOUS
    <2>1. PICK e \in Nat : q = y + 1 + e
      <3>1. q - y - 1 \in Nat /\ q = y + 1 + (q - y - 1)
        BY <1>1, <1>3
      <3>2. QED
        BY <3>1
    <2>2. d * q = d * y + d + d * e
      BY <1>1, <2>1
    <2>3. d * e \in Nat /\ d * y \in Nat
      BY <1>1
    <2>4. QED
      BY <1>1, <1>2, <1>3, <2>2, <2>3
  <1>5. q \div 100 \in Nat /\ 100 * (q \div 100) <= q
    BY <1>3
  <1>6. QED
    BY <1>1, <1>3, <1>4, <1>5 DEF q, y, x, d

LEMMA CalculateIs ==
    ASSUME TypeOK, NEW score \in Nat
    PROVE  calculate(score) \in Nat /\ 100 * calculate(score) <= max * balance[Contract]
  <1>1. scale \in Nat /\ max \in Nat /\ balance[Contract] \in Nat
    BY DEF TypeOK, MAX_SCALE, MAX_PERCENTAGE
  <1>2. powerOfTen(scale) \in Nat /\ powerOfTen(scale) > 0
    BY <1>1, PowerIsPositive
  <1> DEFINE b == balance[Contract]
             p == powerOfTen(scale)
  <1> HIDE DEF b, p
  <1>3. /\ ((max * score * b) \div (p + score)) \div 100 \in Nat
        /\ 100 * (((max * score * b) \div (p + score)) \div 100) <= max * b
    BY <1>1, <1>2, ShareIsBounded DEF b, p
  <1>4. QED
    BY <1>3 DEF calculate, b, p

LEMMA TotalScoreIs ==
    ASSUME NEW claims \in Seq(Claim)
    PROVE  /\ TotalScore(claims) = SumFunctionOnSet([i \in 1..Len(claims) |-> claims[i].score],
                                                    1..Len(claims))
           /\ TotalScore(claims) \in Nat
           /\ Len(claims) \in Nat /\ DOMAIN claims = 1..Len(claims)
           /\ \A i \in 1..Len(claims) : claims[i] \in Claim /\ claims[i].score \in Nat
  <1> DEFINE n == Len(claims)
             f == [i \in 1..n |-> claims[i].score]
  <1>1. n \in Nat /\ DOMAIN claims = 1..n /\ \A i \in 1..n : claims[i] \in Claim
    OBVIOUS
  <1>2. \A i \in 1..n : claims[i].score \in Nat
    BY <1>1, PoolAssumption DEF Claim
  <1>3. TotalScore(claims) = SumFunctionOnSet(f, 1..n)
    BY <1>1 DEF TotalScore, SumFunction
  <1>4. \A i \in 1..n : f[i] \in Nat
    BY <1>2
  <1>5. IsFiniteSet(1..n)
    BY <1>1, FS_Interval
  <1> HIDE DEF f, n
  <1>6. SumFunctionOnSet(f, 1..n) \in Nat
    BY <1>4, <1>5, SumInteger
  <1>7. QED
    BY <1>1, <1>2, <1>3, <1>6 DEF f, n

(* The tokens that a withdrawal moves. *)
LEMMA WithdrawMovesAmount ==
    ASSUME TypeOK, NEW a \in Account, NEW claims \in Seq(Claim), NEW minimum,
           withdrawProtected(a, claims, minimum)
    PROVE  LET amount == calculate(TotalScore(claims))
           IN  /\ amount \in Nat /\ 100 * amount <= max * balance[Contract]
               /\ balance'[a] - balance[a] = amount
               /\ balance[Contract] - balance'[Contract] = amount
               /\ \A b \in Account \ {a} : balance'[b] = balance[b]
               /\ balance' \in [Account \union {Contract} -> Nat]
  <1> DEFINE amount == calculate(TotalScore(claims))
             A == Account \union {Contract}
  <1>1. amount \in Nat /\ 100 * amount <= max * balance[Contract]
    BY TotalScoreIs, CalculateIs
  <1>2. balance[Contract] >= amount /\ balance' = Move(balance, Contract, a, amount)
    BY DEF withdrawProtected
  <1> HIDE DEF amount
  <1>3. balance \in [A -> Nat] /\ a \in A /\ Contract \in A /\ a # Contract
    BY PoolAssumption DEF TypeOK
  <1>4. /\ balance'[a] = balance[a] + amount
        /\ balance'[Contract] = balance[Contract] - amount
        /\ \A b \in A \ {a, Contract} : balance'[b] = balance[b]
        /\ balance' = [b \in A |-> balance'[b]]
    BY <1>2, <1>3 DEF Move, Debit, Credit
  <1>5. \A b \in A : balance'[b] \in Nat
    BY <1>1, <1>2, <1>3, <1>4
  <1>6. QED
    BY <1>1, <1>3, <1>4, <1>5, PoolAssumption DEF amount

-----------------------------------------------------------------------------
(* The inductive invariant: what was paid is what is marked.               *)

IInv == TypeOK /\ EachLeafPaidOnce

(* Claims that pass the loop name each root at most once. *)
LEMMA RootsOfClaimsAreDistinct ==
    ASSUME NEW claims \in Seq(Claim), NEW a, CanClaim(a, claims), NEW r
    PROVE  Occurrences(claims, r) \in {0, 1}
  <1> DEFINE at == {i \in DOMAIN claims : claims[i].root = r}
  <1>1. CASE at = {}
    BY <1>1, FS_EmptySet DEF Occurrences
  <1>2. CASE at # {}
    <2>1. PICK k \in at : TRUE
      BY <1>2
    <2>2. ASSUME NEW i \in at PROVE i = k
      <3>1. /\ i \in Int /\ k \in Int
            /\ i \in DOMAIN claims /\ k \in DOMAIN claims
            /\ claims[i].root = claims[k].root
        BY <2>1, <2>2
      <3>2. ~(i < k) /\ ~(k < i)
        BY <3>1 DEF CanClaim
      <3>3. QED
        BY <3>1, <3>2
    <2>3. at = {k}
      BY <2>1, <2>2
    <2>4. QED
      BY <2>3, FS_Singleton DEF Occurrences
  <1>3. QED
    BY <1>1, <1>2

(* A root that an accepted array names is enabled and was not claimed. *)
LEMMA AcceptedRootsAreFresh ==
    ASSUME NEW claims \in Seq(Claim), NEW a, CanClaim(a, claims), NEW r,
           Occurrences(claims, r) > 0
    PROVE  r \in roots /\ a \notin claimed[r]
  <1>1. {i \in DOMAIN claims : claims[i].root = r} # {}
    <2>1. Cardinality({}) = 0
      BY FS_EmptySet
    <2>2. ~(0 > 0)
      OBVIOUS
    <2>3. QED
      BY <2>1, <2>2 DEF Occurrences
  <1>2. QED
    BY <1>1 DEF CanClaim

LEMMA WithdrawKeepsInvariant ==
    ASSUME IInv, NEW a \in Account, NEW claims \in Seq(Claim), NEW minimum,
           withdrawProtected(a, claims, minimum)
    PROVE  IInv'
  <1>1. TypeOK /\ EachLeafPaidOnce /\ CanClaim(a, claims)
    BY DEF IInv, withdrawProtected
  <1>2. \A r \in Root : Occurrences(claims, r) \in {0, 1}
    BY <1>1, RootsOfClaimsAreDistinct
  <1>3. /\ roots' = roots /\ scale' = scale /\ max' = max
        /\ claimed' = [r \in Root |-> IF Occurrences(claims, r) > 0
                                      THEN claimed[r] \union {a} ELSE claimed[r]]
        /\ withdrawn' = [withdrawn EXCEPT ![a] =
                            [r \in Root |-> @[r] + Occurrences(claims, r)]]
    BY DEF withdrawProtected
  <1>4. TypeOK'
    <2>1. \A r \in Root : Occurrences(claims, r) \in Nat
      BY <1>2
    <2>2. [r \in Root |-> withdrawn[a][r] + Occurrences(claims, r)] \in [Root -> Nat]
      BY <1>1, <2>1 DEF TypeOK
    <2>3. withdrawn' \in [Account -> [Root -> Nat]]
      BY <1>1, <1>3, <2>2 DEF TypeOK
    <2>4. claimed' \in [Root -> SUBSET Account]
      BY <1>1, <1>3 DEF TypeOK
    <2>5. balance' \in [Account \union {Contract} -> Nat]
      BY <1>1, WithdrawMovesAmount
    <2>6. QED
      BY <1>1, <1>3, <2>3, <2>4, <2>5 DEF TypeOK
  <1>5. ASSUME NEW b \in Account, NEW r \in Root
        PROVE  /\ withdrawn'[b][r] = IF b \in claimed'[r] THEN 1 ELSE 0
               /\ b \in claimed'[r] => r \in roots'
    <2>1. /\ withdrawn[b][r] = IF b \in claimed[r] THEN 1 ELSE 0
          /\ b \in claimed[r] => r \in roots
      BY <1>1 DEF EachLeafPaidOnce
    <2>2. CASE b # a
      BY <1>1, <1>3, <2>1, <2>2 DEF TypeOK
    <2>3. CASE b = a /\ Occurrences(claims, r) = 0
      BY <1>1, <1>3, <2>1, <2>3 DEF TypeOK
    <2>4. CASE b = a /\ Occurrences(claims, r) = 1
      <3>1. r \in roots /\ a \notin claimed[r]
        BY <1>1, <2>4, AcceptedRootsAreFresh
      <3>2. withdrawn'[b][r] = 1 /\ b \in claimed'[r]
        BY <1>1, <1>3, <2>1, <2>4, <3>1 DEF TypeOK
      <3>3. QED
        BY <1>3, <3>1, <3>2
    <2>5. QED
      BY <1>2, <2>2, <2>3, <2>4
  <1>6. QED
    BY <1>4, <1>5 DEF IInv, EachLeafPaidOnce

LEMMA DrainKeepsInvariant ==
    ASSUME IInv, NEW c \in Account, NEW dest \in Account, drainTo(c, dest)
    PROVE  IInv'
  <1> DEFINE A == Account \union {Contract}
  <1>1. balance \in [A -> Nat] /\ dest \in A /\ Contract \in A /\ dest # Contract
    BY PoolAssumption DEF IInv, TypeOK
  <1>2. balance' \in [A -> Nat]
    BY <1>1 DEF drainTo, Move, Debit, Credit
  <1>3. QED
    BY <1>2 DEF drainTo, IInv, TypeOK, EachLeafPaidOnce

LEMMA StepKeepsInvariant == ASSUME IInv, [Next]_vars PROVE IInv'
  <1>1. ASSUME NEW c \in Account, NEW n \in Scale, setScale(c, n) PROVE IInv'
    BY <1>1, PoolAssumption DEF setScale, MAX_SCALE, IInv, TypeOK, EachLeafPaidOnce
  <1>2. ASSUME NEW c \in Account, NEW n \in Percentage, setMax(c, n) PROVE IInv'
    BY <1>2, PoolAssumption DEF setMax, MAX_PERCENTAGE, IInv, TypeOK, EachLeafPaidOnce
  <1>3. ASSUME NEW c \in Account, NEW root \in Root, enable(c, root) PROVE IInv'
    BY <1>3 DEF enable, IInv, TypeOK, EachLeafPaidOnce
  <1>4. ASSUME NEW c \in Account, NEW dest \in Account, drainTo(c, dest) PROVE IInv'
    BY <1>4, DrainKeepsInvariant
  <1>5. ASSUME NEW c \in Account, NEW claims \in BoundedSeq(Claim, MaxClaims), NEW minimum,
               withdrawProtected(c, claims, minimum)
        PROVE  IInv'
    <2>1. claims \in Seq(Claim)
      BY DEF BoundedSeq, SeqOf
    <2>2. QED
      BY <1>5, <2>1, WithdrawKeepsInvariant
  <1>6. CASE UNCHANGED vars
    BY <1>6 DEF vars, IInv, TypeOK, EachLeafPaidOnce
  <1>7. QED
    BY <1>1, <1>2, <1>3, <1>4, <1>5, <1>6 DEF Next, withdraw

LEMMA InitialInvariant == Init => IInv
  <1> SUFFICES ASSUME Init PROVE IInv
    OBVIOUS
  <1>1. scale \in 0..MAX_SCALE /\ max \in 0..MAX_PERCENTAGE
    <2>1. /\ scale \in Scale /\ scale <= 77
          /\ max \in Percentage /\ max <= 100
      BY DEF Init, MAX_SCALE, MAX_PERCENTAGE
    <2>2. scale \in Nat /\ max \in Nat
      BY <2>1, PoolAssumption
    <2>3. QED
      BY <2>1, <2>2 DEF MAX_SCALE, MAX_PERCENTAGE
  <1>2. QED
    BY <1>1, PoolAssumption DEF Init, IInv, TypeOK, EachLeafPaidOnce

(* Every variable keeps its type; the settings stay below their limits.    *)
THEOREM PoolIsTyped == Spec => []TypeOK
  <1>1. IInv /\ [Next]_vars => IInv'
    BY StepKeepsInvariant
  <1>2. IInv => TypeOK
    BY DEF IInv
  <1>3. QED
    BY InitialInvariant, <1>1, <1>2, PTL DEF Spec

(* Every leaf of every enabled tree is paid at most once, however its      *)
(* claims are spread over calls and repeated within one.                   *)
THEOREM LeavesPaidOnce == Spec => []EachLeafPaidOnce
  <1>1. IInv /\ [Next]_vars => IInv'
    BY StepKeepsInvariant
  <1>2. IInv => EachLeafPaidOnce
    BY DEF IInv
  <1>3. QED
    BY InitialInvariant, <1>1, <1>2, PTL DEF Spec

(* The only steps that use claims up are withdrawals. *)
LEMMA ClaimsAreUsedByWithdrawals ==
    ASSUME [Next]_vars, claimed' # claimed
    PROVE  \E a \in Account, claims \in Seq(Claim) : \E minimum :
              withdrawProtected(a, claims, minimum)
  <1>1. ASSUME NEW claims \in BoundedSeq(Claim, MaxClaims) PROVE claims \in Seq(Claim)
    BY DEF BoundedSeq, SeqOf
  <1>2. PICK c \in Account, claims \in BoundedSeq(Claim, MaxClaims) :
            withdraw(c, claims) \/ \E minimum \in MinimumAmount :
                                       withdrawProtected(c, claims, minimum)
    BY DEF Next, vars, setScale, setMax, enable, drainTo
  <1>3. QED
    BY <1>1, <1>2 DEF withdraw

(* A withdrawal takes no more than the percentage allows, and only for the *)
(* account that makes it.                                                  *)
THEOREM WithdrawalsAreBounded == Spec => WithdrawalIsBounded
  <1>1. ASSUME IInv, [Next]_vars, claimed' # claimed
        PROVE  \E a \in Account : TookItsShare(a)
    <2>1. PICK a \in Account, claims \in Seq(Claim) : \E minimum :
              withdrawProtected(a, claims, minimum)
      BY <1>1, ClaimsAreUsedByWithdrawals
    <2>2. TypeOK
      BY <1>1 DEF IInv
    <2> DEFINE amount == calculate(TotalScore(claims))
    <2>3. /\ amount \in Nat /\ 100 * amount <= max * balance[Contract]
          /\ balance'[a] - balance[a] = amount
          /\ balance[Contract] - balance'[Contract] = amount
          /\ \A b \in Account \ {a} : balance'[b] = balance[b]
      BY <2>1, <2>2, WithdrawMovesAmount
    <2> HIDE DEF amount
    <2>4. \A r \in Root : claimed'[r] \subseteq claimed[r] \union {a}
      BY <2>1 DEF withdrawProtected
    <2>5. QED
      BY <2>3, <2>4 DEF TookItsShare
  <1>2. IInv /\ [Next]_vars => [claimed' # claimed => \E a \in Account : TookItsShare(a)]_vars
    BY <1>1
  <1>3. IInv /\ [Next]_vars => IInv'
    BY StepKeepsInvariant
  <1>4. QED
    BY InitialInvariant, <1>2, <1>3, PTL DEF Spec, WithdrawalIsBounded

-----------------------------------------------------------------------------
(* What a claim proves.                                                    *)

LEMMA TreesAreSequences ==
    ASSUME NEW tree \in Tree
    PROVE  tree \in Seq(Range(tree)) /\ tree # <<>> /\ DOMAIN tree = 1..Len(tree)
  <1>1. tree \in Seq(Range(tree)) /\ tree # <<>>
    BY PoolAssumption
  <1>2. QED
    BY <1>1

(* The score of an accepted claim is the account's in a tree of its root.  *)
LEMMA ClaimedScoreIsInTree ==
    ASSUME NEW a, NEW claim \in Claim, verify(a, claim)
    PROVE  \E tree \in Tree : /\ getRoot(tree) = claim.root
                              /\ [account |-> a, score |-> claim.score] \in ToSet(tree)
  <1>1. PICK tree \in Tree : getRoot(tree) = claim.root
    BY DEF Claim, Root
  <1>2. /\ tree \in Seq(Range(tree)) /\ tree # <<>>
        /\ DOMAIN tree = 1..Len(tree)
    BY TreesAreSequences
  <1>3. claim.proof \in Seq(Range(claim.proof))
    BY PoolAssumption DEF Claim
  <1> DEFINE data == [account |-> a, score |-> claim.score]
             X == Range(tree)
             Y == Range(claim.proof)
             proof == claim.proof
  <1>4. verifyProof(proof, getRoot(tree), leafHash(data))
    BY <1>1 DEF verify
  <1> HIDE DEF data, X, Y, proof
  <1>5. tree \in Seq(X) /\ proof \in Seq(Y)
    BY <1>2, <1>3 DEF X, Y, proof
  <1>6. \E i \in 1..Len(tree) : data = tree[i]
    BY <1>2, <1>4, <1>5, OnlyElementsHaveProofs
  <1>7. data \in ToSet(tree)
    BY <1>2, <1>6 DEF ToSet
  <1>8. QED
    BY <1>1, <1>7 DEF data

LEMMA WithdrawalPaysForLeaves ==
    ASSUME IInv, NEW a \in Account, NEW claims \in Seq(Claim), NEW minimum,
           withdrawProtected(a, claims, minimum)
    PROVE  PaidForLeaves(a)
  <1> DEFINE used == {r \in Root : a \in claimed'[r] \ claimed[r]}
             n == Len(claims)
             S == 1..n
             at(r) == CHOOSE i \in S : claims[i].root = r
             scores == [r \in used |-> claims[at(r)].score]
             f == [i \in S |-> claims[i].score]
             b == [i \in S |-> claims[i].root]
  <1>1. /\ TypeOK /\ CanClaim(a, claims)
        /\ claimed' = [r \in Root |-> IF Occurrences(claims, r) > 0
                                      THEN claimed[r] \union {a} ELSE claimed[r]]
    BY DEF IInv, withdrawProtected
  <1>2. /\ n \in Nat /\ DOMAIN claims = S
        /\ \A i \in S : claims[i] \in Claim /\ claims[i].score \in Nat
        /\ TotalScore(claims) = SumFunctionOnSet(f, S)
    BY TotalScoreIs
  <1>3. \A i, j \in S : claims[i].root = claims[j].root => i = j
    <2>1. ASSUME NEW i \in S, NEW j \in S, claims[i].root = claims[j].root PROVE i = j
      <3>1. ~(i < j) /\ ~(j < i)
        BY <1>1, <1>2, <2>1 DEF CanClaim
      <3>2. i \in Int /\ j \in Int
        BY <1>2
      <3>3. QED
        BY <3>1, <3>2
    <2>2. QED
      BY <2>1
  <1>4. ASSUME NEW i \in S PROVE claims[i].root \in used
    <2> DEFINE r == claims[i].root
    <2>1. r \in Root
      BY <1>2 DEF Claim
    <2>2. a \notin claimed[r]
      BY <1>1, <1>2 DEF CanClaim
    <2>3. Occurrences(claims, r) > 0
      <3> DEFINE o == {j \in DOMAIN claims : claims[j].root = r}
      <3>1. o # {} /\ o \subseteq S
        BY <1>2
      <3> HIDE DEF o, r
      <3>2. IsFiniteSet(o)
        <4>1. IsFiniteSet(S)
          BY <1>2, FS_Interval
        <4> HIDE DEF S
        <4>2. QED
          BY <3>1, <4>1, FS_Subset
      <3>3. Cardinality(o) \in Nat /\ Cardinality(o) # 0
        BY <3>1, <3>2, FS_CardinalityType, FS_EmptySet
      <3>4. Cardinality(o) > 0
        BY <3>3
      <3>5. QED
        BY <3>4 DEF Occurrences, o
    <2> HIDE DEF r
    <2>4. r \in used
      BY <1>1, <2>1, <2>2, <2>3
    <2>5. QED
      BY <2>4 DEF r
  <1>5. ASSUME NEW r \in used PROVE \E i \in S : claims[i].root = r
    <2>1. Occurrences(claims, r) > 0
      BY <1>1
    <2>2. {i \in DOMAIN claims : claims[i].root = r} # {}
      <3>1. Cardinality({}) = 0
        BY FS_EmptySet
      <3>2. ~(0 > 0)
        OBVIOUS
      <3>3. QED
        BY <2>1, <3>1, <3>2 DEF Occurrences
    <2>3. QED
      BY <1>2, <2>2
  <1>6. \A r \in used : at(r) \in S /\ claims[at(r)].root = r
    BY <1>5
  <1>7. scores \in ScoreChoices(a, used)
    <2>1. ASSUME NEW r \in used
          PROVE  /\ scores[r] \in Score
                 /\ \E tree \in Tree :
                      /\ getRoot(tree) = r
                      /\ [account |-> a, score |-> scores[r]] \in ToSet(tree)
      <3> DEFINE c == claims[at(r)]
      <3>1. c \in Claim /\ c.root = r /\ scores[r] = c.score
        BY <1>2, <1>6
      <3>2. verify(a, c)
        BY <1>1, <1>2, <1>6 DEF CanClaim
      <3> HIDE DEF c, scores
      <3>3. \E tree \in Tree : /\ getRoot(tree) = c.root
                               /\ [account |-> a, score |-> c.score] \in ToSet(tree)
        BY <3>1, <3>2, ClaimedScoreIsInTree
      <3>4. c.score \in Score
        BY <3>1 DEF Claim
      <3>5. QED
        BY <3>1, <3>3, <3>4
    <2>2. scores \in [used -> Score]
      BY <2>1
    <2> HIDE DEF scores, used
    <2>3. QED
      BY <2>1, <2>2 DEF ScoreChoices
  <1>8. SumFunctionOnSet(f, S) = SumFunctionOnSet(scores, used)
    <2>1. IsFiniteSet(S)
      BY <1>2, FS_Interval
    <2>2. /\ b \in [S -> used]
          /\ \A r \in used : \E i \in S : b[i] = r
          /\ \A i, j \in S : b[i] = b[j] => i = j
      BY <1>3, <1>4, <1>5
    <2>3. IsFiniteSet(used)
      <3>1. b \in Surjection(S, used)
        BY <2>2 DEF Surjection
      <3> HIDE DEF b, used, S
      <3>2. QED
        BY <2>1, <3>1, FS_Surjection
    <2>4. \A i \in S : scores[b[i]] \in Int /\ f[i] = scores[b[i]]
      <3>1. ASSUME NEW i \in S PROVE scores[b[i]] = claims[i].score
        <4>1. claims[i].root \in used
          BY <1>4
        <4>2. at(claims[i].root) = i
          BY <1>3, <1>6, <4>1
        <4>3. QED
          BY <4>1, <4>2
      <3>2. ASSUME NEW i \in S PROVE f[i] = claims[i].score /\ claims[i].score \in Int
        BY <1>2
      <3> HIDE DEF scores, f, b
      <3>3. QED
        BY <3>1, <3>2
    <2> HIDE DEF b, used, S, scores, f
    <2>5. Renames(b, f, S, scores, used)
      BY <2>1, <2>2, <2>3, <2>4 DEF Renames
    <2>6. QED
      BY <2>5, SumRenamed
  <1>9. SumFunction(scores) = SumFunctionOnSet(scores, used)
    BY DEF SumFunction
  <1>10. balance'[a] - balance[a] = calculate(TotalScore(claims))
    BY <1>1, WithdrawMovesAmount
  <1> HIDE DEF scores, f, S
  <1>11. balance'[a] - balance[a] = calculate(SumFunction(scores))
    BY <1>2, <1>8, <1>9, <1>10
  <1>12. QED
    BY <1>7, <1>11 DEF PaidForLeaves

(* What a withdrawal pays is for leaves of the account that makes it, for  *)
(* any trees and for any proofs that may be tried.                         *)
THEOREM WithdrawalsPayForLeaves == Spec => WithdrawalPaysLeafScores
  <1>1. ASSUME IInv, [Next]_vars, NEW a \in Account PROVE PaidForLeaves(a)
    <2> DEFINE used == {r \in Root : a \in claimed'[r] \ claimed[r]}
    <2>1. CASE used = {}
      BY <2>1 DEF PaidForLeaves
    <2>2. CASE used # {}
      <3>1. PICK r \in Root : a \in claimed'[r] /\ a \notin claimed[r]
        BY <2>2
      <3>2. PICK c \in Account, claims \in Seq(Claim) : \E minimum :
                withdrawProtected(c, claims, minimum)
        BY <1>1, <3>1, ClaimsAreUsedByWithdrawals
      <3>3. c = a
        BY <3>1, <3>2 DEF withdrawProtected
      <3>4. QED
        BY <1>1, <3>2, <3>3, WithdrawalPaysForLeaves
    <2>3. QED
      BY <2>1, <2>2
  <1>2. IInv /\ [Next]_vars => [\A a \in Account : PaidForLeaves(a)]_vars
    BY <1>1
  <1>3. IInv /\ [Next]_vars => IInv'
    BY StepKeepsInvariant
  <1>4. QED
    BY InitialInvariant, <1>2, <1>3, PTL DEF Spec, WithdrawalPaysLeafScores

(* Whoever has a leaf under an enabled root can claim it.                  *)
LEMMA GeneratedClaimIsAccepted ==
    ASSUME NEW tree \in Tree, NEW i \in DOMAIN tree,
           getRoot(tree) \in roots, tree[i].account \notin claimed[getRoot(tree)]
    PROVE  CanClaim(tree[i].account,
                    <<[root |-> getRoot(tree), score |-> tree[i].score,
                       proof |-> getProof(tree, i)]>>)
  <1> DEFINE account == tree[i].account
             root == getRoot(tree)
             claim == [root |-> root, score |-> tree[i].score, proof |-> getProof(tree, i)]
             X == Range(tree)
  <1>1. tree \in Seq(X) /\ tree # <<>> /\ i \in 1..Len(tree)
    BY TreesAreSequences
  <1>2. tree[i] = [account |-> account, score |-> tree[i].score]
    BY PoolAssumption
  <1>3. verify(account, claim)
    <2> HIDE DEF X, account
    <2>1. verifyProof(getProof(tree, i), root, leafHash(tree[i]))
      BY <1>1, GeneratedProofsVerify
    <2>2. QED
      BY <1>2, <2>1 DEF verify
  <1> HIDE DEF claim, account
  <1>4. DOMAIN <<claim>> = {1} /\ <<claim>>[1] = claim
    OBVIOUS
  <1>5. claim.root = root
    BY DEF claim
  <1>6. CanClaim(account, <<claim>>)
    BY <1>3, <1>4, <1>5 DEF CanClaim, account
  <1>7. QED
    BY <1>6 DEF claim, account

(* The proof that the tools generate for a leaf is accepted, in any tree   *)
(* and wherever it stands in it.                                           *)
THEOREM LeavesAreClaimable == Spec => []EveryLeafIsClaimable
  <1>1. EveryLeafIsClaimable
    BY GeneratedClaimIsAccepted DEF EveryLeafIsClaimable
  <1>2. QED
    BY <1>1, PTL

-----------------------------------------------------------------------------
(* The index of the pool.  First what the operations on the store leave:   *)
(* saving an entity changes the entities of its kind alone.                *)

IsStore(st) == st = [k \in Kind |-> st[k]]

LEMMA SaveIs ==
    ASSUME NEW st, IsStore(st), NEW kind \in Kind, NEW id, NEW entity
    PROVE  /\ IsStore(Save(st, kind, id, entity))
           /\ \A k \in Kind : Save(st, kind, id, entity)[k]
                                = IF k = kind THEN With(st[k], id, entity) ELSE st[k]
  BY DEF Save, IsStore

LEMMA LoadOrCreateIs ==
    ASSUME NEW st, IsStore(st), NEW kind \in Kind, NEW id, NEW defaults
    PROVE  LET after == LoadOrCreate(st, kind, id, defaults)
           IN  /\ IsStore(after)
               /\ \A k \in Kind \ {kind} : after[k] = st[k]
               /\ after[kind] = IF id \in DOMAIN st[kind] THEN st[kind]
                                                         ELSE With(st[kind], id, defaults)
  <1>1. CASE id \in DOMAIN st[kind]
    BY <1>1 DEF LoadOrCreate, Exists
  <1>2. CASE id \notin DOMAIN st[kind]
    BY <1>2, SaveIs DEF LoadOrCreate, Exists
  <1>3. QED
    BY <1>1, <1>2

(* The settings of the pool's entity, which are the defaults of getPool as *)
(* long as there is none; and an entity for each text of an enabled root,  *)
(* which holds one of the roots that read so.                              *)
DefaultMax == 604800

PoolEntity(st, s, m) ==
    IF Contract \in DOMAIN st["Pool"]
    THEN st["Pool"][Contract] = [scale |-> s, max |-> m, roots |-> <<>>]
    ELSE s = 10 /\ m = DefaultMax

RootEntities(st, R) ==
    /\ DOMAIN st["EnabledRoot"] = {EnabledRootId(r) : r \in R}
    /\ \A r \in R : \E q \in R :
          /\ EnabledRootId(q) = EnabledRootId(r)
          /\ st["EnabledRoot"][EnabledRootId(r)] = [pool |-> Contract, root |-> q]

LEMMA GetPoolIs ==
    ASSUME NEW st, IsStore(st), NEW s, NEW m, PoolEntity(st, s, m)
    PROVE  LET after == getPool(st, Contract)
           IN  /\ IsStore(after)
               /\ \A k \in Kind \ {"Pool"} : after[k] = st[k]
               /\ Contract \in DOMAIN after["Pool"]
               /\ PoolEntity(after, s, m)
  <1> DEFINE new == [scale |-> 10, max |-> DefaultMax, roots |-> <<>>]
             after == getPool(st, Contract)
  <1>1. "Pool" \in Kind
    BY DEF Kind
  <1>2. /\ IsStore(after)
        /\ \A k \in Kind \ {"Pool"} : after[k] = st[k]
        /\ after["Pool"] = IF Contract \in DOMAIN st["Pool"] THEN st["Pool"]
                                                          ELSE With(st["Pool"], Contract, new)
    BY <1>1, LoadOrCreateIs, SMT DEF getPool, DefaultMax
  <1> HIDE DEF after
  <1>3. CASE Contract \in DOMAIN st["Pool"]
    BY <1>2, <1>3 DEF PoolEntity, after
  <1>4. CASE Contract \notin DOMAIN st["Pool"]
    <2>1. after["Pool"][Contract] = new /\ Contract \in DOMAIN after["Pool"]
      BY <1>2, <1>4 DEF With
    <2>2. s = 10 /\ m = DefaultMax
      BY <1>4 DEF PoolEntity
    <2>3. PoolEntity(after, s, m)
      BY <2>1, <2>2 DEF PoolEntity
    <2>4. QED
      BY <1>2, <2>1, <2>3 DEF after
  <1>5. QED
    BY <1>3, <1>4

LEMMA EnableIsIndexed ==
    ASSUME NEW st, IsStore(st), NEW s, NEW m, PoolEntity(st, s, m),
           NEW R, RootEntities(st, R), NEW root
    PROVE  LET after == handleEnable(st, root)
           IN  /\ IsStore(after) /\ PoolEntity(after, s, m)
               /\ RootEntities(after, R \union {root})
               /\ after["PoolClaim"] = st["PoolClaim"]
               /\ Contract \in DOMAIN after["Pool"]
  <1> DEFINE pooled == getPool(st, Contract)
             entity == [pool |-> Contract, root |-> root]
             after == Save(pooled, "EnabledRoot", EnabledRootId(root), entity)
  <1>1. /\ IsStore(pooled) /\ PoolEntity(pooled, s, m) /\ Contract \in DOMAIN pooled["Pool"]
        /\ \A k \in Kind \ {"Pool"} : pooled[k] = st[k]
    BY GetPoolIs
  <1>2. {"Pool", "EnabledRoot", "PoolClaim"} \subseteq Kind
    BY DEF Kind
  <1> HIDE DEF pooled, entity
  <1>3. /\ IsStore(after)
        /\ \A k \in Kind : after[k] = IF k = "EnabledRoot"
                                      THEN With(pooled[k], EnabledRootId(root), entity)
                                      ELSE pooled[k]
    BY <1>1, <1>2, SaveIs
  <1> HIDE DEF after
  <1>4. /\ after["Pool"] = pooled["Pool"]
        /\ after["PoolClaim"] = st["PoolClaim"]
        /\ after["EnabledRoot"] = With(st["EnabledRoot"], EnabledRootId(root), entity)
    BY <1>1, <1>2, <1>3
  <1>5. PoolEntity(after, s, m)
    BY <1>1, <1>4 DEF PoolEntity
  <1>6. DOMAIN after["EnabledRoot"] = {EnabledRootId(r) : r \in R \union {root}}
    <2>1. DOMAIN after["EnabledRoot"] = {EnabledRootId(r) : r \in R} \union {EnabledRootId(root)}
      BY <1>4 DEF RootEntities, With
    <2>2. QED
      BY <2>1
  <1>7. ASSUME NEW r \in R \union {root}
        PROVE  \E q \in R \union {root} :
                  /\ EnabledRootId(q) = EnabledRootId(r)
                  /\ after["EnabledRoot"][EnabledRootId(r)] = [pool |-> Contract, root |-> q]
    <2>1. CASE EnabledRootId(r) = EnabledRootId(root)
      <3>1. after["EnabledRoot"][EnabledRootId(r)] = [pool |-> Contract, root |-> root]
        BY <1>4, <2>1 DEF entity, With
      <3>2. QED
        BY <2>1, <3>1
    <2>2. CASE EnabledRootId(r) # EnabledRootId(root)
      <3>1. r \in R /\ EnabledRootId(r) \in DOMAIN st["EnabledRoot"]
        BY <2>2 DEF RootEntities
      <3>2. after["EnabledRoot"][EnabledRootId(r)] = st["EnabledRoot"][EnabledRootId(r)]
        BY <1>4, <2>2, <3>1 DEF With
      <3>3. PICK q \in R :
               /\ EnabledRootId(q) = EnabledRootId(r)
               /\ st["EnabledRoot"][EnabledRootId(r)] = [pool |-> Contract, root |-> q]
        BY <3>1 DEF RootEntities
      <3>4. QED
        BY <3>2, <3>3
    <2>3. QED
      BY <2>1, <2>2
  <1>8. RootEntities(after, R \union {root})
    BY <1>6, <1>7 DEF RootEntities
  <1>9. QED
    BY <1>1, <1>3, <1>4, <1>5, <1>8 DEF handleEnable, after, pooled, entity

LEMMA SetScaleIsIndexed ==
    ASSUME NEW st, IsStore(st), NEW s, NEW m, PoolEntity(st, s, m), NEW value
    PROVE  LET after == handleSetScale(st, value)
           IN  /\ IsStore(after) /\ PoolEntity(after, value, m)
               /\ Contract \in DOMAIN after["Pool"]
               /\ \A k \in Kind \ {"Pool"} : after[k] = st[k]
  <1> DEFINE pooled == getPool(st, Contract)
             entity == [pooled["Pool"][Contract] EXCEPT !.scale = value]
             after == [pooled EXCEPT !["Pool"] = [pooled["Pool"] EXCEPT ![Contract] = entity]]
  <1>1. /\ IsStore(pooled) /\ PoolEntity(pooled, s, m) /\ Contract \in DOMAIN pooled["Pool"]
        /\ \A k \in Kind \ {"Pool"} : pooled[k] = st[k]
    BY GetPoolIs
  <1>2. "Pool" \in Kind
    BY DEF Kind
  <1>3. after = handleSetScale(st, value)
    BY DEF handleSetScale
  <1> HIDE DEF pooled, entity
  <1>4. IsStore(after) /\ \A k \in Kind \ {"Pool"} : after[k] = st[k]
    BY <1>1, <1>2 DEF IsStore
  <1>5. /\ DOMAIN after["Pool"] = DOMAIN pooled["Pool"]
        /\ after["Pool"][Contract] = entity
    BY <1>1, <1>2 DEF IsStore
  <1> HIDE DEF after
  <1>6. pooled["Pool"][Contract] = [scale |-> s, max |-> m, roots |-> <<>>]
    BY <1>1 DEF PoolEntity
  <1>7. after["Pool"][Contract] = [scale |-> value, max |-> m, roots |-> <<>>]
    BY <1>5, <1>6 DEF entity
  <1>8. PoolEntity(after, value, m) /\ Contract \in DOMAIN after["Pool"]
    BY <1>1, <1>5, <1>7 DEF PoolEntity
  <1>9. QED
    BY <1>3, <1>4, <1>8

LEMMA SetMaxIsIndexed ==
    ASSUME NEW st, IsStore(st), NEW s, NEW m, PoolEntity(st, s, m), NEW value
    PROVE  LET after == handleSetMax(st, value)
           IN  /\ IsStore(after) /\ PoolEntity(after, s, value)
               /\ Contract \in DOMAIN after["Pool"]
               /\ \A k \in Kind \ {"Pool"} : after[k] = st[k]
  <1> DEFINE pooled == getPool(st, Contract)
             entity == [pooled["Pool"][Contract] EXCEPT !.max = value]
             after == [pooled EXCEPT !["Pool"] = [pooled["Pool"] EXCEPT ![Contract] = entity]]
  <1>1. /\ IsStore(pooled) /\ PoolEntity(pooled, s, m) /\ Contract \in DOMAIN pooled["Pool"]
        /\ \A k \in Kind \ {"Pool"} : pooled[k] = st[k]
    BY GetPoolIs
  <1>2. "Pool" \in Kind
    BY DEF Kind
  <1>3. after = handleSetMax(st, value)
    BY DEF handleSetMax
  <1> HIDE DEF pooled, entity
  <1>4. IsStore(after) /\ \A k \in Kind \ {"Pool"} : after[k] = st[k]
    BY <1>1, <1>2 DEF IsStore
  <1>5. /\ DOMAIN after["Pool"] = DOMAIN pooled["Pool"]
        /\ after["Pool"][Contract] = entity
    BY <1>1, <1>2 DEF IsStore
  <1> HIDE DEF after
  <1>6. pooled["Pool"][Contract] = [scale |-> s, max |-> m, roots |-> <<>>]
    BY <1>1 DEF PoolEntity
  <1>7. after["Pool"][Contract] = [scale |-> s, max |-> value, roots |-> <<>>]
    BY <1>5, <1>6 DEF entity
  <1>8. PoolEntity(after, s, value) /\ Contract \in DOMAIN after["Pool"]
    BY <1>1, <1>5, <1>7 DEF PoolEntity
  <1>9. QED
    BY <1>3, <1>4, <1>8

(* What handleWithdraw saves: the claim, beside what it creates.           *)
ClaimEntity(account, amount) ==
    [pool |-> Contract, user |-> account, token |-> PayoutToken, amount |-> amount]

LEMMA WithdrawalIsIndexed ==
    ASSUME NEW st, IsStore(st), NEW s, NEW m, PoolEntity(st, s, m),
           NEW R, RootEntities(st, R), NEW a, NEW amount, NEW time
    PROVE  LET after == handleWithdraw(st, a, amount, time)
           IN  /\ IsStore(after) /\ PoolEntity(after, s, m) /\ RootEntities(after, R)
               /\ Contract \in DOMAIN after["Pool"]
               /\ after["PoolClaim"] = With(st["PoolClaim"], PoolClaimId(a, time),
                                            ClaimEntity(a, amount))
  <1> DEFINE pooled == getPool(st, Contract)
             known == getUser(pooled, a)
             ready == getToken(known, PayoutToken)
             after == Save(ready, "PoolClaim", PoolClaimId(a, time), ClaimEntity(a, amount))
  <1>1. /\ IsStore(pooled) /\ PoolEntity(pooled, s, m) /\ Contract \in DOMAIN pooled["Pool"]
        /\ \A k \in Kind \ {"Pool"} : pooled[k] = st[k]
    BY GetPoolIs
  <1>2. {"Pool", "User", "Token", "PoolClaim", "EnabledRoot"} \subseteq Kind
    BY DEF Kind
  <1> HIDE DEF pooled
  <1>3. IsStore(known) /\ \A k \in Kind \ {"User"} : known[k] = pooled[k]
    BY <1>1, <1>2, LoadOrCreateIs DEF getUser
  <1> HIDE DEF known
  <1>4. IsStore(ready) /\ \A k \in Kind \ {"Token"} : ready[k] = known[k]
    BY <1>2, <1>3, LoadOrCreateIs DEF getToken
  <1> HIDE DEF ready
  <1>5. /\ IsStore(after)
        /\ \A k \in Kind : after[k] = IF k = "PoolClaim"
                                      THEN With(ready[k], PoolClaimId(a, time), ClaimEntity(a, amount))
                                      ELSE ready[k]
    BY <1>2, <1>4, SaveIs
  <1> HIDE DEF after
  <1>6. /\ after["Pool"] = pooled["Pool"]
        /\ after["EnabledRoot"] = st["EnabledRoot"]
        /\ after["PoolClaim"] = With(st["PoolClaim"], PoolClaimId(a, time), ClaimEntity(a, amount))
    BY <1>1, <1>2, <1>3, <1>4, <1>5
  <1>7. PoolEntity(after, s, m) /\ RootEntities(after, R)
    BY <1>1, <1>6 DEF PoolEntity, RootEntities
  <1>8. QED
    BY <1>1, <1>5, <1>6, <1>7
       DEF handleWithdraw, after, ready, known, pooled, ClaimEntity

(* The claims in the store: for each account and block, the last payout.   *)
Payout == [account: Account, at: Nat, received: Nat]

ClaimIdOf(paid, i) == PoolClaimId(paid[i].account, paid[i].at)

IsLastClaim(paid, i) == \A j \in DOMAIN paid : ClaimIdOf(paid, j) = ClaimIdOf(paid, i) => j <= i

ClaimEntities(st, paid) ==
    /\ DOMAIN st["PoolClaim"] = {ClaimIdOf(paid, i) : i \in DOMAIN paid}
    /\ \A i \in DOMAIN paid : IsLastClaim(paid, i) =>
          st["PoolClaim"][ClaimIdOf(paid, i)] = ClaimEntity(paid[i].account, paid[i].received)

LEMMA ClaimIsAdded ==
    ASSUME NEW st, NEW paid \in Seq(Payout), ClaimEntities(st, paid), NEW p \in Payout,
           NEW after, after["PoolClaim"] = With(st["PoolClaim"], PoolClaimId(p.account, p.at),
                                                ClaimEntity(p.account, p.received))
    PROVE  ClaimEntities(after, Append(paid, p))
  <1> DEFINE n == Len(paid)
             more == Append(paid, p)
             id == PoolClaimId(p.account, p.at)
  <1>1. /\ n \in Nat /\ DOMAIN paid = 1..n /\ DOMAIN more = 1..(n + 1)
        /\ more[n + 1] = p /\ \A i \in 1..n : more[i] = paid[i]
    OBVIOUS
  <1>2. ClaimIdOf(more, n + 1) = id /\ \A i \in 1..n : ClaimIdOf(more, i) = ClaimIdOf(paid, i)
    BY <1>1 DEF ClaimIdOf
  <1> HIDE DEF n, more, id
  <1>3. DOMAIN after["PoolClaim"] = {ClaimIdOf(more, i) : i \in DOMAIN more}
    <2>1. DOMAIN after["PoolClaim"] = {ClaimIdOf(paid, i) : i \in 1..n} \union {id}
      BY <1>1 DEF ClaimEntities, With, id
    <2>2. 1..(n + 1) = (1..n) \union {n + 1}
      BY <1>1
    <2>3. {ClaimIdOf(more, i) : i \in 1..(n + 1)} = {ClaimIdOf(paid, i) : i \in 1..n} \union {id}
      BY <1>2, <2>2
    <2>4. QED
      BY <1>1, <2>1, <2>3
  <1>4. ASSUME NEW i \in DOMAIN more, IsLastClaim(more, i)
        PROVE  after["PoolClaim"][ClaimIdOf(more, i)]
                 = ClaimEntity(more[i].account, more[i].received)
    <2>1. CASE i = n + 1
      BY <1>1, <1>2, <2>1 DEF With, id
    <2>2. CASE i \in 1..n
      <3>1. ClaimIdOf(more, i) # id
        <4>1. n + 1 \in DOMAIN more /\ ~(n + 1 <= i)
          BY <1>1, <2>2
        <4>2. QED
          BY <1>2, <1>4, <4>1 DEF IsLastClaim
      <3>2. IsLastClaim(paid, i)
        BY <1>1, <1>2, <1>4, <2>2 DEF IsLastClaim
      <3>3. st["PoolClaim"][ClaimIdOf(paid, i)] = ClaimEntity(paid[i].account, paid[i].received)
        BY <1>1, <2>2, <3>2 DEF ClaimEntities
      <3>4. ClaimIdOf(paid, i) \in DOMAIN st["PoolClaim"]
        BY <1>1, <2>2 DEF ClaimEntities
      <3>5. after["PoolClaim"][ClaimIdOf(paid, i)] = st["PoolClaim"][ClaimIdOf(paid, i)]
        BY <1>2, <2>2, <3>1, <3>4 DEF With, id
      <3>6. QED
        BY <1>1, <1>2, <2>2, <3>3, <3>5
    <2>3. QED
      BY <1>1, <2>1, <2>2
  <1>5. QED
    BY <1>3, <1>4 DEF ClaimEntities, more

(* Of the payouts with one id there is a last.                             *)
LEMMA LastClaimExists ==
    ASSUME NEW paid \in Seq(Payout), NEW i \in DOMAIN paid
    PROVE  \E j \in DOMAIN paid : /\ ClaimIdOf(paid, j) = ClaimIdOf(paid, i)
                                  /\ IsLastClaim(paid, j)
  <1> DEFINE n == Len(paid)
             T == {k \in Nat : /\ k < n
                               /\ ClaimIdOf(paid, n - k) = ClaimIdOf(paid, i)}
  <1>1. n \in Nat /\ DOMAIN paid = 1..n
    OBVIOUS
  <1>2. n - i \in T
    BY <1>1
  <1> HIDE DEF n
  <1>3. PICK k \in T : \A l \in T : k <= l
    BY <1>2, LeastNumber
  <1>4. n - k \in 1..n
    BY <1>1, <1>3
  <1>5. ASSUME NEW j \in DOMAIN paid, ClaimIdOf(paid, j) = ClaimIdOf(paid, n - k)
        PROVE  j <= n - k
    <2>1. n - j \in Nat /\ n - j < n /\ n - (n - j) = j
      BY <1>1
    <2>2. n - j \in T
      BY <1>3, <1>5, <2>1
    <2>3. QED
      BY <1>1, <1>3, <2>2
  <1>6. QED
    BY <1>1, <1>3, <1>4, <1>5 DEF IsLastClaim

LEMMA ClaimsAddUp ==
    ASSUME payouts \in Seq(Payout), ClaimEntities(store, payouts)
    PROVE  ClaimsMatchPayouts
  <1> SUFFICES ASSUME NEW a \in Account
        PROVE  LET own == {i \in DOMAIN payouts : payouts[i].account = a}
                   received == SumFunction([i \in own |-> payouts[i].received])
                   ids == {id \in DOMAIN store["PoolClaim"] : store["PoolClaim"][id].user = a}
                   claimedAmount == SumFunction([id \in ids |-> store["PoolClaim"][id].amount])
               IN  /\ claimedAmount <= received
                   /\ (\A i, j \in own : payouts[i].at = payouts[j].at => i = j)
                         => claimedAmount = received
    BY DEF ClaimsMatchPayouts
  <1> DEFINE own == {i \in DOMAIN payouts : payouts[i].account = a}
             ids == {id \in DOMAIN store["PoolClaim"] : store["PoolClaim"][id].user = a}
             last == {i \in own : IsLastClaim(payouts, i)}
             f == [i \in own |-> payouts[i].received]
             h == [id \in ids |-> store["PoolClaim"][id].amount]
             b == [i \in last |-> ClaimIdOf(payouts, i)]
             n == Len(payouts)
  <1>1. n \in Nat /\ DOMAIN payouts = 1..n /\ \A i \in 1..n : payouts[i] \in Payout
    OBVIOUS
  <1> HIDE DEF n
  <1>2. IsFiniteSet(own) /\ IsFiniteSet(last)
    <2>1. IsFiniteSet(1..n)
      BY <1>1, FS_Interval
    <2>2. own \subseteq 1..n /\ last \subseteq 1..n
      BY <1>1
    <2>3. QED
      BY <2>1, <2>2, FS_Subset
  <1>3. ASSUME NEW i \in last
        PROVE  /\ i \in DOMAIN payouts /\ ClaimIdOf(payouts, i) \in ids
               /\ store["PoolClaim"][ClaimIdOf(payouts, i)].amount = payouts[i].received
    <2>1. /\ i \in DOMAIN payouts /\ payouts[i].account = a
          /\ store["PoolClaim"][ClaimIdOf(payouts, i)]
               = ClaimEntity(payouts[i].account, payouts[i].received)
      BY DEF ClaimEntities
    <2>2. ClaimIdOf(payouts, i) \in DOMAIN store["PoolClaim"]
      BY <2>1 DEF ClaimEntities
    <2>3. QED
      BY <2>1, <2>2 DEF ClaimEntity
  <1>4. ASSUME NEW id \in ids PROVE \E i \in last : ClaimIdOf(payouts, i) = id
    <2>1. PICK k \in DOMAIN payouts : ClaimIdOf(payouts, k) = id
      BY DEF ClaimEntities
    <2>2. PICK i \in DOMAIN payouts : ClaimIdOf(payouts, i) = id /\ IsLastClaim(payouts, i)
      BY <2>1, LastClaimExists
    <2>3. store["PoolClaim"][id] = ClaimEntity(payouts[i].account, payouts[i].received)
      BY <2>2 DEF ClaimEntities
    <2>4. payouts[i].account = a
      BY <2>3 DEF ClaimEntity
    <2>5. QED
      BY <2>2, <2>4
  <1>5. ASSUME NEW i \in last, NEW j \in last, ClaimIdOf(payouts, i) = ClaimIdOf(payouts, j)
        PROVE  i = j
    <2>1. i \in DOMAIN payouts /\ j \in DOMAIN payouts /\ i \in Int /\ j \in Int
      BY <1>1
    <2>2. i <= j /\ j <= i
      BY <1>5, <2>1 DEF IsLastClaim
    <2>3. QED
      BY <2>1, <2>2
  <1>6. /\ \A i \in own : f[i] \in Nat /\ f[i] = payouts[i].received
        /\ DOMAIN f = own /\ DOMAIN h = ids
    BY <1>1 DEF Payout
  <1>7. /\ b \in [last -> ids]
        /\ \A id \in ids : \E i \in last : b[i] = id
        /\ \A i, j \in last : b[i] = b[j] => i = j
    BY <1>3, <1>4, <1>5
  <1>8. last \in SUBSET own
    OBVIOUS
  <1>9. \A i \in last : h[b[i]] \in Int /\ f[i] = h[b[i]]
    <2>1. \A i \in last : h[b[i]] = payouts[i].received
      BY <1>3
    <2> HIDE DEF b, h, f, last
    <2>2. QED
      BY <1>6, <1>8, <2>1
  <1> HIDE DEF b, h, f, last
  <1>10. IsFiniteSet(ids)
    <2> HIDE DEF ids, own
    <2>1. b \in Surjection(last, ids)
      BY <1>7 DEF Surjection
    <2>2. QED
      BY <1>2, <2>1, FS_Surjection
  <1>11. SumFunctionOnSet(f, last) = SumFunctionOnSet(h, ids)
    <2> HIDE DEF ids, own
    <2>1. IsFiniteSet(last) /\ IsFiniteSet(ids) /\ b \in [last -> ids]
      BY <1>2, <1>7, <1>10
    <2>2. \A y \in ids : \E x \in last : b[x] = y
      BY <1>7
    <2>3. \A x, y \in last : b[x] = b[y] => x = y
      BY <1>7
    <2>4. \A x \in last : h[b[x]] \in Int /\ f[x] = h[b[x]]
      BY <1>9
    <2>5. Renames(b, f, last, h, ids)
      BY <2>1, <2>2, <2>3, <2>4 DEF Renames
    <2>6. QED
      BY <2>5, SumRenamed
  <1>12. SumFunctionOnSet(f, last) <= SumFunctionOnSet(f, own)
    <2> HIDE DEF own
    <2>1. QED
      BY <1>2, <1>6, <1>8, SumOfPart
  <1>13. ASSUME \A i, j \in own : payouts[i].at = payouts[j].at => i = j PROVE last = own
    <2>1. ASSUME NEW i \in own PROVE IsLastClaim(payouts, i)
      <3>1. ASSUME NEW j \in DOMAIN payouts, ClaimIdOf(payouts, j) = ClaimIdOf(payouts, i)
            PROVE  j <= i
        <4>1. payouts[j].account = payouts[i].account /\ payouts[j].at = payouts[i].at
          BY <3>1 DEF ClaimIdOf, PoolClaimId
        <4>2. j = i /\ i \in Int
          BY <1>1, <1>13, <4>1
        <4>3. QED
          BY <4>2
      <3>2. QED
        BY <3>1 DEF IsLastClaim
    <2>2. QED
      BY <2>1 DEF last
  <1>14. SumFunction(f) = SumFunctionOnSet(f, own) /\ SumFunction(h) = SumFunctionOnSet(h, ids)
    BY <1>6 DEF SumFunction
  <1>15. /\ SumFunction(h) <= SumFunction(f)
         /\ (\A i, j \in own : payouts[i].at = payouts[j].at => i = j)
               => SumFunction(h) = SumFunction(f)
    BY <1>11, <1>12, <1>13, <1>14
  <1>16. QED
    BY <1>15 DEF f, h

(* What the index should hold as the settings: the contract's, once set.   *)
IndexedScale == IF "scale" \in changed THEN scale ELSE 10

IndexedMax == IF "max" \in changed THEN max ELSE DefaultMax

PoolIsKnown(st) == Contract \in DOMAIN st["Pool"]

(* The inductive invariant of the contract with its index.                 *)
Indexes ==
    /\ IsStore(store)
    /\ PoolEntity(store, IndexedScale, IndexedMax)
    /\ PoolIsKnown(store) \/ (roots = {} /\ changed = {})
    /\ RootEntities(store, roots)
    /\ now \in Nat
    /\ payouts \in Seq(Payout)
    /\ ClaimEntities(store, payouts)

IndexInv == IInv /\ Indexes

LEMMA InitialIndex == IndexInit => IndexInv
  <1> SUFFICES ASSUME IndexInit PROVE IndexInv
    OBVIOUS
  <1>1. /\ Init /\ now = 0 /\ payouts = <<>> /\ roots = {} /\ changed = {}
        /\ store = [kind \in Kind |-> [id \in {} |-> {}]]
    BY DEF IndexInit, EmptyStore, NoEntity, Init
  <1>2. {"Pool", "EnabledRoot", "PoolClaim"} \subseteq Kind
    BY DEF Kind
  <1>3. /\ DOMAIN store["Pool"] = {} /\ DOMAIN store["EnabledRoot"] = {}
        /\ DOMAIN store["PoolClaim"] = {}
    BY <1>1, <1>2
  <1>4. IsStore(store)
    BY <1>1 DEF IsStore
  <1>5. PoolEntity(store, IndexedScale, IndexedMax) /\ RootEntities(store, roots)
    BY <1>1, <1>3 DEF PoolEntity, RootEntities, IndexedScale, IndexedMax
  <1>6. payouts \in Seq(Payout) /\ DOMAIN payouts = {}
    BY <1>1
  <1>7. ClaimEntities(store, payouts)
    BY <1>3, <1>6 DEF ClaimEntities
  <1>8. now \in Nat
    BY <1>1
  <1>9. QED
    BY <1>1, <1>4, <1>5, <1>6, <1>7, <1>8, InitialInvariant DEF IndexInv, Indexes

(* A transaction of the pool, whose event is indexed, is a step of it.     *)
LEMMA IndexedStepsAreSteps == ASSUME [IndexNext]_indexVars PROVE [Next]_vars
  BY DEF IndexNext, Next, NextBlock, indexVars

(* The tokens a withdrawal moves are the amount its event carries.         *)
LEMMA WithdrawalKeepsIndex ==
    ASSUME IndexInv, NEW a \in Account, NEW claims \in Seq(Claim), NEW minimum,
           withdrawProtected(a, claims, minimum), IndexedWithdrawal(a, claims)
    PROVE  Indexes'
  <1> DEFINE amount == calculate(TotalScore(claims))
             p == [account |-> a, at |-> now, received |-> amount]
  <1>1. TypeOK /\ Indexes
    BY DEF IndexInv, IInv
  <1>2. amount \in Nat /\ balance'[a] - balance[a] = amount
    BY <1>1, WithdrawMovesAmount
  <1>3. scale' = scale /\ max' = max /\ roots' = roots
    BY DEF withdrawProtected
  <1>4. /\ store' = handleWithdraw(store, a, amount, now)
        /\ payouts' = Append(payouts, [account |-> a, at |-> now,
                                       received |-> balance'[a] - balance[a]])
        /\ now' = now /\ changed' = changed
    BY DEF IndexedWithdrawal
  <1> HIDE DEF amount
  <1>5. p \in Payout /\ payouts' = Append(payouts, p)
    BY <1>1, <1>2, <1>4 DEF Payout, Indexes
  <1>6. p.account = a /\ p.at = now /\ p.received = amount
    OBVIOUS
  <1> HIDE DEF p
  <1>7. /\ IsStore(store) /\ PoolEntity(store, IndexedScale, IndexedMax)
        /\ RootEntities(store, roots)
        /\ payouts \in Seq(Payout) /\ ClaimEntities(store, payouts) /\ now \in Nat
    BY <1>1 DEF Indexes
  <1>8. /\ IsStore(store') /\ PoolEntity(store', IndexedScale, IndexedMax)
        /\ RootEntities(store', roots) /\ PoolIsKnown(store')
        /\ store'["PoolClaim"] = With(store["PoolClaim"], PoolClaimId(a, now),
                                      ClaimEntity(a, amount))
    BY <1>4, <1>7, WithdrawalIsIndexed DEF PoolIsKnown
  <1>9. ClaimEntities(store', payouts')
    BY <1>5, <1>6, <1>7, <1>8, ClaimIsAdded
  <1>10. payouts' \in Seq(Payout)
    BY <1>5, <1>7
  <1>11. QED
    BY <1>3, <1>4, <1>7, <1>8, <1>9, <1>10
       DEF Indexes, IsStore, PoolEntity, RootEntities, ClaimEntities, IsLastClaim, ClaimIdOf,
           PoolClaimId, ClaimEntity, EnabledRootId, IndexedScale, IndexedMax, PoolIsKnown

LEMMA StepKeepsIndex == ASSUME IndexInv, [IndexNext]_indexVars PROVE IndexInv'
  <1>1. IInv'
    BY IndexedStepsAreSteps, StepKeepsInvariant DEF IndexInv
  <1>2. /\ IsStore(store) /\ PoolEntity(store, IndexedScale, IndexedMax)
        /\ PoolIsKnown(store) \/ (roots = {} /\ changed = {})
        /\ RootEntities(store, roots)
        /\ now \in Nat /\ payouts \in Seq(Payout) /\ ClaimEntities(store, payouts)
    BY DEF IndexInv, Indexes
  <1>3. ASSUME NEW c \in Account, NEW n \in Scale, setScale(c, n),
               IndexedSetting(handleSetScale(store, n), "scale")
        PROVE  Indexes'
    <2>1. /\ scale' = n /\ max' = max /\ roots' = roots /\ now' = now /\ payouts' = payouts
          /\ store' = handleSetScale(store, n) /\ changed' = changed \union {"scale"}
      BY <1>3 DEF setScale, IndexedSetting
    <2>2. /\ IsStore(store') /\ PoolEntity(store', n, IndexedMax) /\ PoolIsKnown(store')
          /\ \A k \in Kind \ {"Pool"} : store'[k] = store[k]
      BY <1>2, <2>1, SetScaleIsIndexed DEF PoolIsKnown
    <2>3. store'["EnabledRoot"] = store["EnabledRoot"] /\ store'["PoolClaim"] = store["PoolClaim"]
      BY <2>2 DEF Kind
    <2>4. RootEntities(store', roots) /\ ClaimEntities(store', payouts)
      BY <1>2, <2>3 DEF RootEntities, ClaimEntities
    <2>5. IndexedScale' = n /\ IndexedMax' = IndexedMax
      BY <2>1 DEF IndexedScale, IndexedMax
    <2>6. PoolEntity(store', IndexedScale', IndexedMax')
      BY <2>2, <2>5
    <2>7. QED
      BY <1>2, <2>1, <2>2, <2>4, <2>6 DEF Indexes, PoolEntity, PoolIsKnown
  <1>4. ASSUME NEW c \in Account, NEW n \in Percentage, setMax(c, n),
               IndexedSetting(handleSetMax(store, n), "max")
        PROVE  Indexes'
    <2>1. /\ scale' = scale /\ max' = n /\ roots' = roots /\ now' = now /\ payouts' = payouts
          /\ store' = handleSetMax(store, n) /\ changed' = changed \union {"max"}
      BY <1>4 DEF setMax, IndexedSetting
    <2>2. /\ IsStore(store') /\ PoolEntity(store', IndexedScale, n) /\ PoolIsKnown(store')
          /\ \A k \in Kind \ {"Pool"} : store'[k] = store[k]
      BY <1>2, <2>1, SetMaxIsIndexed DEF PoolIsKnown
    <2>3. store'["EnabledRoot"] = store["EnabledRoot"] /\ store'["PoolClaim"] = store["PoolClaim"]
      BY <2>2 DEF Kind
    <2>4. RootEntities(store', roots) /\ ClaimEntities(store', payouts)
      BY <1>2, <2>3 DEF RootEntities, ClaimEntities
    <2>5. IndexedScale' = IndexedScale /\ IndexedMax' = n
      BY <2>1 DEF IndexedScale, IndexedMax
    <2>6. PoolEntity(store', IndexedScale', IndexedMax')
      BY <2>2, <2>5
    <2>7. QED
      BY <1>2, <2>1, <2>2, <2>4, <2>6 DEF Indexes, PoolEntity, PoolIsKnown
  <1>5. ASSUME NEW c \in Account, NEW root \in Root, enable(c, root),
               Indexed(handleEnable(store, root))
        PROVE  Indexes'
    <2>1. /\ scale' = scale /\ max' = max /\ roots' = roots \union {root}
          /\ now' = now /\ payouts' = payouts /\ changed' = changed
          /\ store' = handleEnable(store, root)
      BY <1>5 DEF enable, Indexed
    <2>2. /\ IsStore(store') /\ PoolEntity(store', IndexedScale, IndexedMax)
          /\ RootEntities(store', roots \union {root})
          /\ store'["PoolClaim"] = store["PoolClaim"]
          /\ PoolIsKnown(store')
      BY <1>2, <2>1, EnableIsIndexed DEF PoolIsKnown
    <2>3. ClaimEntities(store', payouts)
      BY <1>2, <2>2 DEF ClaimEntities
    <2>4. IndexedScale' = IndexedScale /\ IndexedMax' = IndexedMax
      BY <2>1 DEF IndexedScale, IndexedMax
    <2>5. QED
      BY <1>2, <2>1, <2>2, <2>3, <2>4 DEF Indexes, PoolEntity, PoolIsKnown
  <1>6. ASSUME NEW c \in Account, NEW dest \in Account, drainTo(c, dest), Indexed(store)
        PROVE  Indexes'
    <2>1. /\ scale' = scale /\ max' = max /\ roots' = roots /\ changed' = changed
          /\ now' = now /\ payouts' = payouts /\ store' = store
      BY <1>6 DEF drainTo, Indexed
    <2>2. QED
      BY <1>2, <2>1 DEF Indexes, IndexedScale, IndexedMax
  <1>7. ASSUME NEW c \in Account, NEW claims \in BoundedSeq(Claim, MaxClaims), NEW minimum,
               withdrawProtected(c, claims, minimum), IndexedWithdrawal(c, claims)
        PROVE  Indexes'
    <2>1. claims \in Seq(Claim)
      BY DEF BoundedSeq, SeqOf
    <2>2. QED
      BY <1>7, <2>1, WithdrawalKeepsIndex
  <1>8. ASSUME NextBlock PROVE Indexes'
    <2>1. /\ scale' = scale /\ max' = max /\ roots' = roots /\ changed' = changed
          /\ now' = now + 1 /\ payouts' = payouts /\ store' = store
      BY <1>8 DEF NextBlock, vars
    <2>2. QED
      BY <1>2, <2>1 DEF Indexes, IndexedScale, IndexedMax
  <1>9. ASSUME UNCHANGED indexVars PROVE Indexes'
    <2>1. /\ scale' = scale /\ max' = max /\ roots' = roots /\ changed' = changed
          /\ now' = now /\ payouts' = payouts /\ store' = store
      BY <1>9 DEF indexVars, vars
    <2>2. QED
      BY <1>2, <2>1 DEF Indexes, IndexedScale, IndexedMax
  <1>10. Indexes'
    BY <1>3, <1>4, <1>5, <1>6, <1>7, <1>8, <1>9 DEF IndexNext, withdraw
  <1>11. QED
    BY <1>1, <1>10 DEF IndexInv

LEMMA IndexedPool == IndexInv => PoolIsIndexed
  <1> SUFFICES ASSUME IndexInv PROVE PoolIsIndexed
    OBVIOUS
  <1> DEFINE f == store["EnabledRoot"]
             enabled == {e.root : e \in Range(f)}
  <1>1. /\ PoolEntity(store, IndexedScale, IndexedMax) /\ RootEntities(store, roots)
        /\ PoolIsKnown(store) \/ (roots = {} /\ changed = {})
    BY DEF IndexInv, Indexes
  <1>2. /\ DOMAIN f = {EnabledRootId(r) : r \in roots}
        /\ \A r \in roots : \E q \in roots :
              /\ EnabledRootId(q) = EnabledRootId(r)
              /\ f[EnabledRootId(r)] = [pool |-> Contract, root |-> q]
    BY <1>1 DEF RootEntities
  <1>3. Range(f) = {f[id] : id \in DOMAIN f}
    BY DEF Range
  <1> HIDE DEF f
  <1>4. \A r \in roots : f[EnabledRootId(r)] \in Range(f)
    BY <1>2, <1>3
  <1>5. enabled \subseteq roots
    <2>1. ASSUME NEW e \in Range(f) PROVE e.root \in roots
      <3>1. PICK r \in roots : e = f[EnabledRootId(r)]
        BY <1>2, <1>3
      <3>2. PICK q \in roots : f[EnabledRootId(r)] = [pool |-> Contract, root |-> q]
        BY <1>2
      <3>3. e.root = q
        BY <3>1, <3>2
      <3>4. QED
        BY <3>3
    <2>2. QED
      BY <2>1
  <1>6. ASSUME NEW r \in roots PROVE \E q \in enabled : TextOf[q] = TextOf[r]
    <2>1. PICK q \in roots : /\ EnabledRootId(q) = EnabledRootId(r)
                             /\ f[EnabledRootId(r)] = [pool |-> Contract, root |-> q]
      BY <1>2
    <2>2. f[EnabledRootId(r)].root = q
      BY <2>1
    <2>3. q \in enabled
      BY <1>4, <2>2
    <2>4. TextOf[q] = TextOf[r]
      BY <2>1 DEF EnabledRootId
    <2>5. QED
      BY <2>3, <2>4
  <1>7. IF Exists(store, "Pool", Contract)
        THEN /\ store["Pool"][Contract].scale = IndexedScale
             /\ store["Pool"][Contract].max = IndexedMax
        ELSE roots = {} /\ changed = {}
    BY <1>1 DEF PoolEntity, PoolIsKnown, Exists
  <1>8. QED
    BY <1>5, <1>6, <1>7 DEF PoolIsIndexed, IndexedScale, IndexedMax, DefaultMax, f

(* After any sequence of calls, whatever roots read alike: the index names *)
(* only roots that are enabled, and for each enabled root one that reads   *)
(* like it; a setting is the contract's from its first event on, before    *)
(* that the default of EntityHelper.ts; and a pool that is not in the      *)
(* index has no enabled root and no setting that was changed.              *)
THEOREM PoolSettingsAreIndexed == IndexSpec => []PoolIsIndexed
  <1>1. IndexInv /\ [IndexNext]_indexVars => IndexInv'
    BY StepKeepsIndex
  <1>2. QED
    BY InitialIndex, IndexedPool, <1>1, PTL DEF IndexSpec

(* The indexed claims of an account never add up to more than it received, *)
(* and to less only if two of its withdrawals are in one block.            *)
THEOREM ClaimsNeverExceedPayouts == IndexSpec => []ClaimsMatchPayouts
  <1>1. IndexInv /\ [IndexNext]_indexVars => IndexInv'
    BY StepKeepsIndex
  <1>2. IndexInv => ClaimsMatchPayouts
    BY ClaimsAddUp DEF IndexInv, Indexes
  <1>3. QED
    BY InitialIndex, <1>1, <1>2, PTL DEF IndexSpec
=============================================================================
