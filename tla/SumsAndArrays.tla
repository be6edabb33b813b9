--------------------------- MODULE SumsAndArrays ---------------------------
(***************************************************************************)
(* Induction over the natural numbers and over finite sets, by the least   *)
(* counterexample, and what follows from it of sums: SumFunctionOnSet of   *)
(* module Functions adds up f[x] for the x of a finite set in an order     *)
(* that is not specified, and the order makes no difference.  Last, of the *)
(* arrays that the contracts keep: an element is removed by moving the     *)
(* last one into its place.                                                *)
(***************************************************************************)
EXTENDS Integers, FiniteSetsExt, SequencesExt, FiniteSetTheorems, WellFoundedInduction, TLAPS

-----------------------------------------------------------------------------
(* Induction. *)

(* A nonempty set of natural numbers has a least element. *)
LEMMA LeastNumber ==
    ASSUME NEW T \in SUBSET Nat, T # {}
    PROVE  \E x \in T : \A y \in T : x <= y
  <1> DEFINE R == OpToRel(<, Nat)
  <1>1. PICK x \in T : \A y \in T : ~(<<y, x>> \in R)
    <2>1. IsWellFoundedOn(R, Nat)
      BY NatLessThanWellFounded
    <2> HIDE DEF R
    <2>2. QED
      BY <2>1, WFMin
  <1>2. ASSUME NEW y \in T PROVE x <= y
    <2>1. x \in Nat /\ y \in Nat
      OBVIOUS
    <2>2. ~(y < x)
      BY <1>1, <2>1 DEF OpToRel
    <2>3. QED
      BY <2>1, <2>2
  <1>3. QED
    BY <1>2

(* What holds of 0, and of n + 1 if of n, holds of all. *)
LEMMA SetInduction ==
    ASSUME NEW G, 0 \in G, \A n \in Nat : n \in G => n + 1 \in G
    PROVE  Nat \subseteq G
  <1> SUFFICES ASSUME Nat \ G # {} PROVE FALSE
    OBVIOUS
  <1>1. PICK x \in Nat \ G : \A y \in Nat \ G : x <= y
    <2> DEFINE T == Nat \ G
    <2>1. T \in SUBSET Nat /\ T # {}
      OBVIOUS
    <2> HIDE DEF T
    <2>2. \E x \in T : \A y \in T : x <= y
      BY <2>1, LeastNumber
    <2>3. QED
      BY <2>2 DEF T
  <1>2. x # 0 /\ x - 1 \in Nat
    OBVIOUS
  <1>3. x - 1 \in G
    BY <1>1, <1>2
  <1>4. (x - 1) + 1 \in G
    BY <1>2, <1>3
  <1>5. QED
    BY <1>4

(* Induction over anything that has a measure. *)
LEMMA MeasureInduction ==
    ASSUME NEW U, NEW G, NEW m \in [U -> Nat],
           \A s \in U : (\A t \in U : m[t] < m[s] => t \in G) => s \in G
    PROVE  U \subseteq G
  <1> SUFFICES ASSUME NEW bad \in U \ G PROVE FALSE
    OBVIOUS
  <1> DEFINE T == {m[s] : s \in U \ G}
  <1>1. T \in SUBSET Nat /\ T # {}
    OBVIOUS
  <1>2. PICK x \in T : \A y \in T : x <= y
    <2> HIDE DEF T
    <2>1. QED
      BY <1>1, LeastNumber
  <1>3. PICK s \in U \ G : x = m[s]
    OBVIOUS
  <1>4. ASSUME NEW t \in U, m[t] < m[s] PROVE t \in G
    <2>1. m[t] \in Nat /\ m[s] \in Nat /\ ~(m[s] <= m[t])
      BY <1>4
    <2>2. QED
      BY <1>2, <1>3, <2>1
  <1>5. QED
    BY <1>3, <1>4

(* Induction over the subsets of a finite set. *)
LEMMA SubsetInduction ==
    ASSUME NEW S, IsFiniteSet(S), NEW G,
           \A s \in SUBSET S : (\A t \in SUBSET S : Cardinality(t) < Cardinality(s) => t \in G)
                                  => s \in G
    PROVE  SUBSET S \subseteq G
  <1> DEFINE m == [s \in SUBSET S |-> Cardinality(s)]
  <1>1. m \in [SUBSET S -> Nat]
    <2>1. \A s \in SUBSET S : Cardinality(s) \in Nat
      BY FS_Subset, FS_CardinalityType
    <2>2. QED
      BY <2>1
  <1>2. \A s \in SUBSET S : (\A t \in SUBSET S : m[t] < m[s] => t \in G) => s \in G
    OBVIOUS
  <1> HIDE DEF m
  <1>3. QED
    BY <1>1, <1>2, MeasureInduction

-----------------------------------------------------------------------------
(* The recursive function that MapThenFoldSet is defined by. *)

Pick(s) == CHOOSE x \in s : TRUE

SumStep(f, g, s) == IF s = {} THEN 0 ELSE f[Pick(s)] + g[s \ {Pick(s)}]

IsIteration(f, S, g) == g = [s \in SUBSET S |-> SumStep(f, g, s)]

LEMMA SumIsIteration ==
    ASSUME NEW f, NEW S
    PROVE  SumFunctionOnSet(f, S) = (CHOOSE g : IsIteration(f, S, g))[S]
  BY DEF SumFunctionOnSet, FoldFunctionOnSet, MapThenFoldSet, IsIteration, SumStep, Pick

LEMMA PickRemoves ==
    ASSUME NEW S, IsFiniteSet(S), NEW s \in SUBSET S, s # {}
    PROVE  /\ Pick(s) \in s /\ s \ {Pick(s)} \in SUBSET S
           /\ IsFiniteSet(s) /\ Cardinality(s) \in Nat
           /\ Cardinality(s \ {Pick(s)}) = Cardinality(s) - 1
  <1>1. Pick(s) \in s
    BY DEF Pick
  <1>2. IsFiniteSet(s)
    BY FS_Subset
  <1>3. QED
    BY <1>1, <1>2, FS_RemoveElement, FS_CardinalityType

(* It exists: a function that is right for sets up to a cardinality gives  *)
(* one that is right for those with one element more.                      *)
LEMMA IterationExists ==
    ASSUME NEW f, NEW S, IsFiniteSet(S)
    PROVE  \E g : IsIteration(f, S, g)
  <1> DEFINE RightUpTo(g, n) ==
               /\ g = [s \in SUBSET S |-> g[s]]
               /\ \A s \in SUBSET S : Cardinality(s) <= n => g[s] = SumStep(f, g, s)
             G == {n \in Nat : \E g : RightUpTo(g, n)}
  <1>1. 0 \in G
    <2> DEFINE g == [s \in SUBSET S |-> 0]
    <2>1. ASSUME NEW s \in SUBSET S, Cardinality(s) <= 0 PROVE s = {}
      BY <2>1, FS_Subset, FS_CardinalityType, FS_EmptySet
    <2>2. RightUpTo(g, 0)
      BY <2>1 DEF SumStep
    <2>3. QED
      BY <2>2
  <1>2. ASSUME NEW n \in Nat, n \in G PROVE n + 1 \in G
    <2>1. PICK g : RightUpTo(g, n)
      BY <1>2
    <2> DEFINE h == [s \in SUBSET S |-> SumStep(f, g, s)]
    <2>2. ASSUME NEW s \in SUBSET S, Cardinality(s) <= n + 1
          PROVE  h[s] = SumStep(f, h, s)
      <3>1. CASE s = {}
        BY <3>1 DEF SumStep
      <3>2. CASE s # {}
        <4> DEFINE t == s \ {Pick(s)}
        <4>1. t \in SUBSET S /\ Cardinality(t) <= n
          BY <2>2, <3>2, PickRemoves
        <4>2. g[t] = h[t]
          BY <2>1, <4>1
        <4>3. h[s] = f[Pick(s)] + g[t] /\ SumStep(f, h, s) = f[Pick(s)] + h[t]
          BY <3>2 DEF SumStep
        <4>4. QED
          BY <4>2, <4>3
      <3>3. QED
        BY <3>1, <3>2
    <2>3. h = [s \in SUBSET S |-> h[s]]
      OBVIOUS
    <2>4. RightUpTo(h, n + 1)
      <3> HIDE DEF h
      <3>1. QED
        BY <2>2, <2>3
    <2>5. QED
      <3> HIDE DEF h, RightUpTo
      <3>1. QED
        BY <2>4
  <1>3. Cardinality(S) \in G
    <2> HIDE DEF G
    <2>1. QED
      BY <1>1, <1>2, SetInduction, FS_CardinalityType
  <1>4. PICK g : RightUpTo(g, Cardinality(S))
    BY <1>3
  <1>5. \A s \in SUBSET S : g[s] = SumStep(f, g, s)
    BY <1>4, FS_Subset
  <1>6. g = [s \in SUBSET S |-> SumStep(f, g, s)]
    BY <1>4, <1>5
  <1>7. QED
    BY <1>6 DEF IsIteration

(* On a set that two of them share they agree, if the functions agree.     *)
LEMMA IterationsAgree ==
    ASSUME NEW f, NEW h, NEW S, NEW T \in SUBSET S, IsFiniteSet(T),
           \A x \in T : f[x] = h[x],
           NEW F, IsIteration(f, S, F), NEW H, IsIteration(h, T, H)
    PROVE  F[T] = H[T]
  <1> DEFINE G == {s \in SUBSET T : F[s] = H[s]}
  <1>1. \A s \in SUBSET T : F[s] = SumStep(f, F, s) /\ H[s] = SumStep(h, H, s)
    BY DEF IsIteration
  <1>2. ASSUME NEW s \in SUBSET T,
               \A t \in SUBSET T : Cardinality(t) < Cardinality(s) => t \in G
        PROVE  s \in G
    <2>1. CASE s = {}
      BY <1>1, <2>1 DEF SumStep
    <2>2. CASE s # {}
      <3>1. /\ Pick(s) \in T /\ s \ {Pick(s)} \in SUBSET T
            /\ Cardinality(s) \in Nat /\ Cardinality(s \ {Pick(s)}) = Cardinality(s) - 1
        BY <2>2, PickRemoves
      <3> Cardinality(s \ {Pick(s)}) < Cardinality(s)
        BY <3>1
      <3>2. F[s \ {Pick(s)}] = H[s \ {Pick(s)}]
        BY <1>2, <3>1
      <3>3. f[Pick(s)] = h[Pick(s)]
        BY <3>1
      <3>4. QED
        BY <1>1, <2>2, <3>2, <3>3 DEF SumStep
    <2>3. QED
      BY <2>1, <2>2
  <1>3. T \in G
    <2> HIDE DEF G
    <2>1. QED
      BY <1>2, SubsetInduction
  <1>4. QED
    BY <1>3

(* What the sums are.                                                      *)
LEMMA SumUnfold ==
    ASSUME NEW f, NEW S, IsFiniteSet(S)
    PROVE  SumFunctionOnSet(f, S)
             = IF S = {} THEN 0 ELSE f[Pick(S)] + SumFunctionOnSet(f, S \ {Pick(S)})
  <1> DEFINE F == CHOOSE g : IsIteration(f, S, g)
             H(T) == CHOOSE g : IsIteration(f, T, g)
  <1>1. IsIteration(f, S, F)
    BY IterationExists
  <1>2. F[S] = SumStep(f, F, S)
    BY <1>1, S \in SUBSET S DEF IsIteration
  <1>3. SumFunctionOnSet(f, S) = F[S]
    BY SumIsIteration
  <1>4. CASE S = {}
    BY <1>2, <1>3, <1>4 DEF SumStep
  <1>5. CASE S # {}
    <2> DEFINE T == S \ {Pick(S)}
    <2>1. T \in SUBSET S /\ IsFiniteSet(T)
      BY FS_Subset
    <2>2. IsIteration(f, T, H(T))
      BY <2>1, IterationExists
    <2>3. SumFunctionOnSet(f, T) = H(T)[T]
      BY SumIsIteration
    <2>4. F[T] = H(T)[T]
      <3> HIDE DEF F, H, T
      <3>1. QED
        BY <1>1, <2>1, <2>2, IterationsAgree
    <2>5. QED
      BY <1>2, <1>3, <1>5, <2>3, <2>4 DEF SumStep
  <1>6. QED
    BY <1>4, <1>5

LEMMA SumEmpty ==
    ASSUME NEW f
    PROVE  SumFunctionOnSet(f, {}) = 0
  BY SumUnfold, FS_EmptySet

(* The sum depends on the values on the set alone.                         *)
LEMMA SumEqual ==
    ASSUME NEW f, NEW h, NEW S, IsFiniteSet(S), \A x \in S : f[x] = h[x]
    PROVE  SumFunctionOnSet(f, S) = SumFunctionOnSet(h, S)
  <1> DEFINE F == CHOOSE g : IsIteration(f, S, g)
             H == CHOOSE g : IsIteration(h, S, g)
  <1>1. IsIteration(f, S, F) /\ IsIteration(h, S, H)
    BY IterationExists
  <1>2. F[S] = H[S]
    <2> HIDE DEF F, H
    <2>1. QED
      BY <1>1, IterationsAgree
  <1>3. QED
    BY <1>2, SumIsIteration

LEMMA SumOfZeros ==
    ASSUME NEW f, NEW S, IsFiniteSet(S), \A x \in S : f[x] = 0
    PROVE  SumFunctionOnSet(f, S) = 0
  <1> DEFINE G == {s \in SUBSET S : SumFunctionOnSet(f, s) = 0}
  <1>1. ASSUME NEW s \in SUBSET S,
               \A t \in SUBSET S : Cardinality(t) < Cardinality(s) => t \in G
        PROVE  s \in G
    <2>1. CASE s = {}
      BY <2>1, SumEmpty
    <2>2. CASE s # {}
      <3>1. /\ Pick(s) \in S /\ s \ {Pick(s)} \in SUBSET S /\ IsFiniteSet(s)
            /\ Cardinality(s) \in Nat /\ Cardinality(s \ {Pick(s)}) = Cardinality(s) - 1
        BY <2>2, PickRemoves
      <3> Cardinality(s \ {Pick(s)}) < Cardinality(s)
        BY <3>1
      <3>2. SumFunctionOnSet(f, s \ {Pick(s)}) = 0 /\ f[Pick(s)] = 0
        BY <1>1, <3>1
      <3>3. SumFunctionOnSet(f, s) = f[Pick(s)] + SumFunctionOnSet(f, s \ {Pick(s)})
        BY <2>2, <3>1, SumUnfold
      <3>4. QED
        BY <3>2, <3>3
    <2>3. QED
      BY <2>1, <2>2
  <1>2. S \in G
    <2> HIDE DEF G
    <2>1. QED
      BY <1>1, SubsetInduction
  <1>3. QED
    BY <1>2

(* A sum of integers is one, and of natural numbers a natural number.      *)
LEMMA SumInteger ==
    ASSUME NEW f, NEW S, IsFiniteSet(S), NEW N \in {Nat, Int}, \A x \in S : f[x] \in N
    PROVE  SumFunctionOnSet(f, S) \in N
  <1> DEFINE G == {s \in SUBSET S : SumFunctionOnSet(f, s) \in N}
  <1>1. ASSUME NEW s \in SUBSET S,
               \A t \in SUBSET S : Cardinality(t) < Cardinality(s) => t \in G
        PROVE  s \in G
    <2>1. CASE s = {}
      BY <2>1, SumEmpty
    <2>2. CASE s # {}
      <3>1. /\ Pick(s) \in S /\ s \ {Pick(s)} \in SUBSET S /\ IsFiniteSet(s)
            /\ Cardinality(s) \in Nat /\ Cardinality(s \ {Pick(s)}) = Cardinality(s) - 1
        BY <2>2, PickRemoves
      <3> Cardinality(s \ {Pick(s)}) < Cardinality(s)
        BY <3>1
      <3>2. SumFunctionOnSet(f, s \ {Pick(s)}) \in N /\ f[Pick(s)] \in N
        BY <1>1, <3>1
      <3>3. SumFunctionOnSet(f, s) = f[Pick(s)] + SumFunctionOnSet(f, s \ {Pick(s)})
        BY <2>2, <3>1, SumUnfold
      <3>4. QED
        BY <3>2, <3>3
    <2>3. QED
      BY <2>1, <2>2
  <1>2. S \in G
    <2> HIDE DEF G
    <2>1. QED
      BY <1>1, SubsetInduction
  <1>3. QED
    BY <1>2

(* Any element can be taken out first.                                     *)
LEMMA SumRemove ==
    ASSUME NEW f, NEW S, IsFiniteSet(S), \A x \in S : f[x] \in Int, NEW e \in S
    PROVE  SumFunctionOnSet(f, S) = f[e] + SumFunctionOnSet(f, S \ {e})
  <1> DEFINE G == {s \in SUBSET S : \A x \in s :
                     SumFunctionOnSet(f, s) = f[x] + SumFunctionOnSet(f, s \ {x})}
  <1>1. ASSUME NEW s \in SUBSET S,
               \A t \in SUBSET S : Cardinality(t) < Cardinality(s) => t \in G
        PROVE  s \in G
    <2> SUFFICES ASSUME NEW x \in s
                 PROVE  SumFunctionOnSet(f, s) = f[x] + SumFunctionOnSet(f, s \ {x})
      OBVIOUS
    <2> DEFINE p == Pick(s)
    <2>1. /\ p \in s /\ p \in S /\ s \ {p} \in SUBSET S /\ IsFiniteSet(s)
          /\ Cardinality(s) \in Nat /\ Cardinality(s \ {p}) = Cardinality(s) - 1
      BY PickRemoves
    <2>2. SumFunctionOnSet(f, s) = f[p] + SumFunctionOnSet(f, s \ {p})
      BY <2>1, SumUnfold
    <2>3. CASE x = p
      BY <2>2, <2>3
    <2>4. CASE x # p
      <3> HIDE DEF p
      <3>1. Cardinality(s \ {p}) < Cardinality(s)
        BY <2>1
      <3>2. Cardinality(s \ {x}) < Cardinality(s)
        <4>1. Cardinality(s \ {x}) = Cardinality(s) - 1
          BY <2>1, FS_RemoveElement
        <4>2. QED
          BY <2>1, <4>1
      <3>3. SumFunctionOnSet(f, s \ {p}) = f[x] + SumFunctionOnSet(f, (s \ {p}) \ {x})
        BY <1>1, <2>1, <2>4, <3>1
      <3>4. SumFunctionOnSet(f, s \ {x}) = f[p] + SumFunctionOnSet(f, (s \ {x}) \ {p})
        BY <1>1, <2>1, <2>4, <3>2
      <3>5. (s \ {p}) \ {x} = (s \ {x}) \ {p}
        OBVIOUS
      <3>6. SumFunctionOnSet(f, (s \ {x}) \ {p}) \in Int
        <4>1. IsFiniteSet((s \ {x}) \ {p})
          BY <2>1, FS_Subset
        <4>2. QED
          BY <4>1, SumInteger
      <3>7. f[x] \in Int /\ f[p] \in Int
        BY <2>1
      <3> DEFINE rest == SumFunctionOnSet(f, (s \ {x}) \ {p})
                 sp == SumFunctionOnSet(f, s \ {p})
                 sx == SumFunctionOnSet(f, s \ {x})
      <3>8. rest \in Int /\ sp = f[x] + rest /\ sx = f[p] + rest
        BY <3>3, <3>4, <3>5, <3>6
      <3>9. SumFunctionOnSet(f, s) = f[p] + sp
        BY <2>2
      <3> HIDE DEF rest, sp, sx
      <3>10. f[p] + sp = f[x] + sx
        BY <3>7, <3>8
      <3>11. QED
        BY <3>9, <3>10 DEF sx
    <2>5. QED
      BY <2>3, <2>4
  <1>2. S \in G
    <2> HIDE DEF G
    <2>1. QED
      BY <1>1, SubsetInduction
  <1>3. QED
    BY <1>2

(* A value that is replaced changes the sum by the difference.             *)
LEMMA SumUpdate ==
    ASSUME NEW f, NEW h, NEW S, IsFiniteSet(S), NEW e \in S,
           \A x \in S : f[x] \in Int /\ h[x] \in Int,
           \A x \in S \ {e} : h[x] = f[x]
    PROVE  SumFunctionOnSet(h, S) = SumFunctionOnSet(f, S) + (h[e] - f[e])
  <1>1. /\ SumFunctionOnSet(f, S) = f[e] + SumFunctionOnSet(f, S \ {e})
        /\ SumFunctionOnSet(h, S) = h[e] + SumFunctionOnSet(h, S \ {e})
    BY SumRemove
  <1>2. IsFiniteSet(S \ {e})
    BY FS_Subset
  <1>3. SumFunctionOnSet(h, S \ {e}) = SumFunctionOnSet(f, S \ {e})
    BY <1>2, SumEqual
  <1>4. SumFunctionOnSet(f, S \ {e}) \in Int
    BY <1>2, SumInteger
  <1>5. QED
    BY <1>1, <1>3, <1>4

(* The sum of two functions. *)
LEMMA SumAdd ==
    ASSUME NEW f, NEW h, NEW k, NEW S, IsFiniteSet(S),
           \A x \in S : f[x] \in Int /\ h[x] \in Int /\ k[x] = f[x] + h[x]
    PROVE  SumFunctionOnSet(k, S) = SumFunctionOnSet(f, S) + SumFunctionOnSet(h, S)
  <1> DEFINE G == {s \in SUBSET S : SumFunctionOnSet(k, s)
                                      = SumFunctionOnSet(f, s) + SumFunctionOnSet(h, s)}
  <1>1. ASSUME NEW s \in SUBSET S,
               \A t \in SUBSET S : Cardinality(t) < Cardinality(s) => t \in G
        PROVE  s \in G
    <2>1. CASE s = {}
      BY <2>1, SumEmpty
    <2>2. CASE s # {}
      <3> DEFINE p == Pick(s)
                 r == s \ {Pick(s)}
      <3>1. /\ p \in S /\ r \in SUBSET S /\ IsFiniteSet(s) /\ IsFiniteSet(r)
            /\ Cardinality(s) \in Nat /\ Cardinality(r) = Cardinality(s) - 1
        BY <2>2, PickRemoves, FS_Subset
      <3>2. /\ SumFunctionOnSet(f, s) = f[p] + SumFunctionOnSet(f, r)
            /\ SumFunctionOnSet(h, s) = h[p] + SumFunctionOnSet(h, r)
            /\ SumFunctionOnSet(k, s) = k[p] + SumFunctionOnSet(k, r)
        BY <2>2, <3>1, SumUnfold
      <3> HIDE DEF p, r
      <3>3. SumFunctionOnSet(k, r) = SumFunctionOnSet(f, r) + SumFunctionOnSet(h, r)
        BY <1>1, <3>1
      <3>4. SumFunctionOnSet(f, r) \in Int /\ SumFunctionOnSet(h, r) \in Int
        BY <3>1, SumInteger
      <3>5. QED
        BY <3>1, <3>2, <3>3, <3>4
    <2>3. QED
      BY <2>1, <2>2
  <1>2. S \in G
    <2> HIDE DEF G
    <2>1. QED
      BY <1>1, SubsetInduction
  <1>3. QED
    BY <1>2

(* A factor in front of all values. *)
LEMMA SumScale ==
    ASSUME NEW c \in Int, NEW f, NEW k, NEW S, IsFiniteSet(S),
           \A x \in S : f[x] \in Int /\ k[x] = c * f[x]
    PROVE  SumFunctionOnSet(k, S) = c * SumFunctionOnSet(f, S)
  <1> DEFINE G == {s \in SUBSET S : SumFunctionOnSet(k, s) = c * SumFunctionOnSet(f, s)}
  <1>1. ASSUME NEW s \in SUBSET S,
               \A t \in SUBSET S : Cardinality(t) < Cardinality(s) => t \in G
        PROVE  s \in G
    <2>1. CASE s = {}
      BY <2>1, SumEmpty
    <2>2. CASE s # {}
      <3> DEFINE p == Pick(s)
                 r == s \ {Pick(s)}
      <3>1. /\ p \in S /\ r \in SUBSET S /\ IsFiniteSet(s) /\ IsFiniteSet(r)
            /\ Cardinality(s) \in Nat /\ Cardinality(r) = Cardinality(s) - 1
        BY <2>2, PickRemoves, FS_Subset
      <3>2. /\ SumFunctionOnSet(f, s) = f[p] + SumFunctionOnSet(f, r)
            /\ SumFunctionOnSet(k, s) = k[p] + SumFunctionOnSet(k, r)
        BY <2>2, <3>1, SumUnfold
      <3> HIDE DEF p, r
      <3>3. SumFunctionOnSet(k, r) = c * SumFunctionOnSet(f, r)
        BY <1>1, <3>1
      <3>4. SumFunctionOnSet(f, r) \in Int /\ f[p] \in Int /\ k[p] = c * f[p]
        BY <3>1, SumInteger
      <3>5. c * (f[p] + SumFunctionOnSet(f, r)) = c * f[p] + c * SumFunctionOnSet(f, r)
        BY <3>4
      <3>6. QED
        BY <3>1, <3>2, <3>3, <3>5
    <2>3. QED
      BY <2>1, <2>2
  <1>2. S \in G
    <2> HIDE DEF G
    <2>1. QED
      BY <1>1, SubsetInduction
  <1>3. QED
    BY <1>2

(* No value of natural numbers exceeds their sum. *)
LEMMA SumBounds ==
    ASSUME NEW f, NEW S, IsFiniteSet(S), \A x \in S : f[x] \in Nat, NEW e \in S
    PROVE  f[e] <= SumFunctionOnSet(f, S)
  <1>1. SumFunctionOnSet(f, S) = f[e] + SumFunctionOnSet(f, S \ {e})
    BY SumRemove
  <1>2. SumFunctionOnSet(f, S \ {e}) \in Nat
    BY FS_Subset, SumInteger
  <1>3. QED
    BY <1>1, <1>2

(* Counting with a sum of zeros and ones. *)
LEMMA SumCounts ==
    ASSUME NEW f, NEW S, IsFiniteSet(S), NEW T \in SUBSET S,
           \A x \in S : f[x] = IF x \in T THEN 1 ELSE 0
    PROVE  SumFunctionOnSet(f, S) = Cardinality(T)
  <1> DEFINE G == {s \in SUBSET S : SumFunctionOnSet(f, s) = Cardinality(s \intersect T)}
  <1>1. ASSUME NEW s \in SUBSET S,
               \A t \in SUBSET S : Cardinality(t) < Cardinality(s) => t \in G
        PROVE  s \in G
    <2>1. CASE s = {}
      BY <2>1, SumEmpty, FS_EmptySet
    <2>2. CASE s # {}
      <3> DEFINE p == Pick(s)
                 r == s \ {Pick(s)}
      <3>1. /\ p \in S /\ p \in s /\ r \in SUBSET S /\ IsFiniteSet(s)
            /\ Cardinality(s) \in Nat /\ Cardinality(r) = Cardinality(s) - 1
        BY <2>2, PickRemoves
      <3>2. SumFunctionOnSet(f, s) = f[p] + SumFunctionOnSet(f, r)
        BY <2>2, <3>1, SumUnfold
      <3>3. /\ s \intersect T = IF p \in T THEN (r \intersect T) \union {p} ELSE r \intersect T
            /\ p \notin r
        BY <3>1
      <3> HIDE DEF p, r
      <3>4. SumFunctionOnSet(f, r) = Cardinality(r \intersect T)
        BY <1>1, <3>1
      <3>5. IsFiniteSet(r \intersect T) /\ Cardinality(r \intersect T) \in Nat
        <4>1. IsFiniteSet(r \intersect T)
          BY <3>1, FS_Subset
        <4>2. QED
          BY <4>1, FS_CardinalityType
      <3>6. p \in T => Cardinality(s \intersect T) = Cardinality(r \intersect T) + 1
        BY <3>3, <3>5, FS_AddElement
      <3>7. SumFunctionOnSet(f, s) = Cardinality(s \intersect T)
        <4>1. CASE p \in T
          <5>1. f[p] = 1
            BY <3>1, <4>1
          <5>2. QED
            BY <3>2, <3>4, <3>5, <3>6, <4>1, <5>1
        <4>2. CASE p \notin T
          <5>1. f[p] = 0 /\ s \intersect T = r \intersect T
            BY <3>1, <3>3, <4>2
          <5>2. Cardinality(s \intersect T) = Cardinality(r \intersect T)
            BY <5>1, Zenon
          <5>3. QED
            BY <3>2, <3>4, <3>5, <5>1, <5>2
        <4>3. QED
          BY <4>1, <4>2
      <3>8. QED
        BY <3>7
    <2>3. QED
      BY <2>1, <2>2
  <1>2. S \in G
    <2> HIDE DEF G
    <2>1. QED
      BY <1>1, SubsetInduction
  <1>3. S \intersect T = T
    OBVIOUS
  <1>4. QED
    BY <1>2, <1>3

(* A part of a sum of natural numbers is not more than the whole.          *)
LEMMA SumOfPart ==
    ASSUME NEW f, NEW S, IsFiniteSet(S), NEW T \in SUBSET S, \A x \in S : f[x] \in Nat
    PROVE  SumFunctionOnSet(f, T) <= SumFunctionOnSet(f, S)
  <1> DEFINE g == [x \in S |-> IF x \in T THEN f[x] ELSE 0]
             h == [x \in S |-> IF x \in T THEN 0 ELSE f[x]]
             rest == S \ T
             G == {s \in SUBSET S : SumFunctionOnSet(g, s) = SumFunctionOnSet(f, s \intersect T)}
  <1>1. /\ \A x \in S : g[x] \in Int /\ h[x] \in Int /\ f[x] = g[x] + h[x]
        /\ \A x \in S : g[x] \in Nat /\ h[x] \in Nat /\ f[x] \in Int
        /\ \A x \in T : g[x] = f[x]
        /\ \A x \in S \ T : g[x] = 0
    OBVIOUS
  <1> HIDE DEF g, h
  <1>2. SumFunctionOnSet(f, S) = SumFunctionOnSet(g, S) + SumFunctionOnSet(h, S)
    BY <1>1, SumAdd
  <1>3. ASSUME NEW s \in SUBSET S,
               \A t \in SUBSET S : Cardinality(t) < Cardinality(s) => t \in G
        PROVE  s \in G
    <2>1. CASE s = {}
      <3>1. {} \intersect T = {}
        OBVIOUS
      <3>2. QED
        BY <2>1, <3>1, SumEmpty
    <2>2. CASE s # {}
      <3> DEFINE p == Pick(s)
                 r == s \ {Pick(s)}
                 I == s \intersect T
                 J == r \intersect T
      <3>1. /\ p \in S /\ p \in s /\ r \in SUBSET S /\ IsFiniteSet(s)
            /\ Cardinality(s) \in Nat /\ Cardinality(r) = Cardinality(s) - 1
        BY <2>2, PickRemoves
      <3>2. SumFunctionOnSet(g, s) = g[p] + SumFunctionOnSet(g, r)
        BY <2>2, <3>1, SumUnfold
      <3>3. /\ p \in T => p \in I /\ I \ {p} = J
            /\ p \notin T => I = J
            /\ \A x \in I : f[x] \in Int
        BY <1>1, <3>1
      <3>4. IsFiniteSet(I) /\ IsFiniteSet(J)
        <4>1. I \subseteq s /\ J \subseteq s
          OBVIOUS
        <4>2. QED
          BY <3>1, <4>1, FS_Subset
      <3>5. \A x \in J : f[x] \in Int
        BY <1>1
      <3> HIDE DEF p, r, I, J
      <3>6. Cardinality(r) < Cardinality(s)
        BY <3>1
      <3>7. SumFunctionOnSet(g, r) = SumFunctionOnSet(f, J)
        BY <1>3, <3>1, <3>6 DEF J
      <3>8. SumFunctionOnSet(f, J) \in Int
        BY <3>4, <3>5, SumInteger
      <3>9. CASE p \in T
        <4>1. SumFunctionOnSet(f, I) = f[p] + SumFunctionOnSet(f, I \ {p})
          BY <3>3, <3>4, <3>9, SumRemove
        <4>2. g[p] = f[p] /\ I \ {p} = J
          BY <1>1, <3>3, <3>9
        <4>3. SumFunctionOnSet(g, s) = SumFunctionOnSet(f, I)
          BY <3>2, <3>7, <4>1, <4>2
        <4>4. QED
          BY <4>3 DEF I
      <3>10. CASE p \notin T
        <4>1. g[p] = 0 /\ I = J
          BY <1>1, <3>1, <3>3, <3>10
        <4>2. SumFunctionOnSet(g, s) = SumFunctionOnSet(f, I)
          BY <3>2, <3>7, <3>8, <4>1
        <4>3. QED
          BY <4>2 DEF I
      <3>11. QED
        BY <3>9, <3>10
    <2>3. QED
      BY <2>1, <2>2
  <1>4. S \in G
    <2> HIDE DEF G
    <2>1. QED
      BY <1>3, SubsetInduction
  <1>5. S \intersect T = T
    OBVIOUS
  <1>6. SumFunctionOnSet(g, S) = SumFunctionOnSet(f, T)
    BY <1>4, <1>5
  <1>7. SumFunctionOnSet(g, S) \in Nat /\ SumFunctionOnSet(h, S) \in Nat
    BY <1>1, SumInteger
  <1>8. QED
    BY <1>2, <1>6, <1>7

(* The values of f at S may be found in h under other names.               *)
Renames(b, f, S, h, T) ==
    /\ IsFiniteSet(S) /\ IsFiniteSet(T)
    /\ b \in [S -> T]
    /\ \A y \in T : \E x \in S : b[x] = y
    /\ \A x, y \in S : b[x] = b[y] => x = y
    /\ \A x \in S : h[b[x]] \in Int /\ f[x] = h[b[x]]

LEMMA SumRenamed ==
    ASSUME NEW S, NEW T, NEW f, NEW h, NEW b, Renames(b, f, S, h, T)
    PROVE  SumFunctionOnSet(f, S) = SumFunctionOnSet(h, T)
  <1> /\ IsFiniteSet(S) /\ IsFiniteSet(T)
      /\ b \in [S -> T]
      /\ \A y \in T : \E x \in S : b[x] = y
      /\ \A x, y \in S : b[x] = b[y] => x = y
      /\ \A x \in S : h[b[x]] \in Int /\ f[x] = h[b[x]]
    BY DEF Renames
  <1> DEFINE Image(s) == {b[x] : x \in s}
             G == {s \in SUBSET S : SumFunctionOnSet(f, s) = SumFunctionOnSet(h, Image(s))}
  <1>1. ASSUME NEW s \in SUBSET S,
               \A t \in SUBSET S : Cardinality(t) < Cardinality(s) => t \in G
        PROVE  s \in G
    <2>1. CASE s = {}
      <3>1. Image({}) = {}
        OBVIOUS
      <3>2. QED
        BY <2>1, <3>1, SumEmpty
    <2>2. CASE s # {}
      <3> DEFINE p == Pick(s)
                 r == s \ {Pick(s)}
                 I == Image(s)
                 J == Image(r)
      <3>1. /\ p \in S /\ p \in s /\ r \in SUBSET S /\ IsFiniteSet(s)
            /\ Cardinality(s) \in Nat /\ Cardinality(r) = Cardinality(s) - 1
        BY <2>2, PickRemoves
      <3>2. SumFunctionOnSet(f, s) = f[p] + SumFunctionOnSet(f, r)
        BY <2>2, <3>1, SumUnfold
      <3>3. /\ b[p] \in I /\ I \ {b[p]} = J
            /\ \A y \in I : h[y] \in Int
        BY <3>1
      <3>4. IsFiniteSet(I)
        <4>1. I \subseteq T
          OBVIOUS
        <4>2. QED
          BY <4>1, FS_Subset
      <3>5. f[p] = h[b[p]]
        BY <3>1
      <3> HIDE DEF p, r, I
      <3>6. SumFunctionOnSet(h, I) = h[b[p]] + SumFunctionOnSet(h, I \ {b[p]})
        BY <3>3, <3>4, SumRemove
      <3>7. Cardinality(r) < Cardinality(s)
        BY <3>1
      <3>8. SumFunctionOnSet(f, r) = SumFunctionOnSet(h, J)
        BY <1>1, <3>1, <3>7
      <3>9. QED
        BY <3>2, <3>3, <3>5, <3>6, <3>8 DEF I
    <2>3. QED
      BY <2>1, <2>2
  <1>2. S \in G
    <2> HIDE DEF G
    <2>1. QED
      BY <1>1, SubsetInduction
  <1>3. Image(S) = T
    OBVIOUS
  <1>4. QED
    BY <1>2, <1>3

-----------------------------------------------------------------------------
(* Arrays. *)

(* The array after its i-th element is removed. *)
Removed(q, i) == Front([q EXCEPT ![i] = Last(q)])

LEMMA RemovedIs ==
    ASSUME NEW X, NEW q \in Seq(X), NEW i \in 1..Len(q)
    PROVE  /\ Removed(q, i) \in Seq(X)
           /\ Len(Removed(q, i)) = Len(q) - 1
           /\ \A j \in 1..(Len(q) - 1) :
                 Removed(q, i)[j] = IF j = i THEN q[Len(q)] ELSE q[j]
  <1> DEFINE e == [q EXCEPT ![i] = Last(q)]
  <1>1. Len(q) \in Nat /\ Len(q) >= 1 /\ Last(q) = q[Len(q)] /\ Last(q) \in X
    BY DEF Last
  <1>2. e \in Seq(X) /\ Len(e) = Len(q)
    BY <1>1
  <1>3. \A j \in 1..Len(q) : e[j] = IF j = i THEN q[Len(q)] ELSE q[j]
    BY <1>1
  <1> HIDE DEF e
  <1>4. Removed(q, i) = SubSeq(e, 1, Len(q) - 1)
    BY <1>2 DEF Removed, Front, e
  <1>5. /\ SubSeq(e, 1, Len(q) - 1) \in Seq(X)
        /\ Len(SubSeq(e, 1, Len(q) - 1)) = Len(q) - 1
        /\ \A j \in 1..(Len(q) - 1) : SubSeq(e, 1, Len(q) - 1)[j] = e[j]
    BY <1>1, <1>2
  <1>6. QED
    BY <1>1, <1>3, <1>4, <1>5

(* The sum over an array with one more element. *)
LEMMA SumAppended ==
    ASSUME NEW n \in Nat, NEW f, NEW h,
           \A j \in 1..n : f[j] \in Int /\ h[j] = f[j], h[n + 1] \in Int
    PROVE  SumFunctionOnSet(h, 1..(n + 1)) = SumFunctionOnSet(f, 1..n) + h[n + 1]
  <1>1. IsFiniteSet(1..n) /\ IsFiniteSet(1..(n + 1))
    BY FS_Interval
  <1>2. (1..(n + 1)) \ {n + 1} = 1..n /\ n + 1 \in 1..(n + 1)
    OBVIOUS
  <1>3. \A j \in 1..(n + 1) : h[j] \in Int
    <2>1. ASSUME NEW j \in 1..(n + 1) PROVE h[j] \in Int
      <3>1. j \in 1..n \/ j = n + 1
        OBVIOUS
      <3>2. QED
        BY <3>1
    <2>2. QED
      BY <2>1
  <1>4. SumFunctionOnSet(h, 1..(n + 1)) = h[n + 1] + SumFunctionOnSet(h, 1..n)
    BY <1>1, <1>2, <1>3, SumRemove
  <1>5. SumFunctionOnSet(h, 1..n) = SumFunctionOnSet(f, 1..n)
    BY <1>1, SumEqual
  <1>6. SumFunctionOnSet(f, 1..n) \in Int
    BY <1>1, SumInteger
  <1>7. QED
    BY <1>4, <1>5, <1>6

(* The sum over the end of an array. *)
LEMMA SumOfTail ==
    ASSUME NEW n \in Nat, NEW i \in 1..n, NEW f, \A j \in 1..n : f[j] \in Nat
    PROVE  /\ SumFunctionOnSet(f, (i + 1)..n) \in Nat
           /\ SumFunctionOnSet(f, i..n) = f[i] + SumFunctionOnSet(f, (i + 1)..n)
  <1> DEFINE S == i..n
             T == (i + 1)..n
  <1>1. /\ IsFiniteSet(S) /\ IsFiniteSet(T)
        /\ S \ {i} = T /\ i \in S
        /\ \A j \in S : f[j] \in Int
        /\ \A j \in T : f[j] \in Nat
    <2>1. IsFiniteSet(S) /\ IsFiniteSet(T)
      BY FS_Interval
    <2>2. S \ {i} = T /\ i \in S
      OBVIOUS
    <2>3. S \subseteq 1..n /\ T \subseteq 1..n
      OBVIOUS
    <2>4. QED
      BY <2>1, <2>2, <2>3
  <1> HIDE DEF S, T
  <1>2. SumFunctionOnSet(f, S) = f[i] + SumFunctionOnSet(f, S \ {i})
    BY <1>1, SumRemove
  <1>3. SumFunctionOnSet(f, T) \in Nat
    BY <1>1, SumInteger
  <1>4. QED
    BY <1>1, <1>2, <1>3 DEF S, T

(* The sum over an array after a removal. *)
LEMMA SumRemoved ==
    ASSUME NEW n \in Nat, NEW i \in 1..n, NEW f, NEW h,
           \A j \in 1..n : f[j] \in Int,
           \A j \in 1..(n - 1) : h[j] = IF j = i THEN f[n] ELSE f[j]
    PROVE  SumFunctionOnSet(h, 1..(n - 1)) = SumFunctionOnSet(f, 1..n) - f[i]
  <1>1. n - 1 \in Nat /\ (n - 1) + 1 = n /\ n \in 1..n
    OBVIOUS
  <1>2. IsFiniteSet(1..(n - 1))
    BY <1>1, FS_Interval
  <1> DEFINE m == n - 1
  <1>3. SumFunctionOnSet(f, 1..n) = SumFunctionOnSet(f, 1..m) + f[n]
    <2>1. m \in Nat /\ m + 1 = n /\ \A j \in 1..m : f[j] \in Int /\ f[j] = f[j]
      BY <1>1
    <2>2. f[m + 1] \in Int
      BY <1>1, <2>1
    <2> HIDE DEF m
    <2>3. SumFunctionOnSet(f, 1..(m + 1)) = SumFunctionOnSet(f, 1..m) + f[m + 1]
      BY <2>1, <2>2, SumAppended
    <2>4. QED
      BY <2>1, <2>3
  <1>4. SumFunctionOnSet(f, 1..m) \in Int /\ f[i] \in Int /\ f[n] \in Int
    <2>1. \A j \in 1..m : f[j] \in Int
      OBVIOUS
    <2>2. QED
      BY <1>1, <1>2, <2>1, SumInteger
  <1>5. CASE i = n
    <2>1. \A j \in 1..m : h[j] = f[j]
      BY <1>5
    <2>2. SumFunctionOnSet(h, 1..m) = SumFunctionOnSet(f, 1..m)
      BY <1>2, <2>1, SumEqual
    <2>3. QED
      BY <1>3, <1>4, <1>5, <2>2
  <1>6. CASE i # n
    <2>1. i \in 1..m
      BY <1>6
    <2>2. /\ \A j \in 1..m : f[j] \in Int /\ h[j] \in Int
          /\ \A j \in (1..m) \ {i} : h[j] = f[j]
          /\ h[i] = f[n]
      BY <1>1, <2>1
    <2>3. SumFunctionOnSet(h, 1..m) = SumFunctionOnSet(f, 1..m) + (h[i] - f[i])
      BY <1>2, <2>1, <2>2, SumUpdate
    <2>4. QED
      BY <1>3, <1>4, <2>2, <2>3
  <1>7. QED
    BY <1>5, <1>6
=============================================================================
