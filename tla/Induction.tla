----------------------------- MODULE Induction ------------------------------
(***************************************************************************)
(* Induction over numbers and finite sets, as facts about sets instead of  *)
(* predicates: what is to be proved of every number is that the set of the *)
(* numbers it holds for has them all.  With it, what loops and sums        *)
(* compute, however long or large they are.                                *)
(***************************************************************************)
EXTENDS Integers, Sequences, FiniteSetsExt, FiniteSetTheorems, WellFoundedInduction, TLAPS

-----------------------------------------------------------------------------
(* Induction *)

LEMMA LeastNatural ==
  ASSUME NEW T, T \subseteq Nat, T # {}
  PROVE  \E n \in T : \A m \in T : n <= m
<1>1. PICK n \in T : \A m \in T : ~(<<m, n>> \in OpToRel(<, Nat))
  BY NatLessThanWellFounded, WFMin
<1>2. ASSUME NEW m \in T PROVE n <= m
  <2>1. m \in Nat /\ n \in Nat
    OBVIOUS
  <2>2. m < n => <<m, n>> \in OpToRel(<, Nat)
    BY <2>1 DEF OpToRel
  <2>3. ~(m < n)
    BY <1>1, <2>2
  <2>. QED  BY <2>1, <2>3
<1>. QED  BY <1>2

LEMMA NumbersInduction ==
  ASSUME NEW N, 0 \in N, \A n \in Nat : n \in N => n + 1 \in N
  PROVE  \A n \in Nat : n \in N
<1>. SUFFICES ASSUME Nat \ N # {} PROVE FALSE
  OBVIOUS
<1>1. PICK n \in Nat \ N : \A m \in Nat \ N : n <= m
  BY LeastNatural
<1>2. n # 0 /\ n - 1 \in Nat /\ n - 1 \in N
  BY <1>1
<1>3. (n - 1) + 1 = n
  BY <1>1
<1>. QED  BY <1>1, <1>2, <1>3

(* What holds of a set whenever it holds of the set without any one element *)
LEMMA SubsetInduction ==
  ASSUME NEW D, IsFiniteSet(D), NEW Q,
         \A T \in SUBSET D : (\A x \in T : T \ {x} \in Q) => T \in Q
  PROVE  \A T \in SUBSET D : T \in Q
<1>. SUFFICES ASSUME (SUBSET D) \ Q # {} PROVE FALSE
  OBVIOUS
<1>1. IsWellFoundedOn(StrictSubsetOrdering(D), SUBSET D)
  <2>1. FiniteSubsetsOf(D) = SUBSET D
    BY FS_FiniteSubsetsOfFinite
  <2>2. IsWellFoundedOn(StrictSubsetOrdering(D), FiniteSubsetsOf(D))
    BY FS_StrictSubsetOrderingWellFounded
  <2>. QED  BY <2>1, <2>2
<1>2. PICK T \in (SUBSET D) \ Q :
        \A U \in (SUBSET D) \ Q : ~(<<U, T>> \in StrictSubsetOrdering(D))
  <2>1. (SUBSET D) \ Q \subseteq SUBSET D
    OBVIOUS
  <2>. QED  BY <1>1, <2>1, WFMin
<1>3. ASSUME NEW x \in T PROVE T \ {x} \in Q
  <2>1. <<T \ {x}, T>> \in StrictSubsetOrdering(D)
    BY DEF StrictSubsetOrdering
  <2>. QED  BY <1>2, <2>1
<1>. QED  BY <1>2, <1>3

LEMMA GreatestElement ==
  ASSUME NEW D, IsFiniteSet(D), D \subseteq Int, D # {}
  PROVE  \E m \in D : \A x \in D : x <= m
<1>. DEFINE Greatest(T) == \E m \in T : \A x \in T : x <= m
            Q == {T \in SUBSET D : T # {} => Greatest(T)}
<1>1. ASSUME NEW T \in SUBSET D, \A x \in T : T \ {x} \in Q, T # {}
      PROVE  Greatest(T)
  <2>1. PICK y \in T : TRUE
    BY <1>1
  <2>2. CASE T \ {y} = {}
    BY <2>2
  <2>3. CASE T \ {y} # {}
    <3>1. PICK m \in T \ {y} : \A x \in T \ {y} : x <= m
      BY <1>1, <2>3
    <3>2. m \in Int /\ y \in Int
      OBVIOUS
    <3>3. CASE y <= m
      BY <3>1, <3>3
    <3>4. CASE m <= y
      <4>1. ASSUME NEW x \in T PROVE x <= y
        BY <3>1, <3>2, <3>4
      <4>. QED  BY <4>1
    <3>. QED  BY <3>2, <3>3, <3>4
  <2>. QED  BY <2>2, <2>3
<1>. HIDE DEF Greatest
<1>2. \A T \in SUBSET D : (\A x \in T : T \ {x} \in Q) => T \in Q
  BY <1>1
<1>3. D \in Q
  <2>. HIDE DEF Q
  <2>. QED  BY <1>2, SubsetInduction
<1>. QED  BY <1>3 DEF Greatest

(* A loop: its value after each round, from that of the round before *)
Loops(f, S, base, step, n) ==
  f \in [0..n -> S] /\ f[0] = base /\ \A i \in 1..n : f[i] = step[i][f[i - 1]]

LEMMA Iterates ==
  ASSUME NEW S, NEW base \in S, NEW n \in Nat, NEW step \in [1..n -> [S -> S]]
  PROVE  \E f : Loops(f, S, base, step, n)
<1>. DEFINE Good(f, k) == f \in [0..k -> S] /\ f[0] = base /\ \A i \in 1..k : f[i] = step[i][f[i - 1]]
            T == {k \in Nat : k <= n => \E f : Good(f, k)}
<1>1. 0 \in T
  <2>1. Good([i \in 0..0 |-> base], 0)
    OBVIOUS
  <2>. QED  BY <2>1
<1>2. ASSUME NEW k \in Nat, k \in T, k + 1 <= n PROVE \E f : Good(f, k + 1)
  <2>1. PICK f : Good(f, k)
    BY <1>2
  <2>. DEFINE g == [i \in 0..(k + 1) |-> IF i = k + 1 THEN step[k + 1][f[k]] ELSE f[i]]
  <2>2. f[k] \in S /\ step[k + 1] \in [S -> S] /\ step[k + 1][f[k]] \in S
    BY <1>2, <2>1
  <2>3. g \in [0..(k + 1) -> S] /\ g[0] = base
    BY <2>1, <2>2
  <2>4. ASSUME NEW i \in 1..(k + 1) PROVE g[i] = step[i][g[i - 1]]
    <3>1. CASE i = k + 1
      BY <3>1
    <3>2. CASE i \in 1..k
      BY <2>1, <3>2
    <3>. QED  BY <3>1, <3>2
  <2>5. Good(g, k + 1)
    BY <2>3, <2>4
  <2>. QED  BY <2>5
<1>. HIDE DEF Good
<1>3. \A k \in Nat : k \in T => k + 1 \in T
  BY <1>2
<1>. HIDE DEF T
<1>4. n \in T
  BY <1>1, <1>3, NumbersInduction
<1>5. PICK f : Good(f, n)
  BY <1>4 DEF T
<1>. QED  BY <1>5 DEF Good, Loops

-----------------------------------------------------------------------------
(* Sums: what MapThenSumSet computes.  It takes the elements in the order   *)
(* of Pick, and every subset of the domain has its sum.                     *)

Pick(T) == CHOOSE x \in T : TRUE

Folds(F, g, D) ==
  F = [T \in SUBSET D |-> IF T = {} THEN 0 ELSE g[Pick(T)] + F[T \ {Pick(T)}]]

Total(g) == MapThenSumSet(LAMBDA s : g[s], DOMAIN g)

LEMMA Picked ==
  ASSUME NEW T, T # {}
  PROVE  Pick(T) \in T
BY DEF Pick

LEMMA FoldIs ==
  ASSUME NEW F, NEW g, NEW D, Folds(F, g, D)
  PROVE  /\ {} \in SUBSET D => F[{}] = 0
         /\ \A T \in SUBSET D : T # {} => F[T] = g[Pick(T)] + F[T \ {Pick(T)}]
<1>1. \A T \in SUBSET D : F[T] = IF T = {} THEN 0 ELSE g[Pick(T)] + F[T \ {Pick(T)}]
  BY DEF Folds
<1>. QED  BY <1>1

LEMMA FoldType ==
  ASSUME NEW D, IsFiniteSet(D), NEW g \in [D -> Nat], NEW F, Folds(F, g, D)
  PROVE  \A T \in SUBSET D : F[T] \in Nat
<1>. DEFINE Q == {T \in SUBSET D : F[T] \in Nat}
<1>1. ASSUME NEW T \in SUBSET D, \A x \in T : T \ {x} \in Q
      PROVE  F[T] \in Nat
  <2>1. CASE T = {}
    BY <2>1, FoldIs
  <2>2. CASE T # {}
    <3>1. Pick(T) \in T /\ F[T] = g[Pick(T)] + F[T \ {Pick(T)}]
      BY <2>2, Picked, FoldIs
    <3>2. g[Pick(T)] \in Nat /\ F[T \ {Pick(T)}] \in Nat
      BY <1>1, <3>1
    <3>. QED  BY <3>1, <3>2
  <2>. QED  BY <2>1, <2>2
<1>2. \A T \in SUBSET D : T \in Q
  <2>1. \A T \in SUBSET D : (\A x \in T : T \ {x} \in Q) => T \in Q
    BY <1>1
  <2>. HIDE DEF Q
  <2>. QED  BY <2>1, SubsetInduction
<1>. QED  BY <1>2

(* The sums of subsets of both domains are the same *)
LEMMA FoldsAgree ==
  ASSUME NEW D, IsFiniteSet(D), NEW E, D \subseteq E,
         NEW g, NEW h, \A x \in D : g[x] = h[x],
         NEW F, Folds(F, g, D), NEW G, Folds(G, h, E)
  PROVE  \A T \in SUBSET D : F[T] = G[T]
<1>. DEFINE Q == {T \in SUBSET D : F[T] = G[T]}
<1>0. /\ \A T \in SUBSET D : T # {} => F[T] = g[Pick(T)] + F[T \ {Pick(T)}]
      /\ \A T \in SUBSET E : T # {} => G[T] = h[Pick(T)] + G[T \ {Pick(T)}]
      /\ F[{}] = 0 /\ G[{}] = 0
  BY FoldIs
<1>1. ASSUME NEW T \in SUBSET D, \A x \in T : T \ {x} \in Q
      PROVE  F[T] = G[T]
  <2>1. CASE T = {}
    BY <1>0, <2>1
  <2>2. CASE T # {}
    <3>1. Pick(T) \in T /\ T \in SUBSET E
      BY <2>2, Picked
    <3>2. F[T] = g[Pick(T)] + F[T \ {Pick(T)}]
      BY <1>0, <2>2
    <3>3. G[T] = h[Pick(T)] + G[T \ {Pick(T)}]
      BY <1>0, <2>2, <3>1
    <3>4. g[Pick(T)] = h[Pick(T)] /\ F[T \ {Pick(T)}] = G[T \ {Pick(T)}]
      BY <1>1, <3>1
    <3>. QED  BY <3>2, <3>3, <3>4
  <2>. QED  BY <2>1, <2>2
<1>2. \A T \in SUBSET D : T \in Q
  <2>1. \A T \in SUBSET D : (\A x \in T : T \ {x} \in Q) => T \in Q
    BY <1>1
  <2>. HIDE DEF Q
  <2>. QED  BY <2>1, SubsetInduction
<1>. QED  BY <1>2

(* The order does not matter: any element may be taken first *)
LEMMA AnyFirst ==
  ASSUME NEW D, IsFiniteSet(D), NEW g \in [D -> Nat], NEW F, Folds(F, g, D),
         NEW S \in SUBSET D, NEW e \in S
  PROVE  F[S] = g[e] + F[S \ {e}]
<1>. DEFINE Q == {T \in SUBSET D : \A x \in T : F[T] = g[x] + F[T \ {x}]}
<1>1. ASSUME NEW T \in SUBSET D, \A y \in T : T \ {y} \in Q, NEW x \in T
      PROVE  F[T] = g[x] + F[T \ {x}]
  <2>. DEFINE p == Pick(T)
              rest == T \ {p, x}
  <2>1. p \in T /\ F[T] = g[p] + F[T \ {p}]
    BY Picked, FoldIs
  <2>. HIDE DEF p
  <2>2. CASE p = x
    BY <2>1, <2>2
  <2>3. CASE p # x
    <3>1. (T \ {p}) \ {x} = rest /\ (T \ {x}) \ {p} = rest
      OBVIOUS
    <3>2. F[T \ {p}] = g[x] + F[rest]
      BY <1>1, <2>1, <2>3, <3>1
    <3>3. F[T \ {x}] = g[p] + F[rest]
      BY <1>1, <2>1, <2>3, <3>1
    <3>4. g[p] \in Nat /\ g[x] \in Nat /\ F[rest] \in Nat
      BY <2>1, FoldType
    <3>. HIDE DEF rest
    <3>. QED  BY <2>1, <3>2, <3>3, <3>4
  <2>. QED  BY <2>2, <2>3
<1>2. \A T \in SUBSET D : T \in Q
  <2>1. \A T \in SUBSET D : (\A x \in T : T \ {x} \in Q) => T \in Q
    BY <1>1
  <2>. HIDE DEF Q
  <2>. QED  BY <2>1, SubsetInduction
<1>. QED  BY <1>2

(* There is such a fold: one on the subsets of at most k elements for every k *)
LEMMA FoldExists ==
  ASSUME NEW D, IsFiniteSet(D), NEW g
  PROVE  \E F : Folds(F, g, D)
<1>. DEFINE Upto(k) == {T \in SUBSET D : Cardinality(T) <= k}
            Part(F, k) ==
              F = [T \in Upto(k) |-> IF T = {} THEN 0 ELSE g[Pick(T)] + F[T \ {Pick(T)}]]
            N == {k \in Nat : \E F : Part(F, k)}
<1>1. \A T \in SUBSET D : IsFiniteSet(T) /\ Cardinality(T) \in Nat /\ (Cardinality(T) = 0 <=> T = {})
  BY FS_Subset, FS_CardinalityType, FS_EmptySet
<1>2. \A T \in SUBSET D : T # {} => Cardinality(T \ {Pick(T)}) = Cardinality(T) - 1
  BY <1>1, FS_RemoveElement, Picked
<1>3. 0 \in N
  <2>1. Upto(0) = {{}}
    BY <1>1
  <2>. DEFINE F == [T \in Upto(0) |-> 0]
  <2>2. F = [T \in Upto(0) |-> IF T = {} THEN 0 ELSE g[Pick(T)] + F[T \ {Pick(T)}]]
    BY <2>1
  <2>. QED  BY <2>2
<1>4. ASSUME NEW k \in Nat, k \in N PROVE k + 1 \in N
  <2>1. PICK F : Part(F, k)
    BY <1>4
  <2>. DEFINE H == [T \in Upto(k + 1) |-> IF T = {} THEN 0 ELSE g[Pick(T)] + F[T \ {Pick(T)}]]
  <2>2. ASSUME NEW T \in Upto(k + 1), T # {}
        PROVE  H[T \ {Pick(T)}] = F[T \ {Pick(T)}]
    <3>. DEFINE U == T \ {Pick(T)}
    <3>1. U \in Upto(k) /\ U \in Upto(k + 1)
      BY <1>1, <1>2, <2>2
    <3>. HIDE DEF U, Upto
    <3>2. F[U] = IF U = {} THEN 0 ELSE g[Pick(U)] + F[U \ {Pick(U)}]
      BY <2>1, <3>1
    <3>3. H[U] = IF U = {} THEN 0 ELSE g[Pick(U)] + F[U \ {Pick(U)}]
      BY <3>1
    <3>4. H[U] = F[U]
      BY <3>2, <3>3
    <3>. QED  BY <3>4 DEF U
  <2>3. H = [T \in Upto(k + 1) |-> IF T = {} THEN 0 ELSE g[Pick(T)] + H[T \ {Pick(T)}]]
    <3>. HIDE DEF Upto
    <3>. DEFINE G == [T \in Upto(k + 1) |-> IF T = {} THEN 0 ELSE g[Pick(T)] + H[T \ {Pick(T)}]]
    <3>1. ASSUME NEW T \in Upto(k + 1) PROVE H[T] = G[T]
      <4>1. CASE T = {}
        BY <4>1
      <4>2. CASE T # {}
        <5>1. H[T] = g[Pick(T)] + F[T \ {Pick(T)}]
          BY <4>2
        <5>2. G[T] = g[Pick(T)] + H[T \ {Pick(T)}]
          BY <4>2
        <5>3. H[T \ {Pick(T)}] = F[T \ {Pick(T)}]
          BY <2>2, <4>2
        <5>. HIDE DEF G, H
        <5>. QED  BY <5>1, <5>2, <5>3
      <4>. QED  BY <4>1, <4>2
    <3>. QED  BY <3>1
  <2>. HIDE DEF H, Upto
  <2>4. \E G : Part(G, k + 1)
    BY <2>3
  <2>5. k + 1 \in Nat
    OBVIOUS
  <2>. QED  BY <2>4, <2>5
<1>5. \A n \in Nat : n \in N
  <2>. HIDE DEF N
  <2>. QED  BY <1>3, <1>4, NumbersInduction
<1>6. PICK F : Part(F, Cardinality(D))
  BY <1>1, <1>5
<1>7. Upto(Cardinality(D)) = SUBSET D
  BY FS_Subset
<1>. HIDE DEF Upto
<1>. QED  BY <1>6, <1>7 DEF Folds

LEMMA TotalFolds ==
  ASSUME NEW D, IsFiniteSet(D), NEW g, DOMAIN g = D
  PROVE  \E F : Folds(F, g, D) /\ Total(g) = F[D]
<1>1. Total(g) = (CHOOSE F : Folds(F, g, DOMAIN g))[DOMAIN g]
  BY DEF Total, MapThenSumSet, MapThenFoldSet, Folds, Pick
<1>2. \E F : Folds(F, g, D)
  BY FoldExists
<1>3. Folds(CHOOSE F : Folds(F, g, D), g, D)
  BY <1>2, Zenon
<1>. QED  BY <1>1, <1>3

LEMMA NoTotal ==
  ASSUME NEW g, DOMAIN g = {}
  PROVE  Total(g) = 0
<1>1. PICK F : Folds(F, g, {}) /\ Total(g) = F[{}]
  BY TotalFolds, FS_EmptySet
<1>. QED  BY <1>1, FoldIs

(* One more field adds its value *)
LEMMA TotalGrows ==
  ASSUME NEW D, IsFiniteSet(D), NEW s, s \notin D,
         NEW g \in [D -> Nat], NEW h \in [D \cup {s} -> Nat], \A x \in D : g[x] = h[x]
  PROVE  Total(h) = Total(g) + h[s]
<1>. DEFINE E == D \cup {s}
<1>1. IsFiniteSet(E) /\ D \subseteq E /\ s \in E /\ E \ {s} = D
  BY FS_AddElement
<1>2. PICK F : Folds(F, g, D) /\ Total(g) = F[D]
  BY TotalFolds
<1>3. PICK G : Folds(G, h, E) /\ Total(h) = G[E]
  BY <1>1, TotalFolds
<1>. HIDE DEF E
<1>4. F[D] = G[D]
  <2>1. \A x \in D : g[x] = h[x]
    OBVIOUS
  <2>2. Folds(F, g, D) /\ Folds(G, h, E) /\ D \subseteq E
    BY <1>1, <1>2, <1>3
  <2>3. \A T \in SUBSET D : F[T] = G[T]
    BY <2>1, <2>2, FoldsAgree
  <2>. QED  BY <2>3
<1>5. h \in [E -> Nat]
  BY DEF E
<1>6. G[E] = h[s] + G[D]
  <2>1. IsFiniteSet(E) /\ Folds(G, h, E)
    BY <1>1, <1>3
  <2>2. G[E] = h[s] + G[E \ {s}]
    BY <1>1, <1>5, <2>1, AnyFirst
  <2>. QED  BY <1>1, <2>2
<1>7. h[s] \in Nat /\ F[D] \in Nat
  BY <1>1, <1>2, <1>5, FoldType
<1>. QED  BY <1>2, <1>3, <1>4, <1>6, <1>7
=============================================================================
