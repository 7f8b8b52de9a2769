----------------------------- MODULE SumTheorems -----------------------------
(***************************************************************************)
(* Sums over finite sets, for SumFunctionOnSet of the community modules:   *)
(* the memory admission has committed (WarmPool) and the bytes a cache     *)
(* holds (ActionsCache).  The operator is a fold, that is, the value at S  *)
(* of a function defined by recursion on the subsets of S; that this        *)
(* function exists is proved by taking a least cardinality at which it      *)
(* would not.                                                              *)
(***************************************************************************)
EXTENDS Functions, FiniteSetTheorems, WellFoundedInduction, TLAPS

(* Induction, with the property as a set of numbers. *)
LEMMA InductionOverSet ==
  ASSUME NEW G \in SUBSET Nat, 0 \in G, \A n \in G : n + 1 \in G
  PROVE  G = Nat
<1> SUFFICES ASSUME G # Nat PROVE FALSE
  OBVIOUS
<1> DEFINE B == Nat \ G
<1>1. B \subseteq Nat /\ B # {}
  OBVIOUS
<1>2. \E m \in B : \A n \in B : ~(n < m)
  <2>1. PICK m \in B : \A n \in B : ~(<<n, m>> \in OpToRel(<, Nat))
    <3> HIDE DEF B
    <3> QED
      BY <1>1, NatLessThanWellFounded, WFMin
  <2> QED
    BY <1>1, <2>1 DEF OpToRel
<1>3. PICK m \in B : \A n \in B : ~(n < m)
  BY <1>2
<1>4. m - 1 \in Nat /\ m - 1 < m
  BY <1>3
<1>5. m - 1 \in G
  BY <1>3, <1>4
<1>6. (m - 1) + 1 \in G
  BY <1>5
<1> QED
  BY <1>3, <1>6

(* What the fold picks next. *)
Pick(s) == CHOOSE x \in s : TRUE

(* F is the fold of f on the subsets of S. *)
Fold(F, f, S) ==
  F = [s \in SUBSET S |-> IF s = {} THEN 0 ELSE f[Pick(s)] + F[s \ {Pick(s)}]]

(* The same up to n elements. *)
FoldUpTo(F, f, S, n) ==
  F = [s \in SUBSET S |->
         IF s = {} \/ Cardinality(s) > n THEN 0 ELSE f[Pick(s)] + F[s \ {Pick(s)}]]

LEMMA SumIsFold ==
  ASSUME NEW f, NEW S
  PROVE  SumFunctionOnSet(f, S) = (CHOOSE F : Fold(F, f, S))[S]
BY DEF SumFunctionOnSet, FoldFunctionOnSet, MapThenFoldSet, Fold, Pick

LEMMA PickIn ==
  ASSUME NEW s, s # {}
  PROVE  Pick(s) \in s
BY DEF Pick

(* A finite set without one of its elements. *)
LEMMA OneLess ==
  ASSUME NEW S, IsFiniteSet(S), NEW s \in SUBSET S, NEW x \in s
  PROVE  /\ s \ {x} \in SUBSET S
         /\ Cardinality(s) \in Nat /\ Cardinality(s \ {x}) = Cardinality(s) - 1
         /\ Cardinality(s \ {x}) \in Nat
<1>1. IsFiniteSet(s)
  BY FS_Subset
<1>2. IsFiniteSet(s \ {x}) /\ Cardinality(s \ {x}) = Cardinality(s) - 1
  BY <1>1, FS_RemoveElement
<1> QED
  BY <1>1, <1>2, FS_CardinalityType

LEMMA FoldUpToExists ==
  ASSUME NEW f, NEW S, IsFiniteSet(S), NEW n \in Nat
  PROVE  \E F : FoldUpTo(F, f, S, n)
<1> DEFINE G == {k \in Nat : \E F : FoldUpTo(F, f, S, k)}
<1>1. 0 \in G
  <2> DEFINE F == [s \in SUBSET S |-> 0]
  <2>1. \A s \in SUBSET S : s = {} \/ Cardinality(s) > 0
    BY FS_Subset, FS_EmptySet, FS_CardinalityType
  <2>2. FoldUpTo(F, f, S, 0)
    BY <2>1 DEF FoldUpTo
  <2> QED
    BY <2>2
<1>2. ASSUME NEW k \in G PROVE k + 1 \in G
  <2>1. PICK H : FoldUpTo(H, f, S, k)
    BY <1>2
  <2> DEFINE F == [s \in SUBSET S |->
       IF s = {} \/ Cardinality(s) > k + 1 THEN 0 ELSE f[Pick(s)] + H[s \ {Pick(s)}]]
  <2>2. \A s \in SUBSET S : Cardinality(s) <= k => F[s] = H[s]
    <3> SUFFICES ASSUME NEW s \in SUBSET S, Cardinality(s) <= k PROVE F[s] = H[s]
      OBVIOUS
    <3>1. Cardinality(s) \in Nat
      BY FS_Subset, FS_CardinalityType
    <3>2. ~(Cardinality(s) > k) /\ ~(Cardinality(s) > k + 1)
      BY <3>1
    <3>3. H[s] = IF s = {} \/ Cardinality(s) > k THEN 0 ELSE f[Pick(s)] + H[s \ {Pick(s)}]
      BY <2>1 DEF FoldUpTo
    <3> QED
      BY <3>2, <3>3
  <2>3. \A s \in SUBSET S : s # {} /\ ~(Cardinality(s) > k + 1) =>
          F[s \ {Pick(s)}] = H[s \ {Pick(s)}]
    <3> SUFFICES ASSUME NEW s \in SUBSET S, s # {}, ~(Cardinality(s) > k + 1)
                 PROVE  F[s \ {Pick(s)}] = H[s \ {Pick(s)}]
      OBVIOUS
    <3>1. /\ s \ {Pick(s)} \in SUBSET S /\ Cardinality(s) \in Nat
          /\ Cardinality(s \ {Pick(s)}) = Cardinality(s) - 1
      BY PickIn, OneLess
    <3>2. Cardinality(s \ {Pick(s)}) <= k
      BY <3>1
    <3> HIDE DEF F
    <3> QED
      BY <2>2, <3>1, <3>2
  <2>4. F = [s \in SUBSET S |->
       IF s = {} \/ Cardinality(s) > k + 1 THEN 0 ELSE f[Pick(s)] + F[s \ {Pick(s)}]]
    BY <2>3
  <2> HIDE DEF F
  <2>5. FoldUpTo(F, f, S, k + 1)
    BY <2>4 DEF FoldUpTo
  <2> QED
    BY <2>5
<1>3. G = Nat
  <2> HIDE DEF G
  <2>1. G \in SUBSET Nat
    BY DEF G
  <2> QED
    BY <1>1, <1>2, <2>1, InductionOverSet
<1> QED
  BY <1>3

LEMMA FoldExists ==
  ASSUME NEW f, NEW S, IsFiniteSet(S)
  PROVE  \E F : Fold(F, f, S)
<1>1. Cardinality(S) \in Nat
  BY FS_CardinalityType
<1>2. PICK F : FoldUpTo(F, f, S, Cardinality(S))
  BY <1>1, FoldUpToExists
<1>3. \A s \in SUBSET S : ~(Cardinality(s) > Cardinality(S))
  <2> SUFFICES ASSUME NEW s \in SUBSET S PROVE ~(Cardinality(s) > Cardinality(S))
    OBVIOUS
  <2>1. IsFiniteSet(s) /\ Cardinality(s) <= Cardinality(S)
    BY FS_Subset
  <2> QED
    BY <1>1, <2>1, FS_CardinalityType
<1> QED
  BY <1>2, <1>3 DEF Fold, FoldUpTo

(* A statement about every subset of a finite set, by its cardinality. *)
LEMMA SubsetInduction ==
  ASSUME NEW S, IsFiniteSet(S), NEW P \in SUBSET SUBSET S, {} \in P,
         \A s \in SUBSET S : s # {} /\ (\A x \in s : s \ {x} \in P) => s \in P
  PROVE  P = SUBSET S
<1> DEFINE G == {k \in Nat : \A s \in SUBSET S : Cardinality(s) = k => s \in P}
<1>0. \A s \in SUBSET S : Cardinality(s) \in Nat /\ (Cardinality(s) = 0 <=> s = {})
  BY FS_Subset, FS_CardinalityType, FS_EmptySet
<1>1. 0 \in G
  BY <1>0
<1>2. ASSUME NEW k \in G PROVE k + 1 \in G
  <2> SUFFICES ASSUME NEW s \in SUBSET S, Cardinality(s) = k + 1 PROVE s \in P
    OBVIOUS
  <2>1. \A x \in s : s \ {x} \in SUBSET S /\ Cardinality(s \ {x}) = k
    BY OneLess
  <2>2. \A x \in s : s \ {x} \in P
    BY <2>1
  <2>3. s # {}
    BY <1>0
  <2> QED
    BY <2>2, <2>3
<1>3. G = Nat
  <2> HIDE DEF G
  <2>1. G \in SUBSET Nat
    BY DEF G
  <2> QED
    BY <1>1, <1>2, <2>1, InductionOverSet
<1> QED
  BY <1>0, <1>3

LEMMA FoldStep ==
  ASSUME NEW F, NEW f, NEW S, Fold(F, f, S), NEW s \in SUBSET S
  PROVE  F[s] = IF s = {} THEN 0 ELSE f[Pick(s)] + F[s \ {Pick(s)}]
BY DEF Fold

LEMMA FoldType ==
  ASSUME NEW F, NEW f, NEW S, IsFiniteSet(S), Fold(F, f, S), \A x \in S : f[x] \in Nat
  PROVE  \A s \in SUBSET S : F[s] \in Nat
<1> DEFINE P == {s \in SUBSET S : F[s] \in Nat}
<1>1. {} \in P
  <2>1. F[{}] = 0
    BY FoldStep
  <2> QED
    BY <2>1
<1>2. ASSUME NEW s \in SUBSET S, s # {}, \A x \in s : s \ {x} \in P
      PROVE  s \in P
  <2>1. Pick(s) \in s
    BY <1>2, PickIn
  <2>2. F[s] = f[Pick(s)] + F[s \ {Pick(s)}]
    BY <1>2, FoldStep
  <2> QED
    BY <1>2, <2>1, <2>2
<1>3. P = SUBSET S
  <2> HIDE DEF P
  <2>1. P \in SUBSET SUBSET S
    BY DEF P
  <2> QED
    BY <1>1, <1>2, <2>1, SubsetInduction
<1> QED
  BY <1>3

(* The order in which elements are picked does not matter. *)
LEMMA FoldAnyOrder ==
  ASSUME NEW F, NEW f, NEW S, IsFiniteSet(S), Fold(F, f, S), \A x \in S : f[x] \in Nat
  PROVE  \A s \in SUBSET S : \A x \in s : F[s] = f[x] + F[s \ {x}]
<1> DEFINE P == {s \in SUBSET S : \A x \in s : F[s] = f[x] + F[s \ {x}]}
<1>1. {} \in P
  OBVIOUS
<1>2. ASSUME NEW s \in SUBSET S, s # {}, \A x \in s : s \ {x} \in P
      PROVE  s \in P
  <2> SUFFICES ASSUME NEW x \in s PROVE F[s] = f[x] + F[s \ {x}]
    OBVIOUS
  <2>1. PICK y \in s : F[s] = f[y] + F[s \ {y}]
    <3>1. Pick(s) \in s
      BY <1>2, PickIn
    <3>2. F[s] = f[Pick(s)] + F[s \ {Pick(s)}]
      BY <1>2, FoldStep
    <3> QED
      BY <3>1, <3>2
  <2>2. CASE x = y
    BY <2>1, <2>2
  <2>3. CASE x # y
    <3>1. s \ {x} \in P /\ s \ {y} \in P
      BY <1>2
    <3>2. F[s \ {y}] = f[x] + F[(s \ {y}) \ {x}]
      BY <2>3, <3>1
    <3>3. F[s \ {x}] = f[y] + F[(s \ {x}) \ {y}]
      BY <2>3, <3>1
    <3>4. (s \ {x}) \ {y} = (s \ {y}) \ {x}
      OBVIOUS
    <3>5. f[x] \in Nat /\ f[y] \in Nat /\ F[(s \ {y}) \ {x}] \in Nat
      <4>1. (s \ {y}) \ {x} \in SUBSET S
        OBVIOUS
      <4> QED
        BY <4>1, FoldType
    <3>6. PICK a \in Nat : a = F[(s \ {y}) \ {x}]
      BY <3>5
    <3>7. F[s \ {y}] = f[x] + a /\ F[s \ {x}] = f[y] + a
      BY <3>2, <3>3, <3>4, <3>6
    <3>8. F[s] = f[y] + (f[x] + a)
      BY <2>1, <3>7
    <3> QED
      BY <3>5, <3>7, <3>8
  <2> QED
    BY <2>2, <2>3
<1>3. P = SUBSET S
  <2> HIDE DEF P
  <2>1. P \in SUBSET SUBSET S
    BY DEF P
  <2> QED
    BY <1>1, <1>2, <2>1, SubsetInduction
<1> QED
  BY <1>3

(* Two folds agree where their functions do. *)
LEMMA FoldSame ==
  ASSUME NEW F, NEW f, NEW S, Fold(F, f, S), NEW H, NEW g, NEW R, Fold(H, g, R),
         IsFiniteSet(S), NEW T \in SUBSET S, T \in SUBSET R, \A x \in T : f[x] = g[x]
  PROVE  F[T] = H[T]
<1> DEFINE P == {s \in SUBSET T : F[s] = H[s]}
<1>1. {} \in P
  BY FoldStep
<1>2. ASSUME NEW s \in SUBSET T, s # {}, \A x \in s : s \ {x} \in P
      PROVE  s \in P
  <2>1. Pick(s) \in s
    BY <1>2, PickIn
  <2>2. F[s] = f[Pick(s)] + F[s \ {Pick(s)}]
    BY <1>2, FoldStep
  <2>3. H[s] = g[Pick(s)] + H[s \ {Pick(s)}]
    BY <1>2, FoldStep
  <2> QED
    BY <1>2, <2>1, <2>2, <2>3
<1>3. P = SUBSET T
  <2> HIDE DEF P
  <2>1. P \in SUBSET SUBSET T
    BY DEF P
  <2>2. IsFiniteSet(T)
    BY FS_Subset
  <2> QED
    BY <1>1, <1>2, <2>1, <2>2, SubsetInduction
<1> QED
  BY <1>3

-----------------------------------------------------------------------------
(* The facts about sums that the other proofs cite. *)

LEMMA SumFold ==
  ASSUME NEW f, NEW S, IsFiniteSet(S)
  PROVE  \E F : Fold(F, f, S) /\ SumFunctionOnSet(f, S) = F[S]
<1>1. Fold(CHOOSE F : Fold(F, f, S), f, S)
  BY FoldExists
<1> QED
  BY <1>1, SumIsFold

(* The sum over a finite set, of naturals on it, is a natural. *)
LEMMA SumType ==
  ASSUME NEW f, NEW S, IsFiniteSet(S), \A x \in S : f[x] \in Nat
  PROVE  SumFunctionOnSet(f, S) \in Nat
BY SumFold, FoldType

LEMMA SumEmpty == ASSUME NEW f PROVE SumFunctionOnSet(f, {}) = 0
BY SumFold, FoldStep, FS_EmptySet

(* It depends only on the values on the set. *)
LEMMA SumSame ==
  ASSUME NEW f, NEW g, NEW S, IsFiniteSet(S), \A x \in S : f[x] = g[x]
  PROVE  SumFunctionOnSet(f, S) = SumFunctionOnSet(g, S)
<1>1. PICK F : Fold(F, f, S) /\ SumFunctionOnSet(f, S) = F[S]
  BY SumFold
<1>2. PICK H : Fold(H, g, S) /\ SumFunctionOnSet(g, S) = H[S]
  BY SumFold
<1> QED
  BY <1>1, <1>2, FoldSame

(* One element more. *)
LEMMA SumAdd ==
  ASSUME NEW f, NEW S, IsFiniteSet(S), \A y \in S : f[y] \in Nat,
         NEW x, x \notin S, f[x] \in Nat
  PROVE  SumFunctionOnSet(f, S \cup {x}) = SumFunctionOnSet(f, S) + f[x]
<1> DEFINE R == S \cup {x}
<1>1. IsFiniteSet(R)
  BY FS_AddElement
<1>2. PICK F : Fold(F, f, R) /\ SumFunctionOnSet(f, R) = F[R]
  BY <1>1, SumFold
<1>3. PICK H : Fold(H, f, S) /\ SumFunctionOnSet(f, S) = H[S]
  BY SumFold
<1>4. S \in SUBSET R /\ R \ {x} = S /\ x \in R /\ \A y \in R : f[y] \in Nat
  OBVIOUS
<1> HIDE DEF R
<1>5. F[R] = f[x] + F[S]
  BY <1>1, <1>2, <1>4, FoldAnyOrder
<1>6. F[S] = H[S]
  BY <1>1, <1>2, <1>3, <1>4, FoldSame
<1>7. F[S] \in Nat
  BY <1>1, <1>2, <1>4, FoldType
<1> QED
  BY <1>2, <1>3, <1>4, <1>5, <1>6, <1>7 DEF R

(* A subset and the rest. *)
LEMMA SumSplit ==
  ASSUME NEW f, NEW S, IsFiniteSet(S), \A x \in S : f[x] \in Nat, NEW T \in SUBSET S
  PROVE  /\ SumFunctionOnSet(f, T) \in Nat /\ SumFunctionOnSet(f, S \ T) \in Nat
         /\ SumFunctionOnSet(f, S) = SumFunctionOnSet(f, T) + SumFunctionOnSet(f, S \ T)
<1> DEFINE P == {s \in SUBSET T :
     SumFunctionOnSet(f, S) = SumFunctionOnSet(f, s) + SumFunctionOnSet(f, S \ s)}
<1>1. \A s \in SUBSET S : IsFiniteSet(s) /\ SumFunctionOnSet(f, s) \in Nat
  BY FS_Subset, SumType
<1>2. {} \in P
  <2>1. S \ {} = S
    OBVIOUS
  <2> QED
    BY <1>1, <2>1, SumEmpty
<1>3. ASSUME NEW s \in SUBSET T, s # {}, \A x \in s : s \ {x} \in P
      PROVE  s \in P
  <2>1. PICK x \in s : s \ {x} \in P
    BY <1>3
  <2>2. /\ (s \ {x}) \cup {x} = s /\ S \ (s \ {x}) = (S \ s) \cup {x}
        /\ s \ {x} \in SUBSET S /\ S \ s \in SUBSET S
        /\ x \notin s \ {x} /\ x \notin S \ s /\ x \in S
    OBVIOUS
  <2>3. SumFunctionOnSet(f, s) = SumFunctionOnSet(f, s \ {x}) + f[x]
    <3>1. SumFunctionOnSet(f, (s \ {x}) \cup {x}) = SumFunctionOnSet(f, s \ {x}) + f[x]
      BY <1>1, <2>2, SumAdd
    <3> QED
      BY <2>2, <3>1
  <2>4. SumFunctionOnSet(f, S \ (s \ {x})) = SumFunctionOnSet(f, S \ s) + f[x]
    <3>1. SumFunctionOnSet(f, (S \ s) \cup {x}) = SumFunctionOnSet(f, S \ s) + f[x]
      BY <1>1, <2>2, SumAdd
    <3> QED
      BY <2>2, <3>1
  <2>5. SumFunctionOnSet(f, S)
          = SumFunctionOnSet(f, s \ {x}) + SumFunctionOnSet(f, S \ (s \ {x}))
    BY <2>1
  <2>6. /\ f[x] \in Nat /\ SumFunctionOnSet(f, s \ {x}) \in Nat
        /\ SumFunctionOnSet(f, S \ s) \in Nat
    BY <1>1, <2>2
  <2>7. SumFunctionOnSet(f, S) = SumFunctionOnSet(f, s) + SumFunctionOnSet(f, S \ s)
    BY <2>3, <2>4, <2>5, <2>6
  <2> QED
    BY <2>7
<1>4. P = SUBSET T
  <2> HIDE DEF P
  <2>1. P \in SUBSET SUBSET T
    BY DEF P
  <2>2. IsFiniteSet(T)
    BY <1>1
  <2> QED
    BY <1>2, <1>3, <2>1, <2>2, SubsetInduction
<1> QED
  BY <1>1, <1>4

(* Fewer elements, no more sum. *)
LEMMA SumSubset ==
  ASSUME NEW f, NEW S, IsFiniteSet(S), \A x \in S : f[x] \in Nat, NEW T \in SUBSET S
  PROVE  SumFunctionOnSet(f, T) <= SumFunctionOnSet(f, S)
<1>1. /\ SumFunctionOnSet(f, T) \in Nat /\ SumFunctionOnSet(f, S \ T) \in Nat
      /\ SumFunctionOnSet(f, S) = SumFunctionOnSet(f, T) + SumFunctionOnSet(f, S \ T)
  BY SumSplit
<1> QED
  BY <1>1

(* The same of two sets that make up a third. *)
LEMMA SumTwo ==
  ASSUME NEW f, NEW S, IsFiniteSet(S), \A x \in S : f[x] \in Nat,
         NEW T, NEW U, S = T \cup U, T \cap U = {}
  PROVE  /\ SumFunctionOnSet(f, T) \in Nat /\ SumFunctionOnSet(f, U) \in Nat
         /\ SumFunctionOnSet(f, S) = SumFunctionOnSet(f, T) + SumFunctionOnSet(f, U)
<1> DEFINE Halves(s, u, w) ==
      /\ SumFunctionOnSet(f, s) \in Nat /\ SumFunctionOnSet(f, u) \in Nat
      /\ SumFunctionOnSet(f, w) = SumFunctionOnSet(f, s) + SumFunctionOnSet(f, u)
<1>1. ASSUME NEW w, IsFiniteSet(w), \A x \in w : f[x] \in Nat, NEW s \in SUBSET w
      PROVE  Halves(s, w \ s, w)
  BY <1>1, SumSplit
<1>2. T \in SUBSET S /\ S \ T = U
  OBVIOUS
<1>3. Halves(T, S \ T, S)
  <2> HIDE DEF Halves
  <2> QED BY <1>1, <1>2
<1>4. Halves(T, U, S)
  <2> HIDE DEF Halves
  <2> QED BY <1>2, <1>3, Zenon
<1> QED
  BY <1>4
=============================================================================
