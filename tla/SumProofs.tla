------------------------------ MODULE SumProofs ------------------------------
(***************************************************************************)
(* Sums over finite sets, for the proofs about money.                      *)
(*                                                                         *)
(* MapThenSumSet of the community modules is a recursive function that     *)
(* takes the elements in the order of CHOOSE.  The recursion is unfolded   *)
(* with an induction over subsets whose induction hypothesis is a set, not *)
(* an operator (SubsetInduction); SumInsert then shows that the order does *)
(* not matter.                                                             *)
(***************************************************************************)
EXTENDS Sums, FiniteSetTheorems, TLAPS

\* What holds of a finite set if it holds of its proper subsets holds of every finite set.
LEMMA SubsetInduction ==
  ASSUME NEW S, IsFiniteSet(S), NEW Good,
         \A T \in SUBSET S : (\A U \in SUBSET T : U # T => U \in Good) => T \in Good
  PROVE  S \in Good
  <1> DEFINE Bad == (SUBSET S) \ Good
  <1> SUFFICES ASSUME S \notin Good PROVE FALSE
    OBVIOUS
  <1>1. IsWellFoundedOn(StrictSubsetOrdering(S), SUBSET S)
    <2>1. FiniteSubsetsOf(S) = SUBSET S
      BY FS_FiniteSubsetsOfFinite
    <2>2. IsWellFoundedOn(StrictSubsetOrdering(S), FiniteSubsetsOf(S))
      BY FS_StrictSubsetOrderingWellFounded
    <2> QED
      BY <2>1, <2>2
  <1>2. Bad # {} /\ Bad \subseteq SUBSET S
    OBVIOUS
  <1>3. \E T \in Bad : \A U \in Bad : ~(<<U, T>> \in StrictSubsetOrdering(S))
    <2> HIDE DEF Bad
    <2> QED
      BY <1>1, <1>2, WFMin
  <1>4. PICK T \in Bad : \A U \in Bad : ~(<<U, T>> \in StrictSubsetOrdering(S))
    BY <1>3
  <1>5. \A U \in SUBSET T : U # T => U \in Good
    BY <1>4 DEF StrictSubsetOrdering
  <1> QED
    BY <1>4, <1>5

-----------------------------------------------------------------------------
(***************************************************************************)
(* The recursion                                                           *)
(***************************************************************************)
Pick(s) == CHOOSE x \in s : TRUE
IsSum(f, S, g) == g = [s \in SUBSET S |-> IF s = {} THEN 0 ELSE f[Pick(s)] + g[s \ {Pick(s)}]]
SumFun(f, S) == CHOOSE g : IsSum(f, S, g)

LEMMA SumIsFold == ASSUME NEW f, NEW S PROVE SumOver(f, S) = SumFun(f, S)[S]
  BY DEF SumOver, SumFun, IsSum, Pick, MapThenSumSet, MapThenFoldSet

LEMMA PickIn == ASSUME NEW s, s # {} PROVE Pick(s) \in s
  BY DEF Pick

LEMMA SumsUnfold ==
  ASSUME NEW f, NEW S, NEW g, IsSum(f, S, g), NEW s \in SUBSET S
  PROVE  g[s] = IF s = {} THEN 0 ELSE f[Pick(s)] + g[s \ {Pick(s)}]
  <1> DEFINE h == [t \in SUBSET S |-> IF t = {} THEN 0 ELSE f[Pick(t)] + g[t \ {Pick(t)}]]
  <1>1. g = h
    BY DEF IsSum
  <1>2. h[s] = IF s = {} THEN 0 ELSE f[Pick(s)] + g[s \ {Pick(s)}]
    OBVIOUS
  <1> HIDE DEF h
  <1> QED
    BY <1>1, <1>2

\* Two functions that sum agree where both are defined, if their addends do.
LEMMA SumsAgree ==
  ASSUME NEW e, NEW f, NEW S, NEW T, NEW g, NEW h, IsSum(e, S, g), IsSum(f, T, h),
         NEW s, IsFiniteSet(s), s \subseteq S, s \subseteq T, \A x \in s : e[x] = f[x]
  PROVE  g[s] = h[s]
  <1> DEFINE Good == {u \in SUBSET s : g[u] = h[u]}
  <1>1. ASSUME NEW t \in SUBSET s, \A u \in SUBSET t : u # t => u \in Good
        PROVE  t \in Good
    <2>s. t \in SUBSET S /\ t \in SUBSET T
      OBVIOUS
    <2>g. g[t] = IF t = {} THEN 0 ELSE e[Pick(t)] + g[t \ {Pick(t)}]
      BY <2>s, SumsUnfold
    <2>h. h[t] = IF t = {} THEN 0 ELSE f[Pick(t)] + h[t \ {Pick(t)}]
      BY <2>s, SumsUnfold
    <2>2. CASE t = {}
      BY <2>g, <2>h, <2>2
    <2>3. CASE t # {}
      <3>1. Pick(t) \in t
        BY <2>3, PickIn
      <3>2. t \ {Pick(t)} \in Good /\ e[Pick(t)] = f[Pick(t)]
        BY <1>1, <3>1
      <3> QED
        BY <2>g, <2>h, <2>3, <3>2
    <2> QED
      BY <2>2, <2>3
  <1>2. s \in Good
    <2> HIDE DEF Good
    <2> QED
      BY <1>1, SubsetInduction
  <1> QED
    BY <1>2

\* The recursive definition defines: a summing function exists.
LEMMA SumsExist == ASSUME NEW f, NEW S, IsFiniteSet(S) PROVE IsSum(f, S, SumFun(f, S))
  <1> DEFINE Good == {T \in SUBSET S : \E g : IsSum(f, T, g)}
  <1>1. ASSUME NEW T \in SUBSET S, \A U \in SUBSET T : U # T => U \in Good
        PROVE  T \in Good
    <2> DEFINE h == [s \in SUBSET T |->
                       IF s = {} THEN 0
                       ELSE f[Pick(s)] + SumFun(f, s \ {Pick(s)})[s \ {Pick(s)}]]
    <2>1. ASSUME NEW U \in SUBSET T, U # T PROVE IsSum(f, U, SumFun(f, U))
      BY <1>1, <2>1 DEF SumFun
    <2>2. ASSUME NEW U \in SUBSET T, U # T PROVE h[U] = SumFun(f, U)[U]
      <3>1. SumFun(f, U)[U] = IF U = {} THEN 0 ELSE f[Pick(U)] + SumFun(f, U)[U \ {Pick(U)}]
        BY <2>1, <2>2, SumsUnfold
      <3>2. CASE U = {}
        BY <3>1, <3>2
      <3>3. CASE U # {}
        <4> DEFINE V == U \ {Pick(U)}
        <4>1. Pick(U) \in U
          BY <3>3, PickIn
        <4>2. V \in SUBSET T /\ V # T /\ IsFiniteSet(V) /\ V \subseteq U
          BY <4>1, FS_Subset
        <4>3. IsSum(f, V, SumFun(f, V)) /\ IsSum(f, U, SumFun(f, U))
          <5> HIDE DEF V
          <5> QED
            BY <2>1, <2>2, <4>2
        <4>4. SumFun(f, V)[V] = SumFun(f, U)[V]
          <5> HIDE DEF V
          <5> QED
            BY <4>2, <4>3, SumsAgree
        <4> QED
          BY <3>1, <3>3, <4>4
      <3> QED
        BY <3>2, <3>3
    <2>3. ASSUME NEW s \in SUBSET T
          PROVE  h[s] = IF s = {} THEN 0 ELSE f[Pick(s)] + h[s \ {Pick(s)}]
      <3>1. CASE s = {}
        BY <3>1
      <3>2. CASE s # {}
        <4>1. Pick(s) \in s
          BY <3>2, PickIn
        <4>2. h[s \ {Pick(s)}] = SumFun(f, s \ {Pick(s)})[s \ {Pick(s)}]
          <5> HIDE DEF h
          <5> QED
            BY <4>1, <2>2
        <4> QED
          BY <3>2, <4>2
      <3> QED
        BY <3>1, <3>2
    <2>4. IsSum(f, T, h)
      <3>1. h = [s \in SUBSET T |-> h[s]]
        OBVIOUS
      <3> HIDE DEF h
      <3> QED
        BY <2>3, <3>1 DEF IsSum
    <2> HIDE DEF h
    <2> QED
      BY <2>4
  <1>2. S \in Good
    <2> HIDE DEF Good
    <2> QED
      BY <1>1, SubsetInduction
  <1> QED
    BY <1>2 DEF SumFun

-----------------------------------------------------------------------------
(***************************************************************************)
(* What the proofs about money use                                         *)
(***************************************************************************)
\* A sum depends on nothing but the addends.
LEMMA SumSame ==
  ASSUME NEW e, NEW f, NEW S, IsFiniteSet(S), \A x \in S : e[x] = f[x]
  PROVE  SumOver(e, S) = SumOver(f, S)
  <1>1. IsSum(e, S, SumFun(e, S)) /\ IsSum(f, S, SumFun(f, S))
    BY SumsExist
  <1>2. SumFun(e, S)[S] = SumFun(f, S)[S]
    BY <1>1, SumsAgree
  <1> QED
    BY <1>2, SumIsFold

LEMMA SumEmpty == ASSUME NEW f PROVE SumOver(f, {}) = 0
  <1>1. IsFiniteSet({})
    BY FS_EmptySet
  <1>2. IsSum(f, {}, SumFun(f, {}))
    BY <1>1, SumsExist
  <1>3. SumFun(f, {})[{}] = 0
    BY <1>2, SumsUnfold
  <1> QED
    BY <1>3, SumIsFold

LEMMA SumPick ==
  ASSUME NEW f, NEW S, IsFiniteSet(S), S # {}
  PROVE  SumOver(f, S) = f[Pick(S)] + SumOver(f, S \ {Pick(S)})
  <1> DEFINE T == S \ {Pick(S)}
  <1>1. IsFiniteSet(T) /\ T \subseteq S
    BY FS_Subset
  <1>2. IsSum(f, S, SumFun(f, S)) /\ IsSum(f, T, SumFun(f, T))
    <2> HIDE DEF T
    <2> QED
      BY <1>1, SumsExist
  <1>3. SumFun(f, S)[T] = SumFun(f, T)[T]
    <2> HIDE DEF T
    <2> QED
      BY <1>1, <1>2, SumsAgree
  <1>4. SumFun(f, S)[S] = f[Pick(S)] + SumFun(f, S)[T]
    BY <1>2, SumsUnfold
  <1> HIDE DEF T
  <1>5. SumOver(f, S) = SumFun(f, S)[S] /\ SumOver(f, T) = SumFun(f, T)[T]
    BY SumIsFold
  <1> QED
    BY <1>3, <1>4, <1>5 DEF T

LEMMA SumNat ==
  ASSUME NEW f, NEW S, IsFiniteSet(S), \A x \in S : f[x] \in Nat
  PROVE  SumOver(f, S) \in Nat
  <1> DEFINE Good == {T \in SUBSET S : SumOver(f, T) \in Nat}
  <1>1. ASSUME NEW T \in SUBSET S, \A U \in SUBSET T : U # T => U \in Good
        PROVE  T \in Good
    <2>1. CASE T = {}
      BY <2>1, SumEmpty
    <2>2. CASE T # {}
      <3>1. Pick(T) \in T /\ IsFiniteSet(T)
        BY <2>2, PickIn, FS_Subset
      <3>2. T \ {Pick(T)} \in Good /\ f[Pick(T)] \in Nat
        BY <1>1, <3>1
      <3>3. SumOver(f, T) = f[Pick(T)] + SumOver(f, T \ {Pick(T)})
        BY <2>2, <3>1, SumPick
      <3> QED
        BY <3>2, <3>3
    <2> QED
      BY <2>1, <2>2
  <1>2. S \in Good
    <2> HIDE DEF Good
    <2> QED
      BY <1>1, SubsetInduction
  <1> QED
    BY <1>2

\* The order does not matter: any element may be taken out first.
LEMMA SumRemove ==
  ASSUME NEW f, NEW S, IsFiniteSet(S), \A x \in S : f[x] \in Nat, NEW x \in S
  PROVE  SumOver(f, S) = f[x] + SumOver(f, S \ {x})
  <1> DEFINE Good == {T \in SUBSET S : \A y \in T : SumOver(f, T) = f[y] + SumOver(f, T \ {y})}
  <1>1. ASSUME NEW T \in SUBSET S, \A U \in SUBSET T : U # T => U \in Good
        PROVE  T \in Good
    <2> SUFFICES ASSUME NEW y \in T PROVE SumOver(f, T) = f[y] + SumOver(f, T \ {y})
      OBVIOUS
    <2> DEFINE p == Pick(T)
               R == (T \ {p}) \ {y}
    <2>1. p \in T /\ IsFiniteSet(T)
      BY PickIn, FS_Subset
    <2>2. SumOver(f, T) = f[p] + SumOver(f, T \ {p})
      BY <2>1, SumPick
    <2>3. CASE y = p
      BY <2>2, <2>3
    <2>4. CASE y # p
      <3>1. SumOver(f, T \ {p}) = f[y] + SumOver(f, R)
        BY <1>1, <2>1, <2>4
      <3>2. SumOver(f, T \ {y}) = f[p] + SumOver(f, (T \ {y}) \ {p})
        BY <1>1, <2>1, <2>4
      <3>3. (T \ {y}) \ {p} = R
        OBVIOUS
      <3>4. IsFiniteSet(R) /\ R \subseteq S
        BY FS_Subset
      <3>5. SumOver(f, R) \in Nat
        <4> HIDE DEF R
        <4> QED
          BY <3>4, SumNat
      <3>6. f[p] \in Nat /\ f[y] \in Nat
        BY <2>1
      <3> HIDE DEF R, p
      <3> QED
        BY <2>2, <3>1, <3>2, <3>3, <3>5, <3>6
    <2> QED
      BY <2>3, <2>4
  <1>2. S \in Good
    <2> HIDE DEF Good
    <2> QED
      BY <1>1, SubsetInduction
  <1> QED
    BY <1>2

\* A sum over two disjoint sets.
LEMMA SumUnion ==
  ASSUME NEW f, NEW S, NEW T, IsFiniteSet(S), IsFiniteSet(T), S \cap T = {},
         \A x \in S \cup T : f[x] \in Nat
  PROVE  SumOver(f, S \cup T) = SumOver(f, S) + SumOver(f, T)
  <1> DEFINE Good == {U \in SUBSET S : SumOver(f, U \cup T) = SumOver(f, U) + SumOver(f, T)}
  <1>t. SumOver(f, T) \in Nat
    BY SumNat
  <1>1. ASSUME NEW U \in SUBSET S, \A V \in SUBSET U : V # U => V \in Good
        PROVE  U \in Good
    <2>1. CASE U = {}
      <3>1. U \cup T = T
        BY <2>1
      <3> QED
        BY <2>1, <3>1, <1>t, SumEmpty
    <2>2. CASE U # {}
      <3> DEFINE p == Pick(U)
                 V == U \ {p}
      <3>1. p \in U /\ IsFiniteSet(U) /\ IsFiniteSet(U \cup T) /\ IsFiniteSet(V)
        <4>1. p \in U /\ IsFiniteSet(U) /\ IsFiniteSet(V)
          BY <2>2, PickIn, FS_Subset
        <4> QED
          BY <4>1, FS_Union
      <3>2. SumOver(f, U \cup T) = f[p] + SumOver(f, (U \cup T) \ {p})
        <4>1. p \in U \cup T /\ \A x \in U \cup T : f[x] \in Nat
          BY <3>1
        <4> HIDE DEF p
        <4> QED
          BY <3>1, <4>1, SumRemove
      <3>3. (U \cup T) \ {p} = V \cup T
        BY <3>1
      <3>4. SumOver(f, V \cup T) = SumOver(f, V) + SumOver(f, T)
        BY <1>1, <3>1
      <3>5. SumOver(f, U) = f[p] + SumOver(f, V)
        BY <2>2, <3>1, SumPick
      <3>6. SumOver(f, V) \in Nat /\ f[p] \in Nat
        <4>1. \A x \in V : f[x] \in Nat
          OBVIOUS
        <4> HIDE DEF V
        <4>2. SumOver(f, V) \in Nat
          BY <3>1, <4>1, SumNat
        <4> QED
          BY <3>1, <4>2
      <3> HIDE DEF p, V
      <3>7. SumOver(f, U \cup T) = f[p] + (SumOver(f, V) + SumOver(f, T))
        BY <3>2, <3>3, <3>4
      <3>8. SumOver(f, U \cup T) = SumOver(f, U) + SumOver(f, T)
        <4> HIDE DEF Good
        <4> QED
          BY <3>5, <3>6, <3>7, <1>t
      <3> QED
        BY <3>8
    <2> QED
      BY <2>1, <2>2
  <1>2. S \in Good
    <2> HIDE DEF Good
    <2> QED
      BY <1>1, SubsetInduction
  <1> QED
    BY <1>2

\* Fewer addends, a smaller sum.
LEMMA SumSubset ==
  ASSUME NEW f, NEW S, NEW T, IsFiniteSet(T), S \subseteq T, \A x \in T : f[x] \in Nat
  PROVE  SumOver(f, S) <= SumOver(f, T)
  <1> DEFINE R == T \ S
  <1>1. IsFiniteSet(S) /\ IsFiniteSet(R) /\ S \cap R = {} /\ S \cup R = T
    BY FS_Subset
  <1>2. \A x \in S \cup R : f[x] \in Nat
    BY <1>1
  <1> HIDE DEF R
  <1>3. SumOver(f, S) \in Nat /\ SumOver(f, R) \in Nat
    BY <1>1, <1>2, SumNat
  <1>4. SumOver(f, T) = SumOver(f, S) + SumOver(f, R)
    BY <1>1, <1>2, SumUnion
  <1> QED
    BY <1>3, <1>4
=============================================================================
