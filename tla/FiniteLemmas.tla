---------------------------- MODULE FiniteLemmas ----------------------------
(***************************************************************************)
(* Facts about finite sets that the proofs of several components rest on:  *)
(* extrema exist, and sums behave.  The induction theorems of the library  *)
(* take an operator, which no backend here can instantiate; a minimal      *)
(* counterexample takes only a set, so that is how these are proved.       *)
(***************************************************************************)
EXTENDS Integers, FiniteSetsExt, FiniteSetTheorems, TLAPS

-----------------------------------------------------------------------------
(* Among subsets of a finite set, one is minimal: strict inclusion is       *)
(* well-founded on finite sets. It stands in for induction, whose theorems  *)
(* take an operator: of the counterexamples, consider a minimal one.        *)
LEMMA MinimalSubset ==
    ASSUME NEW T, IsFiniteSet(T), NEW Bad, Bad \subseteq SUBSET T, Bad # {}
    PROVE  \E B \in Bad : \A C \in Bad : C \subseteq B => C = B
<1> DEFINE R == StrictSubsetOrdering(T)
<1>1. FiniteSubsetsOf(T) = SUBSET T
    BY FS_FiniteSubsetsOfFinite
<1>2. IsWellFoundedOn(R, SUBSET T)
    BY <1>1, FS_StrictSubsetOrderingWellFounded
<1> HIDE DEF R
<1>3. PICK B \in Bad : \A C \in Bad : ~(<< C, B >> \in R)
    BY <1>2, WFMin
<1>4. \A C \in Bad : C \subseteq B /\ C # B => << C, B >> \in R
    BY DEF R, StrictSubsetOrdering
<1>5. ASSUME NEW C \in Bad, C \subseteq B, C # B PROVE FALSE
    BY <1>3, <1>4, <1>5
<1> QED
    BY <1>5

(* A nonempty finite sequence of integers has a largest element.  Were     *)
(* there one without, some shortest prefix of it would have none.           *)
LEMMA LargestIndex ==
    ASSUME NEW n \in Nat \ {0}, NEW f \in [1 .. n -> Int]
    PROVE  \E i \in 1 .. n : \A j \in 1 .. n : f[j] <= f[i]
<1> DEFINE Good == {k \in 1 .. n : \E i \in 1 .. k : \A j \in 1 .. k : f[j] <= f[i]}
           Bad == {1 .. k : k \in (1 .. n) \ Good}
           All == 1 .. n
<1> SUFFICES n \in Good
    OBVIOUS
<1>1. \A k \in 1 .. n : k \in Good <=> \E i \in 1 .. k : \A j \in 1 .. k : f[j] <= f[i]
    OBVIOUS
<1>2. Good \subseteq 1 .. n
    OBVIOUS
<1> HIDE DEF Good
<1> SUFFICES ASSUME n \notin Good PROVE FALSE
    OBVIOUS
<1>3. IsFiniteSet(All)
    BY FS_Interval
<1>4. Bad \subseteq SUBSET All /\ Bad # {}
    OBVIOUS
<1>5. \A C \in Bad : \E k \in (1 .. n) \ Good : C = 1 .. k
    OBVIOUS
<1>6. \A k \in (1 .. n) \ Good : 1 .. k \in Bad
    OBVIOUS
<1> HIDE DEF Bad, All
<1>7. PICK B \in Bad : \A C \in Bad : C \subseteq B => C = B
    BY <1>3, <1>4, MinimalSubset
<1>8. PICK k \in (1 .. n) \ Good : B = 1 .. k
    BY <1>5
<1>9. k # 1
  <2>1. 1 \in 1 .. n /\ f[1] <= f[1]
      OBVIOUS
  <2> QED
      BY <1>1, <2>1
<1>10. k - 1 \in Good
  <2> SUFFICES ASSUME k - 1 \notin Good PROVE FALSE
      OBVIOUS
  <2>1. 1 .. (k - 1) \in Bad
      BY <1>6, <1>9
  <2>2. k \in B /\ k \notin 1 .. (k - 1) /\ 1 .. (k - 1) \subseteq B
      BY <1>8
  <2> QED
      BY <1>7, <2>1, <2>2
<1>11. PICK i \in 1 .. (k - 1) : \A j \in 1 .. (k - 1) : f[j] <= f[i]
    BY <1>1, <1>2, <1>10
<1>12. f[i] \in Int /\ f[k] \in Int
    OBVIOUS
<1>13. CASE f[k] <= f[i]
  <2>1. \A j \in 1 .. k : f[j] <= f[i]
      BY <1>11, <1>12, <1>13
  <2>2. i \in 1 .. k
      OBVIOUS
  <2>3. k \in Good
      BY <1>1, <2>1, <2>2
  <2> QED
      BY <2>3
<1>14. CASE f[i] < f[k]
  <2>1. \A j \in 1 .. k : f[j] <= f[k]
      BY <1>11, <1>12, <1>14
  <2>2. k \in 1 .. k
      OBVIOUS
  <2>3. k \in Good
      BY <1>1, <2>1, <2>2
  <2> QED
      BY <2>3
<1> QED
    BY <1>12, <1>13, <1>14

(* Max over the policies of a list: it bounds every value and is one of    *)
(* them. The form in which ExpireTime is used.                             *)
LEMMA MaxOfSequence ==
    ASSUME NEW n \in Nat \ {0}, NEW f \in [1 .. n -> Int]
    PROVE  LET S == {f[i] : i \in 1 .. n}
           IN  Max(S) \in S /\ \A i \in 1 .. n : f[i] <= Max(S)
<1> DEFINE S == {f[i] : i \in 1 .. n}
<1>1. PICK i \in 1 .. n : \A j \in 1 .. n : f[j] <= f[i]
    BY LargestIndex
<1>2. \E x \in S : \A y \in S : x >= y
    BY <1>1
<1> QED
    BY <1>2 DEF Max

(* The same of any finite set.                                             *)
LEMMA MaxOfFinite ==
    ASSUME NEW S, S \subseteq Int, S # {}, IsFiniteSet(S)
    PROVE  Max(S) \in S /\ \A x \in S : x <= Max(S)
<1>1. PICK n \in Nat : ExistsBijection(1 .. n, S)
    BY FS_NatBijection
<1>2. PICK f \in Bijection(1 .. n, S) : TRUE
    BY <1>1 DEF ExistsBijection
<1>3. f \in [1 .. n -> S] /\ \A x \in S : \E i \in 1 .. n : f[i] = x
    BY <1>2 DEF Bijection, Injection, Surjection
<1>4. n # 0
  <2>1. PICK x \in S : TRUE
      OBVIOUS
  <2>2. PICK i \in 1 .. n : f[i] = x
      BY <1>3, <2>1
  <2> QED
      BY <2>2
<1>5. f \in [1 .. n -> Int]
    BY <1>3
<1>6. PICK i \in 1 .. n : \A j \in 1 .. n : f[j] <= f[i]
    BY <1>4, <1>5, LargestIndex
<1>7. f[i] \in S /\ \A x \in S : f[i] >= x
    BY <1>3, <1>5, <1>6
<1>8. \E x \in S : \A y \in S : x >= y
    BY <1>7
<1> QED
    BY <1>8 DEF Max

(* The same of Min, for FreeCapacity.                                      *)
LEMMA MinOfSequence ==
    ASSUME NEW n \in Nat \ {0}, NEW f \in [1 .. n -> Int]
    PROVE  LET S == {f[i] : i \in 1 .. n}
           IN  Min(S) \in S /\ \A i \in 1 .. n : Min(S) <= f[i]
<1> DEFINE S == {f[i] : i \in 1 .. n}
           g == [i \in 1 .. n |-> -f[i]]
<1>1. g \in [1 .. n -> Int]
    OBVIOUS
<1>2. PICK i \in 1 .. n : \A j \in 1 .. n : g[j] <= g[i]
    BY <1>1, LargestIndex
<1>3. \A j \in 1 .. n : f[i] <= f[j]
    BY <1>2
<1>4. \E x \in S : \A y \in S : x =< y
    BY <1>3
<1> QED
    BY <1>4 DEF Min

(* The least element of a finite set is its greatest, looked at backwards. *)
LEMMA MinOfFinite ==
    ASSUME NEW S, S \subseteq Int, S # {}, IsFiniteSet(S)
    PROVE  Min(S) \in S /\ \A x \in S : Min(S) <= x
<1> DEFINE f == [x \in S |-> -x]
           T == {f[x] : x \in S}
<1>1. IsFiniteSet(T)
  <2>1. f \in Surjection(S, T)
      BY DEF Surjection
  <2> HIDE DEF f, T
  <2> QED
      BY <2>1, FS_Surjection
<1>2. \A x \in S : f[x] = -x /\ f[x] \in Int
    OBVIOUS
<1>3. \A y \in T : \E x \in S : y = -x /\ y \in Int
    BY <1>2
<1>4. \A x \in S : -x \in T
    OBVIOUS
<1> HIDE DEF f, T
<1>5. PICK x \in S : \A y \in T : y <= -x
  <2>1. T \subseteq Int /\ T # {}
      BY <1>3, <1>4
  <2>2. Max(T) \in T /\ \A y \in T : y <= Max(T)
      BY <1>1, <2>1, MaxOfFinite
  <2>3. PICK x \in S : Max(T) = -x
      BY <1>3, <2>2
  <2> QED
      BY <2>2, <2>3
<1>6. \A y \in S : x <= y
  <2> SUFFICES ASSUME NEW y \in S PROVE x <= y
      OBVIOUS
  <2>1. -y <= -x
      BY <1>4, <1>5
  <2> QED
      BY <2>1
<1>7. \E a \in S : \A y \in S : a =< y
    BY <1>6
<1> QED
    BY <1>7 DEF Min

(* What is greatest in a set is its maximum.                               *)
LEMMA MaxIs ==
    ASSUME NEW S, S \subseteq Int, NEW m \in S, \A x \in S : x <= m
    PROVE  Max(S) = m
<1>1. \E x \in S : \A y \in S : x >= y
    OBVIOUS
<1>2. Max(S) \in S /\ \A y \in S : Max(S) >= y
    BY <1>1 DEF Max
<1>3. Max(S) >= m /\ Max(S) <= m /\ Max(S) \in Int
    BY <1>2
<1> QED
    BY <1>3

-----------------------------------------------------------------------------
(* Sums over finite sets.  MapThenSumSet is a recursive function on the     *)
(* subsets of the set, in the order of CHOOSE.  What is true of every sum   *)
(* is shown by a minimal counterexample (MinimalSubset).                    *)

(* The sum of f over S, as Total takes it.                                 *)
Sum(f, S) == MapThenSumSet(LAMBDA x : f[x], S)

(* The fold behind it: a function on the subsets of S.                     *)
Pick(s) == CHOOSE x \in s : TRUE

Unfolds(g, f, S) ==
    g = [s \in SUBSET S |-> IF s = {} THEN 0 ELSE f[Pick(s)] + g[s \ {Pick(s)}]]

(* The sum is the value of some such fold.                                *)
LEMMA SumIsFold == \A f, S : Sum(f, S) = (CHOOSE g : Unfolds(g, f, S))[S]
BY Zenon DEF Sum, MapThenSumSet, MapThenFoldSet, Unfolds, Pick

(* What is chosen is chosen from the set. *)
LEMMA PickFrom == \A s : s # {} => Pick(s) \in s
BY DEF Pick

(* One step of a fold. *)
LEMMA UnfoldsAt ==
    ASSUME NEW g, NEW f, NEW S, Unfolds(g, f, S), NEW s \in SUBSET S
    PROVE  g[s] = IF s = {} THEN 0 ELSE f[Pick(s)] + g[s \ {Pick(s)}]
BY DEF Unfolds

(* A fold has the same value on a set within whatever set it runs.         *)
LEMMA FoldsAgree ==
    ASSUME NEW f, NEW g, NEW h, NEW S, NEW T, NEW U,
           Unfolds(g, f, S), Unfolds(h, f, T), U \subseteq S, U \subseteq T, IsFiniteSet(U)
    PROVE  g[U] = h[U]
<1> DEFINE Bad == {s \in SUBSET U : g[s] # h[s]}
<1> SUFFICES ASSUME g[U] # h[U] PROVE FALSE
    OBVIOUS
<1>1. PICK B \in Bad : \A C \in Bad : C \subseteq B => C = B
  <2>1. Bad \subseteq SUBSET U /\ U \in Bad
      OBVIOUS
  <2> HIDE DEF Bad
  <2> QED
      BY <2>1, MinimalSubset
<1>2. B \in SUBSET S /\ B \in SUBSET T /\ B \in SUBSET U
    OBVIOUS
<1>3. B # {}
    BY <1>2, UnfoldsAt
<1>4. Pick(B) \in B
    BY <1>3, PickFrom
<1>5. g[B] = f[Pick(B)] + g[B \ {Pick(B)}] /\ h[B] = f[Pick(B)] + h[B \ {Pick(B)}]
    BY <1>2, <1>3, UnfoldsAt
<1>6. g[B \ {Pick(B)}] = h[B \ {Pick(B)}]
    BY <1>1, <1>2, <1>4
<1> QED
    BY <1>5, <1>6

(* There is such a fold over every finite set. *)
LEMMA FoldExists ==
    ASSUME NEW S, IsFiniteSet(S), NEW f
    PROVE  \E g : Unfolds(g, f, S)
<1> DEFINE Fold(T) == CHOOSE g : Unfolds(g, f, T)
           Bad == {T \in SUBSET S : ~(\E g : Unfolds(g, f, T))}
<1> SUFFICES ASSUME ~(\E g : Unfolds(g, f, S)) PROVE FALSE
    OBVIOUS
<1>1. PICK B \in Bad : \A C \in Bad : C \subseteq B => C = B
  <2>1. Bad \subseteq SUBSET S /\ S \in Bad
      OBVIOUS
  <2> HIDE DEF Bad
  <2> QED
      BY <2>1, MinimalSubset
<1>2. B \subseteq S /\ ~(\E g : Unfolds(g, f, B))
    OBVIOUS
<1>3. \A C \in SUBSET B : C # B => Unfolds(Fold(C), f, C)
    BY <1>1, <1>2
<1> DEFINE below(s) == Fold(s \ {Pick(s)})[s \ {Pick(s)}]
           G == [s \in SUBSET B |-> IF s = {} THEN 0 ELSE f[Pick(s)] + below(s)]
<1> HIDE DEF Fold
<1>4. \A C \in SUBSET B : C # B => G[C] = Fold(C)[C]
  <2> SUFFICES ASSUME NEW C \in SUBSET B, C # B PROVE G[C] = Fold(C)[C]
      OBVIOUS
  <2>1. Fold(C)[C] = IF C = {} THEN 0 ELSE f[Pick(C)] + Fold(C)[C \ {Pick(C)}]
      BY <1>3, UnfoldsAt
  <2>2. CASE C = {}
      BY <2>1, <2>2
  <2>3. CASE C # {}
    <3> DEFINE D == C \ {Pick(C)}
    <3>1. D \subseteq C /\ D # C /\ D \subseteq B /\ D # B
        BY <2>3, PickFrom
    <3>2. IsFiniteSet(D)
        BY <1>2, <3>1, FS_Subset
    <3>3. Unfolds(Fold(C), f, C) /\ Unfolds(Fold(D), f, D)
        BY <1>3, <3>1
    <3> HIDE DEF D
    <3>5. Fold(C)[D] = Fold(D)[D]
        BY <3>1, <3>2, <3>3, FoldsAgree
    <3>6. G[C] = f[Pick(C)] + Fold(D)[D]
        BY <2>3 DEF D
    <3>7. Fold(C)[C] = f[Pick(C)] + Fold(C)[D]
        BY <2>1, <2>3 DEF D
    <3> QED
        BY <3>5, <3>6, <3>7
  <2> QED
      BY <2>2, <2>3
<1>5. \A s \in SUBSET B : s # {} => below(s) = G[s \ {Pick(s)}]
  <2> SUFFICES ASSUME NEW s \in SUBSET B, s # {} PROVE below(s) = G[s \ {Pick(s)}]
      OBVIOUS
  <2>1. s \ {Pick(s)} \in SUBSET B /\ s \ {Pick(s)} # B
      BY PickFrom
  <2> QED
      BY <1>4, <2>1
<1>6. Unfolds(G, f, B)
  <2>1. \A s \in SUBSET B : (IF s = {} THEN 0 ELSE f[Pick(s)] + below(s))
                              = (IF s = {} THEN 0 ELSE f[Pick(s)] + G[s \ {Pick(s)}])
      BY <1>5
  <2> HIDE DEF below
  <2>2. G = [s \in SUBSET B |-> IF s = {} THEN 0 ELSE f[Pick(s)] + G[s \ {Pick(s)}]]
      BY <2>1
  <2> QED
      BY <2>2 DEF Unfolds
<1> QED
    BY <1>2, <1>6

(* A sum over a finite set is a fold over any finite set around it.        *)
LEMMA SumIsAnyFold ==
    ASSUME NEW T, IsFiniteSet(T), NEW f, NEW g, Unfolds(g, f, T), NEW S \in SUBSET T
    PROVE  Sum(f, S) = g[S]
<1>1. IsFiniteSet(S)
    BY FS_Subset
<1>2. S \subseteq S /\ S \subseteq T
    OBVIOUS
<1>3. ASSUME NEW h, Unfolds(h, f, S)
      PROVE  h[S] = g[S]
    BY <1>1, <1>2, <1>3, FoldsAgree
<1>4. \E h : Unfolds(h, f, S)
    BY <1>1, FoldExists
<1> QED
    BY <1>3, <1>4, SumIsFold

(* The empty sum. *)
LEMMA SumEmpty == \A f : Sum(f, {}) = 0
<1> SUFFICES ASSUME NEW f PROVE Sum(f, {}) = 0
    OBVIOUS
<1>1. IsFiniteSet({})
    BY FS_EmptySet
<1>2. PICK g : Unfolds(g, f, {})
    BY <1>1, FoldExists
<1>3. g[{}] = 0
    BY <1>2, UnfoldsAt
<1> QED
    BY <1>1, <1>2, <1>3, SumIsAnyFold

(* Sums of the same values are the same.                                   *)
LEMMA SumAgrees ==
    ASSUME NEW S, IsFiniteSet(S), NEW f1, NEW f2, \A x \in S : f1[x] = f2[x]
    PROVE  Sum(f1, S) = Sum(f2, S)
<1>1. PICK g : Unfolds(g, f1, S)
    BY FoldExists
<1>2. \A s \in SUBSET S : s # {} => f1[Pick(s)] = f2[Pick(s)]
    BY PickFrom
<1>3. Unfolds(g, f2, S)
    BY <1>1, <1>2 DEF Unfolds
<1> QED
    BY <1>1, <1>3, SumIsAnyFold

(* A sum of integers is an integer.                                        *)
LEMMA SumType ==
    ASSUME NEW S, IsFiniteSet(S), NEW f, \A x \in S : f[x] \in Int
    PROVE  Sum(f, S) \in Int
<1>1. PICK g : Unfolds(g, f, S)
    BY FoldExists
<1> DEFINE Bad == {s \in SUBSET S : g[s] \notin Int}
<1> SUFFICES ASSUME g[S] \notin Int PROVE FALSE
    BY <1>1, SumIsAnyFold
<1>2. PICK B \in Bad : \A C \in Bad : C \subseteq B => C = B
  <2>1. Bad \subseteq SUBSET S /\ S \in Bad
      OBVIOUS
  <2> HIDE DEF Bad
  <2> QED
      BY <2>1, MinimalSubset
<1>3. g[B] = IF B = {} THEN 0 ELSE f[Pick(B)] + g[B \ {Pick(B)}]
    BY <1>1, UnfoldsAt
<1>4. B # {} /\ Pick(B) \in B
    BY <1>3, PickFrom
<1>5. f[Pick(B)] \in Int /\ g[B \ {Pick(B)}] \in Int
    BY <1>2, <1>4
<1> QED
    BY <1>3, <1>4, <1>5

(* One more is added at its place, whatever the fold's order.              *)
LEMMA SumAdds ==
    ASSUME NEW S, IsFiniteSet(S), NEW f, \A x \in S : f[x] \in Int, NEW e \in S
    PROVE  Sum(f, S) = f[e] + Sum(f, S \ {e})
<1>1. PICK g : Unfolds(g, f, S)
    BY FoldExists
<1> DEFINE Bad == {s \in SUBSET S : \E x \in s : g[s] # f[x] + g[s \ {x}]}
<1>2. ASSUME NEW s \in SUBSET S PROVE g[s] \in Int
  <2>1. IsFiniteSet(s)
      BY FS_Subset
  <2> QED
      BY <1>1, <2>1, SumType, SumIsAnyFold
<1>3. Bad = {}
  <2> SUFFICES ASSUME Bad # {} PROVE FALSE
      OBVIOUS
  <2>1. PICK B \in Bad : \A C \in Bad : C \subseteq B => C = B
    <3>1. Bad \subseteq SUBSET S
        OBVIOUS
    <3> HIDE DEF Bad
    <3> QED
        BY <3>1, MinimalSubset
  <2>2. PICK x \in B : g[B] # f[x] + g[B \ {x}]
      OBVIOUS
  <2> DEFINE p == Pick(B)
             Rest == (B \ {x}) \ {p}
  <2>3. p \in B /\ B \in SUBSET S
      BY PickFrom
  <2>4. g[B] = f[p] + g[B \ {p}]
      BY <1>1, <2>3, UnfoldsAt
  <2>5. p # x
      BY <2>2, <2>4
  <2>6. \A C \in SUBSET S : C \subseteq B /\ C # B => \A y \in C : g[C] = f[y] + g[C \ {y}]
      BY <2>1
  <2> HIDE DEF p, Bad
  <2>7. g[B \ {p}] = f[x] + g[(B \ {p}) \ {x}]
      BY <2>3, <2>5, <2>6
  <2>8. g[B \ {x}] = f[p] + g[Rest]
      BY <2>2, <2>3, <2>5, <2>6
  <2>9. (B \ {p}) \ {x} = Rest
      OBVIOUS
  <2>10. f[x] \in Int /\ f[p] \in Int /\ g[Rest] \in Int
      BY <1>2, <2>3
  <2>11. g[B] = f[p] + (f[x] + g[Rest]) /\ g[B \ {x}] = f[p] + g[Rest]
      BY <2>4, <2>7, <2>8, <2>9
  <2> HIDE DEF Rest
  <2>12. \A i, j, k \in Int : i + (j + k) = j + (i + k)
      OBVIOUS
  <2> QED
      BY <2>2, <2>10, <2>11, <2>12
<1>4. g[S] = f[e] + g[S \ {e}]
    BY <1>3
<1> QED
    BY <1>1, <1>4, SumIsAnyFold

(* Over more elements, none of them below 0, a sum is no smaller.          *)
LEMMA SumGrows ==
    ASSUME NEW T, IsFiniteSet(T), NEW f, \A x \in T : f[x] \in Nat, NEW S \in SUBSET T
    PROVE  Sum(f, S) \in Nat /\ Sum(f, T) \in Nat /\ Sum(f, S) <= Sum(f, T)
<1>1. \A C \in SUBSET T : IsFiniteSet(C) /\ \A x \in C : f[x] \in Int
    BY FS_Subset
<1>2. \A C \in SUBSET T : Sum(f, C) \in Int
    BY <1>1, SumType
<1>3. ASSUME NEW D \in SUBSET T
      PROVE  \A C \in SUBSET T : D \subseteq C => Sum(f, D) <= Sum(f, C)
  <2> DEFINE Bad == {C \in SUBSET T : D \subseteq C /\ ~(Sum(f, D) <= Sum(f, C))}
  <2> SUFFICES ASSUME Bad # {} PROVE FALSE
      OBVIOUS
  <2>1. PICK B \in Bad : \A C \in Bad : C \subseteq B => C = B
    <3>1. Bad \subseteq SUBSET T
        OBVIOUS
    <3> HIDE DEF Bad
    <3> QED
        BY <3>1, MinimalSubset
  <2>2. B \in SUBSET T /\ D \subseteq B /\ ~(Sum(f, D) <= Sum(f, B))
      OBVIOUS
  <2>3. B # D
      BY <1>2, <2>2
  <2>4. PICK e \in B : e \notin D
      BY <2>2, <2>3
  <2> DEFINE R == B \ {e}
  <2>5. R \in SUBSET T /\ D \subseteq R /\ R \subseteq B /\ R # B
      BY <2>2, <2>4
  <2>6. R \notin Bad
      BY <2>1, <2>5
  <2>7. Sum(f, D) <= Sum(f, R)
      BY <2>5, <2>6
  <2>8. Sum(f, B) = f[e] + Sum(f, R)
      BY <1>1, <2>2, SumAdds
  <2> HIDE DEF R, Bad
  <2>9. f[e] \in Nat /\ Sum(f, R) \in Int /\ Sum(f, D) \in Int /\ Sum(f, B) \in Int
      BY <1>2, <2>2, <2>5
  <2> QED
      BY <2>2, <2>7, <2>8, <2>9
<1>4. \A C \in SUBSET T : Sum(f, C) \in Nat
  <2> SUFFICES ASSUME NEW C \in SUBSET T PROVE Sum(f, C) \in Nat
      OBVIOUS
  <2>1. {} \in SUBSET T /\ {} \subseteq C
      OBVIOUS
  <2>2. Sum(f, {}) <= Sum(f, C)
      BY <1>3, <2>1
  <2>3. Sum(f, {}) = 0
      BY SumEmpty
  <2> QED
      BY <1>2, <2>2, <2>3
<1> QED
    BY <1>3, <1>4
=============================================================================
