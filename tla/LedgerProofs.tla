---------------------------- MODULE LedgerProofs ----------------------------
(***************************************************************************)
(* Proofs about the money a space books: the ledger and its caches, the    *)
(* postings of a bill, and the statements of a credit card.                *)
(*                                                                         *)
(* All three add amounts up.  The first section proves what they need of   *)
(* SumFunctionOnSet, for any finite set: its definition is a recursive     *)
(* function on the subsets of that set, and the subsets of a finite set    *)
(* are well founded, so an induction over them goes through with the set   *)
(* of the subsets a claim holds of in the place of a predicate.            *)
(***************************************************************************)
EXTENDS Ledger, Bills, Cards, FiniteSetTheorems, WellFoundedInduction, TLAPS

----------------------------------------------------------------------------
(* Sums.                                                                   *)

(* What MapThenFoldSet takes out of a set first, and how it goes on.       *)
Pick(s) == CHOOSE x \in s : TRUE
Adds(f, s, h) == IF s = {} THEN 0 ELSE f[Pick(s)] + h[s \ {Pick(s)}]

(* The subsets of a finite set are well founded.                           *)
LEMMA SubsetsAreWellFounded ==
  ASSUME NEW S, IsFiniteSet(S)
  PROVE  IsWellFoundedOn(StrictSubsetOrdering(S), SUBSET S)
<1>1. IsWellFoundedOn(StrictSubsetOrdering(S), FiniteSubsetsOf(S))
  BY FS_StrictSubsetOrderingWellFounded
<1>2. FiniteSubsetsOf(S) = SUBSET S
  BY FS_FiniteSubsetsOfFinite
<1> QED
  BY <1>1, <1>2, Zenon

(* Induction over the subsets of a finite set, Good being the set of those *)
(* the claim holds of: what holds of a subset once it holds of every       *)
(* smaller one holds of them all.                                          *)
LEMMA SubsetInduction ==
  ASSUME NEW S, IsFiniteSet(S), NEW Good,
         \A T \in SUBSET S : (\A U \in SUBSET T : U # T => U \in Good) => T \in Good
  PROVE  \A T \in SUBSET S : T \in Good
<1> DEFINE Bad == (SUBSET S) \ Good
<1>0. SUFFICES ASSUME Bad # {} PROVE FALSE
  OBVIOUS
<1>1. Bad \subseteq SUBSET S
  OBVIOUS
<1> HIDE DEF Bad
<1>3. PICK T \in Bad : \A U \in Bad : <<U, T>> \notin StrictSubsetOrdering(S)
  <2> DEFINE R == StrictSubsetOrdering(S)
             D == SUBSET S
  <2>1. IsWellFoundedOn(R, D)
    BY SubsetsAreWellFounded
  <2>2. Bad \subseteq D /\ Bad # {}
    BY <1>0, <1>1
  <2> HIDE DEF R, D
  <2>3. \E x \in Bad : \A y \in Bad : ~(<<y, x>> \in R)
    BY <2>1, <2>2, WFMin
  <2> QED
    BY <2>3 DEF R
<1>4. \A U \in SUBSET T : U # T => U \notin Bad
  BY <1>1, <1>3 DEF StrictSubsetOrdering
<1> QED
  BY <1>1, <1>4 DEF Bad

(* The element a fold takes first.                                         *)
LEMMA Picks ==
  ASSUME NEW s, s # {}
  PROVE  Pick(s) \in s
  BY DEF Pick

(* h holds the sums of f over the subsets of T.                            *)
Rec(f, T, h) == h \in [SUBSET T -> Int] /\ \A s \in SUBSET T : h[s] = Adds(f, s, h)

(* Two folds of f agree where both are defined.                            *)
LEMMA FoldsAgree ==
  ASSUME NEW S, IsFiniteSet(S), NEW f, NEW T1 \in SUBSET S, NEW T2 \in SUBSET S,
         NEW h1, NEW h2, Rec(f, T1, h1), Rec(f, T2, h2)
  PROVE  \A s \in SUBSET S : s \subseteq T1 /\ s \subseteq T2 => h1[s] = h2[s]
<1> DEFINE Good == {s \in SUBSET S : s \subseteq T1 /\ s \subseteq T2 => h1[s] = h2[s]}
<1>1. ASSUME NEW s \in SUBSET S, \A U \in SUBSET s : U # s => U \in Good PROVE s \in Good
  <2> SUFFICES ASSUME s \subseteq T1 /\ s \subseteq T2 PROVE h1[s] = h2[s]
    OBVIOUS
  <2>1. CASE s = {}
    BY <2>1 DEF Rec, Adds
  <2>2. CASE s # {}
    <3> DEFINE u == s \ {Pick(s)}
    <3>1. u \in SUBSET s /\ u # s /\ u \subseteq T1 /\ u \subseteq T2 /\ u \in SUBSET S
      BY <2>2, Picks
    <3>2. h1[u] = h2[u]
      BY <1>1, <3>1
    <3>3. h1[s] = f[Pick(s)] + h1[u] /\ h2[s] = f[Pick(s)] + h2[u]
      BY <2>2 DEF Rec, Adds
    <3> QED
      BY <3>2, <3>3
  <2> QED
    BY <2>1, <2>2
<1> HIDE DEF Good
<1>2. \A s \in SUBSET S : s \in Good
  BY <1>1, SubsetInduction
<1> QED
  BY <1>2 DEF Good

(* The fold exists: on each subset it is put together from those on the    *)
(* smaller ones.                                                           *)
LEMMA FoldExists ==
  ASSUME NEW S, IsFiniteSet(S), NEW f, \A x \in S : f[x] \in Int
  PROVE  \A T \in SUBSET S : \E h : Rec(f, T, h)
<1> DEFINE Good == {T \in SUBSET S : \E h : Rec(f, T, h)}
           Fold(T) == CHOOSE h : Rec(f, T, h)
<1>1. ASSUME NEW T \in SUBSET S, \A U \in SUBSET T : U # T => U \in Good PROVE T \in Good
  <2>1. \A U \in SUBSET T : U # T => Rec(f, U, Fold(U))
    BY <1>1
  <2> HIDE DEF Fold
  <2> DEFINE G == [s \in SUBSET T |->
                     IF s = {} THEN 0 ELSE f[Pick(s)] + Fold(s \ {Pick(s)})[s \ {Pick(s)}]]
  <2>2. ASSUME NEW s \in SUBSET T, s # {}
        PROVE  LET u == s \ {Pick(s)}
               IN  /\ u \in SUBSET T /\ u # T /\ u \in SUBSET S /\ u \in SUBSET u
                   /\ Pick(s) \in S /\ f[Pick(s)] \in Int
    BY <2>2, Picks
  <2>3. G \in [SUBSET T -> Int]
    <3> SUFFICES ASSUME NEW s \in SUBSET T, s # {}
                 PROVE  f[Pick(s)] + Fold(s \ {Pick(s)})[s \ {Pick(s)}] \in Int
      OBVIOUS
    <3> DEFINE u == s \ {Pick(s)}
    <3>1. u \in SUBSET T /\ u # T /\ f[Pick(s)] \in Int
      BY <2>2
    <3>2. Rec(f, u, Fold(u))
      BY <3>1, <2>1
    <3>3. Fold(u)[u] \in Int
      BY <3>2 DEF Rec
    <3> QED
      BY <3>1, <3>3
  <2>4. \A s \in SUBSET T : s # T => G[s] = Fold(s)[s]
    <3> SUFFICES ASSUME NEW s \in SUBSET T, s # T PROVE G[s] = Fold(s)[s]
      OBVIOUS
    <3>1. Rec(f, s, Fold(s))
      BY <2>1
    <3>2. CASE s = {}
      BY <3>1, <3>2 DEF Rec, Adds
    <3>3. CASE s # {}
      <4> DEFINE u == s \ {Pick(s)}
      <4>1. u \in SUBSET T /\ u # T /\ u \in SUBSET S /\ u \in SUBSET s /\ s \in SUBSET S
        BY <3>3, <2>2
      <4>2. Rec(f, u, Fold(u))
        BY <4>1, <2>1
      <4>4. Fold(s)[s] = f[Pick(s)] + Fold(s)[u]
        BY <3>1, <3>3 DEF Rec, Adds
      <4>5. G[s] = f[Pick(s)] + Fold(u)[u]
        BY <3>3
      <4> HIDE DEF u, G
      <4>3. Fold(s)[u] = Fold(u)[u]
        <5> DEFINE hs == Fold(s)
                   hu == Fold(u)
        <5>1. Rec(f, s, hs) /\ Rec(f, u, hu)
          BY <3>1, <4>2
        <5> HIDE DEF hs, hu
        <5>2. \A v \in SUBSET S : v \subseteq s /\ v \subseteq u => hs[v] = hu[v]
          BY <4>1, <5>1, FoldsAgree
        <5> QED
          BY <4>1, <5>2 DEF hs, hu
      <4> QED
        BY <4>3, <4>4, <4>5
    <3> QED
      BY <3>2, <3>3
  <2>5. \A s \in SUBSET T : G[s] = Adds(f, s, G)
    <3> SUFFICES ASSUME NEW s \in SUBSET T PROVE G[s] = Adds(f, s, G)
      OBVIOUS
    <3>1. CASE s = {}
      BY <3>1 DEF Adds
    <3>2. CASE s # {}
      <4> DEFINE u == s \ {Pick(s)}
      <4>1. u \in SUBSET T /\ u # T
        BY <2>2, <3>2
      <4>2. G[u] = Fold(u)[u]
        BY <2>4, <4>1
      <4>3. G[s] = f[Pick(s)] + Fold(u)[u]
        BY <3>2
      <4> HIDE DEF G
      <4> QED
        BY <3>2, <4>2, <4>3 DEF Adds
    <3> QED
      BY <3>1, <3>2
  <2> HIDE DEF G
  <2>6. Rec(f, T, G)
    BY <2>3, <2>5 DEF Rec
  <2> QED
    BY <2>6
<1> HIDE DEF Good, Fold
<1>2. \A T \in SUBSET S : T \in Good
  BY <1>1, SubsetInduction
<1> QED
  BY <1>2 DEF Good

(* SumFunctionOnSet is that fold.                                          *)
LEMMA SumIsFold ==
  ASSUME NEW S, IsFiniteSet(S), NEW f, \A x \in S : f[x] \in Int, NEW h, Rec(f, S, h)
  PROVE  SumFunctionOnSet(f, S) = h[S]
<1> DEFINE g == CHOOSE k : k = [s \in SUBSET S |-> Adds(f, s, k)]
<1>1. SumFunctionOnSet(f, S) = g[S]
  BY DEF Adds, Pick, SumFunctionOnSet, FoldFunctionOnSet, MapThenFoldSet
<1>2. h = [s \in SUBSET S |-> Adds(f, s, h)]
  BY DEF Rec
<1>3. g = [s \in SUBSET S |-> Adds(f, s, g)]
  BY <1>2
<1> HIDE DEF g
<1> DEFINE Good == {s \in SUBSET S : g[s] = h[s]}
<1>4. ASSUME NEW s \in SUBSET S, \A U \in SUBSET s : U # s => U \in Good PROVE s \in Good
  <2> DEFINE u == s \ {Pick(s)}
  <2>1. s # {} => u \in SUBSET s /\ u # s
    BY Picks
  <2>2. s # {} => g[u] = h[u]
    BY <1>4, <2>1
  <2>3. g[s] = Adds(f, s, g) /\ h[s] = Adds(f, s, h)
    BY <1>2, <1>3
  <2> QED
    BY <2>2, <2>3 DEF Adds
<1> HIDE DEF Good
<1>5. \A s \in SUBSET S : s \in Good
  BY <1>4, SubsetInduction
<1> QED
  BY <1>1, <1>5 DEF Good

(* One fold gives the sums over all the subsets.                           *)
LEMMA SumRec ==
  ASSUME NEW S, IsFiniteSet(S), NEW f, \A x \in S : f[x] \in Int
  PROVE  \E h : Rec(f, S, h) /\ \A T \in SUBSET S : SumFunctionOnSet(f, T) = h[T]
<1>1. PICK h : Rec(f, S, h)
  BY FoldExists
<1>2. ASSUME NEW T \in SUBSET S PROVE SumFunctionOnSet(f, T) = h[T]
  <2>1. IsFiniteSet(T) /\ \A x \in T : f[x] \in Int
    BY FS_Subset
  <2>2. PICK g : Rec(f, T, g)
    BY <2>1, FoldExists
  <2>3. SumFunctionOnSet(f, T) = g[T]
    BY <2>1, <2>2, SumIsFold
  <2>4. g[T] = h[T]
    BY <1>1, <2>2, FoldsAgree
  <2> QED
    BY <2>3, <2>4
<1> QED
  BY <1>1, <1>2

(* The sum over nothing is 0.                                              *)
LEMMA SumEmpty ==
  ASSUME NEW f
  PROVE  SumFunctionOnSet(f, {}) = 0
<1>1. PICK h : Rec(f, {}, h) /\ SumFunctionOnSet(f, {}) = h[{}]
  BY SumRec, FS_EmptySet
<1> QED
  BY <1>1 DEF Rec, Adds

(* Sums of integers are integers.                                          *)
LEMMA SumType ==
  ASSUME NEW S, IsFiniteSet(S), NEW f, \A x \in S : f[x] \in Int
  PROVE  \A T \in SUBSET S : SumFunctionOnSet(f, T) \in Int
<1>1. PICK h : Rec(f, S, h) /\ \A T \in SUBSET S : SumFunctionOnSet(f, T) = h[T]
  BY SumRec
<1> QED
  BY <1>1 DEF Rec

(* Any element may be taken out of a sum, not only the first.              *)
LEMMA SumOut ==
  ASSUME NEW S, IsFiniteSet(S), NEW f, \A x \in S : f[x] \in Int, NEW x \in S
  PROVE  SumFunctionOnSet(f, S) = f[x] + SumFunctionOnSet(f, S \ {x})
<1>1. PICK h : Rec(f, S, h) /\ \A T \in SUBSET S : SumFunctionOnSet(f, T) = h[T]
  BY SumRec
<1> DEFINE Good == {T \in SUBSET S : \A y \in T : h[T] = f[y] + h[T \ {y}]}
<1>2. ASSUME NEW T \in SUBSET S, \A U \in SUBSET T : U # T => U \in Good PROVE T \in Good
  <2> SUFFICES ASSUME NEW y \in T PROVE h[T] = f[y] + h[T \ {y}]
    OBVIOUS
  <2>1. T # {} /\ Pick(T) \in T
    BY Picks
  <2> DEFINE c == Pick(T)
             U == T \ {c}
             V == T \ {y}
             W == T \ {c, y}
  <2>2. h[T] = f[c] + h[U]
    BY <1>1, <2>1 DEF Rec, Adds
  <2> HIDE DEF c
  <2>3. CASE c = y
    BY <2>2, <2>3
  <2>4. CASE c # y
    <3>1. U \in Good /\ V \in Good /\ y \in U /\ c \in V
      BY <1>2, <2>1, <2>4 DEF c
    <3>2. U \ {y} = W /\ V \ {c} = W
      OBVIOUS
    <3>3. h[U] = f[y] + h[W] /\ h[V] = f[c] + h[W]
      BY <3>1, <3>2
    <3>4. h[W] \in Int /\ f[y] \in Int /\ f[c] \in Int
      BY <1>1, <2>1 DEF Rec, c
    <3> HIDE DEF U, V, W
    <3>5. h[T] = f[y] + h[V]
      BY <2>2, <3>3, <3>4
    <3> QED
      BY <3>5 DEF V
  <2> QED
    BY <2>3, <2>4
<1> HIDE DEF Good
<1>3. \A T \in SUBSET S : T \in Good
  BY <1>2, SubsetInduction
<1>4. h[S] = f[x] + h[S \ {x}]
  BY <1>3 DEF Good
<1> QED
  BY <1>1, <1>4

(* And a new one put into it.                                              *)
LEMMA SumIn ==
  ASSUME NEW S, IsFiniteSet(S), NEW x, x \notin S, NEW f, \A y \in S \cup {x} : f[y] \in Int
  PROVE  SumFunctionOnSet(f, S \cup {x}) = SumFunctionOnSet(f, S) + f[x]
<1> DEFINE T == S \cup {x}
<1>1. IsFiniteSet(T) /\ x \in T /\ T \ {x} = S
  BY FS_AddElement
<1>2. SumFunctionOnSet(f, S) \in Int
  BY SumType
<1>3. \A y \in T : f[y] \in Int
  OBVIOUS
<1> HIDE DEF T
<1>4. SumFunctionOnSet(f, T) = f[x] + SumFunctionOnSet(f, T \ {x})
  BY <1>1, <1>3, SumOut
<1>5. f[x] \in Int
  BY <1>1, <1>3
<1>6. SumFunctionOnSet(f, T) = SumFunctionOnSet(f, S) + f[x]
  <2> DEFINE a == SumFunctionOnSet(f, S)
             b == SumFunctionOnSet(f, T)
  <2>1. b = f[x] + a
    BY <1>1, <1>4
  <2>2. a \in Int /\ f[x] \in Int
    BY <1>2, <1>5
  <2> HIDE DEF a, b
  <2>3. b = a + f[x]
    BY <2>1, <2>2
  <2> QED
    BY <2>3 DEF a, b
<1> QED
  BY <1>6 DEF T

(* Induction over a finite set, one element at a time.                     *)
LEMMA ElementInduction ==
  ASSUME NEW S, IsFiniteSet(S), NEW Good, {} \in Good,
         \A T \in SUBSET S : \A x \in S \ T : T \in Good => T \cup {x} \in Good
  PROVE  S \in Good
<1>1. ASSUME NEW T \in SUBSET S, \A U \in SUBSET T : U # T => U \in Good PROVE T \in Good
  <2>1. CASE T = {}
    BY <2>1
  <2>2. CASE T # {}
    <3>1. PICK x : x \in T
      BY <2>2
    <3> DEFINE U == T \ {x}
    <3>2. U \in SUBSET T /\ U # T /\ U \in SUBSET S /\ x \in S \ U /\ U \cup {x} = T
      BY <3>1
    <3> HIDE DEF U
    <3>3. U \in Good
      BY <1>1, <3>2
    <3> QED
      BY <3>2, <3>3
  <2> QED
    BY <2>1, <2>2
<1> QED
  BY <1>1, SubsetInduction

(* Functions that agree on a set have one sum over it.                     *)
LEMMA SumSame ==
  ASSUME NEW S, IsFiniteSet(S), NEW f, NEW g, \A x \in S : f[x] \in Int /\ g[x] = f[x]
  PROVE  SumFunctionOnSet(f, S) = SumFunctionOnSet(g, S)
<1> DEFINE Good == {T \in SUBSET S : SumFunctionOnSet(f, T) = SumFunctionOnSet(g, T)}
<1>1. {} \in Good
  BY SumEmpty
<1>2. ASSUME NEW T \in SUBSET S, NEW x \in S \ T, T \in Good PROVE T \cup {x} \in Good
  <2>1. IsFiniteSet(T)
    BY FS_Subset
  <2>2. SumFunctionOnSet(f, T \cup {x}) = SumFunctionOnSet(f, T) + f[x]
    BY <2>1, SumIn
  <2>3. SumFunctionOnSet(g, T \cup {x}) = SumFunctionOnSet(g, T) + g[x]
    BY <2>1, SumIn
  <2> QED
    BY <1>2, <2>2, <2>3
<1> HIDE DEF Good
<1>3. S \in Good
  BY <1>1, <1>2, ElementInduction
<1> QED
  BY <1>3 DEF Good

(* Sums are linear.                                                        *)
LEMMA SumPlus ==
  ASSUME NEW S, IsFiniteSet(S), NEW f, NEW g, NEW h,
         \A x \in S : f[x] \in Int /\ g[x] \in Int /\ h[x] = f[x] + g[x]
  PROVE  SumFunctionOnSet(h, S) = SumFunctionOnSet(f, S) + SumFunctionOnSet(g, S)
<1> DEFINE Good == {T \in SUBSET S : SumFunctionOnSet(h, T) = SumFunctionOnSet(f, T) + SumFunctionOnSet(g, T)}
<1>1. {} \in Good
  BY SumEmpty
<1>2. ASSUME NEW T \in SUBSET S, NEW x \in S \ T, T \in Good PROVE T \cup {x} \in Good
  <2>1. IsFiniteSet(T)
    BY FS_Subset
  <2>2. SumFunctionOnSet(f, T \cup {x}) = SumFunctionOnSet(f, T) + f[x]
    BY <2>1, SumIn
  <2>3. SumFunctionOnSet(g, T \cup {x}) = SumFunctionOnSet(g, T) + g[x]
    BY <2>1, SumIn
  <2>6. \A y \in T \cup {x} : h[y] \in Int
    OBVIOUS
  <2>4. SumFunctionOnSet(h, T \cup {x}) = SumFunctionOnSet(h, T) + h[x]
    BY <2>1, <2>6, SumIn
  <2>5. SumFunctionOnSet(f, T) \in Int /\ SumFunctionOnSet(g, T) \in Int
    BY <2>1, SumType
  <2> QED
    BY <1>2, <2>2, <2>3, <2>4, <2>5
<1> HIDE DEF Good
<1>3. S \in Good
  BY <1>1, <1>2, ElementInduction
<1> QED
  BY <1>3 DEF Good

(* The sum over two sets with nothing in common.                           *)
LEMMA SumUnion ==
  ASSUME NEW S, IsFiniteSet(S), NEW R, IsFiniteSet(R), R \cap S = {},
         NEW f, \A x \in R \cup S : f[x] \in Int
  PROVE  SumFunctionOnSet(f, R \cup S) = SumFunctionOnSet(f, R) + SumFunctionOnSet(f, S)
<1> DEFINE Good == {T \in SUBSET S : SumFunctionOnSet(f, R \cup T) = SumFunctionOnSet(f, R) + SumFunctionOnSet(f, T)}
<1>0. SumFunctionOnSet(f, R) \in Int
  BY SumType
<1>1. {} \in Good
  <2>1. R \cup {} = R
    OBVIOUS
  <2> QED
    BY <1>0, <2>1, SumEmpty
<1>2. ASSUME NEW T \in SUBSET S, NEW x \in S \ T, T \in Good PROVE T \cup {x} \in Good
  <2> DEFINE RT == R \cup T
  <2>1. IsFiniteSet(T) /\ IsFiniteSet(RT) /\ x \notin RT /\ (R \cup (T \cup {x})) = RT \cup {x}
    BY FS_Subset, FS_Union
  <2>2. SumFunctionOnSet(f, T \cup {x}) = SumFunctionOnSet(f, T) + f[x]
    BY <2>1, SumIn
  <2>3. \A y \in RT \cup {x} : f[y] \in Int
    OBVIOUS
  <2>4. SumFunctionOnSet(f, RT) = SumFunctionOnSet(f, R) + SumFunctionOnSet(f, T)
    BY <1>2
  <2> HIDE DEF RT
  <2>5. SumFunctionOnSet(f, RT \cup {x}) = SumFunctionOnSet(f, RT) + f[x]
    BY <2>1, <2>3, SumIn
  <2>6. SumFunctionOnSet(f, T) \in Int /\ f[x] \in Int
    BY <2>1, SumType
  <2>7. SumFunctionOnSet(f, R \cup (T \cup {x})) = SumFunctionOnSet(f, R) + SumFunctionOnSet(f, T \cup {x})
    <3> DEFINE a == SumFunctionOnSet(f, R)
               b == SumFunctionOnSet(f, T)
               c == SumFunctionOnSet(f, T \cup {x})
               d == SumFunctionOnSet(f, R \cup (T \cup {x}))
    <3>1. R \cup (T \cup {x}) = RT \cup {x}
      BY <2>1
    <3>2. d = SumFunctionOnSet(f, RT) + f[x]
      BY <3>1, <2>5
    <3>3. d = (a + b) + f[x] /\ c = b + f[x]
      BY <2>2, <2>4, <3>2
    <3>4. a \in Int /\ b \in Int /\ f[x] \in Int
      BY <1>0, <2>6
    <3> HIDE DEF a, b, c, d
    <3>5. d = a + c
      BY <3>3, <3>4
    <3> QED
      BY <3>5 DEF a, c, d
  <2> QED
    BY <2>7
<1> HIDE DEF Good
<1>3. S \in Good
  BY <1>1, <1>2, ElementInduction
<1> QED
  BY <1>3 DEF Good

(* A sum of zeros.                                                         *)
LEMMA SumZero ==
  ASSUME NEW S, IsFiniteSet(S), NEW f, \A x \in S : f[x] = 0
  PROVE  SumFunctionOnSet(f, S) = 0
<1> DEFINE Good == {T \in SUBSET S : SumFunctionOnSet(f, T) = 0}
<1>1. {} \in Good
  BY SumEmpty
<1>2. ASSUME NEW T \in SUBSET S, NEW x \in S \ T, T \in Good PROVE T \cup {x} \in Good
  <2>1. IsFiniteSet(T) /\ \A y \in T \cup {x} : f[y] \in Int
    BY FS_Subset
  <2>2. SumFunctionOnSet(f, T \cup {x}) = SumFunctionOnSet(f, T) + f[x]
    BY <2>1, SumIn
  <2> QED
    BY <1>2, <2>2
<1> HIDE DEF Good
<1>3. S \in Good
  BY <1>1, <1>2, ElementInduction
<1> QED
  BY <1>3 DEF Good

(* A sum with one term.                                                    *)
LEMMA SumOne ==
  ASSUME NEW S, IsFiniteSet(S), NEW f, NEW x \in S, f[x] \in Int, \A y \in S \ {x} : f[y] = 0
  PROVE  SumFunctionOnSet(f, S) = f[x]
<1>1. \A y \in S : f[y] \in Int
  OBVIOUS
<1>2. SumFunctionOnSet(f, S) = f[x] + SumFunctionOnSet(f, S \ {x})
  BY <1>1, SumOut
<1>3. IsFiniteSet(S \ {x})
  BY FS_RemoveElement
<1>4. SumFunctionOnSet(f, S \ {x}) = 0
  BY <1>3, SumZero
<1> QED
  BY <1>2, <1>4

(* What the elements of S with each key add up to, over the keys of M, is  *)
(* the sum of the elements whose key is in M.                              *)
LEMMA SumByKey ==
  ASSUME NEW S, IsFiniteSet(S), NEW f, \A x \in S : f[x] \in Int, NEW key, NEW M, IsFiniteSet(M),
         NEW g, \A m \in M : g[m] = SumFunctionOnSet(f, {x \in S : key[x] = m})
  PROVE  SumFunctionOnSet(g, M) = SumFunctionOnSet(f, {x \in S : key[x] \in M})
<1> DEFINE Of(T) == {x \in S : key[x] \in T}
           Good == {T \in SUBSET M : SumFunctionOnSet(g, T) = SumFunctionOnSet(f, Of(T))}
<1>0. \A T \in SUBSET M : IsFiniteSet(Of(T)) /\ SumFunctionOnSet(f, Of(T)) \in Int
  <2> SUFFICES ASSUME NEW T \in SUBSET M PROVE IsFiniteSet(Of(T)) /\ SumFunctionOnSet(f, Of(T)) \in Int
    OBVIOUS
  <2>1. Of(T) \in SUBSET S
    OBVIOUS
  <2> HIDE DEF Of
  <2> QED
    BY <2>1, SumType, FS_Subset
<1>1. {} \in Good
  <2>1. Of({}) = {}
    OBVIOUS
  <2> QED
    BY <2>1, SumEmpty
<1>2. ASSUME NEW T \in SUBSET M, NEW m \in M \ T, T \in Good PROVE T \cup {m} \in Good
  <2>1. IsFiniteSet(T)
    BY FS_Subset
  <2> DEFINE one == {x \in S : key[x] = m}
  <2>2. Of(T \cup {m}) = Of(T) \cup one /\ Of(T) \cap one = {} /\ one \in SUBSET S
    OBVIOUS
  <2>3. IsFiniteSet(one) /\ IsFiniteSet(Of(T)) /\ \A x \in Of(T) \cup one : f[x] \in Int
    <3> HIDE DEF one
    <3> QED
      BY <1>0, <2>2, FS_Subset
  <2>4. \A k \in M : g[k] \in Int
    <3> SUFFICES ASSUME NEW k \in M PROVE g[k] \in Int
      OBVIOUS
    <3> DEFINE K == {x \in S : key[x] = k}
    <3>1. K \in SUBSET S /\ g[k] = SumFunctionOnSet(f, K)
      OBVIOUS
    <3> HIDE DEF K
    <3> QED
      BY <3>1, SumType
  <2>5. g[m] = SumFunctionOnSet(f, one)
    OBVIOUS
  <2> HIDE DEF one, Of
  <2>6. SumFunctionOnSet(f, Of(T) \cup one) = SumFunctionOnSet(f, Of(T)) + SumFunctionOnSet(f, one)
    BY <2>2, <2>3, SumUnion
  <2>7. SumFunctionOnSet(g, T \cup {m}) = SumFunctionOnSet(g, T) + g[m]
    BY <2>1, <2>4, SumIn
  <2>8. SumFunctionOnSet(g, T) = SumFunctionOnSet(f, Of(T))
    BY <1>2
  <2>9. SumFunctionOnSet(g, T \cup {m}) = SumFunctionOnSet(f, Of(T \cup {m}))
    BY <2>2, <2>5, <2>6, <2>7, <2>8
  <2> QED
    BY <2>9
<1> HIDE DEF Good
<1>3. M \in Good
  BY <1>1, <1>2, ElementInduction
<1> QED
  BY <1>3 DEF Good
----------------------------------------------------------------------------
(* The openings of the ledger.                                             *)

JournalKeys == {NoKey} \cup {r.key : r \in Transfers} \cup {r.key : r \in Openings}
JournalRow  == [kind : {"transfer", "opening_balance", "reversal"}, month : LedgerMonths,
                legs : [Accounts -> Int], key : JournalKeys, adjusts : Nat]

(* The openings of an account that stand.                                  *)
Standing(J, R, a) == {i \in 1..Len(J) : J[i].kind = "opening_balance" /\ J[i].legs[a] # 0 /\ i \notin R}

(* A request carries the transaction it is about to post: an opening       *)
(* touches its own account and no other cash, a reversal undoes something  *)
(* the journal holds.                                                      *)
CallOK(x, J) ==
    /\ x.op = "transfer" => x.tx \in JournalRow /\ x.tx.kind = "transfer" /\ x.tx.adjusts = NoTx
    /\ x.op = "opening" => /\ x.tx \in JournalRow /\ x.tx.kind = "opening_balance" /\ x.tx.adjusts = NoTx
                           /\ x.acct \in Cash /\ \A a \in Cash : x.tx.legs[a] # 0 <=> a = x.acct
    /\ x.op = "reverse" => /\ x.tx \in JournalRow /\ x.tx.kind = "reversal" /\ x.tx.adjusts = x.of
                           /\ x.of \in 1..Len(J)

OpeningsInv ==
    /\ journal \in Seq(JournalRow)
    /\ reversalOf \subseteq 1..Len(journal)
    /\ openingOf = [a \in Cash |-> openingOf[a]]
    /\ call = [c \in LedgerClients |-> call[c]] /\ \A c \in LedgerClients : CallOK(call[c], journal)
    /\ \A a \in Cash : Standing(journal, reversalOf, a) = (IF openingOf[a] = NoTx THEN {} ELSE {openingOf[a]})

LEMMA CallSurvives ==
  ASSUME NEW x, NEW J, NEW K, CallOK(x, J), Len(J) \in Nat, Len(K) \in Nat, Len(J) <= Len(K)
  PROVE  CallOK(x, K)
  BY DEF CallOK

LEMMA LedgerInitially == ASSUME LedgerInit PROVE OpeningsInv
<1>1. journal \in Seq(JournalRow) /\ reversalOf \subseteq 1..Len(journal) /\ Len(journal) = 0
  BY DEF LedgerInit
<1>2. openingOf = [a \in Cash |-> openingOf[a]] /\ \A a \in Cash : openingOf[a] = NoTx
  BY DEF LedgerInit
<1>3. call = [c \in LedgerClients |-> call[c]] /\ \A c \in LedgerClients : CallOK(call[c], journal)
  BY DEF LedgerInit, NoCall, CallOK
<1>4. \A a \in Cash : Standing(journal, reversalOf, a) = {}
  BY <1>1 DEF Standing
<1> QED
  BY <1>1, <1>2, <1>3, <1>4 DEF OpeningsInv

(* What a posting does to the journal.                                     *)
LEMMA PostItemsAppends ==
  ASSUME OpeningsInv, NEW tx \in JournalRow, PostItems(tx)
  PROVE  /\ journal' \in Seq(JournalRow) /\ Len(journal) \in Nat /\ Len(journal') = Len(journal) + 1
         /\ (\A i \in 1..Len(journal) : journal'[i] = journal[i]) /\ journal'[Len(journal) + 1] = tx
         /\ reversalOf' = IF tx.adjusts = NoTx THEN reversalOf ELSE reversalOf \cup {tx.adjusts}
<1>1. journal \in Seq(JournalRow) /\ journal' = Append(journal, tx)
  BY DEF OpeningsInv, PostItems
<1>2. reversalOf' = IF tx.adjusts = NoTx THEN reversalOf ELSE reversalOf \cup {tx.adjusts}
  BY DEF PostItems
<1> QED
  BY <1>1, <1>2

(* A request that posts is done; those of others stay in order.            *)
LEMMA CallsStay ==
  ASSUME OpeningsInv, NEW c \in LedgerClients, NEW x, Busy(c, x), CallOK(x, journal'),
         Len(journal) \in Nat, Len(journal') \in Nat, Len(journal) <= Len(journal')
  PROVE  call' = [d \in LedgerClients |-> call'[d]] /\ \A d \in LedgerClients : CallOK(call'[d], journal')
<1>1. call' = [d \in LedgerClients |-> IF d = c THEN x ELSE call[d]]
  BY DEF OpeningsInv, Busy
<1>2. call' = [d \in LedgerClients |-> call'[d]]
  BY <1>1
<1>3. \A d \in LedgerClients : CallOK(call'[d], journal')
  <2> TAKE d \in LedgerClients
  <2>1. CallOK(call[d], journal')
    BY CallSurvives DEF OpeningsInv
  <2> QED
    BY <1>1, <2>1
<1> QED
  BY <1>2, <1>3

LEMMA LedgerReads ==
  ASSUME OpeningsInv, NEW c \in LedgerClients, NEW x, Busy(c, x), CallOK(x, journal), JournalUnchanged
  PROVE  OpeningsInv'
<1>1. journal' = journal /\ reversalOf' = reversalOf /\ openingOf' = openingOf
  BY DEF JournalUnchanged
<1>2. Len(journal) \in Nat
  BY DEF OpeningsInv
<1>3. call' = [d \in LedgerClients |-> call'[d]] /\ \A d \in LedgerClients : CallOK(call'[d], journal')
  BY <1>1, <1>2, CallsStay
<1> QED
  BY <1>1, <1>3 DEF OpeningsInv

LEMMA FreeIsOK == ASSUME NEW J PROVE CallOK(NoCall, J)
  BY DEF CallOK, NoCall

LEMMA ReadTransferKeeps ==
  ASSUME OpeningsInv, NEW c \in LedgerClients, NEW r \in TransferRequests, ReadTransfer(c, r)
  PROVE  OpeningsInv'
<1> DEFINE tx == Transaction("transfer", r.month, TransferLegs(r.from, r.to, 1), r.key, NoTx)
<1>0. r \in Transfers /\ r.from \in Cash /\ r.to \in Cash /\ r.month \in LedgerMonths
  BY LedgerAssumption DEF TransferRequests
<1>1. TransferLegs(r.from, r.to, 1) \in [Accounts -> Int]
  BY DEF TransferLegs
<1>2. r.key \in JournalKeys
  BY <1>0 DEF JournalKeys
<1>3. tx \in JournalRow /\ tx.kind = "transfer" /\ tx.adjusts = NoTx
  BY <1>0, <1>1, <1>2 DEF Transaction, JournalRow, NoTx
<1>4. PICK x : Busy(c, x) /\ x = [op |-> "transfer", tx |-> tx]
  BY DEF ReadTransfer
<1> HIDE DEF tx
<1>5. CallOK(x, journal)
  BY <1>3, <1>4 DEF CallOK
<1> QED
  BY <1>4, <1>5, LedgerReads DEF ReadTransfer

LEMMA ReadOpeningKeeps ==
  ASSUME OpeningsInv, NEW c \in LedgerClients, NEW r \in Openings, ReadOpening(c, r) \/ ReadStatementOpening(c, r)
  PROVE  OpeningsInv'
<1> DEFINE tx == OpeningTx(r)
<1>0. r.acct \in Cash /\ r.month \in LedgerMonths /\ Equity \notin Cash /\ Accounts = Cash \cup {Equity}
  BY LedgerAssumption DEF Accounts
<1>1. OpeningLegs(r.acct, 2) \in [Accounts -> Int] /\ \A a \in Cash : OpeningLegs(r.acct, 2)[a] # 0 <=> a = r.acct
  BY <1>0 DEF OpeningLegs
<1>2. r.key \in JournalKeys
  BY DEF JournalKeys
<1>3. tx \in JournalRow /\ tx.kind = "opening_balance" /\ tx.adjusts = NoTx /\ tx.legs = OpeningLegs(r.acct, 2)
  BY <1>0, <1>1, <1>2 DEF OpeningTx, Transaction, JournalRow, NoTx
<1>4. PICK x : Busy(c, x) /\ x = [op |-> "opening", acct |-> r.acct, tx |-> tx]
  BY DEF ReadOpening, ReadStatementOpening
<1> HIDE DEF tx
<1>5. x.op = "opening" /\ x.acct = r.acct /\ x.tx = tx
  BY <1>4
<1>6. CallOK(x, journal)
  BY <1>0, <1>1, <1>3, <1>5 DEF CallOK
<1> QED
  BY <1>4, <1>6, LedgerReads DEF ReadOpening, ReadStatementOpening

LEMMA ReadReverseKeeps ==
  ASSUME OpeningsInv, NEW c \in LedgerClients, NEW i \in 1..Len(journal), ReadReverse(c, i)
  PROVE  OpeningsInv'
<1> DEFINE tx == Transaction("reversal", Today, Negated(journal[i].legs), NoKey, i)
<1>0. journal[i] \in JournalRow /\ i \in Nat
  BY DEF OpeningsInv
<1>1. Negated(journal[i].legs) \in [Accounts -> Int]
  BY <1>0 DEF Negated, JournalRow
<1>2. tx \in JournalRow /\ tx.kind = "reversal" /\ tx.adjusts = i
  BY <1>0, <1>1, LedgerAssumption DEF Transaction, JournalRow, JournalKeys
<1>3. PICK x : Busy(c, x) /\ x = [op |-> "reverse", of |-> i, tx |-> tx]
  BY DEF ReadReverse
<1> HIDE DEF tx
<1>4. x.op = "reverse" /\ x.of = i /\ x.tx = tx
  BY <1>3
<1>5. CallOK(x, journal)
  BY <1>2, <1>4 DEF CallOK
<1> QED
  BY <1>3, <1>5, LedgerReads DEF ReadReverse

(* A transfer is no opening.                                               *)
LEMMA PostTransferKeeps == ASSUME OpeningsInv, NEW c \in LedgerClients, PostTransfer(c) PROVE OpeningsInv'
<1> DEFINE tx == call[c].tx
<1>0. Busy(c, NoCall)
  BY DEF PostTransfer, FreeClient
<1>1. CASE JournalUnchanged
  BY <1>0, <1>1, FreeIsOK, LedgerReads
<1>2. CASE PostItems(tx) /\ UNCHANGED openingOf
  <2>1. tx \in JournalRow /\ tx.kind = "transfer" /\ tx.adjusts = NoTx
    BY DEF OpeningsInv, CallOK, PostTransfer, CallIs
  <2> HIDE DEF tx
  <2>2. /\ journal' \in Seq(JournalRow) /\ Len(journal) \in Nat /\ Len(journal') = Len(journal) + 1
        /\ (\A i \in 1..Len(journal) : journal'[i] = journal[i]) /\ journal'[Len(journal) + 1] = tx
        /\ reversalOf' = reversalOf
    BY <1>2, <2>1, PostItemsAppends
  <2>3. call' = [d \in LedgerClients |-> call'[d]] /\ \A d \in LedgerClients : CallOK(call'[d], journal')
    BY <1>0, <2>2, FreeIsOK, CallsStay
  <2>4. \A a \in Cash : Standing(journal', reversalOf', a) = Standing(journal, reversalOf, a)
    BY <2>1, <2>2 DEF Standing
  <2>5. reversalOf' \subseteq 1..Len(journal')
    BY <2>2 DEF OpeningsInv
  <2> QED
    BY <1>2, <2>2, <2>3, <2>4, <2>5 DEF OpeningsInv
<1> QED
  BY <1>1, <1>2 DEF PostTransfer

(* An opening is posted where none stands, and takes the marker.           *)
LEMMA PostOpeningKeeps == ASSUME OpeningsInv, NEW c \in LedgerClients, PostOpening(c) PROVE OpeningsInv'
<1> DEFINE tx == call[c].tx
           b  == call[c].acct
<1>0. Busy(c, NoCall)
  BY DEF PostOpening, FreeClient
<1>1. CASE JournalUnchanged
  BY <1>0, <1>1, FreeIsOK, LedgerReads
<1>2. CASE /\ openingOf[b] = NoTx /\ PostItems(tx)
           /\ openingOf' = [openingOf EXCEPT ![b] = Len(journal) + 1]
  <2>1. /\ tx \in JournalRow /\ tx.kind = "opening_balance" /\ tx.adjusts = NoTx /\ b \in Cash
        /\ \A a \in Cash : tx.legs[a] # 0 <=> a = b
    BY DEF OpeningsInv, CallOK, PostOpening, CallIs
  <2> HIDE DEF tx, b
  <2>2. /\ journal' \in Seq(JournalRow) /\ Len(journal) \in Nat /\ Len(journal') = Len(journal) + 1
        /\ (\A i \in 1..Len(journal) : journal'[i] = journal[i]) /\ journal'[Len(journal) + 1] = tx
        /\ reversalOf' = reversalOf
    BY <1>2, <2>1, PostItemsAppends
  <2>3. call' = [d \in LedgerClients |-> call'[d]] /\ \A d \in LedgerClients : CallOK(call'[d], journal')
    BY <1>0, <2>2, FreeIsOK, CallsStay
  <2>4. reversalOf' \subseteq 1..Len(journal') /\ Len(journal) + 1 \notin reversalOf
    BY <2>2 DEF OpeningsInv
  <2>5. openingOf' = [a \in Cash |-> openingOf'[a]]
        /\ \A a \in Cash : openingOf'[a] = IF a = b THEN Len(journal) + 1 ELSE openingOf[a]
    BY <1>2 DEF OpeningsInv
  <2>6. ASSUME NEW a \in Cash
        PROVE  Standing(journal', reversalOf', a) = IF openingOf'[a] = NoTx THEN {} ELSE {openingOf'[a]}
    <3>1. Standing(journal, reversalOf, a) = IF openingOf[a] = NoTx THEN {} ELSE {openingOf[a]}
      BY DEF OpeningsInv
    <3>2. CASE a = b
      <4>1. Standing(journal, reversalOf, a) = {}
        BY <1>2, <3>1, <3>2
      <4>2. Standing(journal', reversalOf', a) = {Len(journal) + 1}
        BY <2>1, <2>2, <2>4, <3>2, <4>1 DEF Standing
      <4> QED
        BY <2>2, <2>5, <3>2, <4>2 DEF NoTx
    <3>3. CASE a # b
      <4>1. Standing(journal', reversalOf', a) = Standing(journal, reversalOf, a)
        BY <2>1, <2>2, <3>3 DEF Standing
      <4> QED
        BY <2>5, <3>1, <3>3, <4>1
    <3> QED
      BY <3>2, <3>3
  <2> QED
    BY <2>2, <2>3, <2>4, <2>5, <2>6 DEF OpeningsInv
<1> QED
  BY <1>1, <1>2 DEF PostOpening

(* A reversal frees the marker of the opening it undoes, and of no other.  *)
LEMMA ReverseKeeps == ASSUME OpeningsInv, NEW c \in LedgerClients, ReverseManual(c) PROVE OpeningsInv'
<1> DEFINE tx == call[c].tx
           k  == call[c].of
           orig == journal[k]
<1>0. Busy(c, NoCall)
  BY DEF ReverseManual, FreeClient
<1>1. CASE JournalUnchanged
  BY <1>0, <1>1, FreeIsOK, LedgerReads
<1>2. CASE /\ CanPost(tx) /\ PostItems(tx)
           /\ openingOf' = [a \in Cash |-> IF orig.kind = "opening_balance" /\ orig.legs[a] # 0 THEN NoTx ELSE openingOf[a]]
  <2>1. tx \in JournalRow /\ tx.kind = "reversal" /\ tx.adjusts = k /\ k \in 1..Len(journal)
    BY DEF OpeningsInv, CallOK, ReverseManual, CallIs
  <2>2. k # NoTx /\ k \notin reversalOf
    BY <1>2, <2>1 DEF CanPost, NoTx
  <2> HIDE DEF tx, k
  <2>3. /\ journal' \in Seq(JournalRow) /\ Len(journal) \in Nat /\ Len(journal') = Len(journal) + 1
        /\ (\A i \in 1..Len(journal) : journal'[i] = journal[i]) /\ journal'[Len(journal) + 1] = tx
        /\ reversalOf' = reversalOf \cup {k}
    BY <1>2, <2>1, <2>2, PostItemsAppends
  <2>4. call' = [d \in LedgerClients |-> call'[d]] /\ \A d \in LedgerClients : CallOK(call'[d], journal')
    BY <1>0, <2>3, FreeIsOK, CallsStay
  <2>5. reversalOf' \subseteq 1..Len(journal')
    BY <2>1, <2>3 DEF OpeningsInv
  <2>6. openingOf' = [a \in Cash |-> openingOf'[a]]
    BY <1>2
  <2>7. ASSUME NEW a \in Cash
        PROVE  Standing(journal', reversalOf', a) = IF openingOf'[a] = NoTx THEN {} ELSE {openingOf'[a]}
    <3>1. Standing(journal, reversalOf, a) = IF openingOf[a] = NoTx THEN {} ELSE {openingOf[a]}
      BY DEF OpeningsInv
    <3>2. Standing(journal', reversalOf', a) = Standing(journal, reversalOf, a) \ {k}
      BY <2>1, <2>3 DEF Standing
    <3>3. CASE orig.kind = "opening_balance" /\ orig.legs[a] # 0
      <4>1. k \in Standing(journal, reversalOf, a)
        BY <2>1, <2>2, <3>3 DEF Standing
      <4>2. Standing(journal, reversalOf, a) = {k}
        BY <3>1, <4>1
      <4>3. openingOf'[a] = NoTx
        BY <1>2, <3>3
      <4> QED
        BY <3>2, <4>2, <4>3
    <3>4. CASE ~(orig.kind = "opening_balance" /\ orig.legs[a] # 0)
      <4>1. k \notin Standing(journal, reversalOf, a)
        BY <3>4 DEF Standing
      <4>2. openingOf'[a] = openingOf[a]
        BY <1>2, <3>4
      <4> QED
        BY <3>1, <3>2, <4>1, <4>2
    <3> QED
      BY <3>3, <3>4
  <2> QED
    BY <2>3, <2>4, <2>5, <2>6, <2>7 DEF OpeningsInv
<1> QED
  BY <1>1, <1>2 DEF ReverseManual

(* Rebuilds and archivals leave the journal and its markers alone.         *)
LEMMA LedgerAside ==
  ASSUME OpeningsInv, RebuildStep \/ (\E a \in Archivable : ArchiveAccount(a)) \/ UNCHANGED ledgerVars
  PROVE  OpeningsInv'
<1>1. UNCHANGED <<journal, reversalOf, openingOf, call>>
  BY DEF RebuildStep, RebuildReadsJournal, RebuildReadsAccounts, RebuildCompares, ApplyBalance, ApplySummary,
         RebuildEnds, ArchiveAccount, JournalUnchanged, ledgerVars
<1> QED
  BY <1>1 DEF OpeningsInv

LEMMA LedgerKept == ASSUME OpeningsInv, [LedgerNext]_ledgerVars PROVE OpeningsInv'
  BY ReadTransferKeeps, ReadOpeningKeeps, ReadReverseKeeps, PostTransferKeeps, PostOpeningKeeps, ReverseKeeps,
     LedgerAside DEF LedgerNext, ClientStep

(* Two requests, or a reversal racing a new opening, never leave a cash    *)
(* account with two openings that stand, nor with a marker that bars a     *)
(* corrected one (postOpening and ReverseManual of repositories/ledger.go).*)
THEOREM OpeningsAreUnique == LedgerSpec => []OneOpening
<1>1. OpeningsInv => OneOpening
  BY DEF OpeningsInv, OneOpening, Standing
<1> QED
  BY <1>1, LedgerInitially, LedgerKept, PTL DEF LedgerSpec

----------------------------------------------------------------------------
(* The caches of the ledger.                                               *)

Totals == [debits : Int, credits : Int]

(* Every row is what the journal says.                                     *)
BalanceIs(a)    == balance[a] = DerivedBalance(journal, a)
SummaryIs(m, a) == summary[m][a] = DerivedTotals(journal, m, a)

Derived ==
    /\ \A a \in Accounts : BalanceIs(a)
    /\ \A m \in LedgerMonths, a \in Accounts : SummaryIs(m, a)

RowsAreNumbers ==
    /\ balance \in [Accounts -> Int]
    /\ summary \in [LedgerMonths -> [Accounts -> Totals]]

(* What a rebuild has read is what is there, as long as nothing was posted *)
(* since, and the rows it has not listed, or has overwritten, are right.   *)
RebuildOK ==
    /\ rebuild.at \in {"idle", "accounts", "summaries", "apply"}
    /\ rebuild.at # "idle" => /\ rebuild.txs \in Seq(JournalRow)
                              /\ ~overlapped => rebuild.txs = journal
    /\ rebuild.at = "summaries" => (~overlapped => rebuild.balance = balance)
    /\ rebuild.at = "apply" =>
         /\ rebuild \in [at : {"apply"}, txs : Seq(JournalRow), bal : SUBSET Accounts,
                         sum : SUBSET (LedgerMonths \X Accounts)]
         /\ ~overlapped =>
              /\ \A a \in Accounts \ rebuild.bal : BalanceIs(a)
              /\ \A m \in LedgerMonths, a \in Accounts :
                   <<m, a>> \notin rebuild.sum => SummaryIs(m, a)

CacheInv ==
    /\ OpeningsInv
    /\ RowsAreNumbers
    /\ RebuildOK
    /\ rebuild.at = "idle" /\ overlapped => lost
    /\ ~overlapped /\ ~lost => Derived

LEMMA PlacesAreFinite == ASSUME NEW txs \in Seq(JournalRow) PROVE IsFiniteSet(DOMAIN txs)
<1>1. DOMAIN txs = 1..Len(txs) /\ Len(txs) \in Nat
  OBVIOUS
<1> QED
  BY <1>1, FS_Interval

(* The legs of a sequence of transactions are integers, and so are the     *)
(* debits and the credits among them.                                      *)
LEMMA LegsAreNumbers ==
  ASSUME NEW txs \in Seq(JournalRow), NEW a \in Accounts, NEW i \in DOMAIN txs
  PROVE  /\ txs[i] \in JournalRow /\ txs[i].legs[a] \in Int /\ txs[i].month \in LedgerMonths
         /\ Debit(txs[i].legs[a]) \in Int /\ CreditOf(txs[i].legs[a]) \in Int
         /\ Debit(txs[i].legs[a]) = txs[i].legs[a] + CreditOf(txs[i].legs[a])
<1>1. txs[i] \in JournalRow
  OBVIOUS
<1>2. txs[i].legs[a] \in Int /\ txs[i].month \in LedgerMonths
  BY <1>1 DEF JournalRow
<1> QED
  BY <1>1, <1>2 DEF Debit, CreditOf

LEMMA DerivedAreNumbers ==
  ASSUME NEW txs \in Seq(JournalRow), NEW a \in Accounts, NEW m \in LedgerMonths
  PROVE  DerivedBalance(txs, a) \in Int /\ DerivedTotals(txs, m, a) \in Totals
<1>1. IsFiniteSet(DOMAIN txs)
  BY PlacesAreFinite
<1>2. SumFunctionOnSet(LegsOn(txs, a), DOMAIN txs) \in Int
  <2>1. \A i \in DOMAIN txs : LegsOn(txs, a)[i] \in Int
    BY LegsAreNumbers DEF LegsOn
  <2> QED
    BY <1>1, <2>1, SumType
<1>3. DOMAIN LegsOn(txs, a) = DOMAIN txs
  BY DEF LegsOn
<1>4. DerivedBalance(txs, a) \in Int
  BY <1>2, <1>3 DEF DerivedBalance, SumFunction
<1> DEFINE on == {i \in DOMAIN txs : txs[i].month = m}
           d  == [i \in on |-> Debit(txs[i].legs[a])]
           c  == [i \in on |-> CreditOf(txs[i].legs[a])]
<1>5. IsFiniteSet(on)
  BY <1>1, FS_Subset
<1>6. (\A i \in on : d[i] \in Int) /\ (\A i \in on : c[i] \in Int) /\ DOMAIN d = on /\ DOMAIN c = on
  BY LegsAreNumbers
<1>7. DerivedTotals(txs, m, a) = [debits |-> SumFunction(d), credits |-> SumFunction(c)]
  BY DEF DerivedTotals
<1> HIDE DEF on, d, c
<1>8. SumFunctionOnSet(d, on) \in Int /\ SumFunctionOnSet(c, on) \in Int
  BY <1>5, <1>6, SumType
<1> QED
  BY <1>4, <1>6, <1>7, <1>8 DEF Totals, SumFunction

(* A sum with one more term.                                               *)
LEMMA SumNext ==
  ASSUME NEW S, IsFiniteSet(S), NEW x, x \notin S, NEW f, NEW g,
         \A y \in S : f[y] \in Int /\ g[y] = f[y], g[x] \in Int
  PROVE  SumFunctionOnSet(g, S \cup {x}) = SumFunctionOnSet(f, S) + g[x]
<1>1. \A y \in S \cup {x} : g[y] \in Int
  OBVIOUS
<1>2. SumFunctionOnSet(g, S \cup {x}) = SumFunctionOnSet(g, S) + g[x]
  BY <1>1, SumIn
<1>3. SumFunctionOnSet(f, S) = SumFunctionOnSet(g, S)
  BY SumSame
<1> QED
  BY <1>2, <1>3

(* What a transaction adds to the derivation is what a posting adds to the *)
(* rows.                                                                   *)
LEMMA DerivedAppend ==
  ASSUME NEW txs \in Seq(JournalRow), NEW tx \in JournalRow, NEW a \in Accounts, NEW m \in LedgerMonths
  PROVE  /\ DerivedBalance(Append(txs, tx), a) = DerivedBalance(txs, a) + tx.legs[a]
         /\ DerivedTotals(Append(txs, tx), m, a) =
              IF tx.month = m THEN [debits  |-> DerivedTotals(txs, m, a).debits + Debit(tx.legs[a]),
                                    credits |-> DerivedTotals(txs, m, a).credits + CreditOf(tx.legs[a])]
              ELSE DerivedTotals(txs, m, a)
<1> DEFINE more == Append(txs, tx)
           x    == Len(txs) + 1
           D    == DOMAIN txs
<1>1. /\ IsFiniteSet(D) /\ more \in Seq(JournalRow) /\ x \notin D /\ DOMAIN more = D \cup {x}
      /\ (\A i \in D : more[i] = txs[i]) /\ more[x] = tx
  <2>1. Len(txs) \in Nat /\ D = 1..Len(txs) /\ more \in Seq(JournalRow) /\ Len(more) = Len(txs) + 1
    OBVIOUS
  <2>2. DOMAIN more = 1..Len(more)
    OBVIOUS
  <2>3. (\A i \in D : more[i] = txs[i]) /\ more[x] = tx
    OBVIOUS
  <2> QED
    BY <2>1, <2>2, <2>3, PlacesAreFinite
<1> HIDE DEF more, x, D
<1>2. DerivedBalance(more, a) = DerivedBalance(txs, a) + tx.legs[a]
  <2> DEFINE f == LegsOn(txs, a)
             g == LegsOn(more, a)
  <2>1. (\A i \in D : f[i] \in Int /\ g[i] = f[i]) /\ g[x] = tx.legs[a] /\ g[x] \in Int
    BY <1>1, LegsAreNumbers DEF LegsOn, D, JournalRow
  <2>2. DOMAIN f = D /\ DOMAIN g = D \cup {x}
    BY <1>1 DEF LegsOn, D
  <2> HIDE DEF f, g
  <2>3. IsFiniteSet(D) /\ x \notin D /\ g[x] \in Int /\ \A y \in D : f[y] \in Int /\ g[y] = f[y]
    BY <1>1, <2>1
  <2>4. SumFunctionOnSet(g, D \cup {x}) = SumFunctionOnSet(f, D) + g[x]
    BY <2>3, SumNext
  <2> QED
    BY <2>1, <2>2, <2>4 DEF DerivedBalance, SumFunction, f, g
<1> DEFINE on   == {i \in D : txs[i].month = m}
           onM  == {i \in DOMAIN more : more[i].month = m}
           d    == [i \in on |-> Debit(txs[i].legs[a])]
           c    == [i \in on |-> CreditOf(txs[i].legs[a])]
           dM   == [i \in onM |-> Debit(more[i].legs[a])]
           cM   == [i \in onM |-> CreditOf(more[i].legs[a])]
<1>3. /\ DerivedTotals(txs, m, a) = [debits |-> SumFunctionOnSet(d, on), credits |-> SumFunctionOnSet(c, on)]
      /\ DerivedTotals(more, m, a) = [debits |-> SumFunctionOnSet(dM, onM), credits |-> SumFunctionOnSet(cM, onM)]
  BY DEF DerivedTotals, SumFunction, D
<1>4. IsFiniteSet(on) /\ x \notin on
  BY <1>1, FS_Subset
<1>5. \A i \in on : d[i] \in Int /\ c[i] \in Int /\ i \in onM /\ dM[i] = d[i] /\ cM[i] = c[i]
  <2> TAKE i \in on
  <2>1. i \in D /\ i \in onM /\ more[i] = txs[i]
    BY <1>1
  <2>2. Debit(txs[i].legs[a]) \in Int /\ CreditOf(txs[i].legs[a]) \in Int
    BY <2>1, LegsAreNumbers DEF D
  <2> QED
    BY <2>1, <2>2
<1>6. CASE tx.month = m
  <2>1. onM = on \cup {x} /\ dM[x] = Debit(tx.legs[a]) /\ cM[x] = CreditOf(tx.legs[a])
    BY <1>1, <1>6
  <2>2. dM[x] \in Int /\ cM[x] \in Int
    <3>1. x \in DOMAIN more
      BY <1>1
    <3>2. Debit(more[x].legs[a]) \in Int /\ CreditOf(more[x].legs[a]) \in Int
      BY <1>1, <3>1, LegsAreNumbers
    <3> QED
      BY <1>1, <2>1, <3>2
  <2> HIDE DEF on, onM, d, c, dM, cM
  <2>3. SumFunctionOnSet(dM, on \cup {x}) = SumFunctionOnSet(d, on) + dM[x]
    <3>1. \A y \in on : d[y] \in Int /\ dM[y] = d[y]
      BY <1>5
    <3> QED
      BY <1>4, <2>2, <3>1, SumNext
  <2>4. SumFunctionOnSet(cM, on \cup {x}) = SumFunctionOnSet(c, on) + cM[x]
    <3>1. \A y \in on : c[y] \in Int /\ cM[y] = c[y]
      BY <1>5
    <3> QED
      BY <1>4, <2>2, <3>1, SumNext
  <2>5. DerivedTotals(more, m, a) = [debits  |-> DerivedTotals(txs, m, a).debits + Debit(tx.legs[a]),
                                     credits |-> DerivedTotals(txs, m, a).credits + CreditOf(tx.legs[a])]
    BY <1>3, <2>1, <2>3, <2>4
  <2> QED
    BY <1>2, <1>6, <2>5 DEF more
<1>7. CASE tx.month # m
  <2>1. onM = on
    BY <1>1, <1>7
  <2> HIDE DEF on, onM, d, c, dM, cM
  <2>2. SumFunctionOnSet(dM, on) = SumFunctionOnSet(d, on) /\ SumFunctionOnSet(cM, on) = SumFunctionOnSet(c, on)
    BY <1>4, <1>5, SumSame
  <2>3. DerivedTotals(more, m, a) = DerivedTotals(txs, m, a)
    BY <1>3, <2>1, <2>2
  <2> QED
    BY <1>2, <1>7, <2>3 DEF more
<1> QED
  BY <1>6, <1>7

(* What an account moved in a month is what its entries of the month add   *)
(* up to.                                                                  *)
LEMMA NetIsEntries ==
  ASSUME journal \in Seq(JournalRow), Derived, NEW a \in Accounts, NEW m \in LedgerMonths
  PROVE  Net(a)[m] = SumFunctionOnSet(LegsOn(journal, a), {i \in DOMAIN journal : journal[i].month = m})
<1> DEFINE on == {i \in DOMAIN journal : journal[i].month = m}
           d  == [i \in on |-> Debit(journal[i].legs[a])]
           c  == [i \in on |-> CreditOf(journal[i].legs[a])]
           f  == LegsOn(journal, a)
<1>1. IsFiniteSet(on)
  BY PlacesAreFinite, FS_Subset
<1>2. \A i \in on : d[i] \in Int /\ c[i] \in Int /\ f[i] \in Int /\ d[i] = f[i] + c[i]
  BY LegsAreNumbers DEF LegsOn
<1>3. summary[m][a] = [debits |-> SumFunctionOnSet(d, on), credits |-> SumFunctionOnSet(c, on)]
  BY DEF Derived, SummaryIs, DerivedTotals, SumFunction
<1>4. Net(a)[m] = SumFunctionOnSet(d, on) - SumFunctionOnSet(c, on)
  BY <1>3 DEF Net
<1> HIDE DEF on, d, c, f
<1>5. SumFunctionOnSet(d, on) = SumFunctionOnSet(f, on) + SumFunctionOnSet(c, on)
  BY <1>1, <1>2, SumPlus
<1>6. SumFunctionOnSet(f, on) \in Int /\ SumFunctionOnSet(c, on) \in Int
  BY <1>1, <1>2, SumType
<1>7. Net(a)[m] = SumFunctionOnSet(f, on)
  BY <1>4, <1>5, <1>6
<1> QED
  BY <1>7 DEF f, on

(* The balance through a month is what the entries up to it add up to, and *)
(* so a statement opens with what the entries before it add up to.         *)
LEMMA StatementsOpenRight ==
  ASSUME journal \in Seq(JournalRow), Derived, NEW a \in Accounts,
         NEW from \in LedgerMonths, NEW to \in LedgerMonths, from <= to
  PROVE  StatementOpening(a, from, to) = EntriesThrough(a, 1, from - 1)
<1> DEFINE D == DOMAIN journal
           f == LegsOn(journal, a)
           key == [i \in D |-> journal[i].month]
           later == {m \in LedgerMonths : m > to}
           A == {i \in D : 1 <= journal[i].month /\ journal[i].month <= from - 1}
           B == {i \in D : from <= journal[i].month /\ journal[i].month <= to}
           C == {i \in D : key[i] \in later}
<1>1. IsFiniteSet(D) /\ DOMAIN f = D /\ \A i \in D : f[i] \in Int /\ journal[i].month \in LedgerMonths
  BY PlacesAreFinite, LegsAreNumbers DEF LegsOn
<1>2. Today \in Nat /\ LedgerMonths = 1..Today /\ IsFiniteSet(LedgerMonths)
  <2>1. Today \in Nat /\ LedgerMonths = 1..Today
    BY LedgerAssumption
  <2>2. IsFiniteSet(1..Today)
    BY <2>1, FS_Interval
  <2> QED
    BY <2>1, <2>2
<1>3. /\ D = (A \cup B) \cup C /\ A \cap B = {} /\ (A \cup B) \cap C = {}
      /\ A \in SUBSET D /\ B \in SUBSET D /\ C \in SUBSET D
  <2>1. from \in Int /\ to \in Int /\ from >= 1 /\ \A i \in D : journal[i].month \in Int /\ journal[i].month >= 1
    BY <1>1, <1>2
  <2>2. \A i \in D : /\ i \in A <=> journal[i].month <= from - 1
                     /\ i \in B <=> from <= journal[i].month /\ journal[i].month <= to
                     /\ i \in C <=> journal[i].month > to
    BY <1>1, <2>1
  <2>3. A \in SUBSET D /\ B \in SUBSET D /\ C \in SUBSET D
    OBVIOUS
  <2> HIDE DEF A, B, C
  <2>4. \A i \in D : (i \in A \/ i \in B \/ i \in C) /\ ~(i \in A /\ i \in B) /\ ~(i \in C /\ (i \in A \/ i \in B))
    BY <2>1, <2>2
  <2> QED
    BY <2>3, <2>4
<1>4. IsFiniteSet(A) /\ IsFiniteSet(B) /\ IsFiniteSet(C) /\ IsFiniteSet(A \cup B) /\ IsFiniteSet(later)
  <2> HIDE DEF A, B, C, D
  <2>1. IsFiniteSet(A) /\ IsFiniteSet(B) /\ IsFiniteSet(C)
    BY <1>1, <1>3, FS_Subset
  <2>2. IsFiniteSet(A \cup B)
    BY <2>1, FS_Union
  <2> QED
    BY <1>2, <2>1, <2>2, FS_Subset
<1>5. \A m \in later : Net(a)[m] = SumFunctionOnSet(f, {i \in D : key[i] = m})
  <2> TAKE m \in later
  <2>1. Net(a)[m] = SumFunctionOnSet(f, {i \in D : journal[i].month = m})
    BY NetIsEntries
  <2>2. {i \in D : journal[i].month = m} = {i \in D : key[i] = m}
    OBVIOUS
  <2> QED
    BY <2>1, <2>2
<1>6. /\ StatementOpening(a, from, to) =
           (balance[a] - SumFunctionOnSet(Net(a), later)) - SumFunctionOnSet(f, B)
      /\ EntriesThrough(a, 1, from - 1) = SumFunctionOnSet(f, A)
      /\ balance[a] = SumFunctionOnSet(f, D)
  BY <1>1 DEF StatementOpening, BalanceThrough, EntriesThrough, Derived, BalanceIs, DerivedBalance, SumFunction
<1> HIDE DEF later, f, key
<1>7. SumFunctionOnSet(Net(a), later) = SumFunctionOnSet(f, C)
  <2> HIDE DEF D, A, B
  <2>1. IsFiniteSet(D) /\ IsFiniteSet(later) /\ \A i \in D : f[i] \in Int
    BY <1>1, <1>4
  <2>2. SumFunctionOnSet(Net(a), later) = SumFunctionOnSet(f, {i \in D : key[i] \in later})
    BY <1>5, <2>1, SumByKey
  <2> QED
    BY <2>2
<1> HIDE DEF A, B, C, D
<1>8. SumFunctionOnSet(f, D) = SumFunctionOnSet(f, A \cup B) + SumFunctionOnSet(f, C)
  BY <1>1, <1>3, <1>4, SumUnion
<1>9. SumFunctionOnSet(f, A \cup B) = SumFunctionOnSet(f, A) + SumFunctionOnSet(f, B)
  BY <1>1, <1>3, <1>4, SumUnion
<1>10. SumFunctionOnSet(f, A) \in Int /\ SumFunctionOnSet(f, B) \in Int /\ SumFunctionOnSet(f, C) \in Int
  BY <1>1, <1>3, SumType
<1> QED
  <2> DEFINE s == SumFunctionOnSet(f, A)
             t == SumFunctionOnSet(f, B)
             u == SumFunctionOnSet(f, C)
  <2>1. s \in Int /\ t \in Int /\ u \in Int
    BY <1>10
  <2>2. StatementOpening(a, from, to) = (((s + t) + u) - u) - t /\ EntriesThrough(a, 1, from - 1) = s
    BY <1>6, <1>7, <1>8, <1>9
  <2> HIDE DEF s, t, u
  <2> QED
    BY <2>1, <2>2

LEMMA CachesInitially == ASSUME LedgerInit PROVE CacheInv
<1>1. OpeningsInv
  BY LedgerInitially
<1>2. /\ journal = <<>> /\ rebuild.at = "idle" /\ ~overlapped
      /\ balance = [a \in Accounts |-> 0]
      /\ summary = [m \in LedgerMonths |-> [a \in Accounts |-> NoTotals]]
  BY DEF LedgerInit, NoRebuild
<1>3. RowsAreNumbers
  BY <1>2 DEF RowsAreNumbers, NoTotals, Totals
<1>4. RebuildOK
  BY <1>2 DEF RebuildOK
<1>5. \A a \in Accounts : DerivedBalance(<<>>, a) = 0
  <2> TAKE a \in Accounts
  <2>1. DOMAIN LegsOn(<<>>, a) = {}
    BY DEF LegsOn
  <2> QED
    BY <2>1, SumEmpty DEF DerivedBalance, SumFunction
<1>6. \A m \in LedgerMonths, a \in Accounts : DerivedTotals(<<>>, m, a) = NoTotals
  <2> TAKE m \in LedgerMonths, a \in Accounts
  <2> DEFINE on == {i \in DOMAIN <<>> : (<<>>)[i].month = m}
  <2>1. on = {}
    OBVIOUS
  <2> DEFINE d == [i \in on |-> Debit((<<>>)[i].legs[a])]
             c == [i \in on |-> CreditOf((<<>>)[i].legs[a])]
  <2>2. DOMAIN d = {} /\ DOMAIN c = {}
    BY <2>1
  <2>3. DerivedTotals(<<>>, m, a) = [debits |-> SumFunction(d), credits |-> SumFunction(c)]
    BY DEF DerivedTotals
  <2> HIDE DEF d, c
  <2>4. SumFunction(d) = 0 /\ SumFunction(c) = 0
    BY <2>2, SumEmpty DEF SumFunction
  <2> QED
    BY <2>3, <2>4 DEF NoTotals
<1>7. Derived
  BY <1>2, <1>5, <1>6 DEF Derived, BalanceIs, SummaryIs
<1> QED
  BY <1>1, <1>2, <1>3, <1>4, <1>7 DEF CacheInv

(* A posting keeps the rows derived, unless a rebuild is on its way.       *)
LEMMA PostingKeepsCaches ==
  ASSUME CacheInv, NEW tx \in JournalRow, PostItems(tx), UNCHANGED <<rebuild, lost>>, OpeningsInv'
  PROVE  CacheInv'
<1>1. /\ journal \in Seq(JournalRow) /\ RowsAreNumbers /\ RebuildOK
      /\ (rebuild.at = "idle" /\ overlapped => lost) /\ (~overlapped /\ ~lost => Derived)
  BY DEF CacheInv, OpeningsInv
<1>2. /\ journal' = Append(journal, tx)
      /\ balance' = [a \in Accounts |-> balance[a] + tx.legs[a]]
      /\ (overlapped' <=> rebuild.at # "idle")
      /\ rebuild' = rebuild /\ lost' = lost
  BY DEF PostItems
<1>3. tx.month \in LedgerMonths /\ \A a \in Accounts : tx.legs[a] \in Int
  BY DEF JournalRow
<1>4. summary' = [m \in LedgerMonths |->
                    IF m = tx.month THEN [a \in Accounts |->
                        [debits  |-> summary[m][a].debits + Debit(tx.legs[a]),
                         credits |-> summary[m][a].credits + CreditOf(tx.legs[a])]]
                    ELSE summary[m]]
  BY <1>1, <1>3 DEF PostItems, RowsAreNumbers
<1>5. RowsAreNumbers'
  <2>1. \A a \in Accounts : Debit(tx.legs[a]) \in Int /\ CreditOf(tx.legs[a]) \in Int
    BY <1>3 DEF Debit, CreditOf
  <2>2. balance' \in [Accounts -> Int]
    BY <1>1, <1>2, <1>3 DEF RowsAreNumbers
  <2>3. summary' \in [LedgerMonths -> [Accounts -> Totals]]
    BY <1>1, <1>3, <1>4, <2>1 DEF RowsAreNumbers, Totals
  <2> QED
    BY <2>2, <2>3 DEF RowsAreNumbers
<1>6. RebuildOK'
  BY <1>1, <1>2 DEF RebuildOK
<1>7. ASSUME ~overlapped', ~lost' PROVE Derived'
  <2>1. Derived
    BY <1>1, <1>2, <1>7
  <2>2. ASSUME NEW a \in Accounts PROVE BalanceIs(a)'
    <3>1. balance[a] = DerivedBalance(journal, a) /\ balance'[a] = balance[a] + tx.legs[a]
      BY <1>2, <2>1 DEF Derived, BalanceIs
    <3>2. DerivedBalance(journal', a) = DerivedBalance(journal, a) + tx.legs[a]
      BY <1>1, <1>2, <1>3, DerivedAppend
    <3> QED
      BY <3>1, <3>2 DEF BalanceIs
  <2>3. ASSUME NEW m \in LedgerMonths, NEW a \in Accounts PROVE SummaryIs(m, a)'
    <3>1. summary[m][a] = DerivedTotals(journal, m, a)
      BY <2>1 DEF Derived, SummaryIs
    <3>2. summary'[m][a] = IF m = tx.month
                           THEN [debits  |-> summary[m][a].debits + Debit(tx.legs[a]),
                                 credits |-> summary[m][a].credits + CreditOf(tx.legs[a])]
                           ELSE summary[m][a]
      BY <1>4
    <3> QED
      BY <1>1, <1>2, <3>1, <3>2, DerivedAppend DEF SummaryIs
  <2> QED
    BY <2>2, <2>3 DEF Derived
<1> QED
  BY <1>1, <1>2, <1>5, <1>6, <1>7 DEF CacheInv

(* The requests that write rows and journal post; the others leave them.   *)
LEMMA ClientKeepsCaches ==
  ASSUME CacheInv, NEW c \in LedgerClients, ClientStep(c), OpeningsInv'
  PROVE  CacheInv'
<1>1. CASE JournalUnchanged /\ UNCHANGED <<rebuild, lost>>
  BY <1>1 DEF CacheInv, JournalUnchanged, RowsAreNumbers, RebuildOK, Derived, BalanceIs, SummaryIs
<1>2. CASE /\ CallIs(c, "transfer") \/ CallIs(c, "opening") \/ CallIs(c, "reverse")
           /\ PostItems(call[c].tx) /\ UNCHANGED <<rebuild, lost>>
  <2>1. call[c].tx \in JournalRow
    BY <1>2 DEF CacheInv, OpeningsInv, CallOK, CallIs
  <2> QED
    BY <1>2, <2>1, PostingKeepsCaches
<1> QED
  BY <1>1, <1>2 DEF ClientStep, PostTransfer, PostOpening, ReverseManual, ReadTransfer, ReadOpening,
                    ReadStatementOpening, ReadReverse

(* A rebuild that starts is overlapped by nothing yet.                     *)
LEMMA ReadsJournalKeepsCaches == ASSUME CacheInv, RebuildReadsJournal, OpeningsInv' PROVE CacheInv'
<1>1. /\ rebuild.at = "idle" /\ rebuild' = [at |-> "accounts", txs |-> journal] /\ ~overlapped'
      /\ UNCHANGED <<balance, summary, journal, lost>>
  BY DEF RebuildReadsJournal
<1>2. ~lost => ~overlapped
  BY <1>1 DEF CacheInv
<1>3. RebuildOK'
  BY <1>1 DEF RebuildOK, CacheInv, OpeningsInv
<1>4. RowsAreNumbers'
  BY <1>1 DEF CacheInv, RowsAreNumbers
<1>5. ~lost' => Derived'
  BY <1>1, <1>2 DEF CacheInv, Derived, BalanceIs, SummaryIs
<1> QED
  BY <1>1, <1>3, <1>4, <1>5 DEF CacheInv

LEMMA ReadsAccountsKeepsCaches == ASSUME CacheInv, RebuildReadsAccounts, OpeningsInv' PROVE CacheInv'
<1>1. /\ rebuild.at = "accounts"
      /\ rebuild' = [at |-> "summaries", txs |-> rebuild.txs, balance |-> balance]
      /\ UNCHANGED <<balance, summary, journal, overlapped, lost>>
  BY DEF RebuildReadsAccounts, JournalUnchanged
<1>2. RebuildOK'
  BY <1>1 DEF RebuildOK, CacheInv
<1>3. RowsAreNumbers' /\ (Derived => Derived')
  BY <1>1 DEF CacheInv, RowsAreNumbers, Derived, BalanceIs, SummaryIs
<1> QED
  BY <1>1, <1>2, <1>3 DEF CacheInv

(* The rows that are not listed are right as far as nothing was posted.    *)
LEMMA ComparesKeepsCaches == ASSUME CacheInv, RebuildCompares, OpeningsInv' PROVE CacheInv'
<1>1. /\ rebuild.at = "summaries"
      /\ rebuild' = [at |-> "apply", txs |-> rebuild.txs, bal |-> BalanceDrift(rebuild.txs, rebuild.balance),
                     sum |-> SummaryDrift(rebuild.txs, summary)]
      /\ UNCHANGED <<balance, summary, journal, overlapped, lost>>
  BY DEF RebuildCompares, JournalUnchanged
<1>2. RebuildOK
  BY DEF CacheInv
<1>3. RowsAreNumbers' /\ (Derived => Derived')
  BY <1>1 DEF CacheInv, RowsAreNumbers, Derived, BalanceIs, SummaryIs
<1>4. RebuildOK'
  <2>1. /\ rebuild' \in [at : {"apply"}, txs : Seq(JournalRow), bal : SUBSET Accounts,
                         sum : SUBSET (LedgerMonths \X Accounts)]
        /\ rebuild'.at = "apply" /\ rebuild'.txs = rebuild.txs
        /\ rebuild'.bal = BalanceDrift(rebuild.txs, rebuild.balance)
        /\ rebuild'.sum = SummaryDrift(rebuild.txs, summary)
    BY <1>1, <1>2 DEF RebuildOK, BalanceDrift, SummaryDrift
  <2>2. ASSUME ~overlapped
        PROVE  /\ rebuild.txs = journal
               /\ \A a \in Accounts \ rebuild'.bal : BalanceIs(a)
               /\ \A m \in LedgerMonths, a \in Accounts : <<m, a>> \notin rebuild'.sum => SummaryIs(m, a)
    <3>1. rebuild.txs = journal /\ rebuild.balance = balance
      BY <1>1, <1>2, <2>2 DEF RebuildOK
    <3>2. \A a \in Accounts \ rebuild'.bal : BalanceIs(a)
      BY <2>1, <3>1 DEF BalanceDrift, BalanceIs
    <3>3. ASSUME NEW m \in LedgerMonths, NEW a \in Accounts, <<m, a>> \notin rebuild'.sum PROVE SummaryIs(m, a)
      <4>1. <<m, a>> \in LedgerMonths \X Accounts /\ (<<m, a>>)[1] = m /\ (<<m, a>>)[2] = a
        OBVIOUS
      <4> QED
        BY <2>1, <3>1, <3>3, <4>1 DEF SummaryDrift, SummaryIs
    <3> QED
      BY <3>1, <3>2, <3>3
  <2> QED
    BY <1>1, <1>2, <2>1, <2>2 DEF RebuildOK, BalanceIs, SummaryIs
<1> QED
  BY <1>1, <1>3, <1>4 DEF CacheInv

LEMMA ApplyBalanceKeepsCaches == ASSUME CacheInv, ApplyBalance, OpeningsInv' PROVE CacheInv'
<1> DEFINE b == CHOOSE x \in rebuild.bal : TRUE
<1>1. /\ rebuild.at = "apply" /\ b \in rebuild.bal
      /\ balance' = [balance EXCEPT ![b] = DerivedBalance(rebuild.txs, b)]
      /\ rebuild' = [rebuild EXCEPT !.bal = @ \ {b}]
      /\ UNCHANGED <<summary, journal, overlapped, lost>>
  BY DEF ApplyBalance
<1> HIDE DEF b
<1>2. RebuildOK /\ RowsAreNumbers
  BY DEF CacheInv
<1>3. /\ rebuild.txs \in Seq(JournalRow) /\ b \in Accounts
      /\ rebuild \in [at : {"apply"}, txs : Seq(JournalRow), bal : SUBSET Accounts,
                      sum : SUBSET (LedgerMonths \X Accounts)]
  BY <1>1, <1>2 DEF RebuildOK
<1>4. /\ rebuild' \in [at : {"apply"}, txs : Seq(JournalRow), bal : SUBSET Accounts,
                       sum : SUBSET (LedgerMonths \X Accounts)]
      /\ rebuild'.txs = rebuild.txs /\ rebuild'.bal = rebuild.bal \ {b} /\ rebuild'.sum = rebuild.sum
      /\ rebuild'.at = "apply"
  BY <1>1, <1>3
<1>5. RowsAreNumbers'
  <2>1. DerivedBalance(rebuild.txs, b) \in Int
    <3>1. Today \in LedgerMonths
      BY LedgerAssumption
    <3> QED
      BY <1>3, <3>1, DerivedAreNumbers
  <2> QED
    BY <1>1, <1>2, <1>3, <2>1 DEF RowsAreNumbers
<1>6. \A a \in Accounts : balance'[a] = IF a = b THEN DerivedBalance(rebuild.txs, b) ELSE balance[a]
  BY <1>1, <1>2 DEF RowsAreNumbers
<1>7. ~overlapped => rebuild.txs = journal
  BY <1>1, <1>2 DEF RebuildOK
<1>8. ~overlapped => \A a \in Accounts : BalanceIs(a) => BalanceIs(a)'
  BY <1>1, <1>6, <1>7 DEF BalanceIs
<1>9. \A m \in LedgerMonths, a \in Accounts : SummaryIs(m, a) => SummaryIs(m, a)'
  BY <1>1 DEF SummaryIs
<1>10. RebuildOK'
  <2>1. ASSUME ~overlapped, NEW a \in Accounts \ rebuild'.bal PROVE BalanceIs(a)'
    <3>1. CASE a = b
      BY <1>1, <1>3, <1>6, <1>7, <2>1, <3>1 DEF BalanceIs
    <3>2. CASE a # b
      <4>1. BalanceIs(a)
        BY <1>1, <1>2, <1>4, <2>1, <3>2 DEF RebuildOK
      <4> QED
        BY <1>8, <2>1, <4>1
    <3> QED
      BY <3>1, <3>2
  <2>2. ASSUME ~overlapped, NEW m \in LedgerMonths, NEW a \in Accounts, <<m, a>> \notin rebuild'.sum
        PROVE  SummaryIs(m, a)'
    <3>1. SummaryIs(m, a)
      BY <1>1, <1>2, <1>4, <2>2 DEF RebuildOK
    <3> QED
      BY <1>9, <3>1
  <2> QED
    BY <1>1, <1>4, <1>7, <2>1, <2>2 DEF RebuildOK
<1>11. ~overlapped /\ Derived => Derived'
  BY <1>8, <1>9 DEF Derived
<1> QED
  BY <1>1, <1>4, <1>5, <1>10, <1>11 DEF CacheInv

LEMMA ApplySummaryKeepsCaches == ASSUME CacheInv, ApplySummary, OpeningsInv' PROVE CacheInv'
<1> DEFINE k == CHOOSE x \in rebuild.sum : TRUE
<1>1. /\ rebuild.at = "apply" /\ k \in rebuild.sum
      /\ summary' = [summary EXCEPT ![k[1]][k[2]] = DerivedTotals(rebuild.txs, k[1], k[2])]
      /\ rebuild' = [rebuild EXCEPT !.sum = @ \ {k}]
      /\ UNCHANGED <<balance, journal, overlapped, lost>>
  BY DEF ApplySummary
<1> HIDE DEF k
<1>2. RebuildOK /\ RowsAreNumbers
  BY DEF CacheInv
<1>3. /\ rebuild.txs \in Seq(JournalRow)
      /\ rebuild \in [at : {"apply"}, txs : Seq(JournalRow), bal : SUBSET Accounts,
                      sum : SUBSET (LedgerMonths \X Accounts)]
  BY <1>1, <1>2 DEF RebuildOK
<1>4. PICK n \in LedgerMonths, b \in Accounts : k = <<n, b>>
  BY <1>1, <1>3
<1>5. /\ rebuild' \in [at : {"apply"}, txs : Seq(JournalRow), bal : SUBSET Accounts,
                       sum : SUBSET (LedgerMonths \X Accounts)]
      /\ rebuild'.txs = rebuild.txs /\ rebuild'.bal = rebuild.bal /\ rebuild'.sum = rebuild.sum \ {k}
      /\ rebuild'.at = "apply"
  BY <1>1, <1>3
<1> DEFINE right == DerivedTotals(rebuild.txs, n, b)
<1>6. right \in Totals
  BY <1>3, DerivedAreNumbers
<1>7. summary' = [summary EXCEPT ![n] = [summary[n] EXCEPT ![b] = right]]
  BY <1>1, <1>2, <1>4 DEF RowsAreNumbers
<1> HIDE DEF right
<1>8. RowsAreNumbers'
  <2>1. [summary[n] EXCEPT ![b] = right] \in [Accounts -> Totals]
    BY <1>2, <1>6 DEF RowsAreNumbers
  <2>2. summary' \in [LedgerMonths -> [Accounts -> Totals]]
    BY <1>2, <1>7, <2>1 DEF RowsAreNumbers
  <2> QED
    BY <1>1, <1>2, <2>2 DEF RowsAreNumbers
<1>9. \A m \in LedgerMonths, a \in Accounts :
         summary'[m][a] = IF m = n /\ a = b THEN right ELSE summary[m][a]
  BY <1>2, <1>7 DEF RowsAreNumbers
<1>10. ~overlapped => rebuild.txs = journal
  BY <1>1, <1>2 DEF RebuildOK
<1>11. ~overlapped => \A m \in LedgerMonths, a \in Accounts : SummaryIs(m, a) => SummaryIs(m, a)'
  BY <1>1, <1>9, <1>10 DEF SummaryIs, right
<1>12. \A a \in Accounts : BalanceIs(a) => BalanceIs(a)'
  BY <1>1 DEF BalanceIs
<1>13. RebuildOK'
  <2>1. ASSUME ~overlapped, NEW m \in LedgerMonths, NEW a \in Accounts, <<m, a>> \notin rebuild'.sum
        PROVE  SummaryIs(m, a)'
    <3>1. CASE m = n /\ a = b
      BY <1>1, <1>9, <1>10, <2>1, <3>1 DEF SummaryIs, right
    <3>2. CASE ~(m = n /\ a = b)
      <4>1. <<m, a>> # k
        BY <1>4, <3>2
      <4>2. SummaryIs(m, a)
        BY <1>1, <1>2, <1>5, <2>1, <4>1 DEF RebuildOK
      <4> QED
        BY <1>11, <2>1, <4>2
    <3> QED
      BY <3>1, <3>2
  <2>2. ASSUME ~overlapped, NEW a \in Accounts \ rebuild'.bal PROVE BalanceIs(a)'
    <3>1. BalanceIs(a)
      BY <1>1, <1>2, <1>5, <2>2 DEF RebuildOK
    <3> QED
      BY <1>12, <3>1
  <2> QED
    BY <1>1, <1>5, <1>10, <2>1, <2>2 DEF RebuildOK
<1>14. ~overlapped /\ Derived => Derived'
  BY <1>11, <1>12 DEF Derived
<1> QED
  BY <1>1, <1>5, <1>8, <1>13, <1>14 DEF CacheInv

(* A rebuild that ends with nothing left to overwrite, and that nothing    *)
(* was posted under, has repaired the rows.                                *)
LEMMA RebuildEndsKeepsCaches == ASSUME CacheInv, RebuildEnds, OpeningsInv' PROVE CacheInv'
<1>1. /\ rebuild.at = "apply" /\ rebuild.bal = {} /\ rebuild.sum = {}
      /\ rebuild'.at = "idle" /\ (overlapped => lost') /\ UNCHANGED <<balance, summary, journal, overlapped>>
  BY DEF RebuildEnds, JournalUnchanged, NoRebuild
<1>2. RebuildOK
  BY DEF CacheInv
<1>3. ~overlapped => Derived
  BY <1>1, <1>2 DEF RebuildOK, Derived
<1>4. RebuildOK'
  BY <1>1 DEF RebuildOK
<1>5. RowsAreNumbers' /\ (Derived => Derived')
  BY <1>1 DEF CacheInv, RowsAreNumbers, Derived, BalanceIs, SummaryIs
<1> QED
  BY <1>1, <1>3, <1>4, <1>5 DEF CacheInv

LEMMA CachesAside ==
  ASSUME CacheInv, (\E a \in Archivable : ArchiveAccount(a)) \/ UNCHANGED ledgerVars, OpeningsInv'
  PROVE  CacheInv'
<1>1. UNCHANGED <<balance, summary, journal, rebuild, overlapped, lost>>
  BY DEF ArchiveAccount, JournalUnchanged, ledgerVars
<1> QED
  BY <1>1 DEF CacheInv, RowsAreNumbers, RebuildOK, Derived, BalanceIs, SummaryIs

LEMMA CachesKept == ASSUME CacheInv, [LedgerNext]_ledgerVars PROVE CacheInv'
<1>1. OpeningsInv'
  BY LedgerKept DEF CacheInv
<1> QED
  BY <1>1, ClientKeepsCaches, ReadsJournalKeepsCaches, ReadsAccountsKeepsCaches, ComparesKeepsCaches,
     ApplyBalanceKeepsCaches, ApplySummaryKeepsCaches, RebuildEndsKeepsCaches, CachesAside
     DEF LedgerNext, RebuildStep

(* As long as no posting committed between a rebuild's reads and its       *)
(* writes, every cached balance is what the journal says and every         *)
(* statement opens with what its earlier entries add up to, for any number *)
(* of accounts, months and racing requests; and a rebuild that nothing     *)
(* overlapped restores it (postItemsWith, Rebuild and BuildStatement of    *)
(* repositories/ledger.go and services).                                   *)
THEOREM CachesFollowJournal == LedgerSpec => []CachesAreDerived
<1>1. CacheInv => CachesAreDerived
  <2> SUFFICES ASSUME CacheInv, ~overlapped, ~lost, NEW a \in Accounts
               PROVE  /\ balance[a] = DerivedBalance(journal, a)
                      /\ \A from, to \in LedgerMonths :
                           from <= to => StatementOpening(a, from, to) = EntriesThrough(a, 1, from - 1)
    BY DEF CachesAreDerived
  <2>1. Derived /\ journal \in Seq(JournalRow)
    BY DEF CacheInv, OpeningsInv
  <2> QED
    BY <2>1, StatementsOpenRight DEF Derived, BalanceIs
<1> QED
  BY <1>1, CachesInitially, CachesKept, PTL DEF LedgerSpec

----------------------------------------------------------------------------
(* What the postings of a bill do.                                         *)

(* The transaction of legs L moves o on what is owed, e on the expenses    *)
(* together and c on the paying accounts together.                         *)
Effect(L, o, e, c) ==
    /\ L \in [BillAccounts -> Int] /\ o \in Int /\ e \in Int /\ c \in Int
    /\ L[Owed] = o /\ SumFunctionOnSet(L, Categories) = e /\ SumFunctionOnSet(L, Paying) = c

LEMMA AccountGroups ==
  /\ IsFiniteSet(Categories) /\ IsFiniteSet(Paying)
  /\ Categories \subseteq BillAccounts /\ Paying \subseteq BillAccounts
  /\ Owed \in BillAccounts /\ Owed \notin Categories /\ Owed \notin Paying
  /\ Paying \cap Categories = {} /\ NoCat \notin BillAccounts
  BY BillsAssumption DEF BillAccounts

(* What one leg comes to on each group of accounts.                        *)
LEMMA LegEffect ==
  ASSUME NEW x, NEW u \in Int
  PROVE  Effect(Leg(x, u), IF x = Owed THEN u ELSE 0, IF x \in Categories THEN u ELSE 0,
                IF x \in Paying THEN u ELSE 0)
<1> DEFINE L == Leg(x, u)
<1>1. /\ L \in [BillAccounts -> Int] /\ L[Owed] = (IF x = Owed THEN u ELSE 0)
      /\ \A a \in BillAccounts : L[a] = IF a = x THEN u ELSE 0
  BY AccountGroups DEF Leg
<1> HIDE DEF L
<1>2. ASSUME NEW G, IsFiniteSet(G), G \subseteq BillAccounts
      PROVE  SumFunctionOnSet(L, G) = IF x \in G THEN u ELSE 0
  <2>1. CASE x \in G
    <3>1. L[x] = u /\ \A a \in G \ {x} : L[a] = 0
      BY <1>1, <1>2, <2>1
    <3>2. SumFunctionOnSet(L, G) = L[x]
      BY <1>2, <2>1, <3>1, SumOne
    <3> QED
      BY <2>1, <3>1, <3>2
  <2>2. CASE x \notin G
    <3>1. \A a \in G : L[a] = 0
      BY <1>1, <1>2, <2>2
    <3>2. SumFunctionOnSet(L, G) = 0
      BY <1>2, <3>1, SumZero
    <3> QED
      BY <2>2, <3>2
  <2> QED
    BY <2>1, <2>2
<1>3. SumFunctionOnSet(L, Categories) = (IF x \in Categories THEN u ELSE 0)
  BY <1>2, AccountGroups
<1>4. SumFunctionOnSet(L, Paying) = (IF x \in Paying THEN u ELSE 0)
  BY <1>2, AccountGroups
<1>5. Effect(L, IF x = Owed THEN u ELSE 0, IF x \in Categories THEN u ELSE 0, IF x \in Paying THEN u ELSE 0)
  BY <1>1, <1>3, <1>4 DEF Effect
<1> QED
  BY <1>5 DEF L

(* Postings add up.                                                        *)
LEMMA EffectsAdd ==
  ASSUME NEW f, NEW o, NEW e, NEW c, Effect(f, o, e, c),
         NEW g, NEW q, NEW r, NEW s, Effect(g, q, r, s)
  PROVE  Effect(Plus(f, g), o + q, e + r, c + s)
<1> DEFINE h == Plus(f, g)
<1>1. h \in [BillAccounts -> Int] /\ \A a \in BillAccounts : f[a] \in Int /\ g[a] \in Int /\ h[a] = f[a] + g[a]
  BY DEF Effect, Plus
<1> HIDE DEF h
<1>2. ASSUME NEW G, IsFiniteSet(G), G \subseteq BillAccounts
      PROVE  SumFunctionOnSet(h, G) = SumFunctionOnSet(f, G) + SumFunctionOnSet(g, G)
  <2>1. \A a \in G : f[a] \in Int /\ g[a] \in Int /\ h[a] = f[a] + g[a]
    BY <1>1, <1>2
  <2> QED
    BY <1>2, <2>1, SumPlus
<1>3. SumFunctionOnSet(h, Categories) = e + r /\ SumFunctionOnSet(h, Paying) = c + s
  BY <1>2, AccountGroups DEF Effect
<1>4. h[Owed] = o + q
  BY <1>1, AccountGroups DEF Effect
<1>5. o + q \in Int /\ e + r \in Int /\ c + s \in Int
  BY DEF Effect
<1> QED
  BY <1>1, <1>3, <1>4, <1>5 DEF Effect, h

LEMMA EffectUndone ==
  ASSUME NEW f, NEW o, NEW e, NEW c, Effect(f, o, e, c)
  PROVE  Effect(Minus(f), -o, -e, -c)
<1> DEFINE g == Minus(f)
           z == [a \in BillAccounts |-> 0]
<1>1. g \in [BillAccounts -> Int]
      /\ \A a \in BillAccounts : f[a] \in Int /\ g[a] \in Int /\ z[a] = f[a] + g[a] /\ z[a] = 0
  BY DEF Effect, Minus
<1>0. g[Owed] = -o
  BY AccountGroups DEF Effect, Minus
<1> HIDE DEF g, z
<1>2. ASSUME NEW G, IsFiniteSet(G), G \subseteq BillAccounts
      PROVE  SumFunctionOnSet(f, G) + SumFunctionOnSet(g, G) = 0 /\ SumFunctionOnSet(g, G) \in Int
  <2>1. \A a \in G : f[a] \in Int /\ g[a] \in Int /\ z[a] = f[a] + g[a] /\ z[a] = 0
    BY <1>1, <1>2
  <2>2. SumFunctionOnSet(z, G) = SumFunctionOnSet(f, G) + SumFunctionOnSet(g, G)
    BY <1>2, <2>1, SumPlus
  <2>3. SumFunctionOnSet(z, G) = 0
    BY <1>2, <2>1, SumZero
  <2>4. SumFunctionOnSet(g, G) \in Int
    BY <1>2, <2>1, SumType
  <2> QED
    BY <2>2, <2>3, <2>4
<1>3. e + SumFunctionOnSet(g, Categories) = 0 /\ SumFunctionOnSet(g, Categories) \in Int
  BY <1>2, AccountGroups DEF Effect
<1>4. c + SumFunctionOnSet(g, Paying) = 0 /\ SumFunctionOnSet(g, Paying) \in Int
  BY <1>2, AccountGroups DEF Effect
<1>5. o \in Int /\ e \in Int /\ c \in Int
  BY DEF Effect
<1>6. SumFunctionOnSet(g, Categories) = -e /\ SumFunctionOnSet(g, Paying) = -c
  BY <1>3, <1>4, <1>5
<1> QED
  BY <1>0, <1>1, <1>5, <1>6 DEF Effect, g

(* The posting rules: a recognition owes the amount and expends it, a      *)
(* settlement pays, with the difference as an expense, what was owed.      *)
LEMMA RecognitionEffect ==
  ASSUME NEW b, b.amt \in Int, b.cat \in Categories
  PROVE  Effect(Recognition(b), -b.amt, b.amt, 0)
<1>1. Effect(Leg(b.cat, b.amt), 0, b.amt, 0)
  BY LegEffect, AccountGroups
<1>2. Effect(Leg(Owed, -b.amt), -b.amt, 0, 0)
  BY LegEffect, AccountGroups
<1>3. Effect(Recognition(b), 0 + (-b.amt), b.amt + 0, 0 + 0)
  BY <1>1, <1>2, EffectsAdd DEF Recognition
<1> QED
  BY <1>3

LEMMA SettlementEffect ==
  ASSUME origin # "card_statement", NEW b, b.amt \in Int, NEW paid \in Int, NEW diff \in Categories \cup {NoCat},
         NEW acct \in Paying, CanPay(b, paid, diff)
  PROVE  Effect(Settlement(b, paid, diff, acct), b.amt, paid - b.amt, -paid)
<1> DEFINE f == Leg(Owed, b.amt)
           g == Leg(acct, -paid)
           h == Leg(diff, paid - b.amt)
<1>1. Effect(f, b.amt, 0, 0)
  BY LegEffect, AccountGroups
<1>2. Effect(g, 0, 0, -paid)
  BY LegEffect, AccountGroups
<1>3. Effect(h, 0, paid - b.amt, 0)
  <2>0. paid - b.amt \in Int
    OBVIOUS
  <2>1. CASE diff = NoCat
    <3>1. paid - b.amt = 0
      BY <2>1 DEF CanPay
    <3>2. diff # Owed /\ diff \notin Categories /\ diff \notin Paying
      BY <2>1, AccountGroups
    <3> QED
      BY <2>0, <3>1, <3>2, LegEffect
  <2>2. CASE diff \in Categories
    BY <2>0, <2>2, LegEffect, AccountGroups
  <2> QED
    BY <2>1, <2>2
<1>4. Settlement(b, paid, diff, acct) = Plus(Plus(f, g), h)
  BY DEF Settlement
<1> HIDE DEF f, g, h
<1>5. Effect(Plus(f, g), b.amt + 0, 0 + 0, 0 + (-paid))
  BY <1>1, <1>2, EffectsAdd
<1>6. Effect(Plus(Plus(f, g), h), (b.amt + 0) + 0, (0 + 0) + (paid - b.amt), (0 + (-paid)) + 0)
  BY <1>3, <1>5, EffectsAdd
<1> QED
  BY <1>4, <1>6

LEMMA AdjustmentEffect ==
  ASSUME NEW was, was.amt \in Int, was.cat \in Categories, NEW next, next.amt \in Int, next.cat \in Categories
  PROVE  Effect(Adjustment(was, next), was.amt - next.amt, next.amt - was.amt, 0)
<1>1. Effect(Recognition(next), -next.amt, next.amt, 0) /\ Effect(Recognition(was), -was.amt, was.amt, 0)
  BY RecognitionEffect
<1>2. Effect(Minus(Recognition(was)), -(-was.amt), -was.amt, -0)
  BY <1>1, EffectUndone
<1>3. Effect(Adjustment(was, next), (-next.amt) + (-(-was.amt)), next.amt + (-was.amt), 0 + (-0))
  BY <1>1, <1>2, EffectsAdd DEF Adjustment
<1> QED
  BY <1>3

LEMMA CreditEffect ==
  ASSUME NEW b, b.acct \in Paying, b.cat \in Categories, NEW x \in Int
  PROVE  Effect(CreditLegs(b, x), 0, -x, x)
<1>1. Effect(Leg(b.acct, x), 0, 0, x)
  BY LegEffect, AccountGroups
<1>2. Effect(Leg(b.cat, -x), 0, -x, 0)
  BY LegEffect, AccountGroups
<1>3. Effect(CreditLegs(b, x), 0 + 0, 0 + (-x), x + 0)
  BY <1>1, <1>2, EffectsAdd DEF CreditLegs
<1> QED
  BY <1>3

----------------------------------------------------------------------------
(* A bill and its books.                                                   *)

BillTx     == [kind : {"recognition", "settlement", "adjustment", "reversal"},
               legs : [BillAccounts -> Int]]
NoteRow    == [note : DOMAIN CreditNotes, legs : [BillAccounts -> Int]]
BillFields == {"status", "amt", "cat", "acct", "due", "auto", "open", "sched", "txs", "credited"}

IsBill(b) ==
    /\ DOMAIN b = BillFields
    /\ b.status \in {"forecast", "paid", "canceled"}
    /\ b.amt \in PositiveNat /\ b.cat \in Categories /\ b.acct \in Paying
    /\ b.txs \in Seq(BillTx) /\ Len(b.txs) > 0
    /\ b.credited \in Int

(* Transactions T and credit notes N together come to o, e and c.          *)
Both(T, N, a) == BookedOn(T, a) + BookedOn(N, a)

BooksOn(T, N, o, e, c) ==
    /\ o \in Int /\ e \in Int /\ c \in Int
    /\ Both(T, N, Owed) = o
    /\ SumFunctionOnSet([a \in Categories |-> Both(T, N, a)], Categories) = e
    /\ SumFunctionOnSet([a \in Paying |-> Both(T, N, a)], Paying) = c

LastLegs(b) == b.txs[Len(b.txs)].legs

(* What the books of a bill are, and, of one that may go back to being a   *)
(* forecast, what its last transaction was: the one a reversal undoes.     *)
BillOK(b, N) ==
    /\ IsBill(b)
    /\ b.status = "forecast" => BooksOn(b.txs, N, -b.amt, b.amt - b.credited, b.credited)
    /\ b.status = "canceled" => /\ BooksOn(b.txs, N, 0, -b.credited, b.credited)
                                /\ Effect(LastLegs(b), b.amt, -b.amt, 0)
    /\ b.status = "paid" => \E s \in Int :
         /\ BooksOn(b.txs, N, 0, (b.amt + s) - b.credited, b.credited - (b.amt + s))
         /\ Effect(LastLegs(b), b.amt, s, -(b.amt + s))

(* A copy is the bill as long as no transaction came after it: whatever    *)
(* changes the amount or the category posts.                               *)
CopyOf(r, b) ==
    /\ IsBill(r)
    /\ Len(r.txs) <= Len(b.txs)
    /\ Len(r.txs) = Len(b.txs) => r.txs = b.txs /\ r.amt = b.amt /\ r.cat = b.cat

WithCopy == {"settle", "cancel", "restore", "unsettle", "edit", "credit"}

AskOK(x, b) ==
    /\ x.op \in {"settle-check", "settle-plan"} =>
         {"op", "paid", "diff"} \subseteq DOMAIN x /\ x.paid \in Int /\ x.diff \in Categories \cup {NoCat}
    /\ x.op \in {"settle-check", "settle-plan"} \cup WithCopy => b # NoSuchBill
    /\ x.op \in WithCopy => CopyOf(x.read, b)
    /\ x.op = "settle" => /\ x.acct \in Paying /\ x.tx \in BillTx
                          /\ \E s \in Int : Effect(x.tx.legs, x.read.amt, s, -(x.read.amt + s))
    /\ x.op = "edit" => x.next.amt \in PositiveNat /\ x.next.cat \in Categories /\ x.next.acct \in Paying
    /\ x.op = "credit" => x.note \in DOMAIN CreditNotes

BillInv ==
    \/ origin = "card_statement"
    \/ /\ noted \in Seq(NoteRow)
       /\ bill = NoSuchBill => noted = <<>>
       /\ bill # NoSuchBill => BillOK(bill, noted)
       /\ ask = [c \in Actors |-> ask[c]] /\ \A c \in Actors : AskOK(ask[c], bill)

LEMMA BookedAppend ==
  ASSUME NEW R, \A r \in R : r.legs \in [BillAccounts -> Int], NEW T \in Seq(R), NEW x \in R, NEW a \in BillAccounts
  PROVE  BookedOn(T, a) \in Int /\ BookedOn(Append(T, x), a) = BookedOn(T, a) + x.legs[a]
<1> DEFINE D == DOMAIN T
           n == Len(T) + 1
           U == Append(T, x)
           f == [i \in DOMAIN T |-> T[i].legs[a]]
           g == [i \in DOMAIN U |-> U[i].legs[a]]
<1>1. /\ Len(T) \in Nat /\ D = 1..Len(T) /\ DOMAIN U = D \cup {n} /\ n \notin D
      /\ (\A i \in D : U[i] = T[i] /\ T[i] \in R) /\ U[n] = x
  OBVIOUS
<1>2. IsFiniteSet(D)
  BY <1>1, FS_Interval
<1>3. /\ DOMAIN f = D /\ DOMAIN g = D \cup {n} /\ g[n] = x.legs[a] /\ g[n] \in Int
      /\ \A i \in D : f[i] \in Int /\ g[i] = f[i]
  BY <1>1
<1>4. BookedOn(T, a) = SumFunction(f) /\ BookedOn(U, a) = SumFunction(g)
  BY DEF BookedOn
<1> HIDE DEF D, n, U, f, g
<1>5. SumFunctionOnSet(f, D) \in Int
  BY <1>2, <1>3, SumType
<1>6. SumFunctionOnSet(g, D \cup {n}) = SumFunctionOnSet(f, D) + g[n]
  <2>1. n \notin D /\ g[n] \in Int /\ \A i \in D : f[i] \in Int /\ g[i] = f[i]
    BY <1>1, <1>3
  <2> QED
    BY <1>2, <2>1, SumNext
<1> QED
  BY <1>3, <1>4, <1>5, <1>6 DEF SumFunction, U

LEMMA NothingBooked == \A a \in BillAccounts : BookedOn(<<>>, a) = 0
<1> SUFFICES ASSUME NEW a \in BillAccounts PROVE BookedOn(<<>>, a) = 0
  OBVIOUS
<1> DEFINE f == [i \in DOMAIN <<>> |-> (<<>>)[i].legs[a]]
<1>1. DOMAIN f = {} /\ BookedOn(<<>>, a) = SumFunction(f)
  BY DEF BookedOn
<1> HIDE DEF f
<1> QED
  BY <1>1, SumEmpty DEF SumFunction

(* What is booked on every account moves by the legs of a posting, and so  *)
(* do the sums of the groups.                                              *)
LEMMA BooksMove ==
  ASSUME NEW T, NEW N, NEW U, NEW V, NEW L, NEW o, NEW e, NEW c, NEW p, NEW q, NEW r,
         BooksOn(T, N, o, e, c), Effect(L, p, q, r),
         \A a \in BillAccounts : Both(T, N, a) \in Int /\ Both(U, V, a) = Both(T, N, a) + L[a]
  PROVE  BooksOn(U, V, o + p, e + q, c + r)
<1>1. ASSUME NEW G, IsFiniteSet(G), G \subseteq BillAccounts
      PROVE  SumFunctionOnSet([a \in G |-> Both(U, V, a)], G)
               = SumFunctionOnSet([a \in G |-> Both(T, N, a)], G) + SumFunctionOnSet(L, G)
  <2> DEFINE f == [a \in G |-> Both(T, N, a)]
             h == [a \in G |-> Both(U, V, a)]
  <2>1. \A a \in G : f[a] \in Int /\ L[a] \in Int /\ h[a] = f[a] + L[a]
    BY <1>1 DEF Effect
  <2> HIDE DEF f, h
  <2>2. SumFunctionOnSet(h, G) = SumFunctionOnSet(f, G) + SumFunctionOnSet(L, G)
    BY <1>1, <2>1, SumPlus
  <2> QED
    BY <2>2 DEF f, h
<1>2. SumFunctionOnSet([a \in Categories |-> Both(U, V, a)], Categories) = e + q
  BY <1>1, AccountGroups DEF BooksOn, Effect
<1>3. SumFunctionOnSet([a \in Paying |-> Both(U, V, a)], Paying) = c + r
  BY <1>1, AccountGroups DEF BooksOn, Effect
<1>4. Both(U, V, Owed) = o + p
  BY AccountGroups DEF BooksOn, Effect
<1>5. o + p \in Int /\ e + q \in Int /\ c + r \in Int
  BY DEF BooksOn, Effect
<1> QED
  BY <1>2, <1>3, <1>4, <1>5 DEF BooksOn

LEMMA TxMovesBooks ==
  ASSUME NEW T \in Seq(BillTx), NEW N \in Seq(NoteRow), NEW x \in BillTx, NEW o, NEW e, NEW c, NEW p, NEW q, NEW r,
         BooksOn(T, N, o, e, c), Effect(x.legs, p, q, r)
  PROVE  BooksOn(Append(T, x), N, o + p, e + q, c + r)
<1> DEFINE U == Append(T, x)
           L == x.legs
<1>1. ASSUME NEW a \in BillAccounts PROVE Both(T, N, a) \in Int /\ Both(U, N, a) = Both(T, N, a) + L[a]
  <2> HIDE DEF U, L
  <2>0. \A t \in BillTx : t.legs \in [BillAccounts -> Int]
    BY DEF BillTx
  <2>1. BookedOn(T, a) \in Int /\ BookedOn(U, a) = BookedOn(T, a) + L[a]
    <3>1. T \in Seq(BillTx) /\ x \in BillTx /\ a \in BillAccounts
      BY <1>1
    <3>2. BookedOn(T, a) \in Int /\ BookedOn(Append(T, x), a) = BookedOn(T, a) + x.legs[a]
      BY ONLY <2>0, <3>1, BookedAppend
    <3> QED
      BY <3>2 DEF U, L
  <2>2. BookedOn(N, a) \in Int
    <3>1. CASE N = <<>>
      BY <3>1, NothingBooked
    <3>2. CASE N # <<>>
      <4>1. N \in Seq(NoteRow) /\ N[1] \in NoteRow /\ a \in BillAccounts
        BY <1>1, <3>2
      <4>2. \A t \in NoteRow : t.legs \in [BillAccounts -> Int]
        BY DEF NoteRow
      <4> QED
        BY ONLY <4>1, <4>2, BookedAppend
    <3> QED
      BY <3>1, <3>2
  <2>3. L[a] \in Int
    BY DEF Effect, L
  <2> QED
    BY <2>1, <2>2, <2>3 DEF Both
<1>2. Effect(L, p, q, r)
  OBVIOUS
<1> HIDE DEF U, L
<1>3. BooksOn(U, N, o + p, e + q, c + r)
  BY <1>1, <1>2, BooksMove
<1> QED
  BY <1>3 DEF U

LEMMA NoteMovesBooks ==
  ASSUME NEW T \in Seq(BillTx), Len(T) > 0, NEW N \in Seq(NoteRow), NEW x \in NoteRow, NEW o, NEW e, NEW c,
         NEW p, NEW q, NEW r, BooksOn(T, N, o, e, c), Effect(x.legs, p, q, r)
  PROVE  BooksOn(T, Append(N, x), o + p, e + q, c + r)
<1> DEFINE V == Append(N, x)
           L == x.legs
<1>1. ASSUME NEW a \in BillAccounts PROVE Both(T, N, a) \in Int /\ Both(T, V, a) = Both(T, N, a) + L[a]
  <2> HIDE DEF V, L
  <2>0. (\A t \in NoteRow : t.legs \in [BillAccounts -> Int]) /\ \A t \in BillTx : t.legs \in [BillAccounts -> Int]
    BY DEF NoteRow, BillTx
  <2>1. BookedOn(N, a) \in Int /\ BookedOn(V, a) = BookedOn(N, a) + L[a]
    <3>1. N \in Seq(NoteRow) /\ x \in NoteRow /\ a \in BillAccounts
      BY <1>1
    <3>2. BookedOn(N, a) \in Int /\ BookedOn(Append(N, x), a) = BookedOn(N, a) + x.legs[a]
      BY ONLY <2>0, <3>1, BookedAppend
    <3> QED
      BY <3>2 DEF V, L
  <2>2. BookedOn(T, a) \in Int
    <3>1. T \in Seq(BillTx) /\ T[1] \in BillTx /\ a \in BillAccounts
      BY <1>1
    <3> QED
      BY ONLY <2>0, <3>1, BookedAppend
  <2>3. L[a] \in Int
    BY DEF Effect, L
  <2> QED
    BY <2>1, <2>2, <2>3 DEF Both
<1>2. Effect(L, p, q, r)
  OBVIOUS
<1> HIDE DEF V, L
<1>3. BooksOn(T, V, o + p, e + q, c + r)
  BY <1>1, <1>2, BooksMove
<1> QED
  BY <1>3 DEF V

LEMMA NoBooks == BooksOn(<<>>, <<>>, 0, 0, 0)
<1>1. ASSUME NEW G, IsFiniteSet(G), G \subseteq BillAccounts
      PROVE  SumFunctionOnSet([a \in G |-> Both(<<>>, <<>>, a)], G) = 0
  <2> DEFINE f == [a \in G |-> Both(<<>>, <<>>, a)]
  <2>1. \A a \in G : f[a] = 0
    BY <1>1, NothingBooked DEF Both
  <2> HIDE DEF f
  <2>2. SumFunctionOnSet(f, G) = 0
    BY <1>1, <2>1, SumZero
  <2> QED
    BY <2>2 DEF f
<1>2. Both(<<>>, <<>>, Owed) = 0
  BY NothingBooked, AccountGroups DEF Both
<1> QED
  BY <1>1, <1>2, AccountGroups DEF BooksOn

(* A row that moves on takes no transaction or one more; copies of it stay *)
(* copies.                                                                 *)
Onward(b, d) ==
    \/ d.txs = b.txs /\ d.amt = b.amt /\ d.cat = b.cat
    \/ Len(d.txs) = Len(b.txs) + 1

LEMMA AskSurvives ==
  ASSUME NEW x, NEW b, NEW d, AskOK(x, b), b # NoSuchBill => IsBill(b) /\ Onward(b, d), d # NoSuchBill
  PROVE  AskOK(x, d)
<1>1. x.op \in WithCopy => CopyOf(x.read, d)
  <2> SUFFICES ASSUME x.op \in WithCopy PROVE CopyOf(x.read, d)
    OBVIOUS
  <2>1. b # NoSuchBill /\ CopyOf(x.read, b)
    BY DEF AskOK
  <2>2. Len(x.read.txs) \in Nat /\ Len(b.txs) \in Nat
    BY <2>1 DEF CopyOf, IsBill
  <2> QED
    BY <2>1, <2>2 DEF CopyOf, Onward
<1> QED
  BY <1>1 DEF AskOK

LEMMA BillsInitially == ASSUME BillsInit PROVE BillInv
  BY DEF BillsInit, BillInv, AskOK, WithCopy, Idle

LEMMA IdleIsOK == ASSUME NEW b PROVE AskOK(Idle, b)
  BY DEF AskOK, WithCopy, Idle

(* A request that reads changes nothing but what it holds.                 *)
LEMMA BillReads ==
  ASSUME BillInv, NEW c \in Actors, NEW x, Reads(c, x), origin = "card_statement" \/ AskOK(x, bill)
  PROVE  BillInv'
<1>1. UNCHANGED <<origin, bill, noted>> /\ ask' = [ask EXCEPT ![c] = x]
  BY DEF Reads, Ask
<1>2. CASE origin = "card_statement"
  BY <1>1, <1>2 DEF BillInv
<1>3. CASE origin # "card_statement"
  <2>1. ask' = [d \in Actors |-> ask'[d]] /\ \A d \in Actors : AskOK(ask'[d], bill)
    BY <1>1, <1>3 DEF BillInv
  <2> QED
    BY <1>1, <1>3, <2>1 DEF BillInv
<1> QED
  BY <1>2, <1>3

(* A write is over, and keeps the books where it went through.             *)
LEMMA BillWritten ==
  ASSUME BillInv, origin # "card_statement", NEW c \in Actors, Done(c), UNCHANGED origin, bill # NoSuchBill,
         noted' \in Seq(NoteRow), BillOK(bill', noted'), Onward(bill, bill')
  PROVE  BillInv'
<1>1. ask = [d \in Actors |-> ask[d]] /\ \A d \in Actors : AskOK(ask[d], bill)
  BY DEF BillInv
<1>2. IsBill(bill) /\ bill' # NoSuchBill
  <2>1. IsBill(bill) /\ DOMAIN bill' = BillFields
    BY DEF BillInv, BillOK, IsBill
  <2>2. DOMAIN NoSuchBill = {"status"} /\ "amt" \in BillFields
    BY DEF NoSuchBill, BillFields
  <2>3. bill' # NoSuchBill
    BY <2>1, <2>2
  <2> QED
    BY <2>1, <2>3
<1>3. ask' = [ask EXCEPT ![c] = Idle]
  BY DEF Done, Ask
<1>4. ask' = [d \in Actors |-> ask'[d]]
  BY <1>1, <1>3
<1>5. \A d \in Actors : AskOK(ask'[d], bill')
  <2> TAKE d \in Actors
  <2>1. CASE d = c
    <3>1. ask'[d] = Idle
      BY <1>1, <1>3, <2>1
    <3> QED
      BY <3>1, IdleIsOK
  <2>2. CASE d # c
    <3>1. ask'[d] = ask[d] /\ AskOK(ask[d], bill)
      BY <1>1, <1>3, <2>2
    <3>2. AskOK(ask[d], bill')
      BY <1>2, <3>1, AskSurvives
    <3> QED
      BY <3>1, <3>2
  <2> QED
    BY <2>1, <2>2
<1> QED
  BY <1>2, <1>4, <1>5 DEF BillInv

LEMMA BillUntouched ==
  ASSUME BillInv, origin # "card_statement", NEW c \in Actors, Done(c), UNCHANGED <<origin, bill, noted>>,
         bill # NoSuchBill
  PROVE  BillInv'
<1>1. noted' \in Seq(NoteRow) /\ BillOK(bill', noted')
  BY DEF BillInv
<1>2. Onward(bill, bill')
  BY DEF Onward
<1> QED
  BY <1>1, <1>2, BillWritten

(* A new bill.                                                             *)
LEMMA BillMade ==
  ASSUME BillInv, origin # "card_statement", bill = NoSuchBill, UNCHANGED <<origin, noted, ask>>,
         BillOK(bill', <<>>), bill' # NoSuchBill
  PROVE  BillInv'
<1>1. noted = <<>> /\ noted \in Seq(NoteRow) /\ ask = [d \in Actors |-> ask[d]] /\ \A d \in Actors : AskOK(ask[d], bill)
  BY DEF BillInv
<1>2. \A d \in Actors : AskOK(ask[d], bill')
  BY <1>1 DEF AskOK
<1> QED
  BY <1>1, <1>2 DEF BillInv

LEMMA NewBill ==
  ASSUME NEW r \in NewBills, NEW status \in {"forecast", "paid"}, NEW txs \in Seq(BillTx), Len(txs) > 0,
         NEW b, b = NewBillItem(r, status, txs)
  PROVE  /\ IsBill(b) /\ b.status = status /\ b.amt = r.amt /\ b.cat = r.cat /\ b.acct = r.acct
         /\ b.txs = txs /\ b.credited = 0 /\ b # NoSuchBill
<1>1. r.amt \in PositiveNat /\ r.cat \in Categories /\ r.acct \in Paying
  BY BillsAssumption DEF ValidBill
<1>2. /\ DOMAIN b = BillFields /\ b.status = status /\ b.amt = r.amt /\ b.cat = r.cat /\ b.acct = r.acct
      /\ b.txs = txs /\ b.credited = 0
  BY DEF NewBillItem, OpenKey, ScheduleKey, BillFields
<1>3. DOMAIN NoSuchBill = {"status"} /\ "amt" \in BillFields
  BY DEF NoSuchBill, BillFields
<1>4. IsBill(b)
  BY <1>1, <1>2 DEF IsBill
<1>5. b # NoSuchBill
  BY <1>2, <1>3
<1> QED
  BY <1>2, <1>4, <1>5

LEMMA Recognized ==
  ASSUME NEW r \in NewBills
  PROVE  LET t == Tx("recognition", Recognition(r))
         IN  /\ t \in BillTx /\ <<t>> \in Seq(BillTx) /\ Len(<<t>>) = 1
             /\ r.amt \in PositiveNat /\ BooksOn(<<t>>, <<>>, -r.amt, r.amt, 0)
<1> DEFINE t == Tx("recognition", Recognition(r))
<1>1. r.amt \in PositiveNat /\ r.amt \in Int /\ r.cat \in Categories
  BY BillsAssumption DEF ValidBill, PositiveNat
<1>2. Effect(Recognition(r), -r.amt, r.amt, 0)
  BY <1>1, RecognitionEffect
<1>3. t \in BillTx /\ t.legs = Recognition(r)
  BY <1>2 DEF Effect, Tx, BillTx
<1> HIDE DEF t
<1>4. <<>> \in Seq(BillTx) /\ <<>> \in Seq(NoteRow) /\ <<t>> = Append(<<>>, t) /\ <<t>> \in Seq(BillTx) /\ Len(<<t>>) = 1
  BY <1>3
<1>5. BooksOn(Append(<<>>, t), <<>>, 0 + (-r.amt), 0 + r.amt, 0 + 0)
  BY <1>2, <1>3, <1>4, NoBooks, TxMovesBooks
<1>6. 0 + (-r.amt) = -r.amt /\ 0 + r.amt = r.amt /\ 0 + 0 = 0
  BY <1>1
<1>7. BooksOn(<<t>>, <<>>, -r.amt, r.amt, 0)
  BY <1>4, <1>5, <1>6
<1> QED
  BY <1>1, <1>3, <1>4, <1>7 DEF t

LEMMA CreateKeeps ==
  ASSUME BillInv, NEW r \in NewBills, Create(r) \/ RecordInvoice(r) \/ CloseStatement(r)
  PROVE  BillInv'
<1> DEFINE t == Tx("recognition", Recognition(r))
<1>1. /\ t \in BillTx /\ <<t>> \in Seq(BillTx) /\ Len(<<t>>) = 1
      /\ r.amt \in PositiveNat /\ BooksOn(<<t>>, <<>>, -r.amt, r.amt, 0)
  BY Recognized
<1>2. r.amt \in Int /\ -r.amt \in Int
  BY <1>1 DEF PositiveNat
<1>3. CASE Create(r)
  <2>1. /\ origin # "card_statement" /\ bill = NoSuchBill /\ UNCHANGED <<origin, noted, ask>>
        /\ bill' = NewBillItem(r, "forecast", <<t>>)
    BY <1>3 DEF Create, Exists
  <2> HIDE DEF t
  <2>2. /\ IsBill(bill') /\ bill'.status = "forecast" /\ bill'.amt = r.amt /\ bill'.txs = <<t>>
        /\ bill'.credited = 0 /\ bill' # NoSuchBill
    <3> DEFINE T == <<t>>
    <3>1. T \in Seq(BillTx) /\ Len(T) > 0
      BY <1>1
    <3>2. bill' = NewBillItem(r, "forecast", T)
      BY <2>1
    <3> HIDE DEF T
    <3>3. /\ IsBill(bill') /\ bill'.status = "forecast" /\ bill'.amt = r.amt /\ bill'.txs = T
          /\ bill'.credited = 0 /\ bill' # NoSuchBill
      BY <3>1, <3>2, NewBill
    <3> QED
      BY <3>3 DEF T
  <2>3. r.amt - 0 = r.amt
    BY <1>2
  <2>4. BillOK(bill', <<>>)
    BY <1>1, <2>2, <2>3 DEF BillOK
  <2> QED
    BY <2>1, <2>2, <2>4, BillMade
<1>4. CASE RecordInvoice(r)
  <2> DEFINE u == Tx("settlement", Settlement(r, r.amt, NoCat, r.acct))
  <2>1. /\ origin # "card_statement" /\ bill = NoSuchBill /\ UNCHANGED <<origin, noted, ask>>
        /\ bill' = NewBillItem(r, "paid", <<t, u>>)
    BY <1>4 DEF RecordInvoice, Exists
  <2>2. r.acct \in Paying /\ CanPay(r, r.amt, NoCat)
    BY <1>1, BillsAssumption DEF ValidBill, CanPay, PositiveNat
  <2>3. Effect(Settlement(r, r.amt, NoCat, r.acct), r.amt, r.amt - r.amt, -r.amt)
    BY <1>2, <2>1, <2>2, SettlementEffect
  <2>4. u \in BillTx /\ u.legs = Settlement(r, r.amt, NoCat, r.acct)
    BY <2>3 DEF Effect, Tx, BillTx
  <2> HIDE DEF t, u
  <2>5. /\ <<>> \in Seq(NoteRow) /\ <<t, u>> = Append(<<t>>, u) /\ <<t, u>> \in Seq(BillTx)
        /\ Len(<<t, u>>) = 2 /\ (<<t, u>>)[2] = u
    BY <1>1, <2>4
  <2>6. BooksOn(Append(<<t>>, u), <<>>, (-r.amt) + r.amt, r.amt + (r.amt - r.amt), 0 + (-r.amt))
    BY <1>1, <2>3, <2>4, <2>5, TxMovesBooks
  <2>7. /\ IsBill(bill') /\ bill'.status = "paid" /\ bill'.amt = r.amt /\ bill'.txs = <<t, u>>
        /\ bill'.credited = 0 /\ bill' # NoSuchBill
    <3> DEFINE T == <<t, u>>
    <3>1. T \in Seq(BillTx) /\ Len(T) > 0
      BY <2>5
    <3>2. bill' = NewBillItem(r, "paid", T)
      BY <2>1
    <3> HIDE DEF T
    <3>3. /\ IsBill(bill') /\ bill'.status = "paid" /\ bill'.amt = r.amt /\ bill'.txs = T
          /\ bill'.credited = 0 /\ bill' # NoSuchBill
      BY <3>1, <3>2, NewBill
    <3> QED
      BY <3>3 DEF T
  <2>8. /\ (-r.amt) + r.amt = 0 /\ r.amt + (r.amt - r.amt) = (r.amt + 0) - 0 /\ 0 + (-r.amt) = 0 - (r.amt + 0)
        /\ r.amt - r.amt = 0 /\ -r.amt = -(r.amt + 0)
    BY <1>2
  <2>9. BooksOn(<<t, u>>, <<>>, 0, (r.amt + 0) - 0, 0 - (r.amt + 0)) /\ Effect(u.legs, r.amt, 0, -(r.amt + 0))
    BY <2>3, <2>4, <2>5, <2>6, <2>8
  <2>10. LastLegs(bill') = u.legs
    BY <2>5, <2>7 DEF LastLegs
  <2>11. BillOK(bill', <<>>)
    BY <2>7, <2>9, <2>10 DEF BillOK
  <2> QED
    BY <2>1, <2>7, <2>11, BillMade
<1>5. CASE CloseStatement(r)
  BY <1>5 DEF CloseStatement, BillInv
<1> QED
  BY <1>3, <1>4, <1>5

(* Reading for a settlement.                                               *)
LEMMA AskSettleKeeps ==
  ASSUME BillInv, NEW c \in Actors,
         (\E r \in SettleRequests : AskSettle(c, r)) \/ (c = BillJob /\ JobFindsDue) \/ SettleChecks(c)
  PROVE  BillInv'
<1>0. CASE origin = "card_statement"
  BY <1>0 DEF BillInv, AskSettle, JobFindsDue, SettleChecks, Reads
<1>1. CASE origin # "card_statement"
  <2>0. bill # NoSuchBill => bill.amt \in Int
    BY <1>1 DEF BillInv, BillOK, IsBill, PositiveNat
  <2>1. CASE \E r \in SettleRequests : AskSettle(c, r)
    <3>1. PICK r \in SettleRequests : AskSettle(c, r)
      BY <2>1
    <3>2. r.paid \in Int /\ r.diff \in Categories \cup {NoCat}
      BY BillsAssumption DEF ValidSettle
    <3> DEFINE paid == IF r.paid = 0 THEN bill.amt ELSE r.paid
               x    == [op |-> "settle-check", diff |-> r.diff, paid |-> paid]
    <3>3. Reads(c, x) /\ bill # NoSuchBill
      BY <3>1 DEF AskSettle, Exists
    <3>4. /\ x.op = "settle-check" /\ x.diff = r.diff /\ x.paid = paid /\ paid \in Int
          /\ DOMAIN x = {"op", "diff", "paid"}
      BY <2>0, <3>2, <3>3
    <3> HIDE DEF x, paid
    <3>5. AskOK(x, bill)
      BY <3>2, <3>3, <3>4 DEF AskOK, WithCopy
    <3> QED
      BY <3>3, <3>5, BillReads
  <2>2. CASE c = BillJob /\ JobFindsDue
    <3> DEFINE x == [op |-> "settle-check", diff |-> NoCat, paid |-> bill.amt]
    <3>1. Reads(c, x) /\ bill # NoSuchBill
      BY <2>2 DEF JobFindsDue, Exists
    <3>2. /\ x.op = "settle-check" /\ x.diff = NoCat /\ x.paid = bill.amt /\ bill.amt \in Int
          /\ DOMAIN x = {"op", "diff", "paid"}
      BY <2>0, <3>1
    <3> HIDE DEF x
    <3>3. AskOK(x, bill)
      BY <3>1, <3>2 DEF AskOK, WithCopy
    <3> QED
      BY <3>1, <3>3, BillReads
  <2>3. CASE SettleChecks(c)
    <3>1. AskOK(ask[c], bill) /\ ask[c].op = "settle-check"
      BY <1>1, <2>3 DEF BillInv, SettleChecks, AskIs
    <3>2. PICK x : Reads(c, x) /\ x = IF bill.acct \in SyncedAccts THEN Idle ELSE [ask[c] EXCEPT !.op = "settle-plan"]
      BY <2>3 DEF SettleChecks
    <3>3. CASE x = Idle
      BY <3>2, <3>3, IdleIsOK, BillReads
    <3>4. CASE x = [ask[c] EXCEPT !.op = "settle-plan"]
      <4> DEFINE y == ask[c]
      <4>1. /\ y.op = "settle-check" /\ y.paid \in Int /\ y.diff \in Categories \cup {NoCat}
            /\ {"op", "paid", "diff"} \subseteq DOMAIN y /\ bill # NoSuchBill
        BY <3>1 DEF AskOK, WithCopy
      <4>2. x = [y EXCEPT !.op = "settle-plan"]
        BY <3>4
      <4> HIDE DEF y
      <4>3. /\ x.op = "settle-plan" /\ x.paid = y.paid /\ x.diff = y.diff
            /\ {"op", "paid", "diff"} \subseteq DOMAIN x
        BY <4>1, <4>2
      <4>4. AskOK(x, bill)
        BY <4>1, <4>3 DEF AskOK, WithCopy
      <4> QED
        BY <3>2, <4>4, BillReads
    <3> QED
      BY <3>2, <3>3, <3>4
  <2> QED
    BY <2>1, <2>2, <2>3
<1> QED
  BY <1>0, <1>1

(* The plan of a settlement, made of what the bill is now.                 *)
LEMMA SettlementPlanned ==
  ASSUME BillInv, origin # "card_statement", bill # NoSuchBill, NEW c \in Actors, NEW paid \in Int,
         NEW diff \in Categories \cup {NoCat}, NEW acct \in Paying, CanPay(bill, paid, diff),
         Reads(c, [op |-> "settle", read |-> bill, acct |-> acct,
                   tx |-> Tx("settlement", Settlement(bill, paid, diff, acct))])
  PROVE  BillInv'
<1> DEFINE t == Tx("settlement", Settlement(bill, paid, diff, acct))
           x == [op |-> "settle", read |-> bill, acct |-> acct, tx |-> t]
<1>1. IsBill(bill) /\ bill.amt \in Int
  BY DEF BillInv, BillOK, IsBill, PositiveNat
<1>2. Effect(Settlement(bill, paid, diff, acct), bill.amt, paid - bill.amt, -paid)
  BY <1>1, SettlementEffect
<1>3. t \in BillTx /\ t.legs = Settlement(bill, paid, diff, acct)
  BY <1>2 DEF Effect, Tx, BillTx
<1>4. Reads(c, x) /\ x.op = "settle" /\ x.read = bill /\ x.acct = acct /\ x.tx = t
  OBVIOUS
<1> HIDE DEF t, x
<1>5. paid - bill.amt \in Int /\ -paid = -(bill.amt + (paid - bill.amt))
  BY <1>1
<1>6. \E s \in Int : Effect(t.legs, bill.amt, s, -(bill.amt + s))
  BY <1>2, <1>3, <1>5
<1>7. CopyOf(bill, bill)
  BY <1>1 DEF CopyOf, IsBill
<1>8. AskOK(x, bill)
  BY <1>3, <1>4, <1>6, <1>7 DEF AskOK, WithCopy
<1> QED
  BY <1>4, <1>8, BillReads

LEMMA SettlePlansKeeps ==
  ASSUME BillInv, NEW c \in Actors,
         SettlePlans(c) \/ (\E a \in SyncedAccts, b \in NewBills : PlanSettleInto(c, a, b.amt))
  PROVE  BillInv'
<1>0. CASE origin = "card_statement"
  BY <1>0 DEF BillInv, SettlePlans, PlanSettleInto, Reads
<1>1. CASE origin # "card_statement" /\ SettlePlans(c)
  <2>1. AskOK(ask[c], bill) /\ ask[c].op = "settle-plan"
    BY <1>1 DEF BillInv, SettlePlans, AskIs
  <2>2. ask[c].paid \in Int /\ ask[c].diff \in Categories \cup {NoCat} /\ bill # NoSuchBill
    BY <2>1 DEF AskOK
  <2>3. bill.acct \in Paying
    BY <1>1, <2>2 DEF BillInv, BillOK, IsBill
  <2>4. CASE Reads(c, Idle)
    BY <2>4, IdleIsOK, BillReads
  <2>5. CASE ~Reads(c, Idle)
    <3>1. /\ CanPay(bill, ask[c].paid, ask[c].diff)
          /\ Reads(c, [op |-> "settle", read |-> bill, acct |-> bill.acct,
                       tx |-> Tx("settlement", Settlement(bill, ask[c].paid, ask[c].diff, bill.acct))])
      BY <1>1, <2>5 DEF SettlePlans
    <3> QED
      BY <1>1, <2>2, <2>3, <3>1, SettlementPlanned
  <2> QED
    BY <2>4, <2>5
<1>2. CASE origin # "card_statement" /\ \E a \in SyncedAccts, b \in NewBills : PlanSettleInto(c, a, b.amt)
  <2>1. PICK a \in SyncedAccts, b \in NewBills : PlanSettleInto(c, a, b.amt)
    BY <1>2
  <2>2. a \in Paying /\ b.amt \in Int
    BY BillsAssumption DEF Paying, ValidBill, PositiveNat
  <2> QED
    BY <1>2, <2>1, <2>2, SettlementPlanned DEF PlanSettleInto, Exists
<1> QED
  BY <1>0, <1>1, <1>2

(* A row with one transaction more.                                        *)
LEMMA OneMore ==
  ASSUME NEW b, IsBill(b), NEW x \in BillTx, NEW d, d.txs = Append(b.txs, x)
  PROVE  /\ d.txs \in Seq(BillTx) /\ Len(d.txs) = Len(b.txs) + 1 /\ Len(d.txs) > 0
         /\ LastLegs(d) = x.legs /\ Onward(b, d)
<1>1. b.txs \in Seq(BillTx) /\ Len(b.txs) \in Nat
  BY DEF IsBill
<1>2. d.txs \in Seq(BillTx) /\ Len(d.txs) = Len(b.txs) + 1 /\ d.txs[Len(b.txs) + 1] = x
  BY <1>1
<1> QED
  BY <1>1, <1>2 DEF LastLegs, Onward

(* Settled while it was still the bill the plan was made of.               *)
LEMMA SettleKeeps == ASSUME BillInv, NEW c \in Actors, Settle(c) PROVE BillInv'
<1>0. CASE origin = "card_statement"
  BY <1>0 DEF BillInv, Settle, Writes
<1>1. CASE origin # "card_statement"
  <2> DEFINE x == ask[c]
  <2>1. AskOK(x, bill) /\ x.op = "settle"
    BY <1>1 DEF BillInv, Settle, AskIs
  <2>2. /\ bill # NoSuchBill /\ CopyOf(x.read, bill) /\ x.acct \in Paying /\ x.tx \in BillTx
        /\ \E s \in Int : Effect(x.tx.legs, x.read.amt, s, -(x.read.amt + s))
    BY <2>1 DEF AskOK, WithCopy
  <2>3. BillOK(bill, noted) /\ IsBill(bill) /\ noted \in Seq(NoteRow)
    BY <1>1, <2>2 DEF BillInv, BillOK
  <2>4. /\ Done(c) /\ UNCHANGED <<origin, noted>>
        /\ bill' = IF ForecastGuard(x.read) THEN PaidBill(bill, x.tx, x.acct) ELSE bill
    BY DEF Settle, Writes
  <2> HIDE DEF x
  <2>5. CASE ~ForecastGuard(x.read)
    BY <1>1, <2>2, <2>4, <2>5, BillUntouched
  <2>6. CASE ForecastGuard(x.read)
    <3>1. bill.status = "forecast" /\ x.read.amt = bill.amt
      BY <2>2, <2>6 DEF ForecastGuard, CopyOf
    <3>2. PICK s \in Int : Effect(x.tx.legs, bill.amt, s, -(bill.amt + s))
      BY <2>2, <3>1
    <3>3. /\ DOMAIN bill' = BillFields /\ bill'.status = "paid" /\ bill'.amt = bill.amt /\ bill'.cat = bill.cat
          /\ bill'.acct = x.acct /\ bill'.txs = Append(bill.txs, x.tx) /\ bill'.credited = bill.credited
      BY <2>3, <2>4, <2>6 DEF PaidBill, IsBill, BillFields
    <3>4. /\ bill'.txs \in Seq(BillTx) /\ Len(bill'.txs) > 0 /\ LastLegs(bill') = x.tx.legs /\ Onward(bill, bill')
      BY <2>2, <2>3, <3>3, OneMore
    <3>5. IsBill(bill')
      BY <2>2, <2>3, <3>3, <3>4 DEF IsBill
    <3>6. BooksOn(bill.txs, noted, -bill.amt, bill.amt - bill.credited, bill.credited)
      BY <2>3, <3>1 DEF BillOK
    <3>7. BooksOn(bill'.txs, noted, (-bill.amt) + bill.amt, (bill.amt - bill.credited) + s,
                  bill.credited + (-(bill.amt + s)))
      <4>1. bill.txs \in Seq(BillTx)
        BY <2>3 DEF IsBill
      <4> QED
        BY <2>2, <2>3, <3>2, <3>3, <3>6, <4>1, TxMovesBooks
    <3>8. bill.amt \in Int /\ bill.credited \in Int
      BY <2>3 DEF IsBill, PositiveNat
    <3>9. /\ (-bill.amt) + bill.amt = 0 /\ (bill.amt - bill.credited) + s = (bill.amt + s) - bill.credited
          /\ bill.credited + (-(bill.amt + s)) = bill.credited - (bill.amt + s)
      BY <3>8
    <3>10. BooksOn(bill'.txs, noted, 0, (bill.amt + s) - bill.credited, bill.credited - (bill.amt + s))
      BY <3>7, <3>9
    <3>11. BillOK(bill', noted)
      BY <3>2, <3>3, <3>4, <3>5, <3>10 DEF BillOK
    <3> QED
      BY <1>1, <2>2, <2>3, <2>4, <3>4, <3>11, BillWritten
  <2> QED
    BY <2>5, <2>6
<1> QED
  BY <1>0, <1>1

(* Reading for what only needs a copy of the row.                          *)
LEMMA CopyIsRead ==
  ASSUME BillInv, origin # "card_statement", bill # NoSuchBill, NEW c \in Actors, NEW x, Reads(c, x),
         x.op \in {"cancel", "restore", "unsettle", "edit", "credit"}, x.read = bill,
         x.op = "edit" => x.next.amt \in PositiveNat /\ x.next.cat \in Categories /\ x.next.acct \in Paying,
         x.op = "credit" => x.note \in DOMAIN CreditNotes
  PROVE  BillInv'
<1>1. IsBill(bill)
  BY DEF BillInv, BillOK
<1>2. CopyOf(bill, bill)
  BY <1>1 DEF CopyOf, IsBill
<1>3. AskOK(x, bill)
  BY <1>2 DEF AskOK, WithCopy
<1> QED
  BY <1>3, BillReads

LEMMA RevisedIsValid ==
  ASSUME NEW b, IsBill(b), NEW e \in BillEdits, NEW r, r = Revised(b, e)
  PROVE  r.amt \in PositiveNat /\ r.cat \in Categories /\ r.acct \in Paying
<1>1. /\ "amt" \in DOMAIN e => e.amt \in PositiveNat
      /\ "cat" \in DOMAIN e => e.cat \in Categories
      /\ "acct" \in DOMAIN e => e.acct \in Paying
  BY BillsAssumption DEF ValidEdit
<1>2. {"amt", "cat", "acct"} \subseteq DOMAIN b /\ b.amt \in PositiveNat /\ b.cat \in Categories /\ b.acct \in Paying
  BY DEF IsBill, BillFields
<1> QED
  BY <1>1, <1>2 DEF Revised

LEMMA ReadingKeeps ==
  ASSUME BillInv, NEW c \in Actors,
         ReadCancel(c) \/ ReadRestore(c) \/ ReadUnsettle(c) \/ (\E e \in BillEdits : ReadEdit(c, e))
           \/ (\E n \in DOMAIN CreditNotes : ReadCredit(c, n))
  PROVE  BillInv'
<1>0. CASE origin = "card_statement"
  BY <1>0 DEF BillInv, ReadCancel, ReadRestore, ReadUnsettle, ReadEdit, ReadCredit, Reads
<1>1. CASE origin # "card_statement"
  <2>1. CASE ReadCancel(c) \/ ReadRestore(c) \/ ReadUnsettle(c)
    <3>1. /\ bill # NoSuchBill
          /\ \E op \in {"cancel", "restore", "unsettle"} : Reads(c, [op |-> op, read |-> bill])
      BY <2>1 DEF ReadCancel, ReadRestore, ReadUnsettle, Exists
    <3>2. PICK op \in {"cancel", "restore", "unsettle"} : Reads(c, [op |-> op, read |-> bill])
      BY <3>1
    <3> QED
      BY <1>1, <3>1, <3>2, CopyIsRead
  <2>2. CASE \E e \in BillEdits : ReadEdit(c, e)
    <3>1. PICK e \in BillEdits : ReadEdit(c, e)
      BY <2>2
    <3>2. bill # NoSuchBill
      BY <3>1 DEF ReadEdit, Exists
    <3> DEFINE r == Revised(bill, e)
               x == [op |-> "edit", read |-> bill, next |-> r]
    <3>3. Reads(c, x)
      BY <3>1 DEF ReadEdit
    <3>4. x.op = "edit" /\ x.read = bill /\ x.next = r
      OBVIOUS
    <3>5. IsBill(bill)
      BY <1>1, <3>2 DEF BillInv, BillOK
    <3>6. r.amt \in PositiveNat /\ r.cat \in Categories /\ r.acct \in Paying
      BY <3>5, RevisedIsValid
    <3> HIDE DEF r, x
    <3> QED
      BY <1>1, <3>2, <3>3, <3>4, <3>6, CopyIsRead
  <2>3. CASE \E n \in DOMAIN CreditNotes : ReadCredit(c, n)
    <3>1. PICK n \in DOMAIN CreditNotes : ReadCredit(c, n)
      BY <2>3
    <3>2. bill # NoSuchBill
      BY <3>1 DEF ReadCredit, Exists
    <3> DEFINE x == [op |-> "credit", read |-> bill, note |-> n]
    <3>3. Reads(c, x)
      BY <3>1 DEF ReadCredit
    <3>4. x.op = "credit" /\ x.read = bill /\ x.note = n
      OBVIOUS
    <3> HIDE DEF x
    <3> QED
      BY <1>1, <3>2, <3>3, <3>4, CopyIsRead
  <2> QED
    BY <2>1, <2>2, <2>3
<1> QED
  BY <1>0, <1>1

(* Canceled while it was still the bill that was read.                     *)
LEMMA CancelKeeps == ASSUME BillInv, NEW c \in Actors, Cancel(c) PROVE BillInv'
<1>0. CASE origin = "card_statement"
  BY <1>0 DEF BillInv, Cancel, Writes
<1>1. CASE origin # "card_statement"
  <2> DEFINE read == ask[c].read
             t    == Tx("adjustment", Minus(Recognition(read)))
  <2>1. AskOK(ask[c], bill) /\ ask[c].op = "cancel"
    BY <1>1 DEF BillInv, Cancel, AskIs
  <2>2. bill # NoSuchBill /\ CopyOf(read, bill)
    BY <2>1 DEF AskOK, WithCopy
  <2>3. BillOK(bill, noted) /\ IsBill(bill) /\ noted \in Seq(NoteRow)
    BY <1>1, <2>2 DEF BillInv, BillOK
  <2>4. /\ Done(c) /\ UNCHANGED <<origin, noted>>
        /\ bill' = IF ForecastGuard(read) THEN CanceledBill(bill, read) ELSE bill
    BY DEF Cancel, Writes
  <2>5. CASE ~ForecastGuard(read)
    BY <1>1, <2>2, <2>4, <2>5, BillUntouched
  <2>6. CASE ForecastGuard(read)
    <3>1. bill.status = "forecast" /\ read.amt = bill.amt /\ read.cat = bill.cat
      BY <2>2, <2>6 DEF ForecastGuard, CopyOf
    <3>2. /\ DOMAIN bill' = BillFields /\ bill'.status = "canceled" /\ bill'.amt = bill.amt /\ bill'.cat = bill.cat
          /\ bill'.acct = bill.acct /\ bill'.txs = Append(bill.txs, t) /\ bill'.credited = bill.credited
      BY <1>1, <2>3, <2>4, <2>6 DEF CanceledBill, IsBill, BillFields
    <3>3. /\ bill.amt \in Int /\ bill.credited \in Int /\ bill.cat \in Categories /\ bill.acct \in Paying
          /\ bill.txs \in Seq(BillTx)
      BY <2>3 DEF IsBill, PositiveNat
    <3>4. Effect(Recognition(read), -bill.amt, bill.amt, 0)
      BY <3>1, <3>3, RecognitionEffect
    <3>5. Effect(Minus(Recognition(read)), -(-bill.amt), -bill.amt, -0)
      BY <3>4, EffectUndone
    <3>6. Effect(Minus(Recognition(read)), bill.amt, -bill.amt, 0)
      BY <3>3, <3>5
    <3>7. Effect(t.legs, bill.amt, -bill.amt, 0) /\ t \in BillTx
      BY <3>6 DEF Effect, Tx, BillTx
    <3> HIDE DEF read, t
    <3>8. bill'.txs \in Seq(BillTx) /\ Len(bill'.txs) > 0 /\ LastLegs(bill') = t.legs /\ Onward(bill, bill')
      BY <2>3, <3>2, <3>7, OneMore
    <3>9. IsBill(bill')
      BY <2>3, <3>2, <3>3, <3>8 DEF IsBill
    <3>10. BooksOn(bill.txs, noted, -bill.amt, bill.amt - bill.credited, bill.credited)
      BY <2>3, <3>1 DEF BillOK
    <3>11. BooksOn(bill'.txs, noted, (-bill.amt) + bill.amt, (bill.amt - bill.credited) + (-bill.amt),
                   bill.credited + 0)
      BY <2>3, <3>2, <3>3, <3>7, <3>10, TxMovesBooks
    <3>12. /\ (-bill.amt) + bill.amt = 0 /\ (bill.amt - bill.credited) + (-bill.amt) = -bill.credited
           /\ bill.credited + 0 = bill.credited
      BY <3>3
    <3>13. BooksOn(bill'.txs, noted, 0, -bill.credited, bill.credited)
      BY <3>11, <3>12
    <3>14. BillOK(bill', noted)
      BY <3>2, <3>7, <3>8, <3>9, <3>13 DEF BillOK
    <3> QED
      BY <1>1, <2>2, <2>3, <2>4, <3>8, <3>14, BillWritten
  <2> QED
    BY <2>5, <2>6
<1> QED
  BY <1>0, <1>1

(* The last transaction taken back: a canceled bill owes its amount again, *)
(* a paid one is as it was before it was settled.                          *)
LEMMA ReversalKeeps ==
  ASSUME BillInv, NEW c \in Actors, NEW status \in {"canceled", "paid"}, NEW op \in {"restore", "unsettle"},
         origin # "card_statement", ReverseLast(c, op, status)
  PROVE  BillInv'
<1> DEFINE read == ask[c].read
           t    == Reversal(read)
<1> DEFINE cond == bill.status = status /\ Len(bill.txs) = Len(read.txs) /\ Len(read.txs) \notin undone
<1>1. /\ ask[c].op = op /\ Done(c) /\ UNCHANGED <<origin, noted>>
      /\ bill' = IF cond THEN Reopened(bill, t) ELSE bill
  BY DEF ReverseLast, Writes, AskIs
<1>2. AskOK(ask[c], bill) /\ bill # NoSuchBill /\ CopyOf(read, bill)
  BY <1>1 DEF BillInv, AskOK, WithCopy
<1>3. BillOK(bill, noted) /\ IsBill(bill) /\ noted \in Seq(NoteRow)
  BY <1>2 DEF BillInv, BillOK
<1>4. CASE ~cond
  <2>1. UNCHANGED <<origin, bill, noted>>
    BY <1>1, <1>4
  <2> QED
    BY <1>1, <1>2, <2>1, BillUntouched
<1>5. CASE cond
  <2>1. bill.status = status /\ read.txs = bill.txs
    BY <1>2, <1>5 DEF CopyOf
  <2>2. t.legs = Minus(LastLegs(bill)) /\ t.kind = "reversal" /\ t = [kind |-> t.kind, legs |-> t.legs]
    BY <2>1 DEF Reversal, LastLegs, Tx
  <2>3. /\ bill.amt \in Int /\ bill.credited \in Int /\ bill.cat \in Categories /\ bill.acct \in Paying
        /\ bill.txs \in Seq(BillTx)
    BY <1>3 DEF IsBill, PositiveNat
  <2>4. /\ DOMAIN bill' = BillFields /\ bill'.status = "forecast" /\ bill'.amt = bill.amt /\ bill'.cat = bill.cat
        /\ bill'.acct = bill.acct /\ bill'.txs = Append(bill.txs, t) /\ bill'.credited = bill.credited
    BY <1>1, <1>3, <1>5 DEF Reopened, IsBill, BillFields
  <2> HIDE DEF read, t, cond
  <2>5. \E s \in Int : /\ BooksOn(bill.txs, noted, 0, (bill.amt + s) - bill.credited, bill.credited - (bill.amt + s))
                       /\ Effect(LastLegs(bill), bill.amt, s, -(bill.amt + s))
    <3>1. CASE bill.status = "canceled"
      <4> DEFINE s == -bill.amt
      <4>1. /\ s \in Int /\ (bill.amt + s) - bill.credited = -bill.credited
            /\ bill.credited - (bill.amt + s) = bill.credited /\ -(bill.amt + s) = 0
        BY <2>3
      <4>2. BooksOn(bill.txs, noted, 0, -bill.credited, bill.credited) /\ Effect(LastLegs(bill), bill.amt, s, 0)
        BY <1>3, <3>1 DEF BillOK
      <4> HIDE DEF s
      <4> QED
        BY <4>1, <4>2
    <3>2. CASE bill.status = "paid"
      BY <1>3, <3>2 DEF BillOK
    <3> QED
      BY <2>1, <3>1, <3>2
  <2>6. PICK s \in Int : /\ BooksOn(bill.txs, noted, 0, (bill.amt + s) - bill.credited, bill.credited - (bill.amt + s))
                         /\ Effect(LastLegs(bill), bill.amt, s, -(bill.amt + s))
    BY <2>5
  <2>7. Effect(Minus(LastLegs(bill)), -bill.amt, -s, -(-(bill.amt + s)))
    BY <2>6, EffectUndone
  <2>8. t \in BillTx /\ Effect(t.legs, -bill.amt, -s, -(-(bill.amt + s)))
    BY <2>2, <2>7 DEF Effect, BillTx
  <2>9. bill'.txs \in Seq(BillTx) /\ Len(bill'.txs) > 0 /\ Onward(bill, bill')
    BY <1>3, <2>4, <2>8, OneMore
  <2>10. IsBill(bill')
    BY <1>3, <2>3, <2>4, <2>9 DEF IsBill
  <2>11. BooksOn(bill'.txs, noted, 0 + (-bill.amt), ((bill.amt + s) - bill.credited) + (-s),
                 (bill.credited - (bill.amt + s)) + (-(-(bill.amt + s))))
    BY <1>3, <2>3, <2>4, <2>6, <2>8, TxMovesBooks
  <2>12. /\ 0 + (-bill.amt) = -bill.amt /\ ((bill.amt + s) - bill.credited) + (-s) = bill.amt - bill.credited
         /\ (bill.credited - (bill.amt + s)) + (-(-(bill.amt + s))) = bill.credited
    BY <2>3
  <2>13. BooksOn(bill'.txs, noted, -bill.amt, bill.amt - bill.credited, bill.credited)
    BY <2>11, <2>12
  <2>14. BillOK(bill', noted)
    BY <2>4, <2>10, <2>13 DEF BillOK
  <2> QED
    BY <1>1, <1>2, <1>3, <2>9, <2>14, BillWritten
<1> QED
  BY <1>4, <1>5

LEMMA ReopenKeeps ==
  ASSUME BillInv, NEW c \in Actors, RestoreCancelled(c) \/ Unsettle(c)
  PROVE  BillInv'
<1>1. CASE origin = "card_statement"
  BY <1>1 DEF BillInv, RestoreCancelled, Unsettle, ReverseLast, Writes
<1>2. CASE origin # "card_statement" /\ RestoreCancelled(c)
  BY <1>2, ReversalKeeps DEF RestoreCancelled
<1>3. CASE origin # "card_statement" /\ Unsettle(c)
  BY <1>3, ReversalKeeps DEF Unsettle
<1> QED
  BY <1>1, <1>2, <1>3

(* What an edit leaves of a row: the amount and the category change only   *)
(* with an adjustment.                                                     *)
LEMMA EditedRow ==
  ASSUME NEW b, IsBill(b), NEW read, read.amt = b.amt, read.cat = b.cat, NEW next, next.acct \in Paying,
         NEW d, d = EditedBill(b, read, next)
  PROVE  /\ DOMAIN d = BillFields /\ d.status = b.status /\ d.credited = b.credited /\ d.acct \in Paying
         /\ \/ d.txs = b.txs /\ d.amt = b.amt /\ d.cat = b.cat
            \/ /\ d.txs = Append(b.txs, Tx("adjustment", Adjustment(read, next)))
               /\ d.amt = next.amt /\ d.cat = next.cat
<1> DEFINE ch == Changed(read, next)
           legal == ch \cap {"amt", "cat"} # {}
           tx == Append(b.txs, Tx("adjustment", Adjustment(read, next)))
<1>1. d = [f \in DOMAIN b |->
            CASE f \in ch \/ (f \in {"amt", "cat"} /\ ch \cap {"amt", "cat"} # {}) -> next[f]
              [] f = "txs" /\ ch \cap {"amt", "cat"} # {} -> tx
              [] f = "open" /\ "due" \in ch -> next.due
              [] f = "sched" /\ next.auto /\ ch \cap {"auto", "due"} # {} -> next.due
              [] f = "sched" /\ ~next.auto /\ read.auto -> 0
              [] OTHER -> b[f]]
  BY DEF EditedBill
<1>2. /\ DOMAIN b = BillFields /\ b.acct \in Paying
      /\ ch \subseteq {"amt", "cat", "acct", "due", "auto"}
      /\ "amt" \notin ch => next.amt = b.amt
      /\ "cat" \notin ch => next.cat = b.cat
  BY DEF IsBill, Changed
<1> HIDE DEF ch, tx
<1>3. DOMAIN d = BillFields
  BY <1>1, <1>2
<1>4. d.status = b.status /\ d.credited = b.credited
  BY <1>1, <1>2 DEF BillFields
<1>5. d.acct \in Paying
  BY <1>1, <1>2 DEF BillFields
<1>6. CASE ch \cap {"amt", "cat"} # {}
  <2>1. d.txs = tx /\ d.amt = next.amt /\ d.cat = next.cat
    BY <1>1, <1>2, <1>6 DEF BillFields
  <2> QED
    BY <1>3, <1>4, <1>5, <2>1 DEF tx
<1>7. CASE ch \cap {"amt", "cat"} = {}
  <2>1. d.txs = b.txs /\ d.amt = b.amt /\ d.cat = b.cat
    BY <1>1, <1>2, <1>7 DEF BillFields
  <2> QED
    BY <1>3, <1>4, <1>5, <2>1
<1> QED
  BY <1>6, <1>7

(* Edited while it was still the bill that was read: what is owed and      *)
(* expended moves with the amount.                                         *)
LEMMA EditKeeps == ASSUME BillInv, NEW c \in Actors, Edit(c) PROVE BillInv'
<1>0. CASE origin = "card_statement"
  BY <1>0 DEF BillInv, Edit, Writes
<1>1. CASE origin # "card_statement"
  <2> DEFINE read == ask[c].read
             next == ask[c].next
             t    == Tx("adjustment", Adjustment(read, next))
  <2>1. AskOK(ask[c], bill) /\ ask[c].op = "edit"
    BY <1>1 DEF BillInv, Edit, AskIs
  <2>2. /\ bill # NoSuchBill /\ CopyOf(read, bill)
        /\ next.amt \in PositiveNat /\ next.cat \in Categories /\ next.acct \in Paying
    BY <2>1 DEF AskOK, WithCopy
  <2>3. BillOK(bill, noted) /\ IsBill(bill) /\ noted \in Seq(NoteRow)
    BY <1>1, <2>2 DEF BillInv, BillOK
  <2>4. /\ Done(c) /\ UNCHANGED <<origin, noted>>
        /\ bill' = IF ForecastGuard(read) THEN EditedBill(bill, read, next) ELSE bill
    BY DEF Edit, Writes
  <2> HIDE DEF read, next
  <2>5. CASE ~ForecastGuard(read)
    BY <1>1, <2>2, <2>4, <2>5, BillUntouched
  <2>6. CASE ForecastGuard(read)
    <3>1. bill.status = "forecast" /\ read.amt = bill.amt /\ read.cat = bill.cat
      BY <2>2, <2>6 DEF ForecastGuard, CopyOf
    <3>2. bill' = EditedBill(bill, read, next)
      BY <2>4, <2>6
    <3>3. /\ DOMAIN bill' = BillFields /\ bill'.status = bill.status /\ bill'.credited = bill.credited
          /\ bill'.acct \in Paying
          /\ \/ bill'.txs = bill.txs /\ bill'.amt = bill.amt /\ bill'.cat = bill.cat
             \/ bill'.txs = Append(bill.txs, t) /\ bill'.amt = next.amt /\ bill'.cat = next.cat
      BY <2>2, <2>3, <3>1, <3>2, EditedRow
    <3>4. /\ bill.amt \in Int /\ bill.credited \in Int /\ bill.cat \in Categories /\ next.amt \in Int
          /\ bill.txs \in Seq(BillTx)
      BY <2>2, <2>3 DEF IsBill, PositiveNat
    <3>5. BooksOn(bill.txs, noted, -bill.amt, bill.amt - bill.credited, bill.credited)
      BY <2>3, <3>1 DEF BillOK
    <3>6. CASE bill'.txs = bill.txs /\ bill'.amt = bill.amt /\ bill'.cat = bill.cat
      <4>1. IsBill(bill')
        BY <2>3, <3>1, <3>3, <3>6 DEF IsBill
      <4>2. BillOK(bill', noted)
        BY <3>1, <3>3, <3>5, <3>6, <4>1 DEF BillOK
      <4>3. Onward(bill, bill')
        BY <3>6 DEF Onward
      <4> QED
        BY <1>1, <2>2, <2>3, <2>4, <4>2, <4>3, BillWritten
    <3>7. CASE bill'.txs = Append(bill.txs, t) /\ bill'.amt = next.amt /\ bill'.cat = next.cat
      <4>1. Effect(Adjustment(read, next), bill.amt - next.amt, next.amt - bill.amt, 0)
        BY <2>2, <3>1, <3>4, AdjustmentEffect
      <4>2. Effect(t.legs, bill.amt - next.amt, next.amt - bill.amt, 0) /\ t \in BillTx
        BY <4>1 DEF Effect, Tx, BillTx
      <4> HIDE DEF t
      <4>3. bill'.txs \in Seq(BillTx) /\ Len(bill'.txs) > 0 /\ Onward(bill, bill')
        BY <2>3, <3>7, <4>2, OneMore
      <4>4. IsBill(bill')
        BY <2>2, <2>3, <3>1, <3>3, <3>7, <4>3 DEF IsBill
      <4>5. BooksOn(bill'.txs, noted, (-bill.amt) + (bill.amt - next.amt),
                    (bill.amt - bill.credited) + (next.amt - bill.amt), bill.credited + 0)
        BY <2>3, <3>4, <3>5, <3>7, <4>2, TxMovesBooks
      <4>6. /\ (-bill.amt) + (bill.amt - next.amt) = -next.amt
            /\ (bill.amt - bill.credited) + (next.amt - bill.amt) = next.amt - bill.credited
            /\ bill.credited + 0 = bill.credited
        BY <3>4
      <4>7. BooksOn(bill'.txs, noted, -next.amt, next.amt - bill.credited, bill.credited)
        BY <4>5, <4>6
      <4>8. BillOK(bill', noted)
        BY <3>1, <3>3, <3>7, <4>4, <4>7 DEF BillOK
      <4> QED
        BY <1>1, <2>2, <2>3, <2>4, <4>3, <4>8, BillWritten
    <3> QED
      BY <3>3, <3>6, <3>7
  <2> QED
    BY <2>5, <2>6
<1> QED
  BY <1>0, <1>1

(* A credit note on a bill still paid, and credited as it was read.        *)
LEMMA CreditKeeps == ASSUME BillInv, NEW c \in Actors, RecordInvoiceCredit(c) PROVE BillInv'
<1>0. CASE origin = "card_statement"
  BY <1>0 DEF BillInv, RecordInvoiceCredit
<1>1. CASE origin # "card_statement"
  <2> DEFINE read == ask[c].read
             note == ask[c].note
             v    == CreditNotes[note]
             n    == [note |-> note, legs |-> CreditLegs(read, v)]
             cond == ~Recorded(note) /\ bill.status = "paid" /\ bill.credited = read.credited
  <2>1. AskOK(ask[c], bill) /\ ask[c].op = "credit"
    BY <1>1 DEF BillInv, RecordInvoiceCredit, AskIs
  <2>2. bill # NoSuchBill /\ CopyOf(read, bill) /\ note \in DOMAIN CreditNotes
    BY <2>1 DEF AskOK, WithCopy
  <2>3. BillOK(bill, noted) /\ IsBill(bill) /\ noted \in Seq(NoteRow)
    BY <1>1, <2>2 DEF BillInv, BillOK
  <2>4. /\ Done(c) /\ UNCHANGED origin
        /\ bill' = IF cond THEN [bill EXCEPT !.credited = read.credited + v] ELSE bill
        /\ noted' = IF cond THEN Append(noted, n) ELSE noted
    BY DEF RecordInvoiceCredit
  <2>5. CASE ~cond
    <3>1. UNCHANGED <<origin, bill, noted>>
      BY <2>4, <2>5
    <3> QED
      BY <1>1, <2>2, <2>4, <3>1, BillUntouched
  <2>6. CASE cond
    <3>1. v \in Int
      BY <2>2, BillsAssumption
    <3>2. read.acct \in Paying /\ read.cat \in Categories
      BY <2>2 DEF CopyOf, IsBill
    <3>3. Effect(CreditLegs(read, v), 0, -v, v)
      BY <3>1, <3>2, CreditEffect
    <3>4. Effect(n.legs, 0, -v, v) /\ n \in NoteRow
      BY <2>2, <3>3 DEF Effect, NoteRow
    <3>5. /\ bill' = [bill EXCEPT !.credited = bill.credited + v] /\ noted' = Append(noted, n)
          /\ bill.status = "paid"
      BY <2>4, <2>6
    <3> HIDE DEF read, note, v, n, cond
    <3>6. /\ DOMAIN bill' = BillFields /\ bill'.status = "paid" /\ bill'.amt = bill.amt /\ bill'.cat = bill.cat
          /\ bill'.acct = bill.acct /\ bill'.txs = bill.txs /\ bill'.credited = bill.credited + v
      BY <2>3, <3>5 DEF IsBill, BillFields
    <3>7. /\ bill.amt \in Int /\ bill.credited \in Int /\ bill.txs \in Seq(BillTx) /\ Len(bill.txs) > 0
      BY <2>3 DEF IsBill, PositiveNat
    <3>8. IsBill(bill')
      BY <2>3, <3>1, <3>6, <3>7 DEF IsBill
    <3>9. noted' \in Seq(NoteRow)
      BY <2>3, <3>4, <3>5
    <3>10. PICK s \in Int :
             /\ BooksOn(bill.txs, noted, 0, (bill.amt + s) - bill.credited, bill.credited - (bill.amt + s))
             /\ Effect(LastLegs(bill), bill.amt, s, -(bill.amt + s))
      BY <2>3, <3>5 DEF BillOK
    <3>11. BooksOn(bill.txs, Append(noted, n), 0 + 0, ((bill.amt + s) - bill.credited) + (-v),
                   (bill.credited - (bill.amt + s)) + v)
      BY <2>3, <3>4, <3>7, <3>10, NoteMovesBooks
    <3>12. /\ 0 + 0 = 0 /\ ((bill.amt + s) - bill.credited) + (-v) = (bill.amt + s) - (bill.credited + v)
           /\ (bill.credited - (bill.amt + s)) + v = (bill.credited + v) - (bill.amt + s)
      BY <3>1, <3>7
    <3>13. BooksOn(bill'.txs, noted', 0, (bill'.amt + s) - bill'.credited, bill'.credited - (bill'.amt + s))
      BY <3>5, <3>6, <3>11, <3>12
    <3>14. Effect(LastLegs(bill'), bill'.amt, s, -(bill'.amt + s))
      BY <3>6, <3>10 DEF LastLegs
    <3>15. BillOK(bill', noted')
      BY <3>6, <3>8, <3>13, <3>14 DEF BillOK
    <3>16. Onward(bill, bill')
      BY <3>6 DEF Onward
    <3> QED
      BY <1>1, <2>2, <2>4, <3>9, <3>15, <3>16, BillWritten
  <2> QED
    BY <2>5, <2>6
<1> QED
  BY <1>0, <1>1

LEMMA BillStepKeeps == ASSUME BillInv, [BillsNext]_billVars PROVE BillInv'
<1>1. CASE \E r \in NewBills : Create(r) \/ RecordInvoice(r) \/ CloseStatement(r)
  BY <1>1, CreateKeeps
<1>2. CASE StatementCardArchived
  BY <1>2 DEF StatementCardArchived, BillInv
<1>3. CASE JobFindsDue
  <2>1. BillJob \in Actors
    BY DEF Actors
  <2> QED
    BY <1>3, <2>1, AskSettleKeeps
<1>4. CASE \E c \in Actors : BillRequest(c) \/ BillStep(c)
  <2>1. PICK c \in Actors : BillRequest(c) \/ BillStep(c)
    BY <1>4
  <2>2. CASE BillRequest(c)
    BY <2>2, AskSettleKeeps, SettlePlansKeeps, ReadingKeeps DEF BillRequest
  <2>3. CASE BillStep(c)
    BY <2>3, AskSettleKeeps, SettlePlansKeeps, SettleKeeps, CancelKeeps, ReopenKeeps, EditKeeps, CreditKeeps
       DEF BillStep
  <2> QED
    BY <2>1, <2>2, <2>3
<1>5. CASE UNCHANGED billVars
  BY <1>5 DEF billVars, BillInv
<1> QED
  BY <1>1, <1>2, <1>3, <1>4, <1>5 DEF BillsNext

(* The invariant says of a bill what its books are.                        *)
LEMMA BillInvImpliesBooks == ASSUME BillInv PROVE BooksFollowBills
<1> SUFFICES ASSUME bill # NoSuchBill, origin # "card_statement" PROVE BooksFollowBills
  BY DEF BooksFollowBills, Exists
<1>1. BillOK(bill, noted) /\ IsBill(bill)
  BY DEF BillInv, BillOK
<1>2. bill.amt \in Int /\ bill.credited \in Int /\ bill.status \in {"forecast", "paid", "canceled"}
  BY <1>1 DEF IsBill, PositiveNat
<1> DEFINE expense == SumFunction([a \in Categories |-> BillBooks(a)])
           cash    == SumFunction([a \in Paying |-> BillBooks(a)])
<1>3. \A o, e, d : BooksOn(bill.txs, noted, o, e, d) => BillBooks(Owed) = o /\ expense = e /\ cash = d
  BY DEF BooksOn, Both, BillBooks, SumFunction
<1> HIDE DEF expense, cash
<1>4. BillBooks(Owed) = (IF bill.status = "forecast" THEN -bill.amt ELSE 0)
  BY <1>1, <1>2, <1>3 DEF BillOK
<1>5. bill.status = "canceled" => expense = -bill.credited
  BY <1>1, <1>3 DEF BillOK
<1>6. bill.status = "forecast" => expense = bill.amt - bill.credited
  BY <1>1, <1>3 DEF BillOK
<1>7. cash = -(expense + BillBooks(Owed))
  <2>1. CASE bill.status = "forecast"
    <3>1. BillBooks(Owed) = -bill.amt /\ expense = bill.amt - bill.credited /\ cash = bill.credited
      BY <1>1, <1>3, <2>1 DEF BillOK
    <3> QED
      BY <1>2, <3>1
  <2>2. CASE bill.status = "canceled"
    <3>1. BillBooks(Owed) = 0 /\ expense = -bill.credited /\ cash = bill.credited
      BY <1>1, <1>3, <2>2 DEF BillOK
    <3> QED
      BY <1>2, <3>1
  <2>3. CASE bill.status = "paid"
    <3>1. PICK s \in Int :
            BooksOn(bill.txs, noted, 0, (bill.amt + s) - bill.credited, bill.credited - (bill.amt + s))
      BY <1>1, <2>3 DEF BillOK
    <3>2. BillBooks(Owed) = 0 /\ expense = (bill.amt + s) - bill.credited /\ cash = bill.credited - (bill.amt + s)
      BY <1>3, <3>1
    <3> QED
      BY <1>2, <3>2
  <2> QED
    BY <1>2, <2>1, <2>2, <2>3
<1>8. bill.status # "paid" => cash = bill.credited
  BY <1>1, <1>2, <1>3 DEF BillOK
<1> QED
  BY <1>4, <1>5, <1>6, <1>7, <1>8 DEF BooksFollowBills, expense, cash

(* Whatever settlements, edits, cancellations, reopenings and credit notes *)
(* race, each having read the row before it writes: the books say what the *)
(* bill says, its amount owed while it is a forecast and expended until it *)
(* is canceled, less what was credited, and cash is moved only by a        *)
(* settlement that stands.                                                 *)
THEOREM BillsKeepTheirBooks == BillsInit /\ [][BillsNext]_billVars => []BooksFollowBills
<1>1. BillsInit => BillInv
  BY BillsInitially
<1>2. BillInv /\ [BillsNext]_billVars => BillInv'
  BY BillStepKeeps
<1>3. BillInv => BooksFollowBills
  BY BillInvImpliesBooks
<1> QED
  BY <1>1, <1>2, <1>3, PTL

----------------------------------------------------------------------------
(* The statements of a card.                                               *)

Owners   == Buys \cup DOMAIN Credits \cup {"carry"}
ItemKeys == CardMonths \X Owners \X Int

IsFun(f) == f = [x \in DOMAIN f |-> f[x]]

ItemsOK(it) ==
    /\ DOMAIN it \subseteq ItemKeys /\ IsFiniteSet(DOMAIN it)
    /\ IsFun(it) /\ \A k \in DOMAIN it : it[k] \in Int

RowOK(r) == r \in [open : 0..(LastMonth + 1), version : Nat, closing : ClosingDays, archived : BOOLEAN]

MonthItems(it, m) == {k \in DOMAIN it : k[1] = m}
MonthTotal(it, m) == SumFunctionOnSet(it, MonthItems(it, m))
Before(r)         == {m \in CardMonths : m < r.open}
Live(cb)          == {b \in DOMAIN cb : cb[b].status # "canceled"}

(* A closed month holds what its statement says, and its bill asks for     *)
(* that, or its carry takes it to the next month.                          *)
ClosedOK(m, s, it, cb) ==
    /\ s.closed = TRUE /\ s.total = MonthTotal(it, m)
    /\ s.total > 0 => s.bill \in DOMAIN cb /\ s.bill[1] = m /\ cb[s.bill].amount = s.total
    /\ s.total <= 0 => s.bill = NoBill
    /\ s.total < 0 => Carry(m) \in DOMAIN it /\ it[Carry(m)] = s.total

(* The months before the open one are closed, and nothing is carried or,   *)
(* while the card is in use, billed but by them.                           *)
StatementsOK(it, cl, cb, r) ==
    /\ cl = [m \in CardMonths |-> cl[m]]
    /\ \A m \in CardMonths : IF m < r.open THEN ClosedOK(m, cl[m], it, cb) ELSE cl[m] = Open
    /\ \A k \in DOMAIN it : k[2] = "carry" => k[3] \in Before(r) /\ k = Carry(k[3]) /\ cl[k[3]].total < 0
    /\ ~r.archived =>
         /\ \A b \in Live(cb) : b[1] \in Before(r) /\ cl[b[1]].total > 0 /\ cl[b[1]].bill = b
         /\ \A m \in Before(r) : cl[m].total > 0 => cl[m].bill \in Live(cb)

(* A month is billed under a new id each time: reopening it takes a new    *)
(* version of the card.                                                    *)
BillIds(cb, r) ==
    /\ IsFiniteSet(DOMAIN cb) /\ IsFun(cb)
    /\ \A b \in DOMAIN cb :
         /\ b # NoBill /\ b[1] \in CardMonths /\ b[2] \in Nat /\ b[2] <= r.version
         /\ b[1] >= r.open => b[2] < r.version
         /\ cb[b] \in [amount : Int, status : {"forecast", "paid", "canceled"}]

(* What a request knows of the card: while neither version nor open month  *)
(* moved, what it read is what is there.                                   *)
SameCard(x, r) == x.card.open = r.open /\ x.card.version = r.version

CardOps     == {"buy", "credit", "refund", "advance", "edit", "load", "close", "reopen"}
PurchaseOps == {"refund", "advance", "edit"}

CopyOK(x, r) ==
    /\ RowOK(x.card) /\ x.card.version <= r.version
    /\ x.card.version = r.version => x.card.open <= r.open

KnowsOK(x, it, cl, r) ==
    /\ x.op \in CardOps \cup {Free}
    /\ x.op \in CardOps => CopyOK(x, r)
    /\ x.op \in {"load", "close"} => x.card.open <= LastMonth
    /\ x.op = "close" => x.total \in Int /\ (SameCard(x, r) => x.total = MonthTotal(it, x.card.open))
    /\ x.op = "reopen" => /\ x.month = x.card.open - 1 /\ x.month \in CardMonths
                          /\ SameCard(x, r) => x.was = cl[x.month]

StatementInv ==
    /\ ItemsOK(item) /\ RowOK(row)
    /\ StatementsOK(item, closedAs, cardBill, row)
    /\ BillIds(cardBill, row)
    /\ at = [u \in CardUsers |-> at[u]] /\ \A u \in CardUsers : KnowsOK(at[u], item, closedAs, row)

(* Purchases.                                                              *)
BoughtRow(p) == [there : {TRUE}, plan : [1..Purchases[p].n -> CardMonths], advanced : SUBSET (1..Purchases[p].n),
                 refunded : BOOLEAN, rev : Nat]

OwnedBy(it, p) == {k \in DOMAIN it : k[2] = p}
Spend(it)      == {k \in DOMAIN it : k[2] # "carry"}

(* The items of a purchase that was advanced once at most are its plan:    *)
(* its installments, and in one item what was advanced, which is the last. *)
RowsOK(it, p, b) ==
    /\ OwnedBy(it, p) = PlanRows(p, b, DOMAIN b.plan)
    /\ \A i \in DOMAIN b.plan \ b.advanced : it[<<b.plan[i], p, i>>] = PartsOf(p)[i]
    /\ \A j \in b.advanced : /\ it[<<b.plan[j], p, Adv>>] = SumParts(p, b.advanced)
                             /\ \A i \in DOMAIN b.plan : b.plan[i] <= b.plan[j]

ContentOK(it, p, b, again) ==
    /\ ~b.there => OwnedBy(it, p) = {}
    /\ b.there /\ p \notin again => IF b.refunded THEN SumFunctionOnSet(it, OwnedBy(it, p)) = 0 ELSE RowsOK(it, p, b)

(* What was read of a purchase is the purchase until its revision moves or *)
(* it is refunded.                                                         *)
LastCardDay == (LastMonth + 1) * MonthDays
ReadOK(x, bo) ==
    /\ x.op = "buy" => x.of \in Buys /\ Purchases[x.of].day <= LastCardDay
    /\ x.op = "credit" => x.of \in DOMAIN Credits
    /\ x.op \in PurchaseOps =>
         /\ x.of \in Buys /\ x.read \in BoughtRow(x.of) /\ ~x.read.refunded
         /\ bo[x.of] \in BoughtRow(x.of) /\ x.read.rev <= bo[x.of].rev
         /\ x.read.rev = bo[x.of].rev => x.read = [bo[x.of] EXCEPT !.refunded = FALSE]

BoughtOK(bo) == bo = [p \in Buys |-> bo[p]] /\ \A p \in Buys : bo[p] = NotBought \/ bo[p] \in BoughtRow(p)

ReadInv ==
    /\ BoughtOK(bought) /\ date \in Nat \ {0} /\ date <= LastCardDay
    /\ \A u \in CardUsers : ReadOK(at[u], bought)

ContentInv ==
    /\ \A p \in Buys : ContentOK(item, p, bought[p], readvanced)
    /\ posted \in Int
    /\ readvanced = {} => SumFunctionOnSet(item, Spend(item)) = posted

CardInv == StatementInv /\ ReadInv /\ ContentInv

(* An item's key is its month, its owner and its tag.                      *)
LEMMA KeyParts ==
  ASSUME NEW k \in ItemKeys
  PROVE  k[1] \in CardMonths /\ k[2] \in Owners /\ k[3] \in Int /\ k = <<k[1], k[2], k[3]>>
  BY DEF ItemKeys

(* And those make a key.                                                   *)
LEMMA MakesKey == \A m \in CardMonths, o \in Owners, t \in Int : <<m, o, t>> \in ItemKeys
  BY DEF ItemKeys

(* Writing an item keeps the items well-formed.                            *)
LEMMA PutKeepsItems ==
  ASSUME NEW it, ItemsOK(it), NEW k \in ItemKeys, NEW v \in Int
  PROVE  ItemsOK(Put(it, k, v))
<1> SUFFICES ASSUME NEW g, g = Put(it, k, v) PROVE ItemsOK(g)
  OBVIOUS
<1>1. /\ IsFun(g) /\ DOMAIN g = DOMAIN it \cup {k} /\ g[k] = v
      /\ \A j \in DOMAIN it \ {k} : g[j] = it[j]
  BY DEF Put, Over, IsFun
<1>2. IsFiniteSet(DOMAIN g)
  BY <1>1, FS_AddElement DEF ItemsOK
<1> QED
  BY <1>1, <1>2 DEF ItemsOK

(* Deleting items keeps the others.                                        *)
LEMMA DropKeepsItems ==
  ASSUME NEW it, ItemsOK(it), NEW ks
  PROVE  ItemsOK(Drop(it, ks))
<1> SUFFICES ASSUME NEW g, g = Drop(it, ks) PROVE ItemsOK(g)
  OBVIOUS
<1>1. /\ IsFun(g) /\ DOMAIN g = DOMAIN it \ ks
      /\ \A j \in DOMAIN it \ ks : g[j] = it[j]
  BY DEF Drop, IsFun
<1>2. IsFiniteSet(DOMAIN g)
  BY <1>1, FS_Subset DEF ItemsOK
<1> QED
  BY <1>1, <1>2 DEF ItemsOK

(* The total of a month none of whose items changed.                       *)
LEMMA MonthKept ==
  ASSUME NEW it, ItemsOK(it), NEW it2, NEW m,
         \A k \in DOMAIN it \cup DOMAIN it2 : k[1] = m => k \in DOMAIN it /\ k \in DOMAIN it2 /\ it2[k] = it[k]
  PROVE  MonthTotal(it2, m) = MonthTotal(it, m)
<1> DEFINE S == MonthItems(it, m)
<1>1. MonthItems(it2, m) = S
  BY DEF MonthItems
<1>2. S \subseteq DOMAIN it /\ \A k \in S : it[k] \in Int /\ it2[k] = it[k]
  BY DEF MonthItems, ItemsOK
<1>3. IsFiniteSet(S)
  BY <1>2, FS_Subset DEF ItemsOK
<1> HIDE DEF S
<1>4. SumFunctionOnSet(it, S) = SumFunctionOnSet(it2, S)
  BY <1>2, <1>3, SumSame
<1> QED
  BY <1>1, <1>4 DEF MonthTotal, S

(* What BuildStatement adds up is an amount.                               *)
LEMMA MonthTotalType == ASSUME NEW it, ItemsOK(it), NEW m PROVE MonthTotal(it, m) \in Int
<1> DEFINE S == MonthItems(it, m)
<1>2. S \subseteq DOMAIN it /\ \A k \in S : it[k] \in Int
  BY DEF MonthItems, ItemsOK
<1>3. IsFiniteSet(S)
  BY <1>2, FS_Subset DEF ItemsOK
<1> HIDE DEF S
<1>4. SumFunctionOnSet(it, S) \in Int
  BY <1>2, <1>3, SumType
<1> QED
  BY <1>4 DEF MonthTotal, S

(* What is written on the open month or later, and is no carry, leaves the *)
(* closed statements as they are.                                          *)
LEMMA StatementsKept ==
  ASSUME NEW it, NEW it2, NEW cl, NEW cb, NEW r, NEW r2, StatementsOK(it, cl, cb, r), ItemsOK(it), RowOK(r), RowOK(r2),
         r2.open = r.open, r.archived => r2.archived,
         \A k \in DOMAIN it \cup DOMAIN it2 : k[1] < r.open \/ k[2] = "carry" =>
           k \in DOMAIN it /\ k \in DOMAIN it2 /\ it2[k] = it[k]
  PROVE  StatementsOK(it2, cl, cb, r2)
<1>0. Before(r2) = Before(r)
  BY DEF Before
<1>1. \A m \in CardMonths : IF m < r2.open THEN ClosedOK(m, cl[m], it2, cb) ELSE cl[m] = Open
  <2> SUFFICES ASSUME NEW m \in CardMonths, m < r.open PROVE ClosedOK(m, cl[m], it2, cb)
    BY DEF StatementsOK
  <2>1. ClosedOK(m, cl[m], it, cb)
    BY DEF StatementsOK
  <2>2. MonthTotal(it2, m) = MonthTotal(it, m)
    <3>1. \A k \in DOMAIN it \cup DOMAIN it2 : k[1] = m => k \in DOMAIN it /\ k \in DOMAIN it2 /\ it2[k] = it[k]
      OBVIOUS
    <3> QED
      BY <3>1, MonthKept
  <2>3. Carry(m) \in DOMAIN it => Carry(m) \in DOMAIN it2 /\ it2[Carry(m)] = it[Carry(m)]
    <3>1. (Carry(m))[2] = "carry"
      BY DEF Carry
    <3> QED
      BY <3>1
  <2> QED
    BY <2>1, <2>2, <2>3 DEF ClosedOK
<1>2. \A k \in DOMAIN it2 : k[2] = "carry" => k[3] \in Before(r2) /\ k = Carry(k[3]) /\ cl[k[3]].total < 0
  BY <1>0 DEF StatementsOK
<1>3. ~r2.archived => ~r.archived
  OBVIOUS
<1> QED
  BY <1>0, <1>1, <1>2, <1>3 DEF StatementsOK

(* What a request knows survives what others write: the version or the     *)
(* open month moves on, or nothing it read changed.                        *)
Later(it, cl, r, it2, cl2, r2) ==
    \/ r2.version > r.version
    \/ r2.version = r.version /\ r2.open > r.open
    \/ r2.version = r.version /\ r2.open = r.open /\ it2 = it /\ cl2 = cl

(* So a request's copies stay true of the card while nothing moved.        *)
LEMMA KnowledgeKept ==
  ASSUME NEW x, NEW it, NEW cl, NEW r, NEW it2, NEW cl2, NEW r2, KnowsOK(x, it, cl, r), RowOK(r), RowOK(r2),
         Later(it, cl, r, it2, cl2, r2)
  PROVE  KnowsOK(x, it2, cl2, r2)
<1>1. /\ r.version \in Nat /\ r2.version \in Nat /\ r.open \in Nat /\ r2.open \in Nat
  BY DEF RowOK
<1>2. CASE x.op \in CardOps
  <2>1. CopyOK(x, r) /\ x.card.version \in Nat /\ x.card.open \in Nat
    BY <1>2 DEF KnowsOK, CopyOK, RowOK
  <2>2. CopyOK(x, r2)
    BY <1>1, <2>1 DEF CopyOK, Later
  <2>3. SameCard(x, r2) => SameCard(x, r) /\ it2 = it /\ cl2 = cl
    BY <1>1, <2>1 DEF CopyOK, Later, SameCard
  <2> QED
    BY <1>2, <2>2, <2>3 DEF KnowsOK
<1>3. CASE x.op \notin CardOps
  BY <1>3 DEF KnowsOK, CardOps
<1> QED
  BY <1>2, <1>3

(* A write on the card takes no bill's id away.                            *)
LEMMA BillIdsKept ==
  ASSUME NEW cb, NEW r, NEW r2, BillIds(cb, r), RowOK(r), RowOK(r2), r2.open = r.open, r2.version >= r.version
  PROVE  BillIds(cb, r2)
  BY DEF BillIds, RowOK

(* Closing the open month m.                                               *)
ClosesBills(cb, r, m, t, b, cb2, r2) ==
    /\ m = r.open /\ m <= LastMonth /\ t \in Int
    /\ b = IF t > 0 THEN <<m, r.version>> ELSE NoBill
    /\ cb2 = IF b = NoBill THEN cb ELSE Put(cb, b, [amount |-> t, status |-> "forecast"])
    /\ r2 = [r EXCEPT !.open = m + 1]
BillsClosed(cb, r, m, t, b, cb2, r2) ==
    /\ RowOK(r2) /\ r2.open = m + 1 /\ r2.version = r.version /\ r2.archived = r.archived
    /\ Before(r2) = Before(r) \cup {m} /\ BillIds(cb2, r2)
    /\ \A c \in DOMAIN cb : c \in DOMAIN cb2 /\ cb2[c] = cb[c]
    /\ t <= 0 => cb2 = cb /\ b = NoBill
    /\ t > 0 => /\ DOMAIN cb2 = DOMAIN cb \cup {b} /\ b[1] = m
                /\ cb2[b].amount = t /\ cb2[b].status = "forecast"
ClosesItems(it, r, m, t, it2) ==
    /\ m = r.open /\ m <= LastMonth /\ t \in Int
    /\ it2 = IF t < 0 THEN Put(it, Carry(m), t) ELSE it

(* CloseAt issues the bill under an id no bill has: the month was not yet  *)
(* billed at this version of the card.                                     *)
LEMMA ClosingBills ==
  ASSUME NEW cb, NEW r, RowOK(r), BillIds(cb, r), NEW m, NEW t, NEW b, NEW cb2, NEW r2,
         ClosesBills(cb, r, m, t, b, cb2, r2)
  PROVE  BillsClosed(cb, r, m, t, b, cb2, r2)
<1> /\ m = r.open /\ m <= LastMonth /\ t \in Int
    /\ b = (IF t > 0 THEN <<m, r.version>> ELSE NoBill)
    /\ cb2 = (IF b = NoBill THEN cb ELSE Put(cb, b, [amount |-> t, status |-> "forecast"]))
    /\ r2 = [r EXCEPT !.open = m + 1]
  BY DEF ClosesBills
<1>0. LastMonth \in Nat /\ MaxInstallments \in Nat \ {0}
  BY CardsAssumption
<1>1. m \in Nat /\ m \in CardMonths /\ r.version \in Nat /\ r.closing \in ClosingDays /\ r.archived \in BOOLEAN
  BY <1>0 DEF RowOK, CardMonths
<1>2. RowOK(r2) /\ r2.open = m + 1 /\ r2.version = r.version /\ r2.archived = r.archived
  BY <1>0, <1>1 DEF RowOK
<1>3. Before(r2) = Before(r) \cup {m}
  BY <1>0, <1>1, <1>2 DEF Before, CardMonths
<1>4. CASE t <= 0
  <2>1. b = NoBill /\ cb2 = cb
    BY <1>4
  <2>2. BillIds(cb2, r2)
    BY <1>1, <1>2, <2>1, <1>0 DEF BillIds, CardMonths
  <2> QED
    BY <1>2, <1>3, <1>4, <2>1, <2>2 DEF BillsClosed
<1>5. CASE t > 0
  <2>1. b = <<m, r.version>> /\ b # NoBill /\ b[1] = m /\ b[2] = r.version
    BY <1>5 DEF NoBill
  <2>2. b \notin DOMAIN cb
    BY <1>1, <2>1 DEF BillIds
  <2> DEFINE new == [amount |-> t, status |-> "forecast"]
  <2>3. new \in [amount : Int, status : {"forecast", "paid", "canceled"}] /\ new.amount = t /\ new.status = "forecast"
    OBVIOUS
  <2>4. cb2 = Put(cb, b, new)
    BY <2>1
  <2> HIDE DEF new
  <2>5. /\ IsFun(cb2) /\ DOMAIN cb2 = DOMAIN cb \cup {b} /\ cb2[b] = new
        /\ \A c \in DOMAIN cb : c \in DOMAIN cb2 /\ cb2[c] = cb[c]
    BY <2>2, <2>4 DEF Put, Over, IsFun
  <2>6. IsFiniteSet(DOMAIN cb2)
    BY <2>5, FS_AddElement DEF BillIds
  <2>7. ASSUME NEW c \in DOMAIN cb2
        PROVE  /\ c # NoBill /\ c[1] \in CardMonths /\ c[2] \in Nat /\ c[2] <= r2.version
               /\ c[1] >= r2.open => c[2] < r2.version
               /\ cb2[c] \in [amount : Int, status : {"forecast", "paid", "canceled"}]
    <3>1. CASE c = b
      BY <1>1, <1>2, <2>1, <2>3, <2>5, <3>1
    <3>2. CASE c # b
      <4>1. c \in DOMAIN cb /\ cb2[c] = cb[c]
        BY <2>5, <3>2
      <4> QED
        BY <1>0, <1>1, <1>2, <4>1 DEF BillIds, CardMonths
    <3> QED
      BY <3>1, <3>2
  <2>8. BillIds(cb2, r2)
    BY <2>5, <2>6, <2>7 DEF BillIds
  <2> QED
    BY <1>2, <1>3, <1>5, <2>1, <2>3, <2>5, <2>8 DEF BillsClosed
<1> QED
  BY <1>4, <1>5

(* CloseAt writes at most the carry, which is on the next month.           *)
LEMMA ClosingItems ==
  ASSUME NEW it, NEW cl, NEW cb, NEW r, RowOK(r), ItemsOK(it), StatementsOK(it, cl, cb, r),
         NEW m, NEW t, NEW it2, ClosesItems(it, r, m, t, it2)
  PROVE  /\ ItemsOK(it2) /\ \A k \in DOMAIN it : k \in DOMAIN it2 /\ it2[k] = it[k]
         /\ DOMAIN it2 = DOMAIN it \cup (IF t < 0 THEN {Carry(m)} ELSE {})
         /\ t < 0 => it2[Carry(m)] = t
         /\ \A n \in CardMonths : n <= m => MonthTotal(it2, n) = MonthTotal(it, n)
<1> /\ m = r.open /\ m <= LastMonth /\ t \in Int
    /\ it2 = (IF t < 0 THEN Put(it, Carry(m), t) ELSE it)
  BY DEF ClosesItems
<1>0. LastMonth \in Nat /\ MaxInstallments \in Nat \ {0}
  BY CardsAssumption
<1> DEFINE c == Carry(m)
<1>1. /\ m \in CardMonths /\ m + 1 \in CardMonths /\ m \in Int
      /\ c = <<m + 1, "carry", m>> /\ c[1] = m + 1 /\ c[2] = "carry" /\ c[3] = m
  BY <1>0 DEF RowOK, CardMonths, Carry
<1>2. c \in ItemKeys
  BY <1>1, MakesKey DEF Owners
<1>3. c \notin DOMAIN it
  <2>1. m \notin Before(r)
    BY <1>1 DEF Before, CardMonths
  <2> QED
    BY <1>1, <2>1 DEF StatementsOK
<1> HIDE DEF c
<1>4. /\ DOMAIN it2 = DOMAIN it \cup (IF t < 0 THEN {c} ELSE {})
      /\ t < 0 => it2[c] = t
      /\ \A k \in DOMAIN it : k \in DOMAIN it2 /\ it2[k] = it[k]
  BY <1>3 DEF Put, Over, c
<1>5. ItemsOK(it2)
  <2>1. CASE t < 0
    BY <1>2, <2>1, PutKeepsItems DEF c
  <2> QED
    BY <2>1
<1>6. ASSUME NEW n \in CardMonths, n <= m PROVE MonthTotal(it2, n) = MonthTotal(it, n)
  <2>0. n \in Int /\ c[1] # n
    BY <1>0, <1>1, <1>6 DEF CardMonths
  <2>1. \A k \in DOMAIN it \cup DOMAIN it2 : k[1] = n => k \in DOMAIN it /\ k \in DOMAIN it2 /\ it2[k] = it[k]
    <3> SUFFICES ASSUME NEW k \in DOMAIN it \cup DOMAIN it2, k[1] = n
                 PROVE  k \in DOMAIN it /\ k \in DOMAIN it2 /\ it2[k] = it[k]
      OBVIOUS
    <3>1. k # c
      BY <2>0
    <3> QED
      BY <3>1, <1>4
  <2> QED
    BY <2>1, MonthKept
<1>7. \A n \in CardMonths : n <= m => MonthTotal(it2, n) = MonthTotal(it, n)
  BY <1>6
<1>8. /\ DOMAIN it2 = DOMAIN it \cup (IF t < 0 THEN {Carry(m)} ELSE {})
      /\ t < 0 => it2[Carry(m)] = t
  BY <1>4 DEF c
<1> QED
  BY <1>4, <1>5, <1>7, <1>8

(* CloseAt closes the open month with what is on it, and leaves the        *)
(* earlier ones as they are.                                               *)
LEMMA Closes ==
  ASSUME NEW it, NEW cl, NEW cb, NEW r, RowOK(r), ItemsOK(it), StatementsOK(it, cl, cb, r), BillIds(cb, r),
         NEW m, NEW t, t = MonthTotal(it, m), NEW b, NEW cb2, NEW it2, NEW cl2, NEW r2,
         ClosesBills(cb, r, m, t, b, cb2, r2), ClosesItems(it, r, m, t, it2),
         cl2 = [cl EXCEPT ![m] = [closed |-> TRUE, total |-> t, bill |-> b]]
  PROVE  ItemsOK(it2) /\ RowOK(r2) /\ StatementsOK(it2, cl2, cb2, r2) /\ BillIds(cb2, r2)
<1>0. LastMonth \in Nat /\ MaxInstallments \in Nat \ {0} /\ t \in Int
  BY CardsAssumption, MonthTotalType
<1> m = r.open /\ m <= LastMonth
  BY DEF ClosesItems
<1>1. /\ RowOK(r2) /\ r2.open = m + 1 /\ r2.version = r.version /\ r2.archived = r.archived
      /\ Before(r2) = Before(r) \cup {m} /\ BillIds(cb2, r2)
      /\ \A c \in DOMAIN cb : c \in DOMAIN cb2 /\ cb2[c] = cb[c]
      /\ t <= 0 => cb2 = cb /\ b = NoBill
      /\ t > 0 => /\ DOMAIN cb2 = DOMAIN cb \cup {b} /\ b[1] = m
                  /\ cb2[b].amount = t /\ cb2[b].status = "forecast"
  <2>1. ClosesBills(cb, r, m, t, b, cb2, r2) /\ RowOK(r) /\ BillIds(cb, r)
    BY <1>0 DEF ClosesBills
  <2>2. BillsClosed(cb, r, m, t, b, cb2, r2)
    BY ONLY <2>1, ClosingBills
  <2> QED
    BY <2>1, <2>2 DEF BillsClosed
<1>2. /\ ItemsOK(it2) /\ \A k \in DOMAIN it : k \in DOMAIN it2 /\ it2[k] = it[k]
      /\ DOMAIN it2 = DOMAIN it \cup (IF t < 0 THEN {Carry(m)} ELSE {})
      /\ t < 0 => it2[Carry(m)] = t
      /\ \A n \in CardMonths : n <= m => MonthTotal(it2, n) = MonthTotal(it, n)
  <2>1. ClosesItems(it, r, m, t, it2) /\ RowOK(r) /\ ItemsOK(it) /\ StatementsOK(it, cl, cb, r)
    BY <1>0 DEF ClosesItems
  <2> QED
    BY ONLY <2>1, ClosingItems
<1>3. m \in CardMonths /\ m \in Nat
  BY <1>0 DEF RowOK, CardMonths
<1>4. /\ cl2 = [n \in CardMonths |-> cl2[n]] /\ \A n \in CardMonths : n # m => cl2[n] = cl[n]
      /\ cl2[m].closed = TRUE /\ cl2[m].total = t /\ cl2[m].bill = b
  BY <1>3 DEF StatementsOK
<1>5. \A n \in CardMonths : IF n < r2.open THEN ClosedOK(n, cl2[n], it2, cb2) ELSE cl2[n] = Open
  <2> TAKE n \in CardMonths
  <2>0. n \in Nat
    BY <1>0 DEF CardMonths
  <2>1. CASE n < m
    <3>0. n < r.open
      BY <2>1
    <3>1. ClosedOK(n, cl[n], it, cb) /\ cl2[n] = cl[n]
      BY <1>3, <1>4, <2>0, <2>1, <3>0 DEF StatementsOK
    <3>2. MonthTotal(it2, n) = MonthTotal(it, n)
      BY <1>2, <1>3, <2>0, <2>1
    <3>3. ClosedOK(n, cl2[n], it2, cb2)
      BY <1>1, <1>2, <3>1, <3>2 DEF ClosedOK
    <3> QED
      BY <1>1, <1>3, <2>0, <2>1, <3>3
  <2>2. CASE n = m
    <3>1. MonthTotal(it2, m) = t
      BY <1>2, <1>3
    <3>2. ClosedOK(m, cl2[m], it2, cb2)
      BY <1>0, <1>1, <1>2, <1>4, <3>1 DEF ClosedOK
    <3> QED
      BY <1>1, <1>3, <2>2, <3>2
  <2>3. CASE n > m
    BY <1>1, <1>3, <1>4, <2>0, <2>3 DEF StatementsOK
  <2> QED
    BY <1>3, <2>0, <2>1, <2>2, <2>3
<1>6. \A k \in DOMAIN it2 : k[2] = "carry" => k[3] \in Before(r2) /\ k = Carry(k[3]) /\ cl2[k[3]].total < 0
  <2> SUFFICES ASSUME NEW k \in DOMAIN it2, k[2] = "carry"
               PROVE  k[3] \in Before(r2) /\ k = Carry(k[3]) /\ cl2[k[3]].total < 0
    OBVIOUS
  <2>1. CASE k \in DOMAIN it
    <3>1. k[3] \in Before(r) /\ k = Carry(k[3]) /\ cl[k[3]].total < 0
      BY <2>1 DEF StatementsOK
    <3>2. k[3] \in CardMonths /\ k[3] # m
      BY <3>1, <1>3, <1>0 DEF Before, CardMonths
    <3> QED
      BY <1>1, <1>4, <3>1, <3>2
  <2>2. CASE k \notin DOMAIN it
    <3>1. t < 0 /\ k = Carry(m)
      BY <1>2, <2>2
    <3>2. k[3] = m
      BY <3>1 DEF Carry
    <3> QED
      BY <1>1, <1>4, <3>1, <3>2
  <2> QED
    BY <2>1, <2>2
<1>7. ASSUME ~r2.archived
      PROVE  /\ \A c \in Live(cb2) : c[1] \in Before(r2) /\ cl2[c[1]].total > 0 /\ cl2[c[1]].bill = c
             /\ \A n \in Before(r2) : cl2[n].total > 0 => cl2[n].bill \in Live(cb2)
  <2>1. /\ \A c \in Live(cb) : c[1] \in Before(r) /\ cl[c[1]].total > 0 /\ cl[c[1]].bill = c
        /\ \A n \in Before(r) : cl[n].total > 0 => cl[n].bill \in Live(cb)
    BY <1>1, <1>7 DEF StatementsOK
  <2>2. \A n \in Before(r) : n \in CardMonths /\ n # m
    BY <1>0, <1>3 DEF Before, CardMonths
  <2>3. ASSUME NEW c \in Live(cb2)
        PROVE  c[1] \in Before(r2) /\ cl2[c[1]].total > 0 /\ cl2[c[1]].bill = c
    <3>1. CASE c \in DOMAIN cb
      <4>1. c \in Live(cb)
        BY <1>1, <2>3, <3>1 DEF Live
      <4> QED
        BY <1>1, <1>4, <2>1, <2>2, <4>1
    <3>2. CASE c \notin DOMAIN cb
      <4>1. t > 0 /\ c = b
        BY <1>0, <1>1, <2>3, <3>2 DEF Live
      <4> QED
        BY <1>1, <1>4, <4>1
    <3> QED
      BY <3>1, <3>2
  <2>4. ASSUME NEW n \in Before(r2), cl2[n].total > 0 PROVE cl2[n].bill \in Live(cb2)
    <3>1. CASE n = m
      BY <1>1, <1>4, <2>4, <3>1 DEF Live
    <3>2. CASE n # m
      <4>1. n \in Before(r) /\ cl2[n] = cl[n]
        BY <1>1, <1>4, <2>2, <3>2
      <4>2. cl[n].bill \in Live(cb)
        BY <2>1, <2>4, <4>1
      <4> QED
        BY <1>1, <4>1, <4>2 DEF Live
    <3> QED
      BY <3>1, <3>2
  <2> QED
    BY <2>3, <2>4
<1>8. StatementsOK(it2, cl2, cb2, r2)
  BY <1>4, <1>5, <1>6, <1>7 DEF StatementsOK
<1> QED
  BY <1>1, <1>2, <1>8

(* What becomes of a bill: its status.                                     *)
Restated(cb, b, s, cb2) ==
    /\ IsFun(cb2) /\ DOMAIN cb2 = DOMAIN cb
    /\ \A c \in DOMAIN cb : cb2[c].amount = cb[c].amount /\ (c # b => cb2[c] = cb[c])
    /\ b \in DOMAIN cb => cb2[b].status = s

(* A change of a bill's status changes nothing else of the bills.          *)
LEMMA RestatesBill ==
  ASSUME NEW cb, NEW r, BillIds(cb, r), NEW b, NEW s \in {"forecast", "paid", "canceled"},
         NEW cb2, cb2 = [cb EXCEPT ![b].status = s]
  PROVE  Restated(cb, b, s, cb2) /\ BillIds(cb2, r)
<1>1. IsFun(cb2) /\ DOMAIN cb2 = DOMAIN cb /\ \A c \in DOMAIN cb : c # b => cb2[c] = cb[c]
  BY DEF BillIds, IsFun
<1>2. ASSUME b \in DOMAIN cb
      PROVE  cb2[b] \in [amount : Int, status : {"forecast", "paid", "canceled"}] /\ cb2[b].amount = cb[b].amount /\ cb2[b].status = s
  <2>1. cb[b] \in [amount : Int, status : {"forecast", "paid", "canceled"}] /\ cb2[b] = [cb[b] EXCEPT !.status = s]
    BY <1>2 DEF BillIds
  <2> QED
    BY <2>1
<1>3. Restated(cb, b, s, cb2)
  BY <1>1, <1>2 DEF Restated
<1>4. ASSUME NEW c \in DOMAIN cb2
      PROVE  /\ c # NoBill /\ c[1] \in CardMonths /\ c[2] \in Nat /\ c[2] <= r.version
             /\ c[1] >= r.open => c[2] < r.version
             /\ cb2[c] \in [amount : Int, status : {"forecast", "paid", "canceled"}]
  <2>1. CASE c = b
    BY <1>1, <1>2, <2>1 DEF BillIds
  <2>2. CASE c # b
    BY <1>1, <2>2 DEF BillIds
  <2> QED
    BY <2>1, <2>2
<1>5. BillIds(cb2, r)
  BY <1>1, <1>4 DEF BillIds
<1> QED
  BY <1>3, <1>5

(* A bill that is paid stays a bill of its statement, and so does, on an   *)
(* archived account, one that is canceled.                                 *)
LEMMA BillsKept ==
  ASSUME NEW it, NEW cl, NEW cb, NEW r, StatementsOK(it, cl, cb, r), NEW b, NEW s, NEW cb2, Restated(cb, b, s, cb2),
         r.archived \/ (s = "paid" /\ cb[b].status = "forecast")
  PROVE  StatementsOK(it, cl, cb2, r)
<1>1. \A m \in CardMonths : IF m < r.open THEN ClosedOK(m, cl[m], it, cb2) ELSE cl[m] = Open
  BY DEF StatementsOK, ClosedOK, Restated
<1>2. ~r.archived => Live(cb2) = Live(cb)
  BY DEF Live, Restated
<1> QED
  BY <1>1, <1>2 DEF StatementsOK

(* Reopening the last closed month m.                                      *)
ReopensBills(cl, cb, r, m, cb2, r2) ==
    /\ m = r.open - 1 /\ m \in CardMonths
    /\ cb2 = IF cl[m].bill = NoBill THEN cb ELSE [cb EXCEPT ![cl[m].bill].status = "canceled"]
    /\ r2 = [r EXCEPT !.open = m, !.version = @ + 1]

(* Reopen cancels the month's bill, and the new version keeps its id from  *)
(* being used again.                                                       *)
LEMMA ReopeningBills ==
  ASSUME NEW cl, NEW cb, NEW r, RowOK(r), BillIds(cb, r), NEW m, NEW cb2, NEW r2,
         ReopensBills(cl, cb, r, m, cb2, r2)
  PROVE  /\ RowOK(r2) /\ BillIds(cb2, r2)
         /\ IF cl[m].bill = NoBill THEN cb2 = cb ELSE Restated(cb, cl[m].bill, "canceled", cb2)
<1>0. LastMonth \in Nat /\ MaxInstallments \in Nat \ {0}
  BY CardsAssumption
<1>1. m = r.open - 1 /\ m \in CardMonths /\ m \in Nat /\ r.open \in Nat /\ r.version \in Nat
  BY <1>0 DEF ReopensBills, CardMonths, RowOK
<1>2. RowOK(r2) /\ r2.open = m /\ r2.version = r.version + 1
  <2>1. m \in 0..(LastMonth + 1) /\ r.version + 1 \in Nat /\ r.closing \in ClosingDays /\ r.archived \in BOOLEAN
    BY <1>0, <1>1 DEF RowOK
  <2>2. /\ r2.open = m /\ r2.version = r.version + 1 /\ r2.closing = r.closing /\ r2.archived = r.archived
        /\ r2 = [open |-> r2.open, version |-> r2.version, closing |-> r2.closing, archived |-> r2.archived]
    BY <1>1 DEF ReopensBills, RowOK
  <2> QED
    BY <2>1, <2>2 DEF RowOK
<1>3. BillIds(cb2, r) /\ IF cl[m].bill = NoBill THEN cb2 = cb ELSE Restated(cb, cl[m].bill, "canceled", cb2)
  <2>1. CASE cl[m].bill = NoBill
    BY <2>1 DEF ReopensBills
  <2>2. CASE cl[m].bill # NoBill
    <3>1. cb2 = [cb EXCEPT ![cl[m].bill].status = "canceled"]
      BY <2>2 DEF ReopensBills
    <3> QED
      BY <2>2, <3>1, RestatesBill
  <2> QED
    BY <2>1, <2>2
<1>4. BillIds(cb2, r2)
  BY <1>1, <1>2, <1>3 DEF BillIds
<1> QED
  BY <1>2, <1>3, <1>4

(* Reopen takes back the last closed month's bill and carry, and no other  *)
(* month's.                                                                *)
LEMMA Reopens ==
  ASSUME NEW it, NEW cl, NEW cb, NEW r, RowOK(r), ItemsOK(it), StatementsOK(it, cl, cb, r), BillIds(cb, r),
         NEW m, NEW it2, NEW cl2, NEW cb2, NEW r2, ReopensBills(cl, cb, r, m, cb2, r2),
         it2 = (IF cl[m].total < 0 THEN Drop(it, {Carry(m)}) ELSE it),
         cl2 = [cl EXCEPT ![m] = Open]
  PROVE  ItemsOK(it2) /\ RowOK(r2) /\ StatementsOK(it2, cl2, cb2, r2) /\ BillIds(cb2, r2)
<1>0. LastMonth \in Nat /\ MaxInstallments \in Nat \ {0}
  BY CardsAssumption
<1>1. /\ RowOK(r2) /\ BillIds(cb2, r2)
      /\ IF cl[m].bill = NoBill THEN cb2 = cb ELSE Restated(cb, cl[m].bill, "canceled", cb2)
  BY ReopeningBills
<1>2. /\ m = r.open - 1 /\ m \in CardMonths /\ m \in Nat /\ r.open \in Nat
      /\ r2.open = m /\ r2.archived = r.archived
  BY <1>0 DEF ReopensBills, CardMonths, RowOK
<1>3. Before(r) = Before(r2) \cup {m} /\ m \notin Before(r2)
  BY <1>0, <1>2 DEF Before, CardMonths
<1>4. cl2 = [n \in CardMonths |-> cl2[n]] /\ \A n \in CardMonths : n # m => cl2[n] = cl[n]
  BY DEF StatementsOK
<1>5. cl2[m] = Open
  BY <1>2 DEF StatementsOK
<1>6. \A c \in DOMAIN cb : c \in DOMAIN cb2 /\ cb2[c].amount = cb[c].amount
  BY <1>1 DEF Restated
<1>7. ClosedOK(m, cl[m], it, cb) /\ cl[m].total \in Int
  <2>1. m < r.open
    BY <1>2
  <2>2. ClosedOK(m, cl[m], it, cb)
    BY <1>2, <2>1 DEF StatementsOK
  <2> QED
    BY <2>2, MonthTotalType DEF ClosedOK
<1>8. cl[m].total > 0 <=> cl[m].bill # NoBill
  BY <1>7 DEF ClosedOK, BillIds
<1>9. /\ ItemsOK(it2) /\ DOMAIN it2 = DOMAIN it \ (IF cl[m].total < 0 THEN {Carry(m)} ELSE {})
      /\ \A k \in DOMAIN it2 : it2[k] = it[k]
  <2>1. CASE cl[m].total < 0
    BY <2>1, DropKeepsItems DEF Drop
  <2>2. CASE ~(cl[m].total < 0)
    BY <2>2
  <2> QED
    BY <2>1, <2>2
<1>10. (Carry(m))[1] = m + 1 /\ (Carry(m))[3] = m
  BY DEF Carry
<1>11. \A n \in CardMonths : IF n < r2.open THEN ClosedOK(n, cl2[n], it2, cb2) ELSE cl2[n] = Open
  <2> TAKE n \in CardMonths
  <2>0. n \in Nat
    BY <1>0 DEF CardMonths
  <2>1. CASE n < m
    <3>1. n < r.open
      BY <1>2, <2>0, <2>1
    <3>2. ClosedOK(n, cl[n], it, cb) /\ cl2[n] = cl[n]
      BY <1>2, <1>4, <2>0, <2>1, <3>1 DEF StatementsOK
    <3>3. MonthTotal(it2, n) = MonthTotal(it, n)
      <4>1. n # m + 1
        BY <1>2, <2>0, <2>1
      <4>2. \A k \in DOMAIN it \cup DOMAIN it2 : k[1] = n => k \in DOMAIN it /\ k \in DOMAIN it2 /\ it2[k] = it[k]
        <5> SUFFICES ASSUME NEW k \in DOMAIN it \cup DOMAIN it2, k[1] = n
                     PROVE  k \in DOMAIN it /\ k \in DOMAIN it2 /\ it2[k] = it[k]
          OBVIOUS
        <5>1. k # Carry(m)
          BY <1>10, <4>1
        <5> QED
          BY <1>9, <5>1
      <4> QED
        BY <4>2, MonthKept
    <3>4. Carry(n) \in DOMAIN it => Carry(n) \in DOMAIN it2 /\ it2[Carry(n)] = it[Carry(n)]
      <4>1. Carry(n) # Carry(m)
        <5>1. (Carry(n))[3] = n
          BY DEF Carry
        <5>2. n # m
          BY <1>2, <2>0, <2>1
        <5> QED
          BY <1>10, <5>1, <5>2
      <4> QED
        BY <1>9, <4>1
    <3>5. ClosedOK(n, cl2[n], it2, cb2)
      BY <1>6, <3>2, <3>3, <3>4 DEF ClosedOK
    <3> QED
      BY <1>2, <2>1, <3>5
  <2>2. CASE n = m
    BY <1>2, <1>5, <2>2
  <2>3. CASE n > m
    <3>1. ~(n < r.open)
      BY <1>2, <2>0, <2>3
    <3> QED
      BY <1>2, <1>4, <2>0, <2>3, <3>1 DEF StatementsOK
  <2> QED
    BY <1>2, <2>0, <2>1, <2>2, <2>3
<1>12. ASSUME NEW k \in DOMAIN it2, k[2] = "carry"
       PROVE  k[3] \in Before(r2) /\ k = Carry(k[3]) /\ cl2[k[3]].total < 0
  <2>1. k \in DOMAIN it
    BY <1>9
  <2>2. k[3] \in Before(r) /\ k = Carry(k[3]) /\ cl[k[3]].total < 0
    BY <1>12, <2>1 DEF StatementsOK
  <2>3. k[3] # m
    BY <1>9, <2>2
  <2>4. k[3] \in CardMonths
    BY <2>2 DEF Before
  <2> QED
    BY <1>3, <1>4, <2>2, <2>3, <2>4
<1>13. ASSUME ~r2.archived
       PROVE  /\ \A c \in Live(cb2) : c[1] \in Before(r2) /\ cl2[c[1]].total > 0 /\ cl2[c[1]].bill = c
              /\ \A n \in Before(r2) : cl2[n].total > 0 => cl2[n].bill \in Live(cb2)
  <2>1. /\ \A c \in Live(cb) : c[1] \in Before(r) /\ cl[c[1]].total > 0 /\ cl[c[1]].bill = c
        /\ \A n \in Before(r) : cl[n].total > 0 => cl[n].bill \in Live(cb)
    BY <1>2, <1>13 DEF StatementsOK
  <2>2. \A c \in DOMAIN cb : c \in Live(cb2) <=> c \in Live(cb) /\ c # cl[m].bill
    <3>1. CASE cl[m].bill = NoBill
      BY <1>1, <3>1 DEF BillIds
    <3>2. CASE cl[m].bill # NoBill
      BY <1>1, <3>2 DEF Restated, Live
    <3> QED
      BY <3>1, <3>2
  <2>3. DOMAIN cb2 = DOMAIN cb /\ Live(cb2) \subseteq DOMAIN cb2 /\ Live(cb) \subseteq DOMAIN cb
    BY <1>1 DEF Restated, Live
  <2>4. ASSUME NEW c \in Live(cb2)
        PROVE  c[1] \in Before(r2) /\ cl2[c[1]].total > 0 /\ cl2[c[1]].bill = c
    <3>1. c \in Live(cb) /\ c # cl[m].bill
      BY <2>2, <2>3, <2>4
    <3>2. c[1] \in Before(r) /\ cl[c[1]].total > 0 /\ cl[c[1]].bill = c
      BY <2>1, <3>1
    <3>3. c[1] # m /\ c[1] \in CardMonths
      BY <3>1, <3>2 DEF Before
    <3> QED
      BY <1>3, <1>4, <3>2, <3>3
  <2>5. ASSUME NEW n \in Before(r2), cl2[n].total > 0 PROVE cl2[n].bill \in Live(cb2)
    <3>1. n \in Before(r) /\ n # m /\ n \in CardMonths /\ n < r.open
      BY <1>3 DEF Before
    <3>2. cl2[n] = cl[n] /\ ClosedOK(n, cl[n], it, cb)
      BY <1>4, <3>1 DEF StatementsOK
    <3>3. cl[n].bill \in Live(cb) /\ cl[n].bill[1] = n
      BY <2>1, <2>5, <3>1, <3>2 DEF ClosedOK
    <3>4. cl[n].bill # cl[m].bill
      <4>1. cl[m].bill # NoBill => cl[m].bill[1] = m
        BY <1>7, <1>8 DEF ClosedOK
      <4>2. cl[n].bill # NoBill
        BY <2>3, <3>3 DEF BillIds
      <4> QED
        BY <3>1, <3>3, <4>1, <4>2
    <3> QED
      BY <2>2, <2>3, <3>2, <3>3, <3>4
  <2> QED
    BY <2>4, <2>5
<1>14. StatementsOK(it2, cl2, cb2, r2)
  BY <1>4, <1>11, <1>12, <1>13 DEF StatementsOK
<1> QED
  BY <1>1, <1>9, <1>14

----------------------------------------------------------------------------
(* What the writes are made of.                                            *)

(* Items over items are items.                                             *)
LEMMA OverKeepsItems ==
  ASSUME NEW g, ItemsOK(g), NEW it, ItemsOK(it)
  PROVE  ItemsOK(Over(g, it))
<1> SUFFICES ASSUME NEW h, h = Over(g, it) PROVE ItemsOK(h)
  OBVIOUS
<1>1. /\ IsFun(h) /\ DOMAIN h = DOMAIN g \cup DOMAIN it
      /\ \A k \in DOMAIN g : h[k] = g[k]
      /\ \A k \in DOMAIN it : k \notin DOMAIN g => h[k] = it[k]
  BY DEF Over, IsFun
<1>2. IsFiniteSet(DOMAIN h)
  BY <1>1, FS_Union DEF ItemsOK
<1> QED
  BY <1>1, <1>2 DEF ItemsOK

(* SplitInstallments gives every installment an amount.                    *)
LEMMA PartsTyped ==
  ASSUME NEW p \in Buys
  PROVE  /\ PartsOf(p) \in [1..Purchases[p].n -> Int] /\ IsFiniteSet(1..Purchases[p].n)
         /\ Purchases[p].n \in 1..MaxInstallments /\ Purchases[p].total \in Nat
<1>1. Purchases[p].n \in 1..MaxInstallments /\ Purchases[p].total \in Nat
  BY CardsAssumption
<1> DEFINE n == Purchases[p].n
           t == Purchases[p].total
<1>2. n \in 1..MaxInstallments /\ t \in Nat
  BY <1>1
<1>3. PartsOf(p) = SplitInstallments(t, n)
  BY DEF PartsOf
<1> HIDE DEF n, t
<1>4. t \div n \in Int /\ t % n \in Int
  BY <1>2
<1>5. SplitInstallments(t, n) \in [1..n -> Int]
  BY <1>2, <1>4 DEF SplitInstallments
<1>6. IsFiniteSet(1..n)
  BY <1>2, FS_Interval
<1> QED
  BY <1>2, <1>3, <1>5, <1>6 DEF n, t

(* And so is the sum of any of them.                                       *)
LEMMA SumPartsType ==
  ASSUME NEW p \in Buys, NEW is, is \subseteq 1..Purchases[p].n
  PROVE  SumParts(p, is) \in Int
<1> DEFINE S == 1..Purchases[p].n
           f == PartsOf(p)
<1>1. IsFiniteSet(S) /\ is \in SUBSET S /\ \A i \in S : f[i] \in Int
  BY PartsTyped
<1> HIDE DEF S, f
<1>2. SumFunctionOnSet(f, is) \in Int
  BY <1>1, SumType
<1> QED
  BY <1>2 DEF SumParts, f

(* A day of the calendar is in one of its months.                          *)
LEMMA DayOfMonth ==
  ASSUME NEW d \in Nat \ {0}, d <= LastCardDay
  PROVE  MonthOf(d) \in 0..LastMonth
<1>1. MonthDays \in Nat \ {0} /\ LastMonth \in Nat /\ MaxInstallments \in Nat \ {0} /\ d <= (LastMonth + 1) * MonthDays
  BY CardsAssumption DEF LastCardDay
<1> DEFINE q == (d - 1) \div MonthDays
           rest == (d - 1) % MonthDays
<1>2. q \in Int /\ rest \in 0..(MonthDays - 1) /\ d - 1 = MonthDays * q + rest
  BY <1>1
<1> HIDE DEF q, rest
<1>3. q >= 0
  <2> SUFFICES ASSUME q <= -1 PROVE FALSE
    BY <1>2
  <2>1. MonthDays * q <= MonthDays * (-1)
    BY <1>1, <1>2
  <2> QED
    BY <1>1, <1>2, <2>1
<1>4. q <= LastMonth
  <2> SUFFICES ASSUME q >= LastMonth + 1 PROVE FALSE
    BY <1>1, <1>2
  <2>1. MonthDays * q >= MonthDays * (LastMonth + 1)
    BY <1>1, <1>2
  <2> QED
    BY <1>1, <1>2, <2>1
<1> QED
  BY <1>1, <1>2, <1>3, <1>4 DEF MonthOf, q

(* PlaceInstallments puts every installment on a month of the calendar,    *)
(* the open one or a later one.                                            *)
LEMMA PlanMonths ==
  ASSUME NEW p \in Buys, Purchases[p].day <= LastCardDay, NEW closing, NEW open \in 0..(LastMonth + 1),
         NEW plan, plan = PlaceInstallments(p, closing, open)
  PROVE  plan \in [1..Purchases[p].n -> CardMonths] /\ \A i \in 1..Purchases[p].n : plan[i] >= open
<1>1. LastMonth \in Nat /\ MaxInstallments \in Nat \ {0} /\ Purchases[p].n \in 1..MaxInstallments /\ Purchases[p].day \in Nat \ {0}
  BY CardsAssumption
<1> DEFINE first == StatementFor(Purchases[p].day, closing)
           start == IF first < open THEN open ELSE first
<1>2. first \in 0..(LastMonth + 1)
  <2>1. MonthOf(Purchases[p].day) \in 0..LastMonth
    BY <1>1, DayOfMonth
  <2> QED
    BY <1>1, <2>1 DEF StatementFor
<1> HIDE DEF first
<1>3. start \in open..(LastMonth + 1)
  BY <1>1, <1>2
<1>4. plan = [i \in 1..Purchases[p].n |-> start + i - 1]
  BY DEF PlaceInstallments, first
<1> HIDE DEF start
<1> QED
  BY <1>1, <1>3, <1>4 DEF CardMonths

(* The rows of a plan.                                                     *)
LEMMA RowsTyped ==
  ASSUME NEW p \in Buys, NEW b \in BoughtRow(p), NEW is, is \subseteq 1..Purchases[p].n
  PROVE  /\ DOMAIN b.plan = 1..Purchases[p].n
         /\ PlanRows(p, b, is) \subseteq ItemKeys /\ IsFiniteSet(PlanRows(p, b, is))
         /\ \A i \in is : /\ TagOf(b, i) \in Nat /\ b.plan[i] \in CardMonths
                          /\ <<b.plan[i], p, TagOf(b, i)>> \in PlanRows(p, b, is)
<1>1. b.plan \in [1..Purchases[p].n -> CardMonths] /\ b.advanced \subseteq 1..Purchases[p].n
  BY DEF BoughtRow
<1>2. \A i \in is : TagOf(b, i) \in Nat /\ b.plan[i] \in CardMonths /\ i \in Int
  BY <1>1, PartsTyped DEF TagOf, Adv
<1>3. p \in Owners
  BY DEF Owners
<1> DEFINE f == [i \in is |-> <<b.plan[i], p, TagOf(b, i)>>]
<1>4. \A i \in is : f[i] \in ItemKeys
  BY <1>2, <1>3, MakesKey
<1>5. PlanRows(p, b, is) = {f[i] : i \in is}
  BY DEF PlanRows
<1>6. IsFiniteSet(is)
  BY PartsTyped, FS_Subset
<1>7. IsFiniteSet(PlanRows(p, b, is))
  <2>1. f \in Surjection(is, PlanRows(p, b, is))
    BY <1>5 DEF Surjection
  <2> HIDE DEF f
  <2> QED
    BY <1>6, <2>1, FS_Surjection
<1> HIDE DEF f
<1> QED
  BY <1>1, <1>2, <1>4, <1>5, <1>7 DEF PlanRows

(* A write on the open statement or a later one, that carries nothing.     *)
LateWrite(it, it2, open) ==
    /\ ItemsOK(it2)
    /\ \A k \in DOMAIN it \cup DOMAIN it2 : k[1] < open \/ k[2] = "carry" =>
         k \in DOMAIN it /\ k \in DOMAIN it2 /\ it2[k] = it[k]

(* Writing an item of the open month or a later one is such a write.       *)
LEMMA LatePut ==
  ASSUME NEW it, ItemsOK(it), NEW open \in Nat, NEW k \in ItemKeys, k[1] >= open, k[2] # "carry", NEW v \in Int
  PROVE  LateWrite(it, Put(it, k, v), open)
<1>1. ItemsOK(Put(it, k, v))
  BY PutKeepsItems
<1> SUFFICES ASSUME NEW g, g = Put(it, k, v), ItemsOK(g) PROVE LateWrite(it, g, open)
  BY <1>1
<1>2. DOMAIN g = DOMAIN it \cup {k} /\ \A j \in DOMAIN it \ {k} : g[j] = it[j]
  BY DEF Put, Over
<1>3. k[1] \in Int
  BY CardsAssumption DEF ItemKeys, CardMonths
<1>4. \A j \in DOMAIN it \cup DOMAIN g : j[1] < open \/ j[2] = "carry" => j # k
  BY <1>3
<1> QED
  BY <1>2, <1>4 DEF LateWrite

(* And so is deleting some.                                                *)
LEMMA LateDrop ==
  ASSUME NEW it, ItemsOK(it), NEW open \in Nat, NEW ks, \A k \in ks : k \in ItemKeys /\ k[1] >= open /\ k[2] # "carry"
  PROVE  LateWrite(it, Drop(it, ks), open)
<1>1. ItemsOK(Drop(it, ks))
  BY DropKeepsItems
<1> SUFFICES ASSUME NEW g, g = Drop(it, ks), ItemsOK(g) PROVE LateWrite(it, g, open)
  BY <1>1
<1>2. DOMAIN g = DOMAIN it \ ks /\ \A j \in DOMAIN it \ ks : g[j] = it[j]
  BY DEF Drop
<1>3. \A j \in DOMAIN it \cup DOMAIN g : j[1] < open \/ j[2] = "carry" => j \notin ks
  <2> SUFFICES ASSUME NEW j \in ks, j[1] < open PROVE FALSE
    OBVIOUS
  <2>1. j[1] \in Int /\ j[1] >= open
    BY CardsAssumption DEF ItemKeys, CardMonths
  <2> QED
    BY <2>1
<1> QED
  BY <1>2, <1>3 DEF LateWrite

(* And one after the other.                                                *)
LEMMA LateTwice ==
  ASSUME NEW it, NEW g, NEW h, NEW open, LateWrite(it, g, open), LateWrite(g, h, open)
  PROVE  LateWrite(it, h, open)
  BY DEF LateWrite

(* The four writes.                                                        *)
LEMMA BoughtItems ==
  ASSUME NEW p \in Buys, NEW b \in BoughtRow(p), b.advanced = {}, NEW open \in Nat, \A i \in DOMAIN b.plan : b.plan[i] >= open,
         NEW it, ItemsOK(it), NEW it2, it2 = Over([k \in PlanRows(p, b, DOMAIN b.plan) |-> PartsOf(p)[k[3]]], it)
  PROVE  LateWrite(it, it2, open)
<1> DEFINE S == PlanRows(p, b, DOMAIN b.plan)
           g == [k \in S |-> PartsOf(p)[k[3]]]
<1>0. p # "carry"
  BY CardsAssumption
<1>1. DOMAIN b.plan = 1..Purchases[p].n /\ S \subseteq ItemKeys /\ IsFiniteSet(S)
  BY RowsTyped, PartsTyped DEF BoughtRow
<1>2. ASSUME NEW k \in S PROVE k[1] >= open /\ k[1] \in Int /\ k[2] # "carry" /\ PartsOf(p)[k[3]] \in Int
  <2>1. PICK i \in 1..Purchases[p].n : k = <<b.plan[i], p, TagOf(b, i)>>
    BY <1>1 DEF PlanRows
  <2>2. k[1] = b.plan[i] /\ k[2] = p /\ k[3] = i
    BY <2>1 DEF TagOf
  <2>3. k[1] \in Int
    BY <1>1, CardsAssumption DEF ItemKeys, CardMonths
  <2> QED
    BY <1>0, <1>1, <2>2, <2>3, PartsTyped
<1> HIDE DEF S
<1>3. ItemsOK(g)
  <2>1. DOMAIN g = S /\ IsFun(g) /\ \A k \in S : g[k] \in Int
    BY <1>2 DEF IsFun
  <2> HIDE DEF g
  <2> QED
    BY <1>1, <2>1 DEF ItemsOK
<1>4. ItemsOK(it2)
  BY <1>3, OverKeepsItems DEF S
<1>5. DOMAIN it2 = S \cup DOMAIN it /\ \A k \in DOMAIN it : k \notin S => it2[k] = it[k]
  BY DEF Over, S
<1>6. \A k \in DOMAIN it \cup DOMAIN it2 : k[1] < open \/ k[2] = "carry" => k \notin S
  BY <1>2
<1> QED
  BY <1>4, <1>5, <1>6 DEF LateWrite

(* AddCredit writes on the open month.                                     *)
LEMMA CreditedItems ==
  ASSUME NEW c \in DOMAIN Credits, NEW open \in 0..(LastMonth + 1), NEW it, ItemsOK(it)
  PROVE  LateWrite(it, Put(it, <<open, c, Credit>>, -Credits[c]), open)
<1> DEFINE k == <<open, c, Credit>>
<1>0. LastMonth \in Nat /\ MaxInstallments \in Nat \ {0} /\ Credits[c] \in Nat /\ c # "carry" /\ c \in Owners
  BY CardsAssumption DEF Owners
<1>1. open \in CardMonths /\ open \in Nat
  BY <1>0 DEF CardMonths
<1>2. k \in ItemKeys /\ k[1] = open /\ k[2] = c
  BY <1>0, <1>1, MakesKey DEF Credit
<1>3. -Credits[c] \in Int
  BY <1>0
<1>4. k[1] >= open /\ k[2] # "carry"
  BY <1>0, <1>1, <1>2
<1> HIDE DEF k
<1>5. LateWrite(it, Put(it, k, -Credits[c]), open)
  BY <1>1, <1>2, <1>3, <1>4, LatePut
<1> QED
  BY <1>5 DEF k

(* Refund deletes from the open month on, and gives back on the open one.  *)
LEMMA RefundedItems ==
  ASSUME NEW p \in Buys, NEW r \in BoughtRow(p), NEW open \in 0..(LastMonth + 1), NEW it, ItemsOK(it),
         NEW billed, billed = RefundPlan(r, open), NEW kept, kept = Drop(it, PlanRows(p, r, DOMAIN r.plan \ billed)),
         NEW it2, it2 = (IF billed = {} THEN kept ELSE Put(kept, <<open, p, Back>>, -SumParts(p, billed)))
  PROVE  LateWrite(it, it2, open)
<1>0. LastMonth \in Nat /\ MaxInstallments \in Nat \ {0} /\ p # "carry" /\ p \in Owners
  BY CardsAssumption DEF Owners
<1>1. open \in CardMonths /\ open \in Nat
  BY <1>0 DEF CardMonths
<1>2. DOMAIN r.plan = 1..Purchases[p].n /\ billed \subseteq 1..Purchases[p].n /\ \A i \in DOMAIN r.plan \ billed : ~(r.plan[i] < open)
  BY DEF BoughtRow, RefundPlan
<1> DEFINE is == DOMAIN r.plan \ billed
           ks == PlanRows(p, r, is)
<1>3. ASSUME NEW k \in ks PROVE k \in ItemKeys /\ k[1] >= open /\ k[2] # "carry"
  <2>1. is \subseteq 1..Purchases[p].n
    BY <1>2
  <2>2. ks \subseteq ItemKeys
    BY <2>1, RowsTyped
  <2>3. PICK i \in is : k = <<r.plan[i], p, TagOf(r, i)>>
    BY DEF PlanRows
  <2>4. k[1] = r.plan[i] /\ k[2] = p /\ k \in ItemKeys
    BY <2>2, <2>3
  <2>5. r.plan[i] \in Int
    <3>1. r.plan \in [1..Purchases[p].n -> CardMonths] /\ i \in 1..Purchases[p].n
      BY <1>2 DEF BoughtRow
    <3>2. r.plan[i] \in CardMonths
      BY <3>1
    <3> QED
      BY <1>0, <3>2 DEF CardMonths
  <2> QED
    BY <1>0, <1>1, <1>2, <2>4, <2>5
<1> HIDE DEF ks
<1>4. LateWrite(it, kept, open)
  BY <1>1, <1>3, LateDrop DEF ks
<1>5. CASE billed = {}
  BY <1>4, <1>5
<1>6. CASE billed # {}
  <2> DEFINE k == <<open, p, Back>>
             v == -SumParts(p, billed)
  <2>1. k \in ItemKeys /\ k[1] = open /\ k[2] = p
    BY <1>0, <1>1, MakesKey DEF Back
  <2>2. v \in Int
    <3>1. SumParts(p, billed) \in Int
      BY <1>2, SumPartsType
    <3> QED
      BY <3>1
  <2>3. ItemsOK(kept) /\ k[1] >= open /\ k[2] # "carry"
    BY <1>0, <1>1, <1>4, <2>1 DEF LateWrite
  <2> HIDE DEF k, v
  <2>4. LateWrite(kept, Put(kept, k, v), open)
    BY <1>1, <2>1, <2>2, <2>3, LatePut
  <2>5. it2 = Put(kept, k, v)
    BY <1>6 DEF k, v
  <2> QED
    BY <1>4, <2>4, <2>5, LateTwice
<1> QED
  BY <1>5, <1>6

(* Advance deletes what is after the open month and writes on the open     *)
(* one.                                                                    *)
LEMMA AdvancedItems ==
  ASSUME NEW p \in Buys, NEW r \in BoughtRow(p), NEW open \in 0..(LastMonth + 1), NEW it, ItemsOK(it),
         NEW moved, moved = {i \in DOMAIN r.plan : r.plan[i] > open},
         NEW it2, it2 = Put(Drop(it, {<<r.plan[i], p, i>> : i \in moved}), <<open, p, Adv>>, SumParts(p, moved))
  PROVE  LateWrite(it, it2, open)
<1>0. LastMonth \in Nat /\ MaxInstallments \in Nat \ {0} /\ p # "carry" /\ p \in Owners /\ Purchases[p].n \in 1..MaxInstallments
  BY CardsAssumption DEF Owners
<1>1. open \in CardMonths /\ open \in Nat
  BY <1>0 DEF CardMonths
<1>2. moved \subseteq 1..Purchases[p].n /\ \A i \in moved : r.plan[i] \in CardMonths /\ r.plan[i] > open
  BY DEF BoughtRow
<1> DEFINE ks == {<<r.plan[i], p, i>> : i \in moved}
           kept == Drop(it, ks)
<1>3. ASSUME NEW k \in ks PROVE k \in ItemKeys /\ k[1] >= open /\ k[2] # "carry"
  <2>1. PICK i \in moved : k = <<r.plan[i], p, i>>
    OBVIOUS
  <2>2. r.plan[i] \in CardMonths /\ r.plan[i] \in Int /\ i \in Int /\ r.plan[i] > open
    BY <1>0, <1>2 DEF CardMonths
  <2>3. k \in ItemKeys /\ k[1] = r.plan[i] /\ k[2] = p
    BY <1>0, <2>1, <2>2, MakesKey
  <2> QED
    BY <1>0, <1>1, <2>2, <2>3
<1> HIDE DEF ks
<1>4. LateWrite(it, kept, open)
  BY <1>1, <1>3, LateDrop
<1> DEFINE k == <<open, p, Adv>>
           v == SumParts(p, moved)
<1>5. k \in ItemKeys /\ k[1] = open /\ k[2] = p
  BY <1>0, <1>1, MakesKey DEF Adv
<1>6. v \in Int
  BY <1>2, SumPartsType
<1>7. it2 = Put(kept, k, v)
  BY DEF ks
<1> HIDE DEF kept
<1>8. ItemsOK(kept) /\ k[1] >= open /\ k[2] # "carry"
  BY <1>0, <1>1, <1>4, <1>5 DEF LateWrite
<1> HIDE DEF k, v
<1>9. LateWrite(kept, Put(kept, k, v), open)
  BY <1>1, <1>5, <1>6, <1>8, LatePut
<1> QED
  BY <1>4, <1>7, <1>9, LateTwice

----------------------------------------------------------------------------
(* The steps of StatementInv.                                              *)

(* A request's step keeps StatementInv when what it writes does, when its  *)
(* own copies are good, and when it leaves the others' copies good.        *)
LEMMA StatementFrom ==
  ASSUME StatementInv, NEW u \in CardUsers, NEW x, Holds(u, x),
         ItemsOK(item'), RowOK(row'), StatementsOK(item', closedAs', cardBill', row'), BillIds(cardBill', row'),
         KnowsOK(x, item', closedAs', row'), Later(item, closedAs, row, item', closedAs', row')
  PROVE  StatementInv'
<1>1. at' = [v \in CardUsers |-> at'[v]] /\ \A v \in CardUsers : at'[v] = IF v = u THEN x ELSE at[v]
  BY DEF StatementInv, Holds
<1>2. ASSUME NEW v \in CardUsers PROVE KnowsOK(at'[v], item', closedAs', row')
  <2>1. CASE v = u
    BY <1>1, <2>1
  <2>2. CASE v # u
    <3>1. KnowsOK(at[v], item, closedAs, row) /\ RowOK(row)
      BY DEF StatementInv
    <3>2. KnowsOK(at[v], item', closedAs', row')
      BY <3>1, KnowledgeKept
    <3> QED
      BY <1>1, <2>2, <3>2
  <2> QED
    BY <2>1, <2>2
<1> QED
  BY <1>1, <1>2 DEF StatementInv

(* The same for the steps nobody's request takes.                          *)
LEMMA StatementFromOthers ==
  ASSUME StatementInv, UNCHANGED at,
         ItemsOK(item'), RowOK(row'), StatementsOK(item', closedAs', cardBill', row'), BillIds(cardBill', row'),
         Later(item, closedAs, row, item', closedAs', row')
  PROVE  StatementInv'
<1>1. ASSUME NEW v \in CardUsers PROVE KnowsOK(at'[v], item', closedAs', row')
  <2>1. KnowsOK(at[v], item, closedAs, row) /\ RowOK(row)
    BY DEF StatementInv
  <2>2. KnowsOK(at[v], item', closedAs', row')
    BY <2>1, KnowledgeKept
  <2> QED
    BY <2>2
<1> QED
  BY <1>1 DEF StatementInv

(* A step that writes nothing of the card.                                 *)
LEMMA StatementRead ==
  ASSUME StatementInv, NEW u \in CardUsers, NEW x, Holds(u, x), KnowsOK(x, item, closedAs, row),
         UNCHANGED <<row, item, closedAs, cardBill>>
  PROVE  StatementInv'
<1>1. /\ ItemsOK(item') /\ RowOK(row') /\ StatementsOK(item', closedAs', cardBill', row') /\ BillIds(cardBill', row')
      /\ KnowsOK(x, item', closedAs', row')
  BY DEF StatementInv
<1>2. Later(item, closedAs, row, item', closedAs', row')
  BY DEF Later
<1> QED
  BY <1>1, <1>2, StatementFrom

(* A request that is done knows nothing.                                   *)
LEMMA FreeKnows == \A it, cl, r : KnowsOK([op |-> Free], it, cl, r)
  BY DEF KnowsOK, CardOps, Free

(* A request that gives up changes nothing.                                *)
LEMMA StatementLeaves ==
  ASSUME StatementInv, NEW u \in CardUsers, Leaves(u), UNCHANGED <<row, item, closedAs, cardBill>>
  PROVE  StatementInv'
<1> DEFINE x == [op |-> Free]
<1>1. Holds(u, x) /\ KnowsOK(x, item, closedAs, row)
  BY FreeKnows DEF Leaves
<1> HIDE DEF x
<1> QED
  BY <1>1, StatementRead

(* What LoadCard puts together.                                            *)
LEMMA Loaded ==
  ASSUME NEW r, NEW x, NEW c, x = Over([card |-> c], r), DOMAIN r \subseteq {"op", "of", "read", "month", "was"}
  PROVE  x.card = c /\ \A f \in DOMAIN r : x[f] = r[f]
  BY DEF Over

(* What a request reads of the card is the card.                           *)
LEMMA StatementLoads ==
  ASSUME StatementInv, NEW u \in CardUsers,
         \/ \E p \in Buys : CreatePurchase(u, p) \/ GetPurchaseItem(u, p)
         \/ \E c \in DOMAIN Credits : CreateCredit(u, c)
         \/ LoadToClose(u) \/ LoadToReopen(u)
  PROVE  StatementInv'
<1>0. RowOK(row) /\ row.open \in Int
  BY CardsAssumption DEF StatementInv, RowOK
<1>1. ASSUME NEW r, LoadCard(u, r), DOMAIN r \subseteq {"op", "of", "read", "month", "was"}, "op" \in DOMAIN r,
             \/ r.op \in {"buy", "credit"} \cup PurchaseOps
             \/ r.op = "load" /\ row.open <= LastMonth
             \/ /\ r.op = "reopen" /\ "month" \in DOMAIN r /\ "was" \in DOMAIN r
                /\ r.month = row.open - 1 /\ r.month \in CardMonths /\ r.was = closedAs[r.month]
      PROVE  StatementInv'
  <2> DEFINE x == Over([card |-> row], r)
  <2>1. x.card = row /\ \A f \in DOMAIN r : x[f] = r[f]
    BY <1>1, Loaded
  <2> HIDE DEF x
  <2>2. x.op = r.op /\ CopyOK(x, row)
    BY <1>0, <1>1, <2>1 DEF CopyOK, RowOK
  <2>3. KnowsOK(x, item, closedAs, row)
    <3>1. CASE r.op \in {"buy", "credit"} \cup PurchaseOps
      BY <2>2, <3>1 DEF KnowsOK, CardOps, PurchaseOps
    <3>2. CASE r.op = "load" /\ row.open <= LastMonth
      BY <2>1, <2>2, <3>2 DEF KnowsOK, CardOps
    <3>3. CASE /\ r.op = "reopen" /\ "month" \in DOMAIN r /\ "was" \in DOMAIN r
               /\ r.month = row.open - 1 /\ r.month \in CardMonths /\ r.was = closedAs[r.month]
      <4>1. x.month = r.month /\ x.was = r.was
        BY <2>1, <3>3
      <4> QED
        BY <2>1, <2>2, <3>3, <4>1 DEF KnowsOK, CardOps
    <3> QED
      BY <1>1, <3>1, <3>2, <3>3
  <2>4. Holds(u, x) /\ UNCHANGED <<row, item, closedAs, cardBill>>
    BY <1>1 DEF LoadCard, x
  <2> QED
    BY <2>3, <2>4, StatementRead
<1>2. CASE \E p \in Buys : CreatePurchase(u, p)
  <2>1. PICK p \in Buys : LoadCard(u, [op |-> "buy", of |-> p])
    BY <1>2 DEF CreatePurchase
  <2> DEFINE r == [op |-> "buy", of |-> p]
  <2>2. DOMAIN r = {"op", "of"} /\ r.op = "buy" /\ LoadCard(u, r)
    BY <2>1
  <2> HIDE DEF r
  <2> QED
    BY <1>1, <2>2
<1>3. CASE \E p \in Buys : GetPurchaseItem(u, p)
  <2>1. PICK p \in Buys, op \in PurchaseOps : LoadCard(u, [op |-> op, of |-> p, read |-> bought[p]])
    BY <1>3 DEF GetPurchaseItem, PurchaseOps
  <2> DEFINE r == [op |-> op, of |-> p, read |-> bought[p]]
  <2>2. DOMAIN r = {"op", "of", "read"} /\ r.op = op /\ LoadCard(u, r)
    BY <2>1
  <2> HIDE DEF r
  <2> QED
    BY <1>1, <2>1, <2>2
<1>4. CASE \E c \in DOMAIN Credits : CreateCredit(u, c)
  <2>1. PICK c \in DOMAIN Credits : LoadCard(u, [op |-> "credit", of |-> c])
    BY <1>4 DEF CreateCredit
  <2> DEFINE r == [op |-> "credit", of |-> c]
  <2>2. DOMAIN r = {"op", "of"} /\ r.op = "credit" /\ LoadCard(u, r)
    BY <2>1
  <2> HIDE DEF r
  <2> QED
    BY <1>1, <2>2
<1>5. CASE LoadToClose(u)
  <2> DEFINE r == [op |-> "load"]
  <2>1. DOMAIN r = {"op"} /\ r.op = "load" /\ LoadCard(u, r) /\ row.open <= LastMonth
    BY <1>5 DEF LoadToClose
  <2> HIDE DEF r
  <2> QED
    BY <1>1, <2>1
<1>6. CASE LoadToReopen(u)
  <2> DEFINE m == row.open - 1
             r == [op |-> "reopen", month |-> m, was |-> closedAs[m]]
  <2>1. LoadCard(u, r) /\ m \in CardMonths
    BY <1>6 DEF LoadToReopen
  <2>2. /\ DOMAIN r = {"op", "month", "was"} /\ r.op = "reopen"
        /\ r.month = row.open - 1 /\ r.was = closedAs[r.month]
    OBVIOUS
  <2> HIDE DEF r
  <2>3. r.month \in CardMonths
    BY <2>1, <2>2
  <2> QED
    BY <1>1, <2>1, <2>2, <2>3
<1> QED
  BY <1>2, <1>3, <1>4, <1>5, <1>6

(* The writes on the open statement or later ones.                         *)
LEMMA StatementWritten ==
  ASSUME StatementInv, NEW u \in CardUsers, Leaves(u), LateWrite(item, item', row.open),
         row' = [row EXCEPT !.version = @ + 1], UNCHANGED <<closedAs, cardBill>>
  PROVE  StatementInv'
<1> DEFINE x == [op |-> Free]
<1>1. Holds(u, x) /\ KnowsOK(x, item', closedAs', row')
  BY FreeKnows DEF Leaves
<1> HIDE DEF x
<1>2. /\ RowOK(row) /\ RowOK(row') /\ row'.open = row.open /\ row'.archived = row.archived
      /\ row'.version = row.version + 1 /\ row.version \in Nat
  BY DEF StatementInv, RowOK
<1>3. ItemsOK(item') /\ StatementsOK(item', closedAs, cardBill, row')
  BY <1>2, StatementsKept DEF StatementInv, LateWrite
<1>4. BillIds(cardBill, row')
  <2>1. BillIds(cardBill, row) /\ row'.version >= row.version
    BY <1>2 DEF StatementInv
  <2> QED
    BY <1>2, <2>1, BillIdsKept
<1>5. Later(item, closedAs, row, item', closedAs', row')
  BY <1>2 DEF Later
<1> QED
  BY <1>1, <1>2, <1>3, <1>4, <1>5, StatementFrom

(* What a request's copies tell it when it writes.                         *)
LEMMA WhatIsRead ==
  ASSUME StatementInv, ReadInv, NEW u \in CardUsers
  PROVE  /\ at[u].op \in CardOps => at[u].card.open \in 0..(LastMonth + 1) /\ at[u].card.closing \in ClosingDays
         /\ at[u].op \in PurchaseOps => /\ at[u].of \in Buys /\ at[u].read \in BoughtRow(at[u].of) /\ ~at[u].read.refunded
                                        /\ bought[at[u].of] \in BoughtRow(at[u].of)
         /\ at[u].op \in PurchaseOps /\ PurchaseGuard(u) => at[u].read = bought[at[u].of]
         /\ row.open \in Nat /\ row.version \in Nat
<1>1. KnowsOK(at[u], item, closedAs, row) /\ ReadOK(at[u], bought) /\ RowOK(row)
  BY DEF StatementInv, ReadInv
<1>2. at[u].op \in PurchaseOps /\ PurchaseGuard(u) => at[u].read = bought[at[u].of]
  <2> SUFFICES ASSUME at[u].op \in PurchaseOps, PurchaseGuard(u) PROVE at[u].read = bought[at[u].of]
    OBVIOUS
  <2>1. /\ bought[at[u].of] \in BoughtRow(at[u].of) /\ bought[at[u].of].refunded = FALSE
        /\ at[u].read = [bought[at[u].of] EXCEPT !.refunded = FALSE]
    BY <1>1 DEF ReadOK, PurchaseGuard, BoughtRow
  <2> QED
    BY <2>1 DEF BoughtRow
<1>3. row.open \in Nat /\ row.version \in Nat
  BY <1>1, CardsAssumption DEF RowOK
<1> QED
  BY <1>1, <1>2, <1>3 DEF ReadOK, KnowsOK, CopyOK, RowOK

(* The plan a purchase is bought with.                                     *)
NewPurchase(plan) == [there |-> TRUE, plan |-> plan, advanced |-> {}, refunded |-> FALSE, rev |-> 0]

(* The row AddPurchase writes is a purchase's, all of it from the open     *)
(* month on.                                                               *)
LEMMA PlanOf ==
  ASSUME StatementInv, ReadInv, NEW u \in CardUsers, NEW p \in Buys, at[u].op = "buy", at[u].of = p,
         NEW b, b = NewPurchase(PlaceInstallments(p, at[u].card.closing, at[u].card.open))
  PROVE  /\ b \in BoughtRow(p) /\ b.advanced = {} /\ b.there = TRUE /\ ~b.refunded
         /\ \A i \in DOMAIN b.plan : b.plan[i] >= at[u].card.open
<1>1. at[u].card.open \in 0..(LastMonth + 1) /\ Purchases[p].day <= LastCardDay
  <2>1. ReadOK(at[u], bought) /\ at[u].op \in CardOps
    BY DEF ReadInv, CardOps
  <2> QED
    BY <2>1, WhatIsRead DEF ReadOK
<1> DEFINE plan == PlaceInstallments(p, at[u].card.closing, at[u].card.open)
<1>2. plan \in [1..Purchases[p].n -> CardMonths] /\ \A i \in 1..Purchases[p].n : plan[i] >= at[u].card.open
  BY <1>1, PlanMonths
<1> HIDE DEF plan
<1>3. b = NewPurchase(plan)
  BY DEF plan
<1>4. b.plan = plan /\ b.advanced = {} /\ b.there = TRUE /\ b.refunded = FALSE /\ b.rev = 0
  BY <1>3 DEF NewPurchase
<1>5. b \in BoughtRow(p)
  <2>1. {} \in SUBSET (1..Purchases[p].n) /\ 0 \in Nat /\ FALSE \in BOOLEAN /\ TRUE \in {TRUE}
    OBVIOUS
  <2> QED
    BY <1>2, <1>3, <2>1 DEF NewPurchase, BoughtRow
<1>6. DOMAIN b.plan = 1..Purchases[p].n
  BY <1>2, <1>4
<1> QED
  BY <1>2, <1>4, <1>5, <1>6

(* AddPurchase writes no closed month: the open month it read is still the *)
(* open one.                                                               *)
LEMMA StatementAddPurchase ==
  ASSUME StatementInv, ReadInv, NEW u \in CardUsers, NEW p \in Buys, AddPurchase(u, p)
  PROVE  StatementInv'
<1>1. Leaves(u) /\ UNCHANGED <<closedAs, cardBill>> /\ at[u].op = "buy" /\ at[u].of = p
  BY DEF AddPurchase, Is
<1>2. CASE bought[p].there
  <2>1. UNCHANGED <<row, item>>
    BY <1>2 DEF AddPurchase
  <2> QED
    BY <1>1, <2>1, StatementLeaves
<1>3. CASE ~bought[p].there
  <2> DEFINE b == NewPurchase(PlaceInstallments(p, at[u].card.closing, at[u].card.open))
  <2>1. /\ row.open = at[u].card.open /\ row' = [row EXCEPT !.version = @ + 1]
        /\ item' = Over([k \in PlanRows(p, b, DOMAIN b.plan) |-> PartsOf(p)[k[3]]], item)
    BY <1>3 DEF AddPurchase, CardBump, NewPurchase
  <2>2. /\ b \in BoughtRow(p) /\ b.advanced = {} /\ \A i \in DOMAIN b.plan : b.plan[i] >= row.open
        /\ row.open \in Nat /\ ItemsOK(item)
    BY <1>1, <2>1, PlanOf, WhatIsRead DEF StatementInv
  <2> HIDE DEF b
  <2>3. LateWrite(item, item', row.open)
    BY <2>1, <2>2, BoughtItems
  <2> QED
    BY <1>1, <2>1, <2>3, StatementWritten
<1> QED
  BY <1>2, <1>3

(* Nor does AddCredit.                                                     *)
LEMMA StatementAddCredit ==
  ASSUME StatementInv, ReadInv, NEW u \in CardUsers, NEW c \in DOMAIN Credits, AddCredit(u, c)
  PROVE  StatementInv'
<1>1. Leaves(u) /\ UNCHANGED <<closedAs, cardBill>> /\ at[u].op = "credit"
  BY DEF AddCredit, Is
<1>2. CASE UNCHANGED <<row, item, posted>>
  BY <1>1, <1>2, StatementLeaves
<1>3. CASE ~(UNCHANGED <<row, item, posted>>)
  <2>1. /\ row.open = at[u].card.open /\ row' = [row EXCEPT !.version = @ + 1]
        /\ item' = Put(item, <<row.open, c, Credit>>, -Credits[c])
    BY <1>3 DEF AddCredit, CardBump
  <2>2. row.open \in 0..(LastMonth + 1) /\ ItemsOK(item)
    BY DEF StatementInv, RowOK
  <2>3. LateWrite(item, item', row.open)
    BY <2>1, <2>2, CreditedItems
  <2> QED
    BY <1>1, <2>1, <2>3, StatementWritten
<1> QED
  BY <1>2, <1>3

(* Nor Refund.                                                             *)
LEMMA StatementRefund ==
  ASSUME StatementInv, ReadInv, NEW u \in CardUsers, NEW p \in Buys, Refund(u, p)
  PROVE  StatementInv'
<1>1. /\ Leaves(u) /\ UNCHANGED <<closedAs, cardBill>> /\ at[u].op \in PurchaseOps /\ at[u].of = p
      /\ row.open = at[u].card.open /\ row' = [row EXCEPT !.version = @ + 1]
  BY DEF Refund, Is, PurchaseOps, CardBump
<1> DEFINE r == at[u].read
           billed == RefundPlan(r, row.open)
           kept == Drop(item, PlanRows(p, r, DOMAIN r.plan \ billed))
<1>2. r \in BoughtRow(p) /\ row.open \in 0..(LastMonth + 1) /\ ItemsOK(item)
  BY <1>1, WhatIsRead DEF StatementInv, RowOK
<1>3. item' = IF billed = {} THEN kept ELSE Put(kept, <<row.open, p, Back>>, -SumParts(p, billed))
  BY <1>1 DEF Refund
<1> HIDE DEF r
<1>4. LateWrite(item, item', row.open)
  BY <1>2, <1>3, RefundedItems
<1> QED
  BY <1>1, <1>4, StatementWritten

(* Nor Advance.                                                            *)
LEMMA StatementAdvance ==
  ASSUME StatementInv, ReadInv, NEW u \in CardUsers, NEW p \in Buys, Advance(u, p)
  PROVE  StatementInv'
<1>1. Leaves(u) /\ UNCHANGED <<closedAs, cardBill>> /\ at[u].op \in PurchaseOps /\ at[u].of = p
  BY DEF Advance, Is, PurchaseOps
<1>2. CASE UNCHANGED <<row, bought, item, readvanced>>
  BY <1>1, <1>2, StatementLeaves
<1>3. CASE ~(UNCHANGED <<row, bought, item, readvanced>>)
  <2> DEFINE r == at[u].read
             moved == {i \in DOMAIN r.plan : r.plan[i] > row.open}
  <2>1. /\ row.open = at[u].card.open /\ row' = [row EXCEPT !.version = @ + 1]
        /\ item' = Put(Drop(item, {<<r.plan[i], p, i>> : i \in moved}), <<row.open, p, Adv>>, SumParts(p, moved))
    BY <1>3 DEF Advance, CardBump
  <2>2. r \in BoughtRow(p) /\ row.open \in 0..(LastMonth + 1) /\ ItemsOK(item)
    BY <1>1, WhatIsRead DEF StatementInv, RowOK
  <2> HIDE DEF r
  <2>3. LateWrite(item, item', row.open)
    BY <2>1, <2>2, AdvancedItems
  <2> QED
    BY <1>1, <2>1, <2>3, StatementWritten
<1> QED
  BY <1>2, <1>3

(* BuildStatement adds up the items a moment after the card was read: with *)
(* the version still the one read, that is what the month holds.           *)
LEMMA StatementBuild ==
  ASSUME StatementInv, NEW u \in CardUsers, BuildStatement(u)
  PROVE  StatementInv'
<1> DEFINE x == [op |-> "close", card |-> at[u].card, total |-> Total(ItemsOf(at[u].card.open))]
<1>1. Holds(u, x) /\ UNCHANGED <<row, item, closedAs, cardBill>> /\ at[u].op = "load"
  BY DEF BuildStatement, Is
<1>2. x.op = "close" /\ x.card = at[u].card /\ x.total = MonthTotal(item, at[u].card.open)
  BY DEF MonthTotal, MonthItems, Total, ItemsOf
<1> HIDE DEF x
<1>3. CopyOK(at[u], row) /\ at[u].card.open <= LastMonth
  BY <1>1 DEF StatementInv, KnowsOK, CardOps
<1>4. x.total \in Int
  BY <1>2, MonthTotalType DEF StatementInv
<1>5. KnowsOK(x, item, closedAs, row)
  BY <1>2, <1>3, <1>4 DEF KnowsOK, CardOps, CopyOK
<1> QED
  BY <1>1, <1>5, StatementRead

(* CloseAt, under the condition on the month and the version that were     *)
(* read.                                                                   *)
LEMMA StatementClose ==
  ASSUME StatementInv, NEW u \in CardUsers, CloseAt(u)
  PROVE  StatementInv'
<1>1. Leaves(u) /\ at[u].op = "close" /\ KnowsOK(at[u], item, closedAs, row)
  BY DEF StatementInv, CloseAt, Is
<1>2. CASE ~(UnchangedCard(u) /\ ~closedAs[at[u].card.open].closed)
  <2>1. UNCHANGED <<cardBill, item, closedAs, row>>
    BY <1>2 DEF CloseAt
  <2> QED
    BY <1>1, <2>1, StatementLeaves
<1>3. CASE UnchangedCard(u) /\ ~closedAs[at[u].card.open].closed
  <2> DEFINE m == at[u].card.open
             t == at[u].total
             b == IF t > 0 THEN <<m, row.version>> ELSE NoBill
  <2>1. m = row.open /\ m <= LastMonth /\ t = MonthTotal(item, m)
    BY <1>1, <1>3 DEF UnchangedCard, KnowsOK, SameCard
  <2>2. /\ cardBill' = IF b = NoBill THEN cardBill ELSE Put(cardBill, b, [amount |-> t, status |-> "forecast"])
        /\ item' = IF t < 0 THEN Put(item, Carry(m), t) ELSE item
        /\ closedAs' = [closedAs EXCEPT ![m] = [closed |-> TRUE, total |-> t, bill |-> b]]
        /\ row' = [row EXCEPT !.open = m + 1]
    BY <1>3 DEF CloseAt, UnchangedCard
  <2>3. b = IF t > 0 THEN <<m, row.version>> ELSE NoBill
    OBVIOUS
  <2>4. RowOK(row) /\ ItemsOK(item) /\ StatementsOK(item, closedAs, cardBill, row) /\ BillIds(cardBill, row)
    BY DEF StatementInv
  <2> HIDE DEF m, t, b
  <2>8. t \in Int
    BY <2>1, <2>4, MonthTotalType
  <2>9. ClosesBills(cardBill, row, m, t, b, cardBill', row') /\ ClosesItems(item, row, m, t, item')
    BY <2>1, <2>2, <2>3, <2>8 DEF ClosesBills, ClosesItems
  <2>5. ItemsOK(item') /\ RowOK(row') /\ StatementsOK(item', closedAs', cardBill', row') /\ BillIds(cardBill', row')
    <3>1. closedAs' = [closedAs EXCEPT ![m] = [closed |-> TRUE, total |-> t, bill |-> b]] /\ t = MonthTotal(item, m)
      BY <2>1, <2>2
    <3> QED
      BY <2>4, <2>9, <3>1, Closes
  <2>6. Later(item, closedAs, row, item', closedAs', row')
    BY <2>1, <2>2, <2>4, CardsAssumption DEF Later, RowOK
  <2> DEFINE x == [op |-> Free]
  <2>7. Holds(u, x) /\ KnowsOK(x, item', closedAs', row')
    BY <1>1, FreeKnows DEF Leaves
  <2> HIDE DEF x
  <2> QED
    BY <2>5, <2>6, <2>7, StatementFrom
<1> QED
  BY <1>2, <1>3

(* Reopen, under the same condition.                                       *)
LEMMA StatementReopen ==
  ASSUME StatementInv, NEW u \in CardUsers, Reopen(u)
  PROVE  StatementInv'
<1>1. Leaves(u) /\ at[u].op = "reopen" /\ KnowsOK(at[u], item, closedAs, row)
  BY DEF StatementInv, Reopen, Is
<1> DEFINE m == at[u].month
           s == at[u].was
<1>2. CASE ~(UnchangedCard(u) /\ (s.bill # NoBill => cardBill[s.bill].status = "forecast"))
  <2>1. UNCHANGED <<cardBill, item, closedAs, row>>
    BY <1>2 DEF Reopen
  <2> QED
    BY <1>1, <2>1, StatementLeaves
<1>3. CASE UnchangedCard(u) /\ (s.bill # NoBill => cardBill[s.bill].status = "forecast")
  <2>1. m = row.open - 1 /\ m \in CardMonths /\ s = closedAs[m]
    BY <1>1, <1>3 DEF UnchangedCard, KnowsOK, SameCard
  <2>2. /\ cardBill' = IF s.bill = NoBill THEN cardBill ELSE [cardBill EXCEPT ![s.bill].status = "canceled"]
        /\ item' = IF s.total < 0 THEN Drop(item, {Carry(m)}) ELSE item
        /\ closedAs' = [closedAs EXCEPT ![m] = Open]
        /\ row' = [row EXCEPT !.open = m, !.version = @ + 1]
    BY <1>3 DEF Reopen
  <2> HIDE DEF m, s
  <2>3. ReopensBills(closedAs, cardBill, row, m, cardBill', row')
    BY <2>1, <2>2 DEF ReopensBills
  <2>4. RowOK(row) /\ ItemsOK(item) /\ StatementsOK(item, closedAs, cardBill, row) /\ BillIds(cardBill, row)
    BY DEF StatementInv
  <2>5. /\ item' = IF closedAs[m].total < 0 THEN Drop(item, {Carry(m)}) ELSE item
        /\ closedAs' = [closedAs EXCEPT ![m] = Open]
    BY <2>1, <2>2
  <2>6. ItemsOK(item') /\ RowOK(row') /\ StatementsOK(item', closedAs', cardBill', row') /\ BillIds(cardBill', row')
    BY <2>3, <2>4, <2>5, Reopens
  <2>7. Later(item, closedAs, row, item', closedAs', row')
    BY <2>2, <2>4 DEF Later, RowOK
  <2> DEFINE x == [op |-> Free]
  <2>8. Holds(u, x) /\ KnowsOK(x, item', closedAs', row')
    BY <1>1, FreeKnows DEF Leaves
  <2> HIDE DEF x
  <2> QED
    BY <2>6, <2>7, <2>8, StatementFrom
<1> QED
  BY <1>2, <1>3

(* What others do to the card and to its bills.                            *)
LEMMA StatementOthers ==
  ASSUME StatementInv,
         \/ Tomorrow \/ ArchiveCard
         \/ \E c \in ClosingDays : UpdateCard(c)
         \/ \E b \in DOMAIN cardBill : SettleBill(b) \/ CancelBill(b)
  PROVE  StatementInv'
<1>1. RowOK(row) /\ ItemsOK(item) /\ StatementsOK(item, closedAs, cardBill, row) /\ BillIds(cardBill, row)
  BY DEF StatementInv
<1>2. CASE Tomorrow
  <2>1. UNCHANGED <<row, item, closedAs, cardBill, at>>
    BY <1>2 DEF Tomorrow
  <2> QED
    BY <2>1 DEF StatementInv
<1>3. ASSUME UNCHANGED <<item, closedAs, cardBill, at>>, RowOK(row'), row'.open = row.open, row'.version = row.version,
             row.archived => row'.archived
      PROVE  StatementInv'
  <2>1. StatementsOK(item, closedAs, cardBill, row')
    BY <1>1, <1>3, StatementsKept
  <2>2. BillIds(cardBill, row')
    <3>1. row'.version >= row.version
      BY <1>1, <1>3 DEF RowOK
    <3> QED
      BY <1>1, <1>3, <3>1, BillIdsKept
  <2>3. Later(item, closedAs, row, item', closedAs', row')
    BY <1>3 DEF Later
  <2> QED
    BY <1>1, <1>3, <2>1, <2>2, <2>3, StatementFromOthers
<1>4. CASE ArchiveCard
  BY <1>1, <1>3, <1>4 DEF ArchiveCard, RowOK
<1>5. CASE \E c \in ClosingDays : UpdateCard(c)
  BY <1>1, <1>3, <1>5 DEF UpdateCard, RowOK
<1>6. ASSUME NEW b, NEW s \in {"paid", "canceled"}, cardBill' = [cardBill EXCEPT ![b].status = s], UNCHANGED <<row, item, closedAs, at>>,
             row.archived \/ (s = "paid" /\ cardBill[b].status = "forecast")
      PROVE  StatementInv'
  <2>1. Restated(cardBill, b, s, cardBill') /\ BillIds(cardBill', row)
    BY <1>1, <1>6, RestatesBill
  <2>2. StatementsOK(item, closedAs, cardBill', row)
    BY <1>1, <1>6, <2>1, BillsKept
  <2>3. Later(item, closedAs, row, item', closedAs', row')
    BY <1>6 DEF Later
  <2> QED
    BY <1>1, <1>6, <2>1, <2>2, <2>3, StatementFromOthers
<1>7. CASE \E b \in DOMAIN cardBill : SettleBill(b)
  BY <1>6, <1>7 DEF SettleBill
<1>8. CASE \E b \in DOMAIN cardBill : CancelBill(b)
  BY <1>6, <1>8 DEF CancelBill
<1> QED
  BY <1>2, <1>4, <1>5, <1>7, <1>8

(* StatementInv holds after every step of the card.                        *)
LEMMA StatementNext ==
  ASSUME StatementInv, ReadInv, [CardsNext]_cardVars
  PROVE  StatementInv'
<1>1. CASE \/ Tomorrow \/ ArchiveCard
           \/ \E c \in ClosingDays : UpdateCard(c)
           \/ \E b \in DOMAIN cardBill : SettleBill(b) \/ CancelBill(b)
  BY <1>1, StatementOthers
<1>2. ASSUME NEW u \in CardUsers,
             \/ CardMoved(u) \/ LoadToClose(u) \/ BuildStatement(u) \/ CloseAt(u) \/ LoadToReopen(u) \/ Reopen(u)
             \/ \E p \in Buys : CreatePurchase(u, p) \/ GetPurchaseItem(u, p)
             \/ \E p \in Buys : AddPurchase(u, p) \/ Refund(u, p) \/ Advance(u, p) \/ EditPurchase(u, p)
             \/ \E c \in DOMAIN Credits : CreateCredit(u, c) \/ AddCredit(u, c)
      PROVE  StatementInv'
  <2>1. CASE CardMoved(u) \/ \E p \in Buys : EditPurchase(u, p)
    <3>1. Leaves(u) /\ UNCHANGED <<row, item, closedAs, cardBill>>
      BY <2>1 DEF CardMoved, EditPurchase
    <3> QED
      BY <3>1, StatementLeaves
  <2>2. CASE \/ \E p \in Buys : CreatePurchase(u, p) \/ GetPurchaseItem(u, p)
             \/ \E c \in DOMAIN Credits : CreateCredit(u, c)
             \/ LoadToClose(u) \/ LoadToReopen(u)
    BY <2>2, StatementLoads
  <2>3. CASE BuildStatement(u)
    BY <2>3, StatementBuild
  <2>4. CASE CloseAt(u)
    BY <2>4, StatementClose
  <2>5. CASE Reopen(u)
    BY <2>5, StatementReopen
  <2>6. CASE \E p \in Buys : AddPurchase(u, p)
    BY <2>6, StatementAddPurchase
  <2>7. CASE \E p \in Buys : Refund(u, p)
    BY <2>7, StatementRefund
  <2>8. CASE \E p \in Buys : Advance(u, p)
    BY <2>8, StatementAdvance
  <2>9. CASE \E c \in DOMAIN Credits : AddCredit(u, c)
    BY <2>9, StatementAddCredit
  <2> QED
    BY <1>2, <2>1, <2>2, <2>3, <2>4, <2>5, <2>6, <2>7, <2>8, <2>9
<1>3. CASE UNCHANGED cardVars
  BY <1>3 DEF cardVars, StatementInv
<1> QED
  BY <1>1, <1>2, <1>3 DEF CardsNext

----------------------------------------------------------------------------
(* The steps of ReadInv: a purchase changes under a new revision, or is    *)
(* refunded.                                                               *)
LEMMA RowFields ==
  ASSUME NEW p \in Buys, NEW b \in BoughtRow(p)
  PROVE  /\ b.there = TRUE /\ b.plan \in [1..Purchases[p].n -> CardMonths] /\ DOMAIN b.plan = 1..Purchases[p].n
         /\ b.advanced \in SUBSET (1..Purchases[p].n) /\ b.refunded \in BOOLEAN /\ b.rev \in Nat
         /\ b = [there |-> TRUE, plan |-> b.plan, advanced |-> b.advanced, refunded |-> b.refunded, rev |-> b.rev]
  BY DEF BoughtRow

(* A purchase's row from its fields.                                       *)
LEMMA MakesRow ==
  ASSUME NEW p \in Buys, NEW plan \in [1..Purchases[p].n -> CardMonths], NEW advanced \in SUBSET (1..Purchases[p].n),
         NEW refunded \in BOOLEAN, NEW rev \in Nat
  PROVE  [there |-> TRUE, plan |-> plan, advanced |-> advanced, refunded |-> refunded, rev |-> rev] \in BoughtRow(p)
  BY DEF BoughtRow

(* What a new revision keeps of a record of this shape.                    *)
LEMMA RecordRevised ==
  ASSUME NEW A, NEW B, NEW S, S = [there : {TRUE}, plan : A, advanced : B, refunded : BOOLEAN, rev : Nat],
         NEW c \in S, NEW b, b = [c EXCEPT !.rev = @ + 1]
  PROVE  /\ b \in S /\ b.rev = c.rev + 1 /\ c.rev \in Nat /\ b.plan = c.plan /\ b.advanced = c.advanced
         /\ b.refunded = c.refunded /\ b.there = TRUE
<1>1. c.rev \in Nat /\ c.rev + 1 \in Nat
  OBVIOUS
<1>2. /\ b.rev = c.rev + 1 /\ b.plan = c.plan /\ b.advanced = c.advanced /\ b.refunded = c.refunded /\ b.there = c.there
  OBVIOUS
<1>3. b \in S
  BY <1>1
<1> QED
  BY <1>1, <1>2, <1>3

(* So an edit keeps the plan, what was advanced and whether it was         *)
(* refunded.                                                               *)
LEMMA NewRevision ==
  ASSUME NEW p \in Buys, NEW c \in BoughtRow(p), NEW b, b = [c EXCEPT !.rev = @ + 1]
  PROVE  /\ b \in BoughtRow(p) /\ b.rev = c.rev + 1 /\ c.rev \in Nat /\ b.plan = c.plan /\ b.advanced = c.advanced
         /\ b.refunded = c.refunded /\ b.there = TRUE
<1> DEFINE A == [1..Purchases[p].n -> CardMonths]
           B == SUBSET (1..Purchases[p].n)
           S == BoughtRow(p)
<1>1. S = [there : {TRUE}, plan : A, advanced : B, refunded : BOOLEAN, rev : Nat] /\ c \in S
  BY DEF BoughtRow
<1> HIDE DEF A, B, S
<1>2. /\ b \in S /\ b.rev = c.rev + 1 /\ c.rev \in Nat /\ b.plan = c.plan /\ b.advanced = c.advanced
      /\ b.refunded = c.refunded /\ b.there = TRUE
  BY <1>1, RecordRevised
<1> QED
  BY <1>2 DEF S

(* A row that is not refunded, read again, is the row.                     *)
LEMMA NotRefunded ==
  ASSUME NEW p \in Buys, NEW b \in BoughtRow(p), b.refunded = FALSE
  PROVE  b = [b EXCEPT !.refunded = FALSE] /\ b.rev \in Nat
  BY RowFields

BoughtLater(bo, bo2) ==
    /\ BoughtOK(bo2)
    /\ \A p \in Buys : bo[p] \in BoughtRow(p) =>
         /\ bo2[p] \in BoughtRow(p)
         /\ \/ bo2[p] = bo[p] \/ bo2[p].rev > bo[p].rev
            \/ bo2[p] = [bo[p] EXCEPT !.refunded = TRUE]

(* What was read of a purchase stays true while the purchase goes on.      *)
LEMMA ReadKept ==
  ASSUME NEW x, NEW bo, NEW bo2, ReadOK(x, bo), BoughtLater(bo, bo2)
  PROVE  ReadOK(x, bo2)
<1>1. CASE x.op \notin PurchaseOps
  BY <1>1 DEF ReadOK
<1>2. CASE x.op \in PurchaseOps
  <2> DEFINE p == x.of
             b == bo[p]
             c == bo2[p]
  <2>1. /\ p \in Buys /\ x.read \in BoughtRow(p) /\ ~x.read.refunded
        /\ b \in BoughtRow(p) /\ x.read.rev <= b.rev
        /\ x.read.rev = b.rev => x.read = [b EXCEPT !.refunded = FALSE]
    BY <1>2 DEF ReadOK
  <2>2. c \in BoughtRow(p) /\ (c = b \/ c.rev > b.rev \/ c = [b EXCEPT !.refunded = TRUE])
    BY <2>1 DEF BoughtLater
  <2> HIDE DEF p, b, c
  <2>3. x.read.rev \in Nat /\ b.rev \in Nat /\ c.rev \in Nat
    BY <2>1, <2>2 DEF BoughtRow
  <2>4. x.read.rev <= c.rev /\ (x.read.rev = c.rev => x.read = [c EXCEPT !.refunded = FALSE])
    <3>1. CASE c = b
      BY <2>1, <3>1
    <3>2. CASE c.rev > b.rev
      BY <2>1, <2>3, <3>2
    <3>3. CASE c = [b EXCEPT !.refunded = TRUE]
      <4>1. c.rev = b.rev /\ [c EXCEPT !.refunded = FALSE] = [b EXCEPT !.refunded = FALSE]
        BY <2>1, <3>3 DEF BoughtRow
      <4> QED
        BY <2>1, <4>1
    <3> QED
      BY <2>2, <3>1, <3>2, <3>3
  <2>5. x.op # "buy" /\ x.op # "credit"
    BY <1>2 DEF PurchaseOps
  <2> QED
    BY <2>1, <2>2, <2>4, <2>5 DEF ReadOK, p, c
<1> QED
  BY <1>1, <1>2

(* A step keeps ReadInv when what it read is good and the purchases go on. *)
LEMMA ReadFrom ==
  ASSUME ReadInv, StatementInv, NEW u \in CardUsers, NEW x, Holds(u, x), ReadOK(x, bought'), BoughtLater(bought, bought'),
         UNCHANGED date
  PROVE  ReadInv'
<1>1. \A v \in CardUsers : at'[v] = IF v = u THEN x ELSE at[v]
  BY DEF StatementInv, Holds
<1>2. ASSUME NEW v \in CardUsers PROVE ReadOK(at'[v], bought')
  <2>1. CASE v = u
    BY <1>1, <2>1
  <2>2. CASE v # u
    <3>1. ReadOK(at[v], bought)
      BY DEF ReadInv
    <3>2. ReadOK(at[v], bought')
      BY <3>1, ReadKept
    <3> QED
      BY <1>1, <2>2, <3>2
  <2> QED
    BY <2>1, <2>2
<1> QED
  BY <1>2 DEF ReadInv, BoughtLater

(* Purchases that stay as they are go on.                                  *)
LEMMA SameBought == ASSUME BoughtOK(bought) PROVE BoughtLater(bought, bought)
  BY DEF BoughtLater

(* A request that ends has read nothing.                                   *)
LEMMA ReadLeaves ==
  ASSUME ReadInv, StatementInv, NEW u \in CardUsers, Leaves(u), BoughtLater(bought, bought'), UNCHANGED date
  PROVE  ReadInv'
<1> DEFINE x == [op |-> Free]
<1>1. Holds(u, x) /\ ReadOK(x, bought')
  BY DEF Leaves, ReadOK, PurchaseOps, Free
<1> HIDE DEF x
<1> QED
  BY <1>1, ReadFrom

(* What a request reads of a purchase is the purchase.                     *)
LEMMA ReadLoads ==
  ASSUME ReadInv, StatementInv, NEW u \in CardUsers,
         \/ \E p \in Buys : CreatePurchase(u, p) \/ GetPurchaseItem(u, p)
         \/ \E c \in DOMAIN Credits : CreateCredit(u, c)
         \/ LoadToClose(u) \/ LoadToReopen(u) \/ BuildStatement(u)
  PROVE  ReadInv'
<1>0. BoughtLater(bought, bought) /\ BoughtOK(bought)
  BY SameBought DEF ReadInv
<1>1. ASSUME NEW r, LoadCard(u, r), DOMAIN r \subseteq {"op", "of", "read", "month", "was"}, "op" \in DOMAIN r,
             \/ r.op = "buy" /\ "of" \in DOMAIN r /\ r.of \in Buys /\ Purchases[r.of].day <= LastCardDay
             \/ r.op = "credit" /\ "of" \in DOMAIN r /\ r.of \in DOMAIN Credits
             \/ /\ r.op \in PurchaseOps /\ "of" \in DOMAIN r /\ "read" \in DOMAIN r
                /\ r.of \in Buys /\ r.read = bought[r.of] /\ r.read \in BoughtRow(r.of) /\ r.read.refunded = FALSE
             \/ r.op \in {"load", "reopen"}
      PROVE  ReadInv'
  <2> DEFINE x == Over([card |-> row], r)
  <2>1. x.card = row /\ \A f \in DOMAIN r : x[f] = r[f]
    BY <1>1, Loaded
  <2> HIDE DEF x
  <2>2. x.op = r.op
    BY <1>1, <2>1
  <2>3. ReadOK(x, bought)
    <3>1. CASE r.op = "buy" /\ "of" \in DOMAIN r /\ r.of \in Buys /\ Purchases[r.of].day <= LastCardDay
      BY <2>1, <2>2, <3>1 DEF ReadOK, PurchaseOps
    <3>2. CASE r.op = "credit" /\ "of" \in DOMAIN r /\ r.of \in DOMAIN Credits
      BY <2>1, <2>2, <3>2 DEF ReadOK, PurchaseOps
    <3>3. CASE /\ r.op \in PurchaseOps /\ "of" \in DOMAIN r /\ "read" \in DOMAIN r
               /\ r.of \in Buys /\ r.read = bought[r.of] /\ r.read \in BoughtRow(r.of) /\ r.read.refunded = FALSE
      <4>1. x.of = r.of /\ x.read = r.read /\ x.op # "buy" /\ x.op # "credit"
        BY <2>1, <2>2, <3>3 DEF PurchaseOps
      <4>2. r.read = [r.read EXCEPT !.refunded = FALSE] /\ r.read.rev <= r.read.rev
        <5> DEFINE y == r.read
        <5>1. y \in BoughtRow(r.of) /\ y.refunded = FALSE /\ r.of \in Buys
          BY <3>3
        <5> HIDE DEF y
        <5>2. y = [y EXCEPT !.refunded = FALSE] /\ y.rev \in Nat
          BY <5>1, NotRefunded
        <5>3. y = [y EXCEPT !.refunded = FALSE] /\ y.rev <= y.rev
          BY <5>2
        <5> QED
          BY <5>3 DEF y
      <4> QED
        BY <2>2, <3>3, <4>1, <4>2 DEF ReadOK
    <3>4. CASE r.op \in {"load", "reopen"}
      BY <2>2, <3>4 DEF ReadOK, PurchaseOps
    <3> QED
      BY <1>1, <3>1, <3>2, <3>3, <3>4
  <2>4. Holds(u, x) /\ UNCHANGED <<date, bought>>
    BY <1>1 DEF LoadCard, x
  <2>5. ReadOK(x, bought') /\ BoughtLater(bought, bought')
    BY <1>0, <2>3, <2>4
  <2> QED
    BY <2>4, <2>5, ReadFrom
<1>2. CASE \E p \in Buys : CreatePurchase(u, p)
  <2>1. PICK p \in Buys : LoadCard(u, [op |-> "buy", of |-> p]) /\ Purchases[p].day <= date
    BY <1>2 DEF CreatePurchase
  <2>2. Purchases[p].day <= LastCardDay
    BY <2>1, CardsAssumption DEF ReadInv, LastCardDay
  <2> DEFINE r == [op |-> "buy", of |-> p]
  <2>3. DOMAIN r = {"op", "of"} /\ r.op = "buy" /\ r.of = p /\ LoadCard(u, r)
    BY <2>1
  <2> HIDE DEF r
  <2> QED
    BY <1>1, <2>2, <2>3
<1>3. CASE \E p \in Buys : GetPurchaseItem(u, p)
  <2>1. PICK p \in Buys, op \in PurchaseOps : LoadCard(u, [op |-> op, of |-> p, read |-> bought[p]]) /\ bought[p].there /\ ~bought[p].refunded
    BY <1>3 DEF GetPurchaseItem, PurchaseOps
  <2>2. bought[p] \in BoughtRow(p) /\ bought[p].refunded = FALSE
    <3>1. bought[p] # NotBought
      BY <2>1 DEF NotBought
    <3>2. bought[p] \in BoughtRow(p)
      BY <3>1 DEF ReadInv, BoughtOK
    <3> QED
      BY <2>1, <3>2 DEF BoughtRow
  <2> DEFINE r == [op |-> op, of |-> p, read |-> bought[p]]
  <2>3. DOMAIN r = {"op", "of", "read"} /\ r.op = op /\ r.of = p /\ r.read = bought[p] /\ LoadCard(u, r)
    BY <2>1
  <2> HIDE DEF r
  <2> QED
    BY <1>1, <2>1, <2>2, <2>3
<1>4. CASE \E c \in DOMAIN Credits : CreateCredit(u, c)
  <2>1. PICK c \in DOMAIN Credits : LoadCard(u, [op |-> "credit", of |-> c])
    BY <1>4 DEF CreateCredit
  <2> DEFINE r == [op |-> "credit", of |-> c]
  <2>2. DOMAIN r = {"op", "of"} /\ r.op = "credit" /\ r.of = c /\ LoadCard(u, r)
    BY <2>1
  <2> HIDE DEF r
  <2> QED
    BY <1>1, <2>2
<1>5. CASE LoadToClose(u)
  <2> DEFINE r == [op |-> "load"]
  <2>1. DOMAIN r = {"op"} /\ r.op = "load" /\ LoadCard(u, r)
    BY <1>5 DEF LoadToClose
  <2> HIDE DEF r
  <2> QED
    BY <1>1, <2>1
<1>6. CASE LoadToReopen(u)
  <2> DEFINE m == row.open - 1
             r == [op |-> "reopen", month |-> m, was |-> closedAs[m]]
  <2>1. LoadCard(u, r)
    BY <1>6 DEF LoadToReopen
  <2>2. DOMAIN r = {"op", "month", "was"} /\ r.op = "reopen"
    OBVIOUS
  <2> HIDE DEF r
  <2> QED
    BY <1>1, <2>1, <2>2
<1>7. CASE BuildStatement(u)
  <2> DEFINE x == [op |-> "close", card |-> at[u].card, total |-> Total(ItemsOf(at[u].card.open))]
  <2>1. Holds(u, x) /\ UNCHANGED <<date, bought>> /\ x.op = "close"
    BY <1>7 DEF BuildStatement
  <2> HIDE DEF x
  <2>2. ReadOK(x, bought')
    BY <2>1 DEF ReadOK, PurchaseOps
  <2> QED
    BY <1>0, <2>1, <2>2, ReadFrom
<1> QED
  BY <1>2, <1>3, <1>4, <1>5, <1>6, <1>7

(* The three changes of a purchase.                                        *)
LEMMA ReadBuys ==
  ASSUME ReadInv, StatementInv, NEW u \in CardUsers, NEW p \in Buys, AddPurchase(u, p)
  PROVE  ReadInv'
<1>1. Leaves(u) /\ UNCHANGED date /\ at[u].op = "buy" /\ at[u].of = p
  BY DEF AddPurchase, Is
<1>2. CASE bought[p].there
  <2>1. bought' = bought
    BY <1>2 DEF AddPurchase
  <2>2. BoughtLater(bought, bought')
    BY <2>1, SameBought DEF ReadInv
  <2> QED
    BY <1>1, <2>2, ReadLeaves
<1>3. CASE ~bought[p].there
  <2> DEFINE b == NewPurchase(PlaceInstallments(p, at[u].card.closing, at[u].card.open))
  <2>1. bought' = [bought EXCEPT ![p] = b]
    BY <1>3 DEF AddPurchase, NewPurchase
  <2>2. b \in BoughtRow(p)
    BY <1>1, PlanOf
  <2> HIDE DEF b
  <2>3. bought[p] \notin BoughtRow(p)
    BY <1>3 DEF BoughtRow
  <2>4. BoughtLater(bought, bought')
    BY <2>1, <2>2, <2>3 DEF ReadInv, BoughtOK, BoughtLater
  <2> QED
    BY <1>1, <2>4, ReadLeaves
<1> QED
  BY <1>2, <1>3

(* What happens to the row of one purchase.                                *)
LEMMA BoughtChanges ==
  ASSUME NEW bo, BoughtOK(bo), NEW p \in Buys, NEW b \in BoughtRow(p), NEW bo2, bo2 = [bo EXCEPT ![p] = b],
         b.rev > bo[p].rev \/ b = [bo[p] EXCEPT !.refunded = TRUE]
  PROVE  BoughtLater(bo, bo2)
  BY DEF BoughtOK, BoughtLater

(* A refund marks the purchase and keeps its revision.                     *)
LEMMA ReadRefunds ==
  ASSUME ReadInv, StatementInv, NEW u \in CardUsers, NEW p \in Buys, Refund(u, p)
  PROVE  ReadInv'
<1>1. Leaves(u) /\ UNCHANGED date /\ at[u].op \in PurchaseOps /\ at[u].of = p
  BY DEF Refund, Is, PurchaseOps
<1>2. bought[p] \in BoughtRow(p)
  BY <1>1, WhatIsRead
<1> DEFINE b == [bought[p] EXCEPT !.refunded = TRUE]
<1>3. b \in BoughtRow(p)
  BY <1>2 DEF BoughtRow
<1>4. bought' = [bought EXCEPT ![p] = b] /\ BoughtOK(bought)
  BY DEF Refund, ReadInv
<1>5. b = [bought[p] EXCEPT !.refunded = TRUE]
  OBVIOUS
<1> HIDE DEF b
<1>6. BoughtLater(bought, bought')
  BY <1>3, <1>4, <1>5, BoughtChanges
<1> QED
  BY <1>1, <1>6, ReadLeaves

(* An edit takes a new revision.                                           *)
LEMMA ReadEdits ==
  ASSUME ReadInv, StatementInv, NEW u \in CardUsers, NEW p \in Buys, EditPurchase(u, p)
  PROVE  ReadInv'
<1>1. Leaves(u) /\ UNCHANGED date /\ at[u].op \in PurchaseOps /\ at[u].of = p
  BY DEF EditPurchase, Is, PurchaseOps
<1>2. bought[p] \in BoughtRow(p)
  BY <1>1, WhatIsRead
<1> DEFINE b == [bought[p] EXCEPT !.rev = @ + 1]
<1>3. b \in BoughtRow(p) /\ b.rev > bought[p].rev
  <2> DEFINE c == bought[p]
  <2>1. c \in BoughtRow(p) /\ b = [c EXCEPT !.rev = @ + 1]
    BY <1>2
  <2> HIDE DEF b, c
  <2>2. b \in BoughtRow(p) /\ b.rev = c.rev + 1 /\ c.rev \in Nat
    BY <2>1, NewRevision
  <2>3. b.rev > c.rev
    BY <2>2
  <2> QED
    BY <2>2, <2>3 DEF c
<1>4. bought' = [bought EXCEPT ![p] = b] /\ BoughtOK(bought)
  BY DEF EditPurchase, ReadInv
<1> HIDE DEF b
<1>6. BoughtLater(bought, bought')
  BY <1>3, <1>4, BoughtChanges
<1> QED
  BY <1>1, <1>6, ReadLeaves

(* The row of a purchase of which moved was advanced.                      *)
Advanced(r, moved, open) ==
    [r EXCEPT !.plan = [i \in DOMAIN r.plan |-> IF i \in moved THEN open ELSE r.plan[i]],
              !.advanced = @ \cup moved, !.rev = @ + 1]

AdvancedFrom(p, r, open, moved, b) ==
    /\ b \in BoughtRow(p) /\ r.rev \in Nat /\ b.rev = r.rev + 1 /\ b.there = TRUE /\ b.refunded = r.refunded
    /\ b.advanced = r.advanced \cup moved /\ DOMAIN b.plan = 1..Purchases[p].n /\ DOMAIN r.plan = 1..Purchases[p].n
    /\ \A i \in 1..Purchases[p].n : b.plan[i] = IF i \in moved THEN open ELSE r.plan[i]

(* The row Advance writes is a purchase's, one revision on.                *)
LEMMA AdvancedRow ==
  ASSUME NEW p \in Buys, NEW r \in BoughtRow(p), NEW open \in CardMonths, NEW moved \in SUBSET (1..Purchases[p].n),
         NEW b, b = Advanced(r, moved, open)
  PROVE  AdvancedFrom(p, r, open, moved, b)
<1>1. /\ r.there = TRUE /\ r.plan \in [1..Purchases[p].n -> CardMonths] /\ r.advanced \subseteq 1..Purchases[p].n
      /\ r.refunded \in BOOLEAN /\ r.rev \in Nat
      /\ r = [there |-> r.there, plan |-> r.plan, advanced |-> r.advanced, refunded |-> r.refunded, rev |-> r.rev]
  BY DEF BoughtRow
<1> DEFINE plan == [i \in DOMAIN r.plan |-> IF i \in moved THEN open ELSE r.plan[i]]
<1>2. plan = [i \in 1..Purchases[p].n |-> IF i \in moved THEN open ELSE r.plan[i]] /\ plan \in [1..Purchases[p].n -> CardMonths]
  BY <1>1
<1>3. b = [there |-> r.there, plan |-> plan, advanced |-> r.advanced \cup moved, refunded |-> r.refunded, rev |-> r.rev + 1]
  BY <1>1 DEF Advanced
<1> HIDE DEF plan
<1>4. b.there = TRUE /\ b.plan = plan /\ b.advanced = r.advanced \cup moved /\ b.refunded = r.refunded /\ b.rev = r.rev + 1
  BY <1>1, <1>3
<1>5. b \in BoughtRow(p)
  <2>1. r.advanced \cup moved \in SUBSET (1..Purchases[p].n) /\ r.rev + 1 \in Nat
    BY <1>1
  <2>2. [there |-> TRUE, plan |-> plan, advanced |-> r.advanced \cup moved, refunded |-> r.refunded, rev |-> r.rev + 1] \in BoughtRow(p)
    BY <1>1, <1>2, <2>1, MakesRow
  <2> QED
    BY <1>1, <1>3, <2>2
<1> QED
  BY <1>1, <1>2, <1>4, <1>5 DEF AdvancedFrom

(* An advance takes a new revision.                                        *)
LEMMA ReadAdvances ==
  ASSUME ReadInv, StatementInv, NEW u \in CardUsers, NEW p \in Buys, Advance(u, p)
  PROVE  ReadInv'
<1>1. Leaves(u) /\ UNCHANGED date /\ at[u].op \in PurchaseOps /\ at[u].of = p /\ BoughtOK(bought)
  BY DEF Advance, Is, PurchaseOps, ReadInv
<1>2. CASE UNCHANGED <<row, bought, item, readvanced>>
  BY <1>1, <1>2, SameBought, ReadLeaves
<1>3. CASE ~(UNCHANGED <<row, bought, item, readvanced>>)
  <2> DEFINE r == at[u].read
             moved == {i \in DOMAIN r.plan : r.plan[i] > row.open}
  <2>1. /\ PurchaseGuard(u) /\ row.open = at[u].card.open
        /\ bought' = [bought EXCEPT ![p].plan = [i \in DOMAIN r.plan |-> IF i \in moved THEN row.open ELSE r.plan[i]],
                                    ![p].advanced = @ \cup moved, ![p].rev = @ + 1]
    BY <1>3 DEF Advance, CardBump
  <2>2. r = bought[p] /\ r \in BoughtRow(p)
    BY <1>1, <2>1, WhatIsRead
  <2>3. row.open \in CardMonths
    BY CardsAssumption DEF StatementInv, RowOK, CardMonths
  <2> DEFINE b == Advanced(r, moved, row.open)
  <2>4. moved \in SUBSET (1..Purchases[p].n)
    BY <2>2, RowFields
  <2>5. bought' = [bought EXCEPT ![p] = b]
    BY <1>1, <2>1, <2>2 DEF Advanced, BoughtOK
  <2> HIDE DEF r, moved, b
  <2>6. b \in BoughtRow(p) /\ b.rev = r.rev + 1
    <3>1. r \in BoughtRow(p)
      BY <2>2
    <3>2. b = Advanced(r, moved, row.open)
      BY DEF b
    <3> DEFINE o == row.open
    <3>3. r \in BoughtRow(p) /\ moved \in SUBSET (1..Purchases[p].n) /\ o \in CardMonths /\ b = Advanced(r, moved, o) /\ p \in Buys
      BY <2>3, <2>4, <3>1, <3>2
    <3> HIDE DEF o
    <3>4. AdvancedFrom(p, r, o, moved, b)
      BY ONLY <3>3, AdvancedRow
    <3> QED
      BY <3>4 DEF AdvancedFrom
  <2>7. b.rev > bought[p].rev
    <3>1. r \in BoughtRow(p) /\ r = bought[p]
      BY <2>2
    <3>2. r.rev \in Nat
      BY <3>1, RowFields
    <3>3. b.rev > r.rev
      BY <2>6, <3>2
    <3> QED
      BY <3>1, <3>3
  <2>8. BoughtLater(bought, bought')
    BY <1>1, <2>5, <2>6, <2>7, BoughtChanges
  <2> QED
    BY <1>1, <2>8, ReadLeaves
<1> QED
  BY <1>2, <1>3

(* ReadInv holds after every step of the card.                             *)
LEMMA ReadNext ==
  ASSUME ReadInv, StatementInv, [CardsNext]_cardVars
  PROVE  ReadInv'
<1>0. BoughtLater(bought, bought)
  BY SameBought DEF ReadInv
<1>1. CASE UNCHANGED <<date, bought, at>>
  BY <1>1 DEF ReadInv
<1>2. CASE Tomorrow
  <2>1. UNCHANGED <<bought, at>> /\ date' = date + 1 /\ date \in Nat \ {0} /\ date < LastCardDay /\ LastCardDay \in Int
    BY <1>2, CardsAssumption DEF Tomorrow, ReadInv, LastCardDay
  <2>2. date' \in Nat \ {0} /\ date' <= LastCardDay
    BY <2>1
  <2> QED
    BY <2>1, <2>2 DEF ReadInv
<1>3. CASE \/ ArchiveCard
           \/ \E c \in ClosingDays : UpdateCard(c)
           \/ \E b \in DOMAIN cardBill : SettleBill(b) \/ CancelBill(b)
  BY <1>1, <1>3 DEF ArchiveCard, UpdateCard, SettleBill, CancelBill
<1>4. ASSUME NEW u \in CardUsers,
             \/ CardMoved(u) \/ LoadToClose(u) \/ BuildStatement(u) \/ CloseAt(u) \/ LoadToReopen(u) \/ Reopen(u)
             \/ \E p \in Buys : CreatePurchase(u, p) \/ GetPurchaseItem(u, p)
             \/ \E p \in Buys : AddPurchase(u, p) \/ Refund(u, p) \/ Advance(u, p) \/ EditPurchase(u, p)
             \/ \E c \in DOMAIN Credits : CreateCredit(u, c) \/ AddCredit(u, c)
      PROVE  ReadInv'
  <2>1. CASE CardMoved(u) \/ CloseAt(u) \/ Reopen(u) \/ \E c \in DOMAIN Credits : AddCredit(u, c)
    <3>1. Leaves(u) /\ UNCHANGED <<date, bought>>
      BY <2>1 DEF CardMoved, CloseAt, Reopen, AddCredit
    <3> QED
      BY <1>0, <3>1, ReadLeaves
  <2>2. CASE \/ \E p \in Buys : CreatePurchase(u, p) \/ GetPurchaseItem(u, p)
             \/ \E c \in DOMAIN Credits : CreateCredit(u, c)
             \/ LoadToClose(u) \/ LoadToReopen(u) \/ BuildStatement(u)
    BY <2>2, ReadLoads
  <2>3. CASE \E p \in Buys : AddPurchase(u, p) \/ Refund(u, p) \/ Advance(u, p) \/ EditPurchase(u, p)
    BY <2>3, ReadBuys, ReadRefunds, ReadAdvances, ReadEdits
  <2> QED
    BY <1>4, <2>1, <2>2, <2>3
<1>5. CASE UNCHANGED cardVars
  BY <1>1, <1>5 DEF cardVars
<1> QED
  BY <1>2, <1>3, <1>4, <1>5 DEF CardsNext

----------------------------------------------------------------------------
(* EveryCentBilled: the bills and the carries of the closed months are     *)
(* what is on them.                                                        *)

WithKey(S, key, m)  == {x \in S : key[x] = m}
WithKeys(S, key, M) == {x \in S : key[x] \in M}

(* A sum of sums by key is one sum.                                        *)
LEMMA SumOverKeys ==
  ASSUME NEW S, IsFiniteSet(S), NEW f, \A x \in S : f[x] \in Int, NEW key, NEW M, IsFiniteSet(M),
         NEW g, \A m \in M : g[m] = SumFunctionOnSet(f, WithKey(S, key, m))
  PROVE  SumFunctionOnSet(g, M) = SumFunctionOnSet(f, WithKeys(S, key, M))
<1>1. \A m \in M : g[m] = SumFunctionOnSet(f, {x \in S : key[x] = m})
  BY DEF WithKey
<1>2. SumFunctionOnSet(g, M) = SumFunctionOnSet(f, {x \in S : key[x] \in M})
  BY <1>1, SumByKey
<1> QED
  BY <1>2 DEF WithKeys

(* g holds, for each key of M, the sum of f over the elements of S with it. *)
Grouped(S, f, key, M, g) ==
    /\ IsFiniteSet(S) /\ IsFiniteSet(M) /\ \A x \in S : f[x] \in Int
    /\ \A m \in M : g[m] = SumFunctionOnSet(f, WithKey(S, key, m))

(* The same, of what Grouped puts together.                                *)
LEMMA SumByKeys ==
  ASSUME NEW S, NEW f, NEW key, NEW M, NEW g, Grouped(S, f, key, M, g)
  PROVE  SumFunctionOnSet(g, M) = SumFunctionOnSet(f, WithKeys(S, key, M))
  BY SumOverKeys DEF Grouped

(* The closed months are those before the open one, each with the total of *)
(* its items.                                                              *)
LEMMA ClosedMonths ==
  ASSUME NEW it, NEW cl, NEW cb, NEW r, ItemsOK(it), RowOK(r), StatementsOK(it, cl, cb, r), BillIds(cb, r)
  PROVE  /\ IsFiniteSet(Before(r)) /\ Before(r) \subseteq CardMonths
         /\ \A m \in Before(r) : ClosedOK(m, cl[m], it, cb) /\ cl[m].total \in Int /\ cl[m].total = MonthTotal(it, m)
         /\ \A m \in CardMonths : cl[m].closed <=> m \in Before(r)
<1>1. LastMonth \in Nat /\ MaxInstallments \in Nat \ {0}
  BY CardsAssumption
<1>2. IsFiniteSet(CardMonths)
  BY <1>1, FS_Interval DEF CardMonths
<1>3. IsFiniteSet(Before(r)) /\ Before(r) \subseteq CardMonths
  BY <1>2, FS_Subset DEF Before
<1>4. \A m \in Before(r) : ClosedOK(m, cl[m], it, cb)
  BY DEF StatementsOK, Before
<1>5. ASSUME NEW m \in Before(r) PROVE cl[m].total \in Int /\ cl[m].total = MonthTotal(it, m)
  BY <1>4, MonthTotalType DEF ClosedOK
<1>6. \A m \in CardMonths : cl[m].closed <=> m \in Before(r)
  BY <1>4 DEF StatementsOK, Before, ClosedOK, Open
<1> QED
  BY <1>3, <1>4, <1>5, <1>6

(* What the live bills ask for is what the months with a positive total    *)
(* hold.                                                                   *)
LEMMA BilledMonths ==
  ASSUME NEW it, NEW cl, NEW cb, NEW r, ItemsOK(it), RowOK(r), StatementsOK(it, cl, cb, r), BillIds(cb, r), ~r.archived,
         NEW f, f = [b \in Live(cb) |-> cb[b].amount],
         NEW g, \A m \in Before(r) : g[m] = IF cl[m].total > 0 THEN cl[m].total ELSE 0
  PROVE  SumFunctionOnSet(g, Before(r)) = SumFunctionOnSet(f, Live(cb))
<1> DEFINE L == Live(cb)
           key == [b \in L |-> b[1]]
           M == Before(r)
<1>1. IsFiniteSet(M) /\ \A m \in M : ClosedOK(m, cl[m], it, cb) /\ cl[m].total \in Int
  BY ClosedMonths
<1>2. L \subseteq DOMAIN cb /\ IsFiniteSet(L) /\ \A b \in L : f[b] \in Int /\ f[b] = cb[b].amount
  <2>1. L \subseteq DOMAIN cb
    BY DEF Live
  <2>2. IsFiniteSet(L)
    BY <2>1, FS_Subset DEF BillIds
  <2>3. \A b \in L : cb[b].amount \in Int
    BY <2>1 DEF BillIds
  <2> QED
    BY <2>1, <2>2, <2>3
<1>3. /\ \A b \in L : b[1] \in M /\ cl[b[1]].total > 0 /\ cl[b[1]].bill = b
      /\ \A m \in M : cl[m].total > 0 => cl[m].bill \in L
  BY DEF StatementsOK
<1>4. \A b \in L : key[b] = b[1]
  OBVIOUS
<1> HIDE DEF L, M, key
<1>5. ASSUME NEW m \in M PROVE g[m] = SumFunctionOnSet(f, WithKey(L, key, m))
  <2> DEFINE s == WithKey(L, key, m)
  <2>1. CASE cl[m].total > 0
    <3> DEFINE b == cl[m].bill
    <3>1. b \in L /\ b[1] = m /\ cb[b].amount = cl[m].total
      BY <1>1, <1>3, <2>1 DEF ClosedOK
    <3>2. s = {b}
      BY <1>3, <1>4, <3>1 DEF WithKey
    <3> HIDE DEF b, s
    <3>3. IsFiniteSet(s) /\ b \in s /\ f[b] \in Int /\ \A y \in s \ {b} : f[y] = 0
      BY <1>2, <3>1, <3>2, FS_Singleton
    <3>4. SumFunctionOnSet(f, s) = f[b]
      BY <3>3, SumOne
    <3>5. f[b] = cl[m].total /\ g[m] = cl[m].total
      BY <1>2, <2>1, <3>1 DEF M
    <3> QED
      BY <3>4, <3>5 DEF s
  <2>2. CASE ~(cl[m].total > 0)
    <3>1. s = {}
      BY <1>3, <1>4, <2>2 DEF WithKey
    <3>2. SumFunctionOnSet(f, s) = 0
      BY <3>1, SumEmpty
    <3>3. g[m] = 0
      BY <2>2 DEF M
    <3> QED
      BY <3>2, <3>3
  <2> QED
    BY <2>1, <2>2
<1>6. WithKeys(L, key, M) = L
  BY <1>3, <1>4 DEF WithKeys
<1>7. SumFunctionOnSet(g, M) = SumFunctionOnSet(f, WithKeys(L, key, M))
  <2>1. \A b \in L : f[b] \in Int
    BY <1>2
  <2>2. \A m \in M : g[m] = SumFunctionOnSet(f, WithKey(L, key, m))
    BY <1>5
  <2>3. Grouped(L, f, key, M, g)
    BY <1>1, <1>2, <2>1, <2>2 DEF Grouped
  <2> QED
    BY <2>3, SumByKeys
<1> QED
  BY <1>6, <1>7 DEF L, M

Carries(it) == {k \in DOMAIN it : k[2] = "carry"}

(* What is carried is what the months with a negative total hold.          *)
LEMMA CarriedMonths ==
  ASSUME NEW it, NEW cl, NEW cb, NEW r, ItemsOK(it), RowOK(r), StatementsOK(it, cl, cb, r), BillIds(cb, r),
         NEW h, \A m \in Before(r) : h[m] = IF cl[m].total < 0 THEN cl[m].total ELSE 0
  PROVE  SumFunctionOnSet(h, Before(r)) = SumFunctionOnSet(it, Carries(it))
<1> DEFINE L == Carries(it)
           key == [k \in L |-> k[3]]
           M == Before(r)
<1>1. IsFiniteSet(M) /\ \A m \in M : ClosedOK(m, cl[m], it, cb) /\ cl[m].total \in Int
  BY ClosedMonths
<1>2. L \subseteq DOMAIN it /\ IsFiniteSet(L) /\ \A k \in L : it[k] \in Int
  <2>1. L \subseteq DOMAIN it
    BY DEF Carries
  <2>2. IsFiniteSet(L)
    BY <2>1, FS_Subset DEF ItemsOK
  <2> QED
    BY <2>1, <2>2 DEF ItemsOK
<1>3. \A k \in L : k[3] \in M /\ k = Carry(k[3]) /\ cl[k[3]].total < 0
  BY DEF StatementsOK, Carries
<1>4. \A k \in L : key[k] = k[3]
  OBVIOUS
<1>0. \A m \in M : cl[m].total < 0 => Carry(m) \in L /\ (Carry(m))[3] = m /\ it[Carry(m)] = cl[m].total
  BY <1>1 DEF ClosedOK, Carries, Carry
<1> HIDE DEF L, M, key
<1>5. ASSUME NEW m \in M PROVE h[m] = SumFunctionOnSet(it, WithKey(L, key, m))
  <2> DEFINE s == WithKey(L, key, m)
  <2>1. CASE cl[m].total < 0
    <3> DEFINE b == Carry(m)
    <3>1. b \in L /\ b[3] = m /\ it[b] = cl[m].total
      BY <1>0, <2>1
    <3>2. s = {b}
      BY <1>3, <1>4, <3>1 DEF WithKey
    <3> HIDE DEF b, s
    <3>3. IsFiniteSet(s) /\ b \in s /\ it[b] \in Int /\ \A y \in s \ {b} : it[y] = 0
      BY <1>2, <3>1, <3>2, FS_Singleton
    <3>4. SumFunctionOnSet(it, s) = it[b]
      BY <3>3, SumOne
    <3>5. h[m] = cl[m].total
      BY <2>1 DEF M
    <3> QED
      BY <3>1, <3>4, <3>5 DEF s
  <2>2. CASE ~(cl[m].total < 0)
    <3>1. s = {}
      BY <1>3, <1>4, <2>2 DEF WithKey
    <3>2. SumFunctionOnSet(it, s) = 0
      BY <3>1, SumEmpty
    <3>3. h[m] = 0
      BY <2>2 DEF M
    <3> QED
      BY <3>2, <3>3
  <2> QED
    BY <2>1, <2>2
<1>6. WithKeys(L, key, M) = L
  BY <1>3, <1>4 DEF WithKeys
<1>7. SumFunctionOnSet(h, M) = SumFunctionOnSet(it, WithKeys(L, key, M))
  <2>1. \A k \in L : it[k] \in Int
    BY <1>2
  <2>2. \A m \in M : h[m] = SumFunctionOnSet(it, WithKey(L, key, m))
    BY <1>5
  <2>3. Grouped(L, it, key, M, h)
    BY <1>1, <1>2, <2>1, <2>2 DEF Grouped
  <2> QED
    BY <2>3, SumByKeys
<1> QED
  BY <1>6, <1>7 DEF L, M

(* And the totals of the closed months are what is on them.                *)
LEMMA TotaledMonths ==
  ASSUME NEW it, NEW cl, NEW cb, NEW r, ItemsOK(it), RowOK(r), StatementsOK(it, cl, cb, r), BillIds(cb, r),
         NEW t, \A m \in Before(r) : t[m] = cl[m].total
  PROVE  SumFunctionOnSet(t, Before(r)) = SumFunctionOnSet(it, {k \in DOMAIN it : k[1] \in Before(r)})
<1> DEFINE L == DOMAIN it
           key == [k \in L |-> k[1]]
           M == Before(r)
<1>1. IsFiniteSet(M) /\ \A m \in M : cl[m].total = MonthTotal(it, m)
  BY ClosedMonths
<1>2. IsFiniteSet(L) /\ \A k \in L : it[k] \in Int
  BY DEF ItemsOK
<1>3. \A k \in L : key[k] = k[1]
  OBVIOUS
<1>4. \A m \in M : t[m] = MonthTotal(it, m)
  BY <1>1
<1> HIDE DEF M, key
<1>5. ASSUME NEW m \in M PROVE t[m] = SumFunctionOnSet(it, WithKey(L, key, m))
  <2>1. WithKey(L, key, m) = MonthItems(it, m)
    BY <1>3 DEF MonthItems, WithKey
  <2> QED
    BY <1>4, <2>1 DEF MonthTotal
<1>6. WithKeys(L, key, M) = {k \in L : k[1] \in M}
  BY <1>3 DEF WithKeys
<1> HIDE DEF L
<1>7. SumFunctionOnSet(t, M) = SumFunctionOnSet(it, WithKeys(L, key, M))
  <2>1. \A m \in M : t[m] = SumFunctionOnSet(it, WithKey(L, key, m))
    BY <1>5
  <2>2. Grouped(L, it, key, M, t)
    BY <1>1, <1>2, <2>1 DEF Grouped
  <2> QED
    BY <2>2, SumByKeys
<1> QED
  BY <1>6, <1>7 DEF L, M

(* Arithmetic of the sums below.                                           *)
LEMMA Adding ==
  ASSUME NEW a \in Int, NEW b \in Int, NEW c \in Int, NEW d \in Int, NEW e \in Int, NEW s \in Int,
         c = a + b, c + d = e + b
  PROVE  a + d = e
  OBVIOUS

(* The live bills and the open months come to what was spent: the carries  *)
(* of the closed months take the negative totals on.                       *)
LEMMA Billed ==
  ASSUME NEW it, NEW cl, NEW cb, NEW r, ItemsOK(it), RowOK(r), StatementsOK(it, cl, cb, r), BillIds(cb, r), ~r.archived,
         NEW f, f = [b \in Live(cb) |-> cb[b].amount]
  PROVE  SumFunctionOnSet(f, Live(cb)) + SumFunctionOnSet(it, {k \in DOMAIN it : ~cl[k[1]].closed}) = SumFunctionOnSet(it, Spend(it))
<1> DEFINE M == Before(r)
           g == [m \in M |-> IF cl[m].total > 0 THEN cl[m].total ELSE 0]
           h == [m \in M |-> IF cl[m].total < 0 THEN cl[m].total ELSE 0]
           t == [m \in M |-> cl[m].total]
           open == {k \in DOMAIN it : ~cl[k[1]].closed}
           shut == {k \in DOMAIN it : k[1] \in M}
<1>1. IsFiniteSet(M) /\ \A m \in M : cl[m].total \in Int
  BY ClosedMonths
<1>2. \A m \in M : g[m] \in Int /\ h[m] \in Int /\ t[m] \in Int /\ t[m] = g[m] + h[m]
  BY <1>1
<1>3. \A m \in M : /\ g[m] = (IF cl[m].total > 0 THEN cl[m].total ELSE 0)
                   /\ h[m] = (IF cl[m].total < 0 THEN cl[m].total ELSE 0)
                   /\ t[m] = cl[m].total
  OBVIOUS
<1>4. open \cup shut = DOMAIN it /\ open \cap shut = {}
  <2>1. \A k \in DOMAIN it : k[1] \in CardMonths
    BY DEF ItemsOK, ItemKeys
  <2> QED
    BY <2>1, ClosedMonths
<1> HIDE DEF g, h, t, M, open
<1>5. SumFunctionOnSet(g, M) = SumFunctionOnSet(f, Live(cb))
  BY <1>3, BilledMonths DEF M
<1>6. SumFunctionOnSet(h, M) = SumFunctionOnSet(it, Carries(it))
  BY <1>3, CarriedMonths DEF M
<1>7. SumFunctionOnSet(t, M) = SumFunctionOnSet(it, shut)
  BY <1>3, TotaledMonths DEF M
<1> HIDE DEF shut
<1>8. SumFunctionOnSet(t, M) = SumFunctionOnSet(g, M) + SumFunctionOnSet(h, M)
  BY <1>1, <1>2, SumPlus
<1>9. IsFiniteSet(DOMAIN it) /\ \A k \in DOMAIN it : it[k] \in Int
  BY DEF ItemsOK
<1>10. IsFiniteSet(open) /\ IsFiniteSet(shut) /\ IsFiniteSet(Spend(it)) /\ IsFiniteSet(Carries(it))
  <2>1. open \subseteq DOMAIN it /\ shut \subseteq DOMAIN it /\ Spend(it) \subseteq DOMAIN it /\ Carries(it) \subseteq DOMAIN it
    BY <1>4 DEF Spend, Carries
  <2> QED
    BY <1>9, <2>1, FS_Subset
<1>11. SumFunctionOnSet(it, DOMAIN it) = SumFunctionOnSet(it, shut) + SumFunctionOnSet(it, open)
  <2>1. shut \cup open = DOMAIN it /\ shut \cap open = {}
    BY <1>4
  <2>2. \A k \in shut \cup open : it[k] \in Int
    BY <1>9, <2>1
  <2>3. SumFunctionOnSet(it, shut \cup open) = SumFunctionOnSet(it, shut) + SumFunctionOnSet(it, open)
    BY <1>10, <2>1, <2>2, SumUnion
  <2> QED
    BY <2>1, <2>3
<1>12. SumFunctionOnSet(it, DOMAIN it) = SumFunctionOnSet(it, Spend(it)) + SumFunctionOnSet(it, Carries(it))
  <2> DEFINE S == Spend(it)
             C == Carries(it)
  <2>1. S \cup C = DOMAIN it /\ S \cap C = {}
    BY DEF Spend, Carries
  <2> HIDE DEF S, C
  <2>2. \A k \in S \cup C : it[k] \in Int
    BY <1>9, <2>1
  <2>3. SumFunctionOnSet(it, S \cup C) = SumFunctionOnSet(it, S) + SumFunctionOnSet(it, C)
    BY <1>10, <2>1, <2>2, SumUnion DEF S, C
  <2> QED
    BY <2>1, <2>3 DEF S, C
<1> DEFINE a == SumFunctionOnSet(g, M)
           b == SumFunctionOnSet(h, M)
           c == SumFunctionOnSet(t, M)
           d == SumFunctionOnSet(it, open)
           e == SumFunctionOnSet(it, Spend(it))
<1>13. a \in Int /\ b \in Int /\ c \in Int
  BY <1>1, <1>2, SumType
<1>14. d \in Int /\ e \in Int
  <2> DEFINE S == Spend(it)
  <2>1. open \subseteq DOMAIN it /\ S \subseteq DOMAIN it
    BY <1>4 DEF Spend
  <2> HIDE DEF S
  <2>2. SumFunctionOnSet(it, open) \in Int /\ SumFunctionOnSet(it, S) \in Int
    BY <1>9, <2>1, SumType
  <2> QED
    BY <2>2 DEF S
<1>15. c = a + b
  BY <1>8
<1>16. c + d = e + b
  BY <1>6, <1>7, <1>11, <1>12
<1>17. SumFunctionOnSet(f, Live(cb)) = a
  BY <1>5
<1> HIDE DEF a, b, c, d, e
<1>18. a + d = e
  BY <1>13, <1>14, <1>15, <1>16
<1> QED
  BY <1>17, <1>18 DEF d, e, open

(* StatementInv implies EveryCentBilled.                                   *)
LEMMA StatementsBill == ASSUME StatementInv PROVE EveryCentBilled
<1>1. ItemsOK(item) /\ RowOK(row) /\ StatementsOK(item, closedAs, cardBill, row) /\ BillIds(cardBill, row)
  BY DEF StatementInv
<1>2. ASSUME NEW m \in CardMonths, closedAs[m].closed
      PROVE  /\ closedAs[m].total = Total(ItemsOf(m))
             /\ closedAs[m].total > 0 =>
                  /\ cardBill[closedAs[m].bill].amount = closedAs[m].total
                  /\ row.archived \/ closedAs[m].bill \in LiveBills
  <2>1. m \in Before(row) /\ ClosedOK(m, closedAs[m], item, cardBill)
    BY <1>1, <1>2, ClosedMonths
  <2>2. MonthTotal(item, m) = Total(ItemsOf(m))
    BY DEF MonthTotal, MonthItems, Total, ItemsOf
  <2>3. closedAs[m].total > 0 /\ ~row.archived => closedAs[m].bill \in Live(cardBill)
    BY <1>1, <2>1 DEF StatementsOK
  <2> QED
    BY <2>1, <2>2, <2>3 DEF ClosedOK, LiveBills, Live
<1>3. ASSUME ~row.archived
      PROVE  SumFunction([b \in LiveBills |-> cardBill[b].amount])
             + Total({k \in DOMAIN item : ~closedAs[k[1]].closed}) = Total(SpendLines)
  <2> DEFINE f == [b \in LiveBills |-> cardBill[b].amount]
  <2>1. LiveBills = Live(cardBill) /\ SpendLines = Spend(item)
    BY DEF LiveBills, Live, SpendLines, Spend
  <2>2. SumFunction(f) = SumFunctionOnSet(f, Live(cardBill)) /\ f = [b \in Live(cardBill) |-> cardBill[b].amount]
    BY <2>1 DEF SumFunction
  <2> HIDE DEF f
  <2>3. SumFunctionOnSet(f, Live(cardBill)) + SumFunctionOnSet(item, {k \in DOMAIN item : ~closedAs[k[1]].closed})
        = SumFunctionOnSet(item, Spend(item))
    BY <1>1, <1>3, <2>2, Billed
  <2> QED
    BY <2>1, <2>2, <2>3 DEF Total, f
<1> QED
  BY <1>2, <1>3 DEF EveryCentBilled

----------------------------------------------------------------------------
(* A new card has no statement, no bill and no purchase.                   *)
LEMMA CardsStart == ASSUME CardsInit PROVE StatementInv /\ ReadInv
<1>0. LastMonth \in Nat /\ MaxInstallments \in Nat \ {0} /\ MonthDays \in Nat \ {0}
  BY CardsAssumption
<1>1. /\ RowOK(row) /\ row.open = 0 /\ row.version = 0
  BY <1>0 DEF CardsInit, RowOK
<1>2. DOMAIN item = {} /\ IsFun(item) /\ ItemsOK(item)
  <2>1. DOMAIN item = {} /\ IsFun(item)
    BY DEF CardsInit, IsFun
  <2> QED
    BY <2>1, FS_EmptySet DEF ItemsOK
<1>3. DOMAIN cardBill = {} /\ BillIds(cardBill, row)
  <2>1. DOMAIN cardBill = {} /\ IsFun(cardBill)
    BY DEF CardsInit, IsFun
  <2> QED
    BY <2>1, FS_EmptySet DEF BillIds
<1>4. Before(row) = {}
  BY <1>0, <1>1 DEF Before, CardMonths
<1>5. closedAs = [m \in CardMonths |-> closedAs[m]] /\ \A m \in CardMonths : closedAs[m] = Open /\ ~(m < row.open)
  BY <1>0, <1>1 DEF CardsInit, CardMonths
<1>6. StatementsOK(item, closedAs, cardBill, row)
  BY <1>2, <1>3, <1>4, <1>5 DEF StatementsOK, Live
<1>7. at = [u \in CardUsers |-> at[u]] /\ \A u \in CardUsers : at[u] = [op |-> Free]
  BY DEF CardsInit
<1>8. \A u \in CardUsers : KnowsOK(at[u], item, closedAs, row)
  BY <1>7, FreeKnows
<1>9. StatementInv
  BY <1>1, <1>2, <1>3, <1>6, <1>7, <1>8 DEF StatementInv
<1>10. BoughtOK(bought)
  BY DEF CardsInit, BoughtOK
<1>11. date \in Nat \ {0} /\ date <= LastCardDay
  BY <1>0 DEF CardsInit, LastCardDay
<1>12. \A u \in CardUsers : ReadOK(at[u], bought)
  BY <1>7 DEF ReadOK, Free, PurchaseOps
<1> QED
  BY <1>9, <1>10, <1>11, <1>12 DEF ReadInv

(* Both invariants hold after every step of the card.                      *)
LEMMA CardsKeep == ASSUME StatementInv, ReadInv, [CardsNext]_cardVars PROVE StatementInv' /\ ReadInv'
  BY StatementNext, ReadNext

(* EveryCentBilled, for any number of requests, purchases and credits and  *)
(* any calendar: however AddPurchase, AddCredit, Refund and Advance meet   *)
(* CloseAt and Reopen between a request's read and its write, a closed     *)
(* statement holds what its bill asks for, and what was spent is on the    *)
(* live bills and the open statements, once.                               *)
THEOREM StatementsAreBilled == CardsInit /\ [][CardsNext]_cardVars => []EveryCentBilled
<1>1. CardsInit => StatementInv /\ ReadInv
  BY CardsStart
<1>2. StatementInv /\ ReadInv /\ [CardsNext]_cardVars => (StatementInv /\ ReadInv)'
  BY CardsKeep
<1>3. StatementInv => EveryCentBilled
  BY StatementsBill
<1> QED
  BY <1>1, <1>2, <1>3, PTL

----------------------------------------------------------------------------
(* StatementsFollowLedger: the rows of a plan add up to its installments.  *)

(* The rows of installments that were not advanced add up to them.         *)
LEMMA RowsOfEach ==
  ASSUME NEW p \in Buys, NEW b \in BoughtRow(p), NEW it, ItemsOK(it), RowsOK(it, p, b),
         NEW is \in SUBSET (1..Purchases[p].n), is \cap b.advanced = {}
  PROVE  SumFunctionOnSet(it, PlanRows(p, b, is)) = SumParts(p, is)
<1> DEFINE R == PlanRows(p, b, is)
           f == PartsOf(p)
           key == [k \in R |-> k[3]]
           n == Purchases[p].n
<1>1. /\ DOMAIN b.plan = 1..n /\ IsFiniteSet(1..n) /\ \A i \in 1..n : f[i] \in Int
  BY RowFields, PartsTyped
<1>2. IsFiniteSet(R) /\ IsFiniteSet(is)
  BY <1>1, RowsTyped, FS_Subset
<1>3. R \subseteq DOMAIN it /\ \A k \in R : it[k] \in Int
  <2>1. R \subseteq PlanRows(p, b, DOMAIN b.plan)
    BY <1>1 DEF PlanRows
  <2>2. R \subseteq DOMAIN it
    BY <2>1 DEF RowsOK, OwnedBy
  <2> HIDE DEF R
  <2> QED
    BY <2>2 DEF ItemsOK
<1>4. ASSUME NEW i \in is PROVE <<b.plan[i], p, i>> \in R /\ it[<<b.plan[i], p, i>>] = f[i]
  BY <1>1 DEF PlanRows, TagOf, RowsOK
<1>5. \A k \in R : \E i \in is : k = <<b.plan[i], p, i>>
  BY DEF PlanRows, TagOf
<1>6. \A k \in R : key[k] = k[3]
  OBVIOUS
<1> HIDE DEF R, key, f, n
<1>7. ASSUME NEW i \in is PROVE f[i] = SumFunctionOnSet(it, WithKey(R, key, i))
  <2> DEFINE k == <<b.plan[i], p, i>>
             s == WithKey(R, key, i)
  <2>1. k \in R /\ it[k] = f[i] /\ k[3] = i
    BY <1>4
  <2>2. s = {k}
    <3>1. k \in s
      BY <1>6, <2>1 DEF WithKey
    <3>2. ASSUME NEW j \in s PROVE j = k
      <4>1. j \in R /\ j[3] = i
        BY <1>6, <3>2 DEF WithKey
      <4>2. PICK h \in is : j = <<b.plan[h], p, h>>
        BY <1>5, <4>1
      <4>3. h = i
        BY <4>1, <4>2
      <4> QED
        BY <4>2, <4>3
    <3> QED
      BY <3>1, <3>2
  <2> HIDE DEF k, s
  <2>3. IsFiniteSet(s) /\ k \in s /\ it[k] \in Int /\ \A y \in s \ {k} : it[y] = 0
    BY <1>3, <2>1, <2>2, FS_Singleton
  <2>4. SumFunctionOnSet(it, s) = it[k]
    BY <2>3, SumOne
  <2> QED
    BY <2>1, <2>4 DEF s
<1>8. WithKeys(R, key, is) = R
  <2>1. ASSUME NEW k \in R PROVE key[k] \in is
    <3>1. PICK i \in is : k = <<b.plan[i], p, i>>
      BY <1>5
    <3> QED
      BY <1>6, <3>1
  <2> QED
    BY <2>1 DEF WithKeys
<1>9. SumFunctionOnSet(f, is) = SumFunctionOnSet(it, WithKeys(R, key, is))
  <2>1. \A x \in R : it[x] \in Int
    BY <1>3
  <2>2. \A m \in is : f[m] = SumFunctionOnSet(it, WithKey(R, key, m))
    BY <1>7
  <2>3. Grouped(R, it, key, is, f)
    BY <1>2, <2>1, <2>2 DEF Grouped
  <2> QED
    BY <2>3, SumByKeys
<1> QED
  BY <1>8, <1>9 DEF SumParts, f, R

(* And so do those of installments with all that were advanced, or none.   *)
LEMMA RowsSum ==
  ASSUME NEW p \in Buys, NEW b \in BoughtRow(p), NEW it, ItemsOK(it), RowsOK(it, p, b),
         NEW is \in SUBSET (1..Purchases[p].n), is \cap b.advanced = {} \/ b.advanced \subseteq is
  PROVE  SumFunctionOnSet(it, PlanRows(p, b, is)) = SumParts(p, is)
<1>1. CASE is \cap b.advanced = {}
  BY <1>1, RowsOfEach
<1>2. CASE b.advanced \subseteq is /\ b.advanced # {}
  <2> DEFINE A == b.advanced
             N == is \ A
             f == PartsOf(p)
             n == Purchases[p].n
             R == PlanRows(p, b, N)
  <2>1. /\ DOMAIN b.plan = 1..n /\ IsFiniteSet(1..n) /\ \A i \in 1..n : f[i] \in Int /\ A \in SUBSET (1..n)
        /\ n \in 1..MaxInstallments
    BY RowFields, PartsTyped
  <2>2. N \in SUBSET (1..n) /\ N \cap A = {} /\ A \cup N = is
    BY <1>2
  <2>3. SumFunctionOnSet(it, R) = SumParts(p, N)
    BY <2>2, RowsOfEach
  <2>4. PICK j : j \in A
    BY <1>2
  <2> DEFINE k == <<b.plan[j], p, Adv>>
  <2>5. it[k] = SumParts(p, A) /\ \A i \in DOMAIN b.plan : b.plan[i] <= b.plan[j]
    BY <2>4 DEF RowsOK
  <2>6. \A i \in A : b.plan[i] = b.plan[j]
    <3> SUFFICES ASSUME NEW i \in A PROVE b.plan[i] = b.plan[j]
      OBVIOUS
    <3>0. \A h \in b.advanced : \A g \in DOMAIN b.plan : b.plan[g] <= b.plan[h]
      BY DEF RowsOK
    <3>1. b.plan[i] <= b.plan[j] /\ b.plan[j] <= b.plan[i]
      <4>1. i \in b.advanced /\ j \in b.advanced /\ i \in DOMAIN b.plan /\ j \in DOMAIN b.plan
        BY <2>1, <2>4
      <4> QED
        BY ONLY <3>0, <4>1
    <3>2. b.plan \in [1..n -> CardMonths] /\ i \in 1..n /\ j \in 1..n
      BY <2>1, <2>4, RowFields
    <3>3. b.plan[i] \in Int /\ b.plan[j] \in Int
      <4>1. b.plan[i] \in CardMonths /\ b.plan[j] \in CardMonths
        BY <3>2
      <4> QED
        BY <4>1, CardsAssumption DEF CardMonths
    <3> QED
      BY <3>1, <3>3
  <2>7. PlanRows(p, b, is) = R \cup {k}
    <3>1. \A i \in is : <<b.plan[i], p, TagOf(b, i)>> = IF i \in A THEN k ELSE <<b.plan[i], p, TagOf(b, i)>>
      BY <2>6 DEF TagOf
    <3>2. ASSUME NEW y \in PlanRows(p, b, is) PROVE y \in R \cup {k}
      BY <3>1, <3>2 DEF PlanRows
    <3>3. ASSUME NEW y \in R \cup {k} PROVE y \in PlanRows(p, b, is)
      <4>1. CASE y = k
        BY <1>2, <2>4, <3>1, <4>1 DEF PlanRows
      <4>2. CASE y \in R
        BY <4>2 DEF PlanRows
      <4> QED
        BY <3>3, <4>1, <4>2
    <3> QED
      BY <3>2, <3>3
  <2>8. k \notin R
    <3> SUFFICES ASSUME k \in R PROVE FALSE
      OBVIOUS
    <3>1. PICK i \in N : k = <<b.plan[i], p, TagOf(b, i)>>
      BY DEF PlanRows
    <3>2. TagOf(b, i) = i /\ i \in 1..n
      BY <2>2 DEF TagOf
    <3>3. i = Adv
      BY <3>1, <3>2
    <3> QED
      BY <3>2, <3>3, <2>1 DEF Adv
  <2>9. R \cup {k} \subseteq DOMAIN it
    <3>1. PlanRows(p, b, is) \subseteq PlanRows(p, b, DOMAIN b.plan)
      BY <2>1 DEF PlanRows
    <3> QED
      BY <2>7, <3>1 DEF RowsOK, OwnedBy
  <2>10. IsFiniteSet(R) /\ \A y \in R \cup {k} : it[y] \in Int
    BY <2>2, <2>9, RowsTyped DEF ItemsOK
  <2> HIDE DEF k, R, f
  <2>11. SumFunctionOnSet(it, R \cup {k}) = SumFunctionOnSet(it, R) + it[k]
    BY <2>8, <2>10, SumIn
  <2>12. SumFunctionOnSet(f, A \cup N) = SumFunctionOnSet(f, A) + SumFunctionOnSet(f, N)
    <3> HIDE DEF A, N
    <3>1. IsFiniteSet(A) /\ IsFiniteSet(N) /\ A \cap N = {} /\ \A i \in A \cup N : f[i] \in Int
      BY <2>1, <2>2, FS_Subset
    <3> QED
      BY <3>1, SumUnion
  <2>13. SumParts(p, A) \in Int /\ SumParts(p, N) \in Int
    BY <2>1, <2>2, SumPartsType
  <2>14. SumParts(p, is) = SumParts(p, A) + SumParts(p, N)
    BY <2>2, <2>12 DEF SumParts, f
  <2>15. SumFunctionOnSet(it, PlanRows(p, b, is)) = SumParts(p, N) + SumParts(p, A)
    BY <2>3, <2>5, <2>7, <2>11 DEF k
  <2> HIDE DEF A, N
  <2> QED
    BY <2>13, <2>14, <2>15
<1> QED
  BY <1>1, <1>2

(* The sum of a constant.                                                  *)
LEMMA SumConstant ==
  ASSUME NEW S, IsFiniteSet(S), NEW q \in Int, NEW f, \A x \in S : f[x] = q
  PROVE  SumFunctionOnSet(f, S) = q * Cardinality(S)
<1> DEFINE Good == {T \in SUBSET S : SumFunctionOnSet(f, T) = q * Cardinality(T)}
<1>1. {} \in Good
  BY SumEmpty, FS_EmptySet
<1>2. ASSUME NEW T \in SUBSET S, NEW x \in S \ T, T \in Good PROVE T \cup {x} \in Good
  <2>1. IsFiniteSet(T) /\ x \notin T /\ \A y \in T \cup {x} : f[y] \in Int
    BY FS_Subset
  <2>2. SumFunctionOnSet(f, T \cup {x}) = SumFunctionOnSet(f, T) + f[x]
    BY ONLY <2>1, SumIn
  <2>3. Cardinality(T) \in Int /\ Cardinality(T \cup {x}) = Cardinality(T) + 1
    BY <2>1, FS_AddElement, FS_CardinalityType
  <2> DEFINE c == Cardinality(T)
             d == Cardinality(T \cup {x})
  <2>4. SumFunctionOnSet(f, T \cup {x}) = q * c + q
    BY <1>2, <2>2
  <2>5. c \in Int /\ d = c + 1
    BY <2>3
  <2> HIDE DEF c, d
  <2>6. q * d = q * c + q
    BY <2>5
  <2> QED
    BY <2>4, <2>6 DEF d
<1> HIDE DEF Good
<1>3. S \in Good
  BY <1>1, <1>2, ElementInduction
<1> QED
  BY <1>3 DEF Good

(* SplitInstallments splits the whole total: the parts are equal but the   *)
(* first, which takes the remainder.                                       *)
LEMMA Splits ==
  ASSUME NEW t \in Nat, NEW n \in Nat \ {0}
  PROVE  /\ t \div n \in Int /\ t % n \in Int
         /\ (t \div n) * (n - 1) + ((t \div n) + (t % n)) = t
<1>1. t = n * (t \div n) + (t % n) /\ t \div n \in Int /\ t % n \in Int
  OBVIOUS
<1> DEFINE q == t \div n
           r == t % n
<1> HIDE DEF q, r
<1>2. q \in Int /\ r \in Int /\ t = n * q + r
  BY <1>1 DEF q, r
<1>3. q * (n - 1) + (q + r) = t
  BY <1>2
<1> QED
  BY <1>1, <1>3 DEF q, r

(* And nothing is lost by it.                                              *)
LEMMA SplitsTotal ==
  ASSUME NEW p \in Buys
  PROVE  SumParts(p, 1..Purchases[p].n) = Purchases[p].total
<1> DEFINE n == Purchases[p].n
           t == Purchases[p].total
           f == PartsOf(p)
           S == 2..n
           q == t \div n
           r == t % n
<1>1. n \in Nat \ {0} /\ t \in Nat /\ \A i \in 1..n : f[i] \in Int
  BY PartsTyped, CardsAssumption
<1>2. \A i \in 1..n : f[i] = q + (IF i = 1 THEN r ELSE 0)
  BY DEF PartsOf, SplitInstallments
<1>3. q \in Int /\ r \in Int /\ q * (n - 1) + (q + r) = t
  BY <1>1, Splits
<1> HIDE DEF f, n, t, q, r
<1>4. f[1] = q + r /\ \A i \in S : f[i] = q
  BY <1>1, <1>2, <1>3
<1>5. IsFiniteSet(S) /\ Cardinality(S) = n - 1
  BY <1>1, FS_Interval
<1>6. 1..n = S \cup {1} /\ 1 \notin S
  BY <1>1
<1> HIDE DEF S
<1>7. SumFunctionOnSet(f, S) = q * (n - 1)
  BY <1>3, <1>4, <1>5, SumConstant
<1>8. SumFunctionOnSet(f, S \cup {1}) = SumFunctionOnSet(f, S) + f[1]
  <2>1. IsFiniteSet(S) /\ 1 \notin S /\ \A y \in S \cup {1} : f[y] \in Int
    BY <1>1, <1>5, <1>6
  <2> QED
    BY ONLY <2>1, SumIn
<1>9. SumFunctionOnSet(f, 1..n) = t
  BY <1>3, <1>4, <1>6, <1>7, <1>8
<1> QED
  BY <1>9 DEF SumParts, f, n, t

(* All of a purchase's rows add up to what was bought.                     *)
LEMMA RowsTotal ==
  ASSUME NEW p \in Buys, NEW b \in BoughtRow(p), NEW it, ItemsOK(it), RowsOK(it, p, b)
  PROVE  SumFunctionOnSet(it, OwnedBy(it, p)) = Purchases[p].total
<1> DEFINE is == 1..Purchases[p].n
<1>1. is \in SUBSET (1..Purchases[p].n) /\ b.advanced \subseteq is /\ DOMAIN b.plan = is
  BY RowFields
<1>2. OwnedBy(it, p) = PlanRows(p, b, is)
  BY <1>1 DEF RowsOK
<1> HIDE DEF is
<1>3. SumFunctionOnSet(it, PlanRows(p, b, is)) = SumParts(p, is)
  BY <1>1, RowsSum
<1> QED
  BY <1>2, <1>3, SplitsTotal DEF is

(* What is written is of one owner.                                        *)
KeptBut(it, it2, o) ==
    \A k \in DOMAIN it \cup DOMAIN it2 : k[2] # "carry" /\ k[2] # o =>
      k \in DOMAIN it /\ k \in DOMAIN it2 /\ it2[k] = it[k]

OwnedSum(it, o) == SumFunctionOnSet(it, OwnedBy(it, o))
SpendSum(it)    == SumFunctionOnSet(it, Spend(it))

(* The sums are amounts.                                                   *)
LEMMA SumsTyped ==
  ASSUME NEW it, ItemsOK(it)
  PROVE  SpendSum(it) \in Int /\ \A o : OwnedSum(it, o) \in Int
<1>1. IsFiniteSet(DOMAIN it) /\ \A k \in DOMAIN it : it[k] \in Int
  BY DEF ItemsOK
<1>2. \A S : S \subseteq DOMAIN it => SumFunctionOnSet(it, S) \in Int
  BY <1>1, SumType
<1>3. Spend(it) \subseteq DOMAIN it /\ \A o : OwnedBy(it, o) \subseteq DOMAIN it
  BY DEF Spend, OwnedBy
<1> QED
  BY <1>2, <1>3 DEF SpendSum, OwnedSum

(* What one owner's items come to moves the sum of them all.               *)
LEMMA SpendMoves ==
  ASSUME NEW it, ItemsOK(it), NEW it2, ItemsOK(it2), NEW o, KeptBut(it, it2, o), o # "carry"
  PROVE  SpendSum(it2) - SpendSum(it) = OwnedSum(it2, o) - OwnedSum(it, o)
<1> DEFINE R == {k \in DOMAIN it : k[2] # "carry" /\ k[2] # o}
           A == OwnedBy(it, o)
           B == OwnedBy(it2, o)
<1>1. /\ R \subseteq DOMAIN it2 /\ \A k \in R : it2[k] = it[k]
      /\ Spend(it) = A \cup R /\ A \cap R = {} /\ Spend(it2) = B \cup R /\ B \cap R = {}
      /\ A \subseteq DOMAIN it /\ R \subseteq DOMAIN it /\ B \subseteq DOMAIN it2
  BY DEF KeptBut, Spend, OwnedBy
<1> HIDE DEF R, A, B
<1>2. /\ IsFiniteSet(A) /\ IsFiniteSet(R) /\ IsFiniteSet(B)
      /\ \A k \in A \cup R : it[k] \in Int
      /\ \A k \in B \cup R : it2[k] \in Int
  BY <1>1, FS_Subset DEF ItemsOK
<1>3. SumFunctionOnSet(it, A \cup R) = SumFunctionOnSet(it, A) + SumFunctionOnSet(it, R)
  BY <1>1, <1>2, SumUnion
<1>4. SumFunctionOnSet(it2, B \cup R) = SumFunctionOnSet(it2, B) + SumFunctionOnSet(it2, R)
  BY <1>1, <1>2, SumUnion
<1>5. SumFunctionOnSet(it, R) = SumFunctionOnSet(it2, R)
  <2>1. \A k \in R : it[k] \in Int /\ it2[k] = it[k]
    BY <1>1, <1>2
  <2> QED
    BY <1>2, <2>1, SumSame
<1> DEFINE a == SumFunctionOnSet(it, A)
           b == SumFunctionOnSet(it2, B)
           c == SumFunctionOnSet(it, R)
<1>6. a \in Int /\ b \in Int
  BY SumsTyped DEF OwnedSum, A, B
<1>7. c \in Int
  BY <1>2, SumType
<1>8. SpendSum(it) = a + c /\ SpendSum(it2) = b + c /\ OwnedSum(it, o) = a /\ OwnedSum(it2, o) = b
  BY <1>1, <1>3, <1>4, <1>5 DEF SpendSum, OwnedSum, A, B
<1> HIDE DEF a, b, c
<1> QED
  BY <1>6, <1>7, <1>8

(* Writing a carry moves nothing of what was spent.                        *)
LEMMA SpendStays ==
  ASSUME NEW it, ItemsOK(it), NEW it2, KeptBut(it, it2, "carry")
  PROVE  SpendSum(it2) = SpendSum(it)
<1> DEFINE R == Spend(it)
<1>1. Spend(it2) = R /\ R \subseteq DOMAIN it /\ \A k \in R : it2[k] = it[k]
  BY DEF KeptBut, Spend
<1> HIDE DEF R
<1>2. IsFiniteSet(R) /\ \A k \in R : it[k] \in Int /\ it2[k] = it[k]
  BY <1>1, FS_Subset DEF ItemsOK
<1>3. SumFunctionOnSet(it, R) = SumFunctionOnSet(it2, R)
  BY <1>2, SumSame
<1> QED
  BY <1>1, <1>3 DEF SpendSum, R

(* The other purchases' items stay as they were.                           *)
LEMMA ContentStays ==
  ASSUME NEW it, ItemsOK(it), NEW it2, NEW o, KeptBut(it, it2, o), NEW q \in Buys, q # o,
         NEW b, b = NotBought \/ b \in BoughtRow(q), NEW again, ContentOK(it, q, b, again),
         NEW again2, again \subseteq again2
  PROVE  ContentOK(it2, q, b, again2)
<1> DEFINE R == OwnedBy(it, q)
<1>0. q # "carry"
  BY CardsAssumption
<1>1. OwnedBy(it2, q) = R /\ R \subseteq DOMAIN it /\ \A k \in R : it2[k] = it[k]
  BY <1>0 DEF KeptBut, OwnedBy
<1>2. SumFunctionOnSet(it, R) = SumFunctionOnSet(it2, R)
  <2> HIDE DEF R
  <2>1. IsFiniteSet(R) /\ \A k \in R : it[k] \in Int /\ it2[k] = it[k]
    BY <1>1, FS_Subset DEF ItemsOK
  <2> QED
    BY <2>1, SumSame
<1>3. ASSUME b \in BoughtRow(q), RowsOK(it, q, b) PROVE RowsOK(it2, q, b)
  <2>1. DOMAIN b.plan = 1..Purchases[q].n /\ b.advanced \in SUBSET (1..Purchases[q].n)
    BY <1>3, RowFields
  <2>2. R = PlanRows(q, b, DOMAIN b.plan)
    BY <1>3 DEF RowsOK
  <2>3. \A i \in DOMAIN b.plan \ b.advanced : <<b.plan[i], q, i>> \in R
    BY <2>2 DEF PlanRows, TagOf
  <2>4. \A j \in b.advanced : <<b.plan[j], q, Adv>> \in R
    BY <2>1, <2>2 DEF PlanRows, TagOf
  <2> HIDE DEF R
  <2>5. OwnedBy(it2, q) = PlanRows(q, b, DOMAIN b.plan)
    BY <1>1, <2>2
  <2>6. \A i \in DOMAIN b.plan \ b.advanced : it2[<<b.plan[i], q, i>>] = PartsOf(q)[i]
    BY <1>1, <1>3, <2>3 DEF RowsOK
  <2>7. \A j \in b.advanced : it2[<<b.plan[j], q, Adv>>] = SumParts(q, b.advanced)
    BY <1>1, <1>3, <2>4 DEF RowsOK
  <2> QED
    BY <1>3, <2>5, <2>6, <2>7 DEF RowsOK
<1> HIDE DEF R
<1>4. ~b.there => OwnedBy(it2, q) = {}
  BY <1>1 DEF ContentOK, R
<1>5. ASSUME b.there, q \notin again2
      PROVE  IF b.refunded THEN SumFunctionOnSet(it2, OwnedBy(it2, q)) = 0 ELSE RowsOK(it2, q, b)
  <2>1. b \in BoughtRow(q)
    BY <1>5 DEF NotBought
  <2>2. IF b.refunded THEN SumFunctionOnSet(it, R) = 0 ELSE RowsOK(it, q, b)
    BY <1>5 DEF ContentOK, R
  <2> QED
    BY <1>1, <1>2, <1>3, <2>1, <2>2
<1> QED
  BY <1>4, <1>5 DEF ContentOK

(* A purchase has no row or a well-formed one.                             *)
LEMMA BoughtTyped == ASSUME ReadInv, NEW p \in Buys PROVE bought[p] = NotBought \/ bought[p] \in BoughtRow(p)
  BY DEF ReadInv, BoughtOK

(* A step that leaves the purchases' items alone.                          *)
LEMMA ContentUntouched ==
  ASSUME ContentInv, StatementInv, ReadInv, KeptBut(item, item', "carry"), UNCHANGED <<bought, readvanced, posted>>
  PROVE  ContentInv'
<1>1. ASSUME NEW q \in Buys PROVE ContentOK(item', q, bought[q], readvanced)
  <2>1. q # "carry" /\ ContentOK(item, q, bought[q], readvanced) /\ ItemsOK(item)
    BY CardsAssumption DEF ContentInv, StatementInv
  <2>2. bought[q] = NotBought \/ bought[q] \in BoughtRow(q)
    BY BoughtTyped
  <2> QED
    BY <2>1, <2>2, ContentStays
<1>2. SpendSum(item') = SpendSum(item)
  BY SpendStays DEF StatementInv
<1> QED
  BY <1>1, <1>2 DEF ContentInv, SpendSum

(* A step that changes one purchase.                                       *)
LEMMA ContentFrom ==
  ASSUME ContentInv, StatementInv, ReadInv, StatementInv', NEW p \in Buys, KeptBut(item, item', p),
         NEW b, bought' = [bought EXCEPT ![p] = b], b.there = TRUE,
         readvanced \subseteq readvanced',
         p \notin readvanced' => IF b.refunded THEN OwnedSum(item', p) = 0 ELSE RowsOK(item', p, b),
         posted' \in Int,
         readvanced' = {} => posted' - posted = OwnedSum(item', p) - OwnedSum(item, p)
  PROVE  ContentInv'
<1>0. ItemsOK(item) /\ ItemsOK(item') /\ p # "carry"
  BY CardsAssumption DEF StatementInv
<1>1. ASSUME NEW q \in Buys PROVE ContentOK(item', q, bought'[q], readvanced')
  <2>1. CASE q = p
    <3>1. bought'[q] = b
      BY <2>1 DEF ReadInv, BoughtOK
    <3> QED
      BY <2>1, <3>1 DEF ContentOK, OwnedSum
  <2>2. CASE q # p
    <3>1. bought'[q] = bought[q]
      BY <2>2 DEF ReadInv, BoughtOK
    <3>2. ContentOK(item, q, bought[q], readvanced) /\ (bought[q] = NotBought \/ bought[q] \in BoughtRow(q))
      BY BoughtTyped DEF ContentInv
    <3>3. ContentOK(item', q, bought[q], readvanced')
      BY <1>0, <2>2, <3>2, ContentStays
    <3> QED
      BY <3>1, <3>3
  <2> QED
    BY <2>1, <2>2
<1>2. ASSUME readvanced' = {} PROVE SpendSum(item') = posted'
  <2>1. SpendSum(item) = posted /\ posted \in Int
    BY <1>2 DEF ContentInv, SpendSum
  <2>2. SpendSum(item') - SpendSum(item) = OwnedSum(item', p) - OwnedSum(item, p)
    BY <1>0, SpendMoves
  <2>3. SpendSum(item') \in Int
    BY <1>0, SumsTyped
  <2>4. posted' - posted = OwnedSum(item', p) - OwnedSum(item, p) /\ posted' \in Int
    BY <1>2
  <2> DEFINE d == OwnedSum(item', p) - OwnedSum(item, p)
             s == SpendSum(item')
  <2>5. s - posted = d /\ posted' - posted = d /\ s \in Int
    BY <2>1, <2>2, <2>3, <2>4
  <2> HIDE DEF d, s
  <2>6. s = posted'
    BY <2>1, <2>4, <2>5
  <2> QED
    BY <2>6 DEF s
<1> QED
  BY <1>1, <1>2 DEF ContentInv, SpendSum

(* Bought: the rows of the whole plan.                                     *)
LEMMA BoughtRows ==
  ASSUME NEW p \in Buys, NEW b \in BoughtRow(p), b.advanced = {}, NEW it, ItemsOK(it), OwnedBy(it, p) = {},
         NEW it2, it2 = Over([k \in PlanRows(p, b, DOMAIN b.plan) |-> PartsOf(p)[k[3]]], it)
  PROVE  KeptBut(it, it2, p) /\ RowsOK(it2, p, b)
<1> DEFINE S == PlanRows(p, b, DOMAIN b.plan)
<1>1. \A k \in S : k[2] = p
  BY DEF PlanRows
<1>2. \A i \in DOMAIN b.plan : <<b.plan[i], p, i>> \in S
  BY DEF PlanRows, TagOf
<1> HIDE DEF S
<1>3. /\ DOMAIN it2 = S \cup DOMAIN it /\ \A k \in DOMAIN it : k \notin S => it2[k] = it[k]
      /\ \A k \in S : it2[k] = PartsOf(p)[k[3]]
  BY DEF Over, S
<1>4. KeptBut(it, it2, p)
  BY <1>1, <1>3 DEF KeptBut
<1>5. OwnedBy(it2, p) = S
  BY <1>1, <1>3 DEF OwnedBy
<1>6. \A i \in DOMAIN b.plan : it2[<<b.plan[i], p, i>>] = PartsOf(p)[i]
  BY <1>2, <1>3
<1> QED
  BY <1>4, <1>5, <1>6 DEF RowsOK, S

(* AddPurchase writes the rows of the plan, which add up to what it posts. *)
LEMMA ContentBuys ==
  ASSUME ContentInv, StatementInv, ReadInv, StatementInv', NEW u \in CardUsers, NEW p \in Buys, AddPurchase(u, p)
  PROVE  ContentInv'
<1>1. at[u].op = "buy" /\ at[u].of = p /\ UNCHANGED readvanced
  BY DEF AddPurchase, Is
<1>2. CASE bought[p].there
  <2>1. UNCHANGED <<bought, item, posted>>
    BY <1>2 DEF AddPurchase
  <2>2. KeptBut(item, item', "carry")
    BY <2>1 DEF KeptBut
  <2> QED
    BY <1>1, <2>1, <2>2, ContentUntouched
<1>3. CASE ~bought[p].there
  <2> DEFINE b == NewPurchase(PlaceInstallments(p, at[u].card.closing, at[u].card.open))
  <2>1. /\ bought' = [bought EXCEPT ![p] = b] /\ posted' = posted + Purchases[p].total
        /\ item' = Over([k \in PlanRows(p, b, DOMAIN b.plan) |-> PartsOf(p)[k[3]]], item)
    BY <1>3 DEF AddPurchase, NewPurchase
  <2>2. b \in BoughtRow(p) /\ b.advanced = {} /\ b.there = TRUE /\ ~b.refunded
    BY <1>1, PlanOf
  <2> HIDE DEF b
  <2>3. OwnedBy(item, p) = {} /\ ItemsOK(item) /\ ItemsOK(item')
    BY <1>3 DEF ContentInv, ContentOK, StatementInv
  <2>4. KeptBut(item, item', p) /\ RowsOK(item', p, b)
    BY <2>1, <2>2, <2>3, BoughtRows
  <2>5. OwnedSum(item, p) = 0
    BY <2>3, SumEmpty DEF OwnedSum
  <2>6. OwnedSum(item', p) = Purchases[p].total
    BY <2>2, <2>3, <2>4, RowsTotal DEF OwnedSum
  <2>7. Purchases[p].total \in Int /\ posted \in Int
    BY PartsTyped DEF ContentInv
  <2>8. posted' \in Int /\ posted' - posted = OwnedSum(item', p) - OwnedSum(item, p)
    BY <2>1, <2>5, <2>6, <2>7
  <2>9. readvanced \subseteq readvanced'
    BY <1>1
  <2> QED
    BY <2>1, <2>2, <2>4, <2>8, <2>9, ContentFrom
<1> QED
  BY <1>2, <1>3

(* Refunded: what was billed comes back, the rest is gone.                 *)
LEMMA RefundedKept ==
  ASSUME NEW p \in Buys, NEW r, NEW open, NEW it, NEW billed, NEW kept, kept = Drop(it, PlanRows(p, r, DOMAIN r.plan \ billed)),
         NEW it2, it2 = (IF billed = {} THEN kept ELSE Put(kept, <<open, p, Back>>, -SumParts(p, billed)))
  PROVE  KeptBut(it, it2, p)
<1> DEFINE S == PlanRows(p, r, DOMAIN r.plan \ billed)
           k == <<open, p, Back>>
<1>1. \A j \in S : j[2] = p
  BY DEF PlanRows
<1>2. k[2] = p
  OBVIOUS
<1>3. DOMAIN kept = DOMAIN it \ S /\ \A j \in DOMAIN kept : kept[j] = it[j]
  BY DEF Drop
<1> HIDE DEF S
<1>4. \A j \in DOMAIN it2 \cup DOMAIN kept : j # k => j \in DOMAIN kept /\ j \in DOMAIN it2 /\ it2[j] = kept[j]
  BY DEF Put, Over
<1> HIDE DEF k
<1>5. ASSUME NEW j \in DOMAIN it \cup DOMAIN it2, j[2] # p
      PROVE  j \in DOMAIN it /\ j \in DOMAIN it2 /\ it2[j] = it[j]
  <2>1. j # k /\ j \notin S
    BY <1>1, <1>2, <1>5
  <2>2. j \in DOMAIN it2 \cup DOMAIN kept
    BY <1>3, <1>5, <2>1
  <2>3. j \in DOMAIN kept /\ j \in DOMAIN it2 /\ it2[j] = kept[j]
    BY <1>4, <2>1, <2>2
  <2> QED
    BY <1>3, <2>3
<1> QED
  BY <1>5 DEF KeptBut

(* What is left of a refunded purchase and what was given back come to     *)
(* nothing.                                                                *)
LEMMA RefundedSum ==
  ASSUME NEW p \in Buys, NEW r \in BoughtRow(p), NEW open \in 0..(LastMonth + 1), NEW it, ItemsOK(it), RowsOK(it, p, r),
         NEW billed, billed = RefundPlan(r, open), NEW kept, kept = Drop(it, PlanRows(p, r, DOMAIN r.plan \ billed)),
         NEW it2, it2 = (IF billed = {} THEN kept ELSE Put(kept, <<open, p, Back>>, -SumParts(p, billed)))
  PROVE  OwnedSum(it2, p) = 0
<1> DEFINE n == Purchases[p].n
           is == DOMAIN r.plan \ billed
           S == PlanRows(p, r, is)
           T == PlanRows(p, r, billed)
           k == <<open, p, Back>>
<1>1. /\ r.plan \in [1..n -> CardMonths] /\ DOMAIN r.plan = 1..n /\ r.advanced \in SUBSET (1..n)
      /\ billed \in SUBSET (1..n) /\ \A i \in 1..n : i \in billed <=> r.plan[i] < open
  BY RowFields DEF RefundPlan
<1>2. \A i \in 1..n : r.plan[i] \in Int
  BY <1>1, CardsAssumption DEF CardMonths
<1>3. billed \cap r.advanced = {} \/ r.advanced \subseteq billed
  <2> SUFFICES ASSUME NEW i \in billed \cap r.advanced, NEW j \in r.advanced PROVE j \in billed
    OBVIOUS
  <2>1. \A h \in r.advanced : \A g \in DOMAIN r.plan : r.plan[g] <= r.plan[h]
    BY DEF RowsOK
  <2>2. r.plan[j] <= r.plan[i] /\ i \in 1..n /\ j \in 1..n /\ r.plan[i] < open
    BY <1>1, <2>1
  <2>3. r.plan[j] < open
    BY <1>2, <2>2
  <2> QED
    BY <1>1, <2>2, <2>3
<1>4. OwnedBy(it, p) = S \cup T /\ S \cap T = {} /\ T \subseteq DOMAIN it /\ \A y \in S \cup T : y[2] = p
  <2>1. OwnedBy(it, p) = PlanRows(p, r, 1..n)
    BY <1>1 DEF RowsOK
  <2>2. is \cup billed = 1..n
    BY <1>1
  <2>3. PlanRows(p, r, 1..n) = S \cup T
    BY <2>2 DEF PlanRows
  <2>4. \A y \in S : ~(y[1] < open)
    BY <1>1 DEF PlanRows
  <2>5. \A y \in T : y[1] < open
    BY <1>1 DEF PlanRows
  <2>6. T \subseteq OwnedBy(it, p)
    BY <2>1, <2>3
  <2>7. \A y \in S \cup T : y[2] = p
    BY DEF PlanRows
  <2> HIDE DEF S, T
  <2> QED
    BY <2>1, <2>3, <2>4, <2>5, <2>6, <2>7 DEF OwnedBy
<1>5. SumFunctionOnSet(it, T) = SumParts(p, billed) /\ SumParts(p, billed) \in Int
  BY <1>1, <1>3, RowsSum, SumPartsType
<1>6. IsFiniteSet(T)
  BY <1>1, RowsTyped
<1>7. k \notin T /\ k[2] = p
  <2>1. Back # Adv /\ Back \notin 1..n
    BY PartsTyped DEF Back, Adv
  <2> SUFFICES ASSUME k \in T PROVE FALSE
    OBVIOUS
  <2>2. PICK i \in billed : k = <<r.plan[i], p, TagOf(r, i)>>
    BY DEF PlanRows
  <2>3. Back = TagOf(r, i) /\ i \in 1..n
    BY <1>1, <2>2
  <2> QED
    BY <2>1, <2>3 DEF TagOf
<1> HIDE DEF S, T, is
<1>8. DOMAIN kept = DOMAIN it \ S /\ \A y \in DOMAIN kept : kept[y] = it[y]
  BY DEF Drop, S, is
<1>9. OwnedBy(kept, p) = T /\ T \subseteq DOMAIN kept
  BY <1>4, <1>8 DEF OwnedBy
<1>10. \A y \in T : it[y] \in Int /\ kept[y] = it[y]
  BY <1>4, <1>8, <1>9 DEF ItemsOK
<1>11. CASE billed = {}
  <2>1. T = {} /\ it2 = kept
    BY <1>11 DEF T, PlanRows
  <2> QED
    BY <1>9, <2>1, SumEmpty DEF OwnedSum
<1>12. CASE billed # {}
  <2> DEFINE v == -SumParts(p, billed)
  <2>1. it2 = Put(kept, k, v)
    BY <1>12
  <2>2. v \in Int
    BY <1>5
  <2>3. OwnedBy(kept, p) = T /\ k \notin T /\ k[2] = p
    BY <1>7, <1>9
  <2> HIDE DEF k, v
  <2>4. DOMAIN it2 = DOMAIN kept \cup {k} /\ it2[k] = v /\ \A y \in DOMAIN kept \ {k} : it2[y] = kept[y]
    BY <2>1 DEF Put, Over
  <2>5. OwnedBy(it2, p) = T \cup {k}
    BY <2>3, <2>4 DEF OwnedBy
  <2>6. \A y \in T : it2[y] = it[y] /\ it[y] \in Int
    BY <1>9, <1>10, <2>3, <2>4
  <2>7. SumFunctionOnSet(it, T) = SumFunctionOnSet(it2, T)
    BY <1>6, <2>6, SumSame
  <2>8. \A y \in T \cup {k} : it2[y] \in Int
    BY <2>2, <2>4, <2>6
  <2>9. SumFunctionOnSet(it2, T \cup {k}) = SumFunctionOnSet(it2, T) + it2[k]
    <3>1. IsFiniteSet(T) /\ k \notin T /\ \A y \in T \cup {k} : it2[y] \in Int
      BY <1>6, <2>3, <2>8
    <3> QED
      BY ONLY <3>1, SumIn
  <2> DEFINE s == SumParts(p, billed)
             d == SumFunctionOnSet(it2, T \cup {k})
  <2>10. s \in Int /\ v = -s /\ d = s + v
    BY <1>5, <2>4, <2>7, <2>9 DEF v
  <2> HIDE DEF s, d
  <2>11. d = 0
    BY <2>10
  <2> QED
    BY <2>5, <2>11 DEF OwnedSum, d
<1> QED
  BY <1>11, <1>12

(* Refund takes the same from the statements and from the ledger.          *)
LEMMA ContentRefunds ==
  ASSUME ContentInv, StatementInv, ReadInv, StatementInv', NEW u \in CardUsers, NEW p \in Buys, Refund(u, p)
  PROVE  ContentInv'
<1>1. /\ at[u].op \in PurchaseOps /\ at[u].of = p /\ PurchaseGuard(u) /\ row.open = at[u].card.open
      /\ UNCHANGED readvanced /\ posted' = posted - Purchases[p].total /\ bought' = [bought EXCEPT ![p].refunded = TRUE]
  BY DEF Refund, Is, PurchaseOps, CardBump
<1> DEFINE r == bought[p]
           billed == RefundPlan(r, row.open)
           kept == Drop(item, PlanRows(p, r, DOMAIN r.plan \ billed))
<1>2. r \in BoughtRow(p) /\ at[u].read = r /\ ~r.refunded /\ row.open \in 0..(LastMonth + 1) /\ ItemsOK(item)
  BY <1>1, WhatIsRead DEF StatementInv, RowOK
<1>3. item' = IF billed = {} THEN kept ELSE Put(kept, <<row.open, p, Back>>, -SumParts(p, billed))
  BY <1>1, <1>2 DEF Refund
<1> DEFINE b == [r EXCEPT !.refunded = TRUE]
<1>4. bought' = [bought EXCEPT ![p] = b] /\ b.there = TRUE /\ b.refunded = TRUE
  <2>1. bought' = [bought EXCEPT ![p] = b]
    BY <1>1
  <2>2. r \in BoughtRow(p)
    BY <1>2
  <2> HIDE DEF r
  <2>3. b.there = TRUE /\ b.refunded = TRUE
    BY <2>2 DEF BoughtRow
  <2> QED
    BY <2>1, <2>3
<1>5. billed = RefundPlan(r, row.open) /\ kept = Drop(item, PlanRows(p, r, DOMAIN r.plan \ billed))
  OBVIOUS
<1>6. p \notin readvanced => RowsOK(item, p, r)
  <2>1. ContentOK(item, p, r, readvanced) /\ r.there = TRUE
    BY <1>2, RowFields DEF ContentInv
  <2> QED
    BY <1>2, <2>1 DEF ContentOK
<1> HIDE DEF r, billed, kept, b
<1>7. KeptBut(item, item', p)
  BY <1>3, <1>5, RefundedKept
<1>8. p \notin readvanced => OwnedSum(item', p) = 0 /\ OwnedSum(item, p) = Purchases[p].total
  <2> SUFFICES ASSUME p \notin readvanced PROVE OwnedSum(item', p) = 0 /\ OwnedSum(item, p) = Purchases[p].total
    OBVIOUS
  <2>1. RowsOK(item, p, r)
    BY <1>6
  <2>2. OwnedSum(item', p) = 0
    BY <1>2, <1>3, <1>5, <2>1, RefundedSum
  <2> QED
    BY <1>2, <2>1, <2>2, RowsTotal DEF OwnedSum
<1>9. posted' \in Int /\ Purchases[p].total \in Int /\ posted \in Int
  BY <1>1, PartsTyped DEF ContentInv
<1>10. readvanced' = {} => posted' - posted = OwnedSum(item', p) - OwnedSum(item, p)
  <2> SUFFICES ASSUME readvanced' = {} PROVE posted' - posted = OwnedSum(item', p) - OwnedSum(item, p)
    OBVIOUS
  <2>1. OwnedSum(item', p) = 0 /\ OwnedSum(item, p) = Purchases[p].total
    BY <1>1, <1>8
  <2> QED
    BY <1>1, <1>9, <2>1
<1>11. readvanced \subseteq readvanced' /\ (p \notin readvanced' => IF b.refunded THEN OwnedSum(item', p) = 0 ELSE RowsOK(item', p, b))
  BY <1>1, <1>4, <1>8
<1>12. posted' \in Int
  BY <1>9
<1> QED
  BY <1>4, <1>7, <1>10, <1>11, <1>12, ContentFrom

(* A credit is an item of its own.                                         *)
LEMMA ContentCredits ==
  ASSUME ContentInv, StatementInv, ReadInv, StatementInv', NEW u \in CardUsers, NEW c \in DOMAIN Credits, AddCredit(u, c)
  PROVE  ContentInv'
<1>1. UNCHANGED <<bought, readvanced>>
  BY DEF AddCredit
<1>2. CASE UNCHANGED <<row, item, posted>>
  <2>1. KeptBut(item, item', "carry")
    BY <1>2 DEF KeptBut
  <2> QED
    BY <1>1, <1>2, <2>1, ContentUntouched
<1>3. CASE ~(UNCHANGED <<row, item, posted>>)
  <2> DEFINE k == <<at[u].card.open, c, Credit>>
             v == -Credits[c]
  <2>1. ~(\E j \in DOMAIN item : j[2] = c) /\ item' = Put(item, k, v) /\ posted' = posted - Credits[c]
    BY <1>3 DEF AddCredit
  <2>2. c \notin Buys /\ c # "carry" /\ Credits[c] \in Int /\ v \in Int /\ k[2] = c
    BY CardsAssumption
  <2> HIDE DEF k, v
  <2>3. DOMAIN item' = DOMAIN item \cup {k} /\ item'[k] = v /\ \A j \in DOMAIN item \ {k} : item'[j] = item[j]
    BY <2>1 DEF Put, Over
  <2>4. KeptBut(item, item', c) /\ OwnedBy(item, c) = {} /\ OwnedBy(item', c) = {k}
    BY <2>1, <2>2, <2>3 DEF KeptBut, OwnedBy
  <2>5. ItemsOK(item) /\ ItemsOK(item')
    BY DEF StatementInv
  <2>6. OwnedSum(item, c) = 0 /\ OwnedSum(item', c) = v
    <3>1. SumFunctionOnSet(item', {k}) = item'[k]
      <4>1. IsFiniteSet({k}) /\ k \in {k} /\ item'[k] \in Int /\ \A y \in {k} \ {k} : item'[y] = 0
        BY <2>2, <2>3, FS_Singleton
      <4> QED
        BY <4>1, SumOne
    <3> QED
      BY <2>3, <2>4, <3>1, SumEmpty DEF OwnedSum
  <2>7. SpendSum(item') - SpendSum(item) = OwnedSum(item', c) - OwnedSum(item, c)
    BY <2>2, <2>4, <2>5, SpendMoves
  <2>8. SpendSum(item') \in Int /\ SpendSum(item) \in Int
    BY <2>5, SumsTyped
  <2>9. v = -Credits[c]
    BY DEF v
  <2>10. posted' \in Int /\ posted \in Int
    BY <2>1, <2>2 DEF ContentInv
  <2>11. readvanced = {} => SpendSum(item') = posted'
    <3> SUFFICES ASSUME readvanced = {} PROVE SpendSum(item') = posted'
      OBVIOUS
    <3>1. SpendSum(item) = posted
      BY DEF ContentInv, SpendSum
    <3> DEFINE s == SpendSum(item')
    <3>2. s - posted = v - 0 /\ s \in Int
      BY <2>6, <2>7, <2>8, <3>1
    <3> HIDE DEF s
    <3>3. s = posted'
      BY <2>1, <2>2, <2>9, <2>10, <3>2
    <3> QED
      BY <3>3 DEF s
  <2>12. ASSUME NEW q \in Buys PROVE ContentOK(item', q, bought[q], readvanced)
    <3>1. q # c /\ ContentOK(item, q, bought[q], readvanced) /\ (bought[q] = NotBought \/ bought[q] \in BoughtRow(q))
      BY <2>2, BoughtTyped DEF ContentInv
    <3> QED
      BY <2>4, <2>5, <3>1, ContentStays
  <2> QED
    BY <1>1, <2>10, <2>11, <2>12 DEF ContentInv, SpendSum
<1> QED
  BY <1>2, <1>3

(* Advanced: the rows D give way to one item.                              *)
ItemsAdvanced(it, it2, D, adv, v) ==
    /\ DOMAIN it2 = (DOMAIN it \ D) \cup {adv} /\ it2[adv] = v
    /\ \A k \in DOMAIN it \ D : k # adv => it2[k] = it[k]

(* What Advance writes and deletes of the items.                           *)
LEMMA AdvancedItem ==
  ASSUME NEW it, NEW D, NEW adv, NEW v, NEW it2, it2 = Put(Drop(it, D), adv, v)
  PROVE  ItemsAdvanced(it, it2, D, adv, v)
<1> DEFINE kept == Drop(it, D)
<1>1. DOMAIN kept = DOMAIN it \ D /\ \A k \in DOMAIN kept : kept[k] = it[k]
  BY DEF Drop
<1> HIDE DEF kept
<1>2. it2 = Put(kept, adv, v)
  BY DEF kept
<1>3. DOMAIN it2 = DOMAIN kept \cup {adv} /\ it2[adv] = v /\ \A k \in DOMAIN kept \ {adv} : it2[k] = kept[k]
  BY <1>2 DEF Put, Over
<1> QED
  BY <1>1, <1>3 DEF ItemsAdvanced

(* It is all of one purchase.                                              *)
LEMMA AdvancedKept ==
  ASSUME NEW p \in Buys, NEW it, NEW it2, NEW D, \A k \in D : k[2] = p, NEW adv, adv[2] = p, NEW v, ItemsAdvanced(it, it2, D, adv, v)
  PROVE  KeptBut(it, it2, p)
<1>1. ASSUME NEW j \in DOMAIN it \cup DOMAIN it2, j[2] # p
      PROVE  j \in DOMAIN it /\ j \in DOMAIN it2 /\ it2[j] = it[j]
  <2>1. j # adv /\ j \notin D
    BY <1>1
  <2> QED
    BY <1>1, <2>1 DEF ItemsAdvanced
<1> QED
  BY <1>1 DEF KeptBut

(* A first advance turns the last rows of the plan into one, of the same   *)
(* amount.                                                                 *)
LEMMA AdvancedRows ==
  ASSUME NEW p \in Buys, NEW r \in BoughtRow(p), NEW open \in CardMonths,
         NEW moved, moved = {i \in DOMAIN r.plan : r.plan[i] > open}, moved # {}, r.advanced \cap moved = {},
         NEW it, ItemsOK(it), RowsOK(it, p, r), NEW adv, adv = <<open, p, Adv>>, adv \notin DOMAIN it,
         NEW D, D = {<<r.plan[i], p, i>> : i \in moved},
         NEW it2, ItemsAdvanced(it, it2, D, adv, SumParts(p, moved)),
         NEW b, AdvancedFrom(p, r, open, moved, b)
  PROVE  RowsOK(it2, p, b)
<1> DEFINE n == Purchases[p].n
<1>1. /\ DOMAIN r.plan = 1..n /\ DOMAIN b.plan = 1..n /\ r.advanced \subseteq 1..n /\ moved \subseteq 1..n
      /\ b.advanced = r.advanced \cup moved
      /\ \A i \in 1..n : b.plan[i] = IF i \in moved THEN open ELSE r.plan[i]
  BY RowFields DEF AdvancedFrom
<1>2. open \in Int /\ \A i \in 1..n : r.plan[i] \in Int
  <2>1. r.plan \in [1..n -> CardMonths] /\ open \in CardMonths
    BY RowFields
  <2>2. \A m \in CardMonths : m \in Int
    BY CardsAssumption DEF CardMonths
  <2>3. \A i \in 1..n : r.plan[i] \in CardMonths
    BY <2>1
  <2> QED
    BY <2>1, <2>2, <2>3
<1>3. r.advanced = {}
  <2> SUFFICES ASSUME NEW j \in r.advanced PROVE FALSE
    OBVIOUS
  <2>1. PICK i \in moved : TRUE
    OBVIOUS
  <2>2. \A h \in r.advanced : \A g \in DOMAIN r.plan : r.plan[g] <= r.plan[h]
    BY DEF RowsOK
  <2>3. i \in 1..n /\ j \in 1..n /\ r.plan[i] <= r.plan[j] /\ r.plan[i] > open
    BY <1>1, <2>1, <2>2
  <2>4. r.plan[j] > open
    BY <1>2, <2>3
  <2> QED
    BY <1>1, <2>3, <2>4
<1>4. b.advanced = moved /\ \A i \in 1..n : TagOf(b, i) = IF i \in moved THEN Adv ELSE i
  BY <1>1, <1>3 DEF TagOf
<1>5. /\ \A i \in 1..n : <<r.plan[i], p, i>> \in DOMAIN it /\ it[<<r.plan[i], p, i>>] = PartsOf(p)[i]
      /\ \A k \in DOMAIN it : k[2] = p => \E i \in 1..n : k = <<r.plan[i], p, i>>
  <2>1. OwnedBy(it, p) = PlanRows(p, r, DOMAIN r.plan)
    BY DEF RowsOK
  <2>2. \A i \in 1..n : TagOf(r, i) = i
    BY <1>3 DEF TagOf
  <2>3. \A i \in 1..n : <<r.plan[i], p, i>> \in PlanRows(p, r, DOMAIN r.plan)
    BY <1>1, <2>2 DEF PlanRows
  <2>4. \A k \in PlanRows(p, r, DOMAIN r.plan) : \E i \in 1..n : k = <<r.plan[i], p, i>>
    BY <1>1, <2>2 DEF PlanRows
  <2>5. \A i \in 1..n : it[<<r.plan[i], p, i>>] = PartsOf(p)[i]
    BY <1>1, <1>3 DEF RowsOK
  <2> QED
    BY <2>1, <2>3, <2>4, <2>5 DEF OwnedBy
<1>6. \A i \in 1..n : <<r.plan[i], p, i>> \in D <=> i \in moved
  OBVIOUS
<1>7. ASSUME NEW i \in 1..n \ moved
      PROVE  /\ <<r.plan[i], p, i>> \in DOMAIN it2 /\ it2[<<r.plan[i], p, i>>] = PartsOf(p)[i]
             /\ <<b.plan[i], p, TagOf(b, i)>> = <<r.plan[i], p, i>> /\ b.plan[i] = r.plan[i]
  <2> DEFINE k == <<r.plan[i], p, i>>
  <2>1. k \in DOMAIN it \ D /\ k # adv /\ it[k] = PartsOf(p)[i]
    BY <1>5, <1>6
  <2>2. b.plan[i] = r.plan[i] /\ TagOf(b, i) = i
    BY <1>1, <1>4
  <2> HIDE DEF k
  <2>3. k \in DOMAIN it2 /\ it2[k] = it[k]
    BY <2>1 DEF ItemsAdvanced
  <2> QED
    BY <2>1, <2>2, <2>3 DEF k
<1>8. ASSUME NEW i \in moved PROVE <<b.plan[i], p, TagOf(b, i)>> = adv /\ b.plan[i] = open
  BY <1>1, <1>4
<1>9. OwnedBy(it2, p) = PlanRows(p, b, DOMAIN b.plan)
  <2>1. ASSUME NEW k \in OwnedBy(it2, p) PROVE k \in PlanRows(p, b, DOMAIN b.plan)
    <3>1. k \in DOMAIN it2 /\ k[2] = p
      BY DEF OwnedBy
    <3>2. CASE k = adv
      <4>1. PICK i \in moved : TRUE
        OBVIOUS
      <4>2. k = <<b.plan[i], p, TagOf(b, i)>> /\ i \in DOMAIN b.plan
        BY <1>1, <1>8, <3>2
      <4> QED
        BY <4>2 DEF PlanRows
    <3>3. CASE k # adv
      <4>1. k \in DOMAIN it /\ k \notin D
        BY <3>1, <3>3 DEF ItemsAdvanced
      <4>2. PICK i \in 1..n : k = <<r.plan[i], p, i>>
        BY <1>5, <3>1, <4>1
      <4>3. i \notin moved
        BY <1>6, <4>1, <4>2
      <4>4. k = <<b.plan[i], p, TagOf(b, i)>> /\ i \in DOMAIN b.plan
        BY <1>1, <1>7, <4>2, <4>3
      <4> QED
        BY <4>4 DEF PlanRows
    <3> QED
      BY <3>2, <3>3
  <2>2. ASSUME NEW k \in PlanRows(p, b, DOMAIN b.plan) PROVE k \in OwnedBy(it2, p)
    <3>1. PICK i \in 1..n : k = <<b.plan[i], p, TagOf(b, i)>>
      BY <1>1 DEF PlanRows
    <3>2. k[2] = p
      BY <3>1
    <3>3. k \in DOMAIN it2
      BY <1>7, <1>8, <3>1 DEF ItemsAdvanced
    <3> QED
      BY <3>2, <3>3 DEF OwnedBy
  <2> QED
    BY <2>1, <2>2
<1>10. \A i \in DOMAIN b.plan \ b.advanced : it2[<<b.plan[i], p, i>>] = PartsOf(p)[i]
  BY <1>1, <1>4, <1>7
<1>11. ASSUME NEW j \in b.advanced
       PROVE  it2[<<b.plan[j], p, Adv>>] = SumParts(p, b.advanced) /\ \A i \in DOMAIN b.plan : b.plan[i] <= b.plan[j]
  <2>1. j \in moved /\ b.plan[j] = open
    BY <1>4, <1>8
  <2>2. it2[adv] = SumParts(p, moved)
    BY DEF ItemsAdvanced
  <2>3. ASSUME NEW i \in 1..n PROVE b.plan[i] <= open
    <3>1. CASE i \in moved
      BY <1>2, <1>8, <3>1
    <3>2. CASE i \notin moved
      <4>1. ~(r.plan[i] > open) /\ r.plan[i] \in Int /\ b.plan[i] = r.plan[i]
        BY <1>1, <1>2, <3>2
      <4> QED
        BY <1>2, <4>1
    <3> QED
      BY <3>1, <3>2
  <2> QED
    BY <1>1, <1>4, <2>1, <2>2, <2>3
<1> QED
  BY <1>9, <1>10, <1>11 DEF RowsOK

(* Advance moves a purchase's items and changes nothing of what they add   *)
(* up to.                                                                  *)
LEMMA ContentAdvances ==
  ASSUME ContentInv, StatementInv, ReadInv, StatementInv', NEW u \in CardUsers, NEW p \in Buys, Advance(u, p)
  PROVE  ContentInv'
<1>1. at[u].op \in PurchaseOps /\ at[u].of = p /\ UNCHANGED posted
  BY DEF Advance, Is, PurchaseOps
<1>2. CASE UNCHANGED <<row, bought, item, readvanced>>
  <2>1. KeptBut(item, item', "carry")
    BY <1>2 DEF KeptBut
  <2> QED
    BY <1>1, <1>2, <2>1, ContentUntouched
<1>3. CASE ~(UNCHANGED <<row, bought, item, readvanced>>)
  <2> DEFINE r == at[u].read
             moved == {i \in DOMAIN r.plan : r.plan[i] > row.open}
             adv == <<row.open, p, Adv>>
             D == {<<r.plan[i], p, i>> : i \in moved}
             v == SumParts(p, moved)
             b == Advanced(r, moved, row.open)
  <2>0. PurchaseGuard(u) /\ row.open = at[u].card.open
    BY <1>3 DEF Advance, CardBump
  <2>1. /\ bought' = [bought EXCEPT ![p].plan = [i \in DOMAIN r.plan |-> IF i \in moved THEN row.open ELSE r.plan[i]],
                                    ![p].advanced = @ \cup moved, ![p].rev = @ + 1]
        /\ ~(moved = {} \/ adv \in DOMAIN item)
        /\ readvanced' = (IF r.advanced \cap moved = {} THEN readvanced ELSE readvanced \cup {p})
        /\ item' = Put(Drop(item, D), adv, v)
    BY <1>3, <2>0 DEF Advance
  <2>2. r = bought[p] /\ r \in BoughtRow(p) /\ ~r.refunded
    BY <1>1, <2>0, WhatIsRead
  <2>3. row.open \in CardMonths
    BY CardsAssumption DEF StatementInv, RowOK, CardMonths
  <2>4. moved \in SUBSET (1..Purchases[p].n)
    BY <2>2, RowFields
  <2>5. bought' = [bought EXCEPT ![p] = b]
    BY <1>1, <2>1, <2>2 DEF Advanced, ReadInv, BoughtOK
  <2>6. (\A k \in D : k[2] = p) /\ adv[2] = p
    OBVIOUS
  <2>7. moved = {i \in DOMAIN r.plan : r.plan[i] > row.open} /\ adv = <<row.open, p, Adv>> /\ D = {<<r.plan[i], p, i>> : i \in moved}
        /\ v = SumParts(p, moved) /\ b = Advanced(r, moved, row.open)
    OBVIOUS
  <2> HIDE DEF r, moved, adv, D, v, b
  <2> DEFINE o == row.open
  <2>8. AdvancedFrom(p, r, o, moved, b)
    <3>1. r \in BoughtRow(p) /\ moved \in SUBSET (1..Purchases[p].n) /\ o \in CardMonths /\ b = Advanced(r, moved, o) /\ p \in Buys
      BY <2>2, <2>3, <2>4, <2>7
    <3> HIDE DEF o
    <3> QED
      BY ONLY <3>1, AdvancedRow
  <2>9. b.there = TRUE /\ ~b.refunded
    BY <2>2, <2>8 DEF AdvancedFrom
  <2>10. ItemsAdvanced(item, item', D, adv, v)
    BY <2>1, AdvancedItem
  <2>11. KeptBut(item, item', p)
    BY <2>6, <2>10, AdvancedKept
  <2>12. readvanced \subseteq readvanced'
    BY <2>1
  <2>13. ASSUME p \notin readvanced' PROVE RowsOK(item', p, b) /\ OwnedSum(item', p) = OwnedSum(item, p)
    <3>1. p \notin readvanced /\ r.advanced \cap moved = {}
      BY <2>1, <2>13
    <3>2. RowsOK(item, p, r) /\ ItemsOK(item) /\ ItemsOK(item')
      <4>1. ContentOK(item, p, r, readvanced) /\ r.there = TRUE
        BY <2>2, RowFields DEF ContentInv
      <4> QED
        BY <2>2, <3>1, <4>1 DEF ContentOK, StatementInv
    <3>3. b \in BoughtRow(p)
      BY <2>8 DEF AdvancedFrom
    <3>4. RowsOK(item', p, b)
      <4> DEFINE it == item
                 it2 == item'
      <4>1. /\ p \in Buys /\ r \in BoughtRow(p) /\ o \in CardMonths /\ moved = {i \in DOMAIN r.plan : r.plan[i] > o} /\ moved # {}
            /\ r.advanced \cap moved = {} /\ ItemsOK(it) /\ RowsOK(it, p, r) /\ adv = <<o, p, Adv>> /\ adv \notin DOMAIN it
            /\ D = {<<r.plan[i], p, i>> : i \in moved} /\ ItemsAdvanced(it, it2, D, adv, SumParts(p, moved))
            /\ AdvancedFrom(p, r, o, moved, b)
        BY <2>1, <2>2, <2>3, <2>7, <2>8, <2>10, <3>1, <3>2
      <4> HIDE DEF it, it2, o
      <4>2. RowsOK(it2, p, b)
        BY ONLY <4>1, AdvancedRows
      <4> QED
        BY <4>2 DEF it2
    <3>5. OwnedSum(item', p) = Purchases[p].total /\ OwnedSum(item, p) = Purchases[p].total
      BY <2>2, <3>2, <3>3, <3>4, RowsTotal DEF OwnedSum
    <3> QED
      BY <3>4, <3>5
  <2>14. posted' \in Int /\ posted \in Int /\ posted' = posted
    BY <1>1 DEF ContentInv
  <2>15. readvanced' = {} => posted' - posted = OwnedSum(item', p) - OwnedSum(item, p)
    <3> SUFFICES ASSUME readvanced' = {} PROVE posted' - posted = OwnedSum(item', p) - OwnedSum(item, p)
      OBVIOUS
    <3>1. OwnedSum(item', p) = OwnedSum(item, p)
      BY <2>13
    <3>2. OwnedSum(item, p) \in Int
      BY SumsTyped DEF StatementInv
    <3> QED
      BY <2>14, <3>1, <3>2
  <2>16. p \notin readvanced' => IF b.refunded THEN OwnedSum(item', p) = 0 ELSE RowsOK(item', p, b)
    BY <2>9, <2>13
  <2> QED
    BY <2>5, <2>9, <2>11, <2>12, <2>14, <2>15, <2>16, ContentFrom
<1> QED
  BY <1>2, <1>3

(* EditPurchase leaves the items where they are.                           *)
LEMMA ContentEdits ==
  ASSUME ContentInv, StatementInv, ReadInv, StatementInv', NEW u \in CardUsers, NEW p \in Buys, EditPurchase(u, p)
  PROVE  ContentInv'
<1>1. /\ at[u].op \in PurchaseOps /\ at[u].of = p /\ PurchaseGuard(u) /\ UNCHANGED <<item, readvanced, posted>>
      /\ bought' = [bought EXCEPT ![p].rev = @ + 1]
  BY DEF EditPurchase, Is, PurchaseOps
<1> DEFINE r == bought[p]
           b == [r EXCEPT !.rev = @ + 1]
<1>2. r \in BoughtRow(p) /\ ~r.refunded
  BY <1>1, WhatIsRead
<1>3. bought' = [bought EXCEPT ![p] = b]
  BY <1>1
<1>4. b = [r EXCEPT !.rev = @ + 1]
  OBVIOUS
<1>5. ContentOK(item, p, r, readvanced)
  BY DEF ContentInv
<1> HIDE DEF r, b
<1>6. b \in BoughtRow(p) /\ b.plan = r.plan /\ b.advanced = r.advanced /\ b.refunded = r.refunded /\ b.there = TRUE
  <2>1. p \in Buys /\ r \in BoughtRow(p) /\ b = [r EXCEPT !.rev = @ + 1]
    BY <1>2, <1>4
  <2> QED
    BY ONLY <2>1, NewRevision
<1>7. r.there = TRUE
  BY <1>2, RowFields
<1>8. p \notin readvanced => RowsOK(item, p, r)
  BY <1>2, <1>5, <1>7 DEF ContentOK
<1>9. RowsOK(item, p, r) => RowsOK(item, p, b)
  <2>1. \A i : TagOf(b, i) = TagOf(r, i)
    BY <1>6 DEF TagOf
  <2>2. PlanRows(p, b, DOMAIN b.plan) = PlanRows(p, r, DOMAIN r.plan)
    BY <1>6, <2>1 DEF PlanRows
  <2> QED
    BY <1>6, <2>2 DEF RowsOK
<1>10. p \notin readvanced' => IF b.refunded THEN OwnedSum(item', p) = 0 ELSE RowsOK(item', p, b)
  BY <1>1, <1>2, <1>6, <1>8, <1>9
<1>11. KeptBut(item, item', p)
  BY <1>1 DEF KeptBut
<1>12. posted' = posted /\ posted \in Int /\ readvanced \subseteq readvanced' /\ item' = item
  BY <1>1 DEF ContentInv
<1>13. posted' - posted = OwnedSum(item', p) - OwnedSum(item, p)
  <2>1. OwnedSum(item, p) \in Int
    BY SumsTyped DEF StatementInv
  <2> QED
    BY <1>12, <2>1
<1> QED
  BY <1>3, <1>6, <1>10, <1>11, <1>12, <1>13, ContentFrom

(* Closing and reopening write and delete what is carried only.            *)
LEMMA ContentCloses ==
  ASSUME ContentInv, StatementInv, ReadInv, NEW u \in CardUsers, CloseAt(u) \/ Reopen(u)
  PROVE  ContentInv'
<1>1. UNCHANGED <<bought, readvanced, posted>>
  BY DEF CloseAt, Reopen
<1>2. KeptBut(item, item', "carry")
  <2>0. CASE item' = item
    BY <2>0 DEF KeptBut
  <2>1. CASE \E m, v : item' = Put(item, Carry(m), v)
    <3>1. PICK m, v : item' = Put(item, Carry(m), v)
      BY <2>1
    <3> DEFINE k == Carry(m)
    <3>2. k[2] = "carry"
      BY DEF Carry
    <3> HIDE DEF k
    <3>3. DOMAIN item' = DOMAIN item \cup {k} /\ \A j \in DOMAIN item \ {k} : item'[j] = item[j]
      BY <3>1 DEF Put, Over, k
    <3>4. ASSUME NEW j \in DOMAIN item \cup DOMAIN item', j[2] # "carry"
          PROVE  j \in DOMAIN item /\ j \in DOMAIN item' /\ item'[j] = item[j]
      BY <3>2, <3>3, <3>4
    <3> QED
      BY <3>4 DEF KeptBut
  <2>2. CASE \E m : item' = Drop(item, {Carry(m)})
    <3>1. PICK m : item' = Drop(item, {Carry(m)})
      BY <2>2
    <3> DEFINE k == Carry(m)
    <3>2. k[2] = "carry"
      BY DEF Carry
    <3> HIDE DEF k
    <3>3. DOMAIN item' = DOMAIN item \ {k} /\ \A j \in DOMAIN item \ {k} : item'[j] = item[j]
      BY <3>1 DEF Drop, k
    <3>4. ASSUME NEW j \in DOMAIN item \cup DOMAIN item', j[2] # "carry"
          PROVE  j \in DOMAIN item /\ j \in DOMAIN item' /\ item'[j] = item[j]
      BY <3>2, <3>3, <3>4
    <3> QED
      BY <3>4 DEF KeptBut
  <2>3. CASE CloseAt(u)
    BY <2>0, <2>1, <2>3 DEF CloseAt
  <2>4. CASE Reopen(u)
    BY <2>0, <2>2, <2>4 DEF Reopen
  <2> QED
    BY <2>3, <2>4
<1> QED
  BY <1>1, <1>2, ContentUntouched

(* ContentInv holds after every step of the card.                          *)
LEMMA ContentNext ==
  ASSUME ContentInv, StatementInv, ReadInv, StatementInv', [CardsNext]_cardVars
  PROVE  ContentInv'
<1>1. CASE UNCHANGED <<bought, item, readvanced, posted>>
  <2>1. KeptBut(item, item', "carry")
    BY <1>1 DEF KeptBut
  <2> QED
    BY <1>1, <2>1, ContentUntouched
<1>2. CASE \/ Tomorrow \/ ArchiveCard
           \/ \E c \in ClosingDays : UpdateCard(c)
           \/ \E b \in DOMAIN cardBill : SettleBill(b) \/ CancelBill(b)
  BY <1>1, <1>2 DEF Tomorrow, ArchiveCard, UpdateCard, SettleBill, CancelBill
<1>3. ASSUME NEW u \in CardUsers,
             \/ CardMoved(u) \/ LoadToClose(u) \/ BuildStatement(u) \/ CloseAt(u) \/ LoadToReopen(u) \/ Reopen(u)
             \/ \E p \in Buys : CreatePurchase(u, p) \/ GetPurchaseItem(u, p)
             \/ \E p \in Buys : AddPurchase(u, p) \/ Refund(u, p) \/ Advance(u, p) \/ EditPurchase(u, p)
             \/ \E c \in DOMAIN Credits : CreateCredit(u, c) \/ AddCredit(u, c)
      PROVE  ContentInv'
  <2>1. CASE CardMoved(u) \/ LoadToClose(u) \/ BuildStatement(u) \/ LoadToReopen(u)
    BY <1>1, <2>1 DEF CardMoved, LoadToClose, BuildStatement, LoadToReopen, LoadCard
  <2>2. CASE \/ \E p \in Buys : CreatePurchase(u, p) \/ GetPurchaseItem(u, p)
             \/ \E c \in DOMAIN Credits : CreateCredit(u, c)
    BY <1>1, <2>2 DEF CreatePurchase, GetPurchaseItem, CreateCredit, LoadCard
  <2>3. CASE CloseAt(u) \/ Reopen(u)
    BY <2>3, ContentCloses
  <2>4. CASE \E p \in Buys : AddPurchase(u, p) \/ Refund(u, p) \/ Advance(u, p) \/ EditPurchase(u, p)
    BY <2>4, ContentBuys, ContentRefunds, ContentAdvances, ContentEdits
  <2>5. CASE \E c \in DOMAIN Credits : AddCredit(u, c)
    BY <2>5, ContentCredits
  <2> QED
    BY <1>3, <2>1, <2>2, <2>3, <2>4, <2>5
<1>4. CASE UNCHANGED cardVars
  BY <1>1, <1>4 DEF cardVars
<1> QED
  BY <1>2, <1>3, <1>4 DEF CardsNext

(* A new card has no items and nothing is posted on it.                    *)
LEMMA ContentStart == ASSUME CardsInit PROVE ContentInv
<1>1. DOMAIN item = {} /\ posted = 0
  BY DEF CardsInit
<1>2. Spend(item) = {} /\ \A p : OwnedBy(item, p) = {}
  BY <1>1 DEF Spend, OwnedBy
<1>3. \A p \in Buys : ~bought[p].there
  BY DEF CardsInit, NotBought
<1> QED
  BY <1>1, <1>2, <1>3, SumEmpty DEF ContentInv, ContentOK

(* The invariants imply StatementsFollowLedger.                            *)
LEMMA ContentFollows == ASSUME ContentInv, StatementInv, ReadInv PROVE StatementsFollowLedger
<1>1. ASSUME NEW p \in Buys \ readvanced PROVE OnStatements(p) = Books(p)
  <2>1. OnStatements(p) = SumFunctionOnSet(item, OwnedBy(item, p))
    BY DEF OnStatements, Total, OfPurchase, OwnedBy
  <2>2. ContentOK(item, p, bought[p], readvanced) /\ ItemsOK(item)
    BY DEF ContentInv, StatementInv
  <2>3. CASE ~bought[p].there
    BY <2>1, <2>2, <2>3, SumEmpty DEF ContentOK, Books
  <2>4. CASE bought[p].there /\ bought[p].refunded
    BY <2>1, <2>2, <2>4 DEF ContentOK, Books
  <2>5. CASE bought[p].there /\ ~bought[p].refunded
    <3>1. bought[p] \in BoughtRow(p)
      BY <2>5, BoughtTyped DEF NotBought
    <3>2. RowsOK(item, p, bought[p])
      BY <2>2, <2>5 DEF ContentOK
    <3> QED
      BY <2>1, <2>2, <2>5, <3>1, <3>2, RowsTotal DEF Books
  <2> QED
    BY <2>3, <2>4, <2>5
<1>2. readvanced = {} => Total(SpendLines) = posted
  BY DEF ContentInv, Total, SpendLines, Spend
<1> QED
  BY <1>1, <1>2 DEF StatementsFollowLedger

(* StatementsFollowLedger, for the same: what the statements hold of a     *)
(* purchase is what the ledger posted of it, through every order of        *)
(* installments closing, advances, edits and refunds.                      *)
THEOREM StatementsKeepTheLedger == CardsInit /\ [][CardsNext]_cardVars => []StatementsFollowLedger
<1>1. CardsInit => CardInv
  BY CardsStart, ContentStart DEF CardInv
<1>2. CardInv /\ [CardsNext]_cardVars => CardInv'
  BY CardsKeep, ContentNext DEF CardInv
<1>3. CardInv => StatementsFollowLedger
  BY ContentFollows DEF CardInv
<1> QED
  BY <1>1, <1>2, <1>3, PTL
=============================================================================
