----------------------------- MODULE Sums_proofs -----------------------------
(***************************************************************************)
(* What SumFunction does when a value of a function changes, and how sums   *)
(* compare with each other and with cardinalities, for any finite domain:   *)
(* the lemmas that the accounts of the budgets rest on.  An induction is    *)
(* over a set of numbers, because a theorem cannot take an operator here.   *)
(***************************************************************************)
EXTENDS Integers, FiniteSets, Functions, FiniteSetTheorems, WellFoundedInduction, TLAPS

\* Induction over the natural numbers, for a set of them.
LEMMA SetInduction ==
  ASSUME NEW P \in SUBSET Nat, 0 \in P, \A n \in P : n + 1 \in P
  PROVE  P = Nat
<1> DEFINE R == {ss \in Nat \X Nat : ss[1] < ss[2]}
<1>1. IsWellFoundedOn(R, Nat)
  BY NatLessThanWellFounded DEF OpToRel
<1> HIDE DEF R
<1> SUFFICES ASSUME Nat \ P # {}
             PROVE  FALSE
  OBVIOUS
<1>2. PICK i \in Nat \ P : \A j \in Nat \ P : ~ (<<j, i>> \in R)
  BY <1>1, WFMin
<1>3. i - 1 \in Nat
  BY <1>2
<1>4. <<i - 1, i>> \in R
  BY <1>2, <1>3 DEF R
<1>5. i - 1 \in P
  BY <1>2, <1>3, <1>4
<1>6. i - 1 + 1 = i
  BY <1>2
<1> QED BY <1>2, <1>5, <1>6

----------------------------------------------------------------------------
(* The fold behind SumFunction                                              *)

Pick(s) == CHOOSE x \in s : TRUE

\* g is the fold of f over the subsets of S.
IsFold(g, f, S) ==
  g = [s \in SUBSET S |-> IF s = {} THEN 0 ELSE f[Pick(s)] + g[s \ {Pick(s)}]]

LEMMA SumIsFold ==
  ASSUME NEW f
  PROVE  SumFunction(f) = (CHOOSE g : IsFold(g, f, DOMAIN f))[DOMAIN f]
BY DEF SumFunction, SumFunctionOnSet, FoldFunctionOnSet, MapThenFoldSet, IsFold, Pick

\* The subsets of S with at most n elements.
UpTo(S, n) == {s \in SUBSET S : Cardinality(s) <= n}

LEMMA PickIsIn == \A s : s # {} => Pick(s) \in s
BY DEF Pick

LEMMA OneLess ==
  ASSUME NEW S, IsFiniteSet(S), NEW s \in SUBSET S, s # {}
  PROVE  /\ s \ {Pick(s)} \in SUBSET S
         /\ Cardinality(s) \in Nat \ {0}
         /\ Cardinality(s \ {Pick(s)}) = Cardinality(s) - 1
<1>1. IsFiniteSet(s)
  BY FS_Subset
<1>2. Cardinality(s) \in Nat /\ Cardinality(s) # 0
  BY <1>1, FS_CardinalityType, FS_EmptySet
<1>3. Cardinality(s \ {Pick(s)}) = Cardinality(s) - 1
  BY <1>1, FS_RemoveElement, PickIsIn
<1> QED BY <1>2, <1>3

\* A fold exists: it is built up by cardinality.
LEMMA FoldExists ==
  ASSUME NEW S, IsFiniteSet(S), NEW f \in [S -> Int]
  PROVE  \E g \in [SUBSET S -> Int] : IsFold(g, f, S)
<1> DEFINE Step(g, s) == IF s = {} THEN 0 ELSE f[Pick(s)] + g[s \ {Pick(s)}]
           P == {n \in Nat : \E g \in [UpTo(S, n) -> Int] : \A s \in UpTo(S, n) : g[s] = Step(g, s)}
<1>1. 0 \in P
  <2> DEFINE g == [s \in UpTo(S, 0) |-> 0]
  <2>1. ASSUME NEW s \in UpTo(S, 0)
        PROVE  s = {}
    <3>1. s \in SUBSET S /\ Cardinality(s) <= 0
      BY DEF UpTo
    <3>2. s # {} => Cardinality(s) \in Nat \ {0}
      BY <3>1, OneLess
    <3> QED BY <3>1, <3>2
  <2>2. g \in [UpTo(S, 0) -> Int] /\ \A s \in UpTo(S, 0) : g[s] = Step(g, s)
    BY <2>1
  <2> QED BY <2>2
<1>2. ASSUME NEW n \in P
      PROVE  n + 1 \in P
  <2>1. PICK g \in [UpTo(S, n) -> Int] : \A s \in UpTo(S, n) : g[s] = Step(g, s)
    OBVIOUS
  <2> DEFINE h == [s \in UpTo(S, n + 1) |-> Step(g, s)]
  <2>2. ASSUME NEW s \in UpTo(S, n + 1), s # {}
        PROVE  s \ {Pick(s)} \in UpTo(S, n) /\ f[Pick(s)] \in Int
    BY <2>2, OneLess, PickIsIn DEF UpTo
  <2>3. h \in [UpTo(S, n + 1) -> Int]
    BY <2>2
  <2>4. \A s \in UpTo(S, n) : s \in UpTo(S, n + 1) /\ h[s] = g[s]
    <3>1. ASSUME NEW s \in UpTo(S, n)
          PROVE  s \in UpTo(S, n + 1)
      BY FS_Subset, FS_CardinalityType DEF UpTo
    <3> QED BY <2>1, <3>1
  <2>5. \A s \in UpTo(S, n + 1) : h[s] = Step(h, s)
    BY <2>2, <2>4
  <2> HIDE DEF h
  <2>6. \E k \in [UpTo(S, n + 1) -> Int] : \A s \in UpTo(S, n + 1) : k[s] = Step(k, s)
    BY <2>3, <2>5
  <2>7. n + 1 \in Nat
    OBVIOUS
  <2> HIDE DEF Step
  <2> QED BY <2>6, <2>7, Zenon
<1>3. P = Nat
  <2> HIDE DEF P
  <2>1. P \in SUBSET Nat
    BY DEF P
  <2> QED BY <1>1, <1>2, <2>1, SetInduction
<1>4. Cardinality(S) \in Nat
  BY FS_CardinalityType
<1>5. PICK g \in [UpTo(S, Cardinality(S)) -> Int] :
        \A s \in UpTo(S, Cardinality(S)) : g[s] = Step(g, s)
  BY <1>3, <1>4
<1>6. UpTo(S, Cardinality(S)) = SUBSET S
  BY FS_Subset DEF UpTo
<1>7. g \in [SUBSET S -> Int] /\ g = [s \in SUBSET S |-> g[s]]
  BY <1>5, <1>6
<1>8. [s \in SUBSET S |-> g[s]] = [s \in SUBSET S |-> Step(g, s)]
  BY <1>5, <1>6
<1> QED BY <1>7, <1>8 DEF IsFold

\* The fold that SumFunction takes.
FoldOf(f, S) == CHOOSE g : IsFold(g, f, S)

LEMMA FoldIsFold ==
  ASSUME NEW S, IsFiniteSet(S), NEW f \in [S -> Int]
  PROVE  /\ SumFunction(f) = FoldOf(f, S)[S]
         /\ FoldOf(f, S)[{}] = 0
         /\ \A s \in SUBSET S : s # {} =>
              FoldOf(f, S)[s] = f[Pick(s)] + FoldOf(f, S)[s \ {Pick(s)}]
<1>1. IsFold(FoldOf(f, S), f, S)
  BY FoldExists DEF FoldOf
<1>2. SumFunction(f) = FoldOf(f, S)[S]
  BY SumIsFold DEF FoldOf
<1> HIDE DEF FoldOf
<1>3. \A s \in SUBSET S :
        FoldOf(f, S)[s] = IF s = {} THEN 0 ELSE f[Pick(s)] + FoldOf(f, S)[s \ {Pick(s)}]
  BY <1>1 DEF IsFold
<1> QED BY <1>2, <1>3

\* Induction over the subsets of a finite set: a set of subsets that holds the
\* empty one, and each subset whose rest without the picked element it holds,
\* holds them all.
LEMMA SubsetInduction ==
  ASSUME NEW S, IsFiniteSet(S), NEW Q \in SUBSET (SUBSET S), {} \in Q,
         \A s \in SUBSET S : s # {} /\ s \ {Pick(s)} \in Q => s \in Q
  PROVE  S \in Q
<1> DEFINE P == {n \in Nat : UpTo(S, n) \subseteq Q}
<1>1. 0 \in P
  <2>1. ASSUME NEW s \in UpTo(S, 0)
        PROVE  s = {}
    <3>1. s \in SUBSET S /\ Cardinality(s) <= 0
      BY DEF UpTo
    <3>2. s # {} => Cardinality(s) \in Nat \ {0}
      BY <3>1, OneLess
    <3> QED BY <3>1, <3>2
  <2> QED BY <2>1
<1>2. ASSUME NEW n \in P
      PROVE  n + 1 \in P
  <2>1. ASSUME NEW s \in UpTo(S, n + 1), s # {}
        PROVE  s \in Q
    <3>1. s \in SUBSET S /\ Cardinality(s) <= n + 1 /\ n \in Nat
      BY DEF UpTo
    <3>2. s \ {Pick(s)} \in UpTo(S, n)
      BY <2>1, <3>1, OneLess DEF UpTo
    <3> QED BY <2>1, <3>1, <3>2
  <2> QED BY <2>1
<1>3. P = Nat
  <2> HIDE DEF P
  <2>1. P \in SUBSET Nat
    BY DEF P
  <2> QED BY <1>1, <1>2, <2>1, SetInduction
<1>4. Cardinality(S) \in P
  BY <1>3, FS_CardinalityType
<1>5. S \in UpTo(S, Cardinality(S))
  BY FS_CardinalityType DEF UpTo
<1> QED BY <1>4, <1>5

----------------------------------------------------------------------------
(* Sums                                                                     *)

\* Changing one value changes the sum by as much.
LEMMA SumChange ==
  ASSUME NEW S, IsFiniteSet(S), NEW f \in [S -> Int], NEW g \in [S -> Int], NEW h \in S,
         \A x \in S \ {h} : g[x] = f[x]
  PROVE  /\ SumFunction(f) \in Int
         /\ SumFunction(g) = SumFunction(f) + g[h] - f[h]
<1> DEFINE F == FoldOf(f, S)
           G == FoldOf(g, S)
           Q == {s \in SUBSET S :
                   /\ F[s] \in Int
                   /\ G[s] = F[s] + IF h \in s THEN g[h] - f[h] ELSE 0}
<1>1. /\ SumFunction(f) = F[S] /\ F[{}] = 0
      /\ \A s \in SUBSET S : s # {} => F[s] = f[Pick(s)] + F[s \ {Pick(s)}]
  BY FoldIsFold
<1>2. /\ SumFunction(g) = G[S] /\ G[{}] = 0
      /\ \A s \in SUBSET S : s # {} => G[s] = g[Pick(s)] + G[s \ {Pick(s)}]
  BY FoldIsFold
<1> HIDE DEF F, G
<1>3. {} \in Q
  BY <1>1, <1>2
<1>4. ASSUME NEW s \in SUBSET S, s # {}, s \ {Pick(s)} \in Q
      PROVE  s \in Q
  <2>1. Pick(s) \in s
    BY <1>4, PickIsIn
  <2>2. /\ F[s] = f[Pick(s)] + F[s \ {Pick(s)}]
        /\ G[s] = g[Pick(s)] + G[s \ {Pick(s)}]
        /\ f[Pick(s)] \in Int /\ g[Pick(s)] \in Int /\ f[h] \in Int /\ g[h] \in Int
    BY <1>1, <1>2, <1>4, <2>1
  <2>3. CASE Pick(s) = h
    BY <1>4, <2>1, <2>2, <2>3
  <2>4. CASE Pick(s) # h
    <3>1. g[Pick(s)] = f[Pick(s)] /\ (h \in s <=> h \in s \ {Pick(s)})
      BY <2>1, <2>4
    <3> QED BY <1>4, <2>2, <3>1
  <2> QED BY <2>3, <2>4
<1>5. S \in Q
  <2> HIDE DEF Q
  <2>1. Q \in SUBSET (SUBSET S)
    BY DEF Q
  <2> QED BY <1>3, <1>4, <2>1, SubsetInduction
<1>6. f[h] \in Int /\ g[h] \in Int
  OBVIOUS
<1> QED BY <1>1, <1>2, <1>5, <1>6

\* Larger values have a larger sum.
LEMMA SumMonotone ==
  ASSUME NEW S, IsFiniteSet(S), NEW f \in [S -> Int], NEW g \in [S -> Int],
         \A x \in S : f[x] <= g[x]
  PROVE  /\ SumFunction(f) \in Int /\ SumFunction(g) \in Int
         /\ SumFunction(f) <= SumFunction(g)
<1> DEFINE F == FoldOf(f, S)
           G == FoldOf(g, S)
           Q == {s \in SUBSET S : F[s] \in Int /\ G[s] \in Int /\ F[s] <= G[s]}
<1>1. /\ SumFunction(f) = F[S] /\ F[{}] = 0
      /\ \A s \in SUBSET S : s # {} => F[s] = f[Pick(s)] + F[s \ {Pick(s)}]
  BY FoldIsFold
<1>2. /\ SumFunction(g) = G[S] /\ G[{}] = 0
      /\ \A s \in SUBSET S : s # {} => G[s] = g[Pick(s)] + G[s \ {Pick(s)}]
  BY FoldIsFold
<1> HIDE DEF F, G
<1>3. {} \in Q
  BY <1>1, <1>2
<1>4. ASSUME NEW s \in SUBSET S, s # {}, s \ {Pick(s)} \in Q
      PROVE  s \in Q
  <2>1. Pick(s) \in S
    BY <1>4, PickIsIn
  <2>2. /\ F[s] = f[Pick(s)] + F[s \ {Pick(s)}]
        /\ G[s] = g[Pick(s)] + G[s \ {Pick(s)}]
        /\ f[Pick(s)] \in Int /\ g[Pick(s)] \in Int /\ f[Pick(s)] <= g[Pick(s)]
    BY <1>1, <1>2, <1>4, <2>1
  <2> QED BY <1>4, <2>2
<1>5. S \in Q
  <2> HIDE DEF Q
  <2>1. Q \in SUBSET (SUBSET S)
    BY DEF Q
  <2> QED BY <1>3, <1>4, <2>1, SubsetInduction
<1> QED BY <1>1, <1>2, <1>5

\* Counting is summing.
LEMMA SumCounts ==
  ASSUME NEW S, IsFiniteSet(S), NEW T \in SUBSET S, NEW f \in [S -> Int],
         \A x \in S : f[x] = IF x \in T THEN 1 ELSE 0
  PROVE  SumFunction(f) = Cardinality(T)
<1> DEFINE F == FoldOf(f, S)
           Q == {s \in SUBSET S : F[s] = Cardinality(T \cap s)}
<1>1. /\ SumFunction(f) = F[S] /\ F[{}] = 0
      /\ \A s \in SUBSET S : s # {} => F[s] = f[Pick(s)] + F[s \ {Pick(s)}]
  BY FoldIsFold
<1> HIDE DEF F
<1>2. {} \in Q
  <2>1. T \cap {} = {}
    OBVIOUS
  <2> QED BY <1>1, <2>1, FS_EmptySet
<1>3. ASSUME NEW s \in SUBSET S, s # {}, s \ {Pick(s)} \in Q
      PROVE  s \in Q
  <2> DEFINE p == Pick(s)
             A == T \cap s
  <2>1. p \in s /\ F[s] = f[p] + F[s \ {p}] /\ F[s \ {p}] = Cardinality(T \cap (s \ {p}))
    BY <1>1, <1>3, PickIsIn
  <2>2. T \cap (s \ {p}) = A \ {p} /\ (p \in A <=> p \in T)
    BY <2>1
  <2>3. IsFiniteSet(A) /\ Cardinality(A) \in Nat
    BY FS_Subset, FS_CardinalityType
  <2>4. Cardinality(A \ {p}) = IF p \in A THEN Cardinality(A) - 1 ELSE Cardinality(A)
    BY <2>3, FS_RemoveElement
  <2>5. f[p] = IF p \in T THEN 1 ELSE 0
    BY <2>1
  <2> HIDE DEF p, A
  <2>6. F[s] = Cardinality(A)
    BY <2>1, <2>2, <2>3, <2>4, <2>5
  <2> QED BY <2>6 DEF A
<1>4. S \in Q
  <2> HIDE DEF Q
  <2>1. Q \in SUBSET (SUBSET S)
    BY DEF Q
  <2> QED BY <1>2, <1>3, <2>1, SubsetInduction
<1>5. T \cap S = T
  OBVIOUS
<1> QED BY <1>1, <1>4, <1>5

LEMMA SumOfNothing ==
  ASSUME NEW S, IsFiniteSet(S), NEW f \in [S -> Int], \A x \in S : f[x] = 0
  PROVE  SumFunction(f) = 0
<1>1. SumFunction(f) = Cardinality({})
  <2>1. {} \in SUBSET S /\ \A x \in S : f[x] = IF x \in {} THEN 1 ELSE 0
    OBVIOUS
  <2> QED BY <2>1, SumCounts
<1> QED BY <1>1, FS_EmptySet

\* A sum of natural numbers is at least each of them, and at least the number of
\* those that are not zero.
LEMMA SumBounds ==
  ASSUME NEW S, IsFiniteSet(S), NEW f \in [S -> Nat]
  PROVE  /\ SumFunction(f) \in Nat
         /\ \A h \in S : f[h] <= SumFunction(f)
         /\ Cardinality({x \in S : f[x] > 0}) <= SumFunction(f)
<1>1. \A g \in [S -> Nat] : SumFunction(g) \in Nat
  <2> SUFFICES ASSUME NEW g \in [S -> Nat]
               PROVE  SumFunction(g) \in Nat
    OBVIOUS
  <2> DEFINE z == [x \in S |-> 0]
  <2>1. z \in [S -> Int] /\ g \in [S -> Int] /\ \A x \in S : z[x] = 0 /\ z[x] <= g[x]
    OBVIOUS
  <2> HIDE DEF z
  <2>2. SumFunction(z) = 0
    BY <2>1, SumOfNothing
  <2>3. SumFunction(g) \in Int /\ SumFunction(z) <= SumFunction(g)
    BY <2>1, SumMonotone
  <2> QED BY <2>2, <2>3
<1>2. ASSUME NEW h \in S
      PROVE  f[h] <= SumFunction(f)
  <2> DEFINE g == [f EXCEPT ![h] = 0]
  <2>1. g \in [S -> Nat] /\ g \in [S -> Int] /\ f \in [S -> Int] /\ g[h] = 0
        /\ \A x \in S \ {h} : f[x] = g[x]
    OBVIOUS
  <2> HIDE DEF g
  <2>2. SumFunction(f) = SumFunction(g) + f[h] - g[h]
    BY <2>1, SumChange
  <2>3. SumFunction(g) \in Nat /\ f[h] \in Nat
    BY <1>1, <2>1
  <2> QED BY <2>1, <2>2, <2>3
<1>3. Cardinality({x \in S : f[x] > 0}) <= SumFunction(f)
  <2> DEFINE T == {x \in S : f[x] > 0}
             g == [x \in S |-> IF x \in T THEN 1 ELSE 0]
  <2>1. g \in [S -> Int] /\ f \in [S -> Int] /\ T \in SUBSET S
    OBVIOUS
  <2>2. \A x \in S : g[x] = (IF x \in T THEN 1 ELSE 0) /\ g[x] <= f[x]
    OBVIOUS
  <2> HIDE DEF T, g
  <2>3. SumFunction(g) = Cardinality(T)
    BY <2>1, <2>2, SumCounts
  <2>4. SumFunction(g) <= SumFunction(f)
    BY <2>1, <2>2, SumMonotone
  <2> QED BY <2>3, <2>4 DEF T
<1> QED BY <1>1, <1>2, <1>3

\* A sum whose terms each count no more than their own part of a set is at most
\* the size of the set.
LEMMA SumOfParts ==
  ASSUME NEW S, IsFiniteSet(S), NEW T, IsFiniteSet(T), NEW f \in [S -> Nat],
         NEW P \in [S -> SUBSET T], \A x, y \in S : x # y => P[x] \cap P[y] = {},
         \A x \in S : f[x] <= Cardinality(P[x])
  PROVE  SumFunction(f) <= Cardinality(T)
<1> DEFINE F == FoldOf(f, S)
           U(s) == UNION {P[x] : x \in s}
           Q == {s \in SUBSET S : F[s] \in Int /\ F[s] <= Cardinality(U(s))}
<1>0. f \in [S -> Int]
  OBVIOUS
<1>1. /\ SumFunction(f) = F[S] /\ F[{}] = 0
      /\ \A s \in SUBSET S : s # {} => F[s] = f[Pick(s)] + F[s \ {Pick(s)}]
  BY <1>0, FoldIsFold
<1> HIDE DEF F
<1>2. {} \in Q
  <2>1. U({}) = {}
    OBVIOUS
  <2>2. Cardinality(U({})) = 0
    BY <2>1, FS_EmptySet
  <2> HIDE DEF U
  <2> QED BY <1>1, <2>2
<1>3. ASSUME NEW s \in SUBSET S, s # {}, s \ {Pick(s)} \in Q
      PROVE  s \in Q
  <2> DEFINE p == Pick(s)
             rest == U(s \ {p})
  <2>1. /\ p \in s /\ p \in S /\ F[s] = f[p] + F[s \ {p}]
        /\ F[s \ {p}] \in Int /\ F[s \ {p}] <= Cardinality(rest)
    BY <1>1, <1>3, PickIsIn
  <2>2. U(s) = P[p] \cup rest /\ P[p] \cap rest = {} /\ P[p] \in SUBSET T /\ rest \in SUBSET T
    BY <2>1
  <2>3. /\ IsFiniteSet(P[p]) /\ Cardinality(P[p]) \in Nat
        /\ IsFiniteSet(rest) /\ Cardinality(rest) \in Nat
    BY <2>2, FS_Subset, FS_CardinalityType
  <2>4. f[p] \in Nat /\ f[p] <= Cardinality(P[p])
    BY <2>1
  <2> HIDE DEF p, rest, U
  <2>5. Cardinality(U(s)) = Cardinality(P[p]) + Cardinality(rest)
    <3>1. Cardinality(P[p] \cup rest) = Cardinality(P[p]) + Cardinality(rest) - Cardinality({})
      BY <2>2, <2>3, FS_Union
    <3> QED BY <2>2, <2>3, <3>1, FS_EmptySet
  <2>6. F[s] \in Int /\ F[s] <= Cardinality(U(s))
    BY <2>1, <2>3, <2>4, <2>5
  <2> QED BY <2>6
<1>4. S \in Q
  <2> HIDE DEF Q
  <2>1. Q \in SUBSET (SUBSET S)
    BY DEF Q
  <2> QED BY <1>2, <1>3, <2>1, SubsetInduction
<1>5. IsFiniteSet(U(S)) /\ Cardinality(U(S)) <= Cardinality(T)
  BY FS_Subset
<1>6. Cardinality(U(S)) \in Nat /\ Cardinality(T) \in Nat
  BY <1>5, FS_CardinalityType
<1> HIDE DEF U
<1> QED BY <1>1, <1>4, <1>5, <1>6

\* f with nothing outside s.
Only(f, s) == [x \in DOMAIN f |-> IF x \in s THEN f[x] ELSE 0]

LEMMA OnlyStep ==
  ASSUME NEW S, IsFiniteSet(S), NEW f \in [S -> Int], NEW s \in SUBSET S, NEW y \in s
  PROVE  /\ SumFunction(Only(f, s)) \in Int
         /\ SumFunction(Only(f, s)) = SumFunction(Only(f, s \ {y})) + f[y]
<1> DEFINE a == Only(f, s \ {y})
           b == Only(f, s)
<1>1. a \in [S -> Int] /\ b \in [S -> Int] /\ y \in S
  BY DEF Only
<1>2. /\ \A x \in S \ {y} : b[x] = a[x]
      /\ a[y] = 0 /\ b[y] = f[y] /\ f[y] \in Int
  BY <1>1 DEF Only
<1> HIDE DEF a, b
<1>3. SumFunction(a) \in Int /\ SumFunction(b) = SumFunction(a) + b[y] - a[y]
  BY <1>1, <1>2, SumChange
<1>4. SumFunction(b) = SumFunction(a) + f[y] /\ SumFunction(b) \in Int
  BY <1>2, <1>3
<1> QED BY <1>4 DEF a, b

\* A new element adds its value.
LEMMA SumExtend ==
  ASSUME NEW T, IsFiniteSet(T), NEW S \in SUBSET T, NEW x \in T,
         \A y \in T : y \in S <=> y # x,
         NEW f \in [S -> Int], NEW g \in [T -> Int], \A y \in S : g[y] = f[y]
  PROVE  SumFunction(g) = SumFunction(f) + g[x] /\ SumFunction(f) \in Int
<1> DEFINE Q == {s \in SUBSET S : /\ SumFunction(Only(f, s)) \in Int
                                  /\ SumFunction(Only(g, s)) = SumFunction(Only(f, s))}
<1>1. IsFiniteSet(S) /\ S = T \ {x}
  BY FS_Subset
<1>2. {} \in Q
  <2>1. /\ Only(f, {}) \in [S -> Int] /\ \A y \in S : Only(f, {})[y] = 0
        /\ Only(g, {}) \in [T -> Int] /\ \A y \in T : Only(g, {})[y] = 0
    BY DEF Only
  <2>2. SumFunction(Only(f, {})) = 0 /\ SumFunction(Only(g, {})) = 0
    BY <1>1, <2>1, SumOfNothing
  <2> QED BY <2>2
<1>3. ASSUME NEW s \in SUBSET S, s # {}, s \ {Pick(s)} \in Q
      PROVE  s \in Q
  <2> DEFINE y == Pick(s)
             A == SumFunction(Only(f, s))
             B == SumFunction(Only(g, s))
             a == SumFunction(Only(f, s \ {y}))
             b == SumFunction(Only(g, s \ {y}))
  <2>1. y \in s /\ y \in S /\ f[y] \in Int /\ g[y] = f[y]
    BY <1>3, PickIsIn
  <2>2. A \in Int /\ A = a + f[y]
    BY <1>1, <2>1, OnlyStep
  <2>3. B = b + g[y]
    BY <1>1, <2>1, OnlyStep
  <2>4. a = b
    BY <1>3
  <2> QED BY <2>1, <2>2, <2>3, <2>4
<1>4. S \in Q
  <2> Q \in SUBSET (SUBSET S)
    OBVIOUS
  <2> HIDE DEF Q
  <2> QED BY <1>1, <1>2, <1>3, SubsetInduction
<1>5. Only(f, S) = f
  BY DEF Only
<1>6. SumFunction(Only(g, S)) = SumFunction(f) /\ SumFunction(f) \in Int
  BY <1>4, <1>5
<1>7. SumFunction(g) = SumFunction(Only(g, S)) + g[x]
  <2>1. Only(g, T) = g /\ T \ {x} = S
    BY DEF Only
  <2>2. SumFunction(Only(g, T)) = SumFunction(Only(g, T \ {x})) + g[x]
    BY <1>1, OnlyStep
  <2> QED BY <2>1, <2>2
<1> QED BY <1>6, <1>7
=============================================================================
