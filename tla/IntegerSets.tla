---------------------------- MODULE IntegerSets ----------------------------
(***************************************************************************)
(* Facts about finite sets, sums and division that the proofs of several   *)
(* modules use.  The largest and the smallest member of a finite set are   *)
(* derived from the well-foundedness of strict inclusion, and so is what   *)
(* would otherwise need induction: of the subsets of a finite set that     *)
(* break a rule, one is smallest.                                          *)
(***************************************************************************)
EXTENDS Integers, Sequences, FiniteSetsExt, FiniteSetTheorems, Functions, TLAPS

-----------------------------------------------------------------------------
(* The extremes of a finite set. *)

\* Of the sets f gives, that of x contains no other.
Smallest(f, x) == \A y \in DOMAIN f : f[y] \subseteq f[x] => f[y] = f[x]

\* Of the subsets of a finite set that f gives, one contains no other.
LEMMA SmallestSubset ==
  ASSUME NEW S, NEW f \in [S -> SUBSET S], IsFiniteSet(S), S # {}
  PROVE  \E x \in S : Smallest(f, x)
<1> DEFINE F == {f[x] : x \in S}
<1>1. IsWellFoundedOn(StrictSubsetOrdering(S), SUBSET S)
  BY FS_StrictSubsetOrderingWellFounded, FS_FiniteSubsetsOfFinite
<1>2. F \subseteq SUBSET S /\ F # {}
  OBVIOUS
<1>3. PICK T \in F : \A U \in F : ~ (<<U, T>> \in StrictSubsetOrdering(S))
  <2> HIDE DEF F
  <2> QED
    BY <1>1, <1>2, WFMin
<1>4. PICK x \in S : T = f[x]
  BY <1>3
<1>5. ASSUME NEW y \in S, f[y] \subseteq f[x] PROVE f[y] = f[x]
  BY <1>3, <1>4, <1>5 DEF StrictSubsetOrdering
<1>6. QED
  BY <1>5 DEF Smallest

\* A finite set of integers that is not empty has a largest member.
LEMMA MaxOfFinite ==
  ASSUME NEW S, S \subseteq Int, IsFiniteSet(S), S # {}
  PROVE  Max(S) \in S /\ \A s \in S : s <= Max(S)
<1> DEFINE f == [x \in S |-> {s \in S : s > x}]
<1>1. f \in [S -> SUBSET S]
  OBVIOUS
<1>2. PICK x \in S : Smallest(f, x)
  <2> HIDE DEF f
  <2> QED
    BY <1>1, SmallestSubset
<1>3. ASSUME NEW s \in S, s > x PROVE FALSE
  <2>1. s \in Int /\ x \in Int /\ \A q \in S : q \in Int
    OBVIOUS
  <2>2. \A q \in S : q > s => q > x
    BY <1>3, <2>1
  <2>3. f[s] \subseteq f[x]
    BY <2>2
  <2>4. s \in f[x] /\ s \notin f[s]
    BY <1>3, <2>1
  <2>5. QED
    BY <1>2, <2>3, <2>4 DEF Smallest
<1>4. \A s \in S : x >= s
  BY <1>3
<1>5. Max(S) \in S /\ \A s \in S : Max(S) >= s
  BY <1>4 DEF Max
<1>6. QED
  BY <1>5

\* And a smallest one.
LEMMA MinOfFinite ==
  ASSUME NEW S, S \subseteq Int, IsFiniteSet(S), S # {}
  PROVE  Min(S) \in S /\ \A s \in S : Min(S) <= s
<1> DEFINE f == [x \in S |-> {s \in S : s < x}]
<1>1. f \in [S -> SUBSET S]
  OBVIOUS
<1>2. PICK x \in S : Smallest(f, x)
  <2> HIDE DEF f
  <2> QED
    BY <1>1, SmallestSubset
<1>3. ASSUME NEW s \in S, s < x PROVE FALSE
  <2>1. s \in Int /\ x \in Int /\ \A q \in S : q \in Int
    OBVIOUS
  <2>2. \A q \in S : q < s => q < x
    BY <1>3, <2>1
  <2>3. f[s] \subseteq f[x]
    BY <2>2
  <2>4. s \in f[x] /\ s \notin f[s]
    BY <1>3, <2>1
  <2>5. QED
    BY <1>2, <2>3, <2>4 DEF Smallest
<1>4. \A s \in S : x =< s
  BY <1>3
<1>5. QED
  BY <1>4 DEF Min

-----------------------------------------------------------------------------
(* Images of finite sets. *)

LEMMA ImageFinite ==
  ASSUME NEW f, IsFiniteSet(DOMAIN f), f = [x \in DOMAIN f |-> f[x]]
  PROVE  IsFiniteSet(Range(f))
<1> DEFINE S == DOMAIN f
<1>1. f \in [S -> Range(f)] /\ \A y \in Range(f) : \E x \in S : f[x] = y
  BY DEF Range
<1>2. f \in Surjection(S, Range(f))
  BY <1>1 DEF Surjection
<1>3. QED
  BY <1>2, FS_Surjection

\* A function that is one to one keeps the size of every set it maps.
LEMMA ImageSize ==
  ASSUME NEW f, f = [x \in DOMAIN f |-> f[x]], IsFiniteSet(DOMAIN f),
         \A x, y \in DOMAIN f : f[x] = f[y] => x = y,
         NEW U \in SUBSET (DOMAIN f), NEW V, V = {f[x] : x \in U}
  PROVE  IsFiniteSet(V) /\ Cardinality(V) = Cardinality(U)
<1> DEFINE g == [x \in U |-> f[x]]
<1>1. g \in [U -> V] /\ \A x, y \in U : g[x] = g[y] => x = y
  OBVIOUS
<1>2. \A v \in V : \E x \in U : g[x] = v
  OBVIOUS
<1>3. g \in Bijection(U, V)
  BY <1>1, <1>2 DEF Bijection, Injection, Surjection, IsInjective
<1>4. ExistsBijection(U, V)
  BY <1>3 DEF ExistsBijection
<1>5. IsFiniteSet(U)
  BY FS_Subset
<1>6. QED
  BY <1>4, <1>5, FS_Bijection

-----------------------------------------------------------------------------
(* Division. *)

LEMMA Quotient ==
  ASSUME NEW a \in Nat, NEW e \in Nat \ {0}
  PROVE  /\ a \div e \in Nat
         /\ (a \div e) * e <= a /\ a < (a \div e) * e + e
         /\ a = (a \div e) * e + (a % e)
OBVIOUS

LEMMA QuotientOfSum ==
  ASSUME NEW a \in Nat, NEW e \in Nat \ {0}, NEW n \in Nat
  PROVE  (a + n * e) \div e = (a \div e) + n
OBVIOUS

LEMMA RemainderOfMultiple ==
  ASSUME NEW n \in Nat, NEW e \in Nat \ {0}
  PROVE  (n * e) % e = 0
OBVIOUS

-----------------------------------------------------------------------------
(* Folds over finite sets. *)

LEMMA LeastNatural ==
  ASSUME NEW B \in SUBSET Nat, B # {}
  PROVE  \E m \in B : \A n \in B : m <= n
<1>1. PICK k \in B : TRUE
  OBVIOUS
<1> DEFINE T == {n \in B : n <= k}
<1>2. IsFiniteSet(T) /\ T # {} /\ T \subseteq Int
  <2>1. T \in SUBSET Nat /\ k \in Nat /\ \A n \in T : n <= k
    BY <1>1
  <2>2. k \in T
    BY <1>1
  <2> HIDE DEF T
  <2>3. QED
    BY <2>1, <2>2, FS_BoundedSetOfNaturals
<1>3. Min(T) \in T /\ \A n \in T : Min(T) <= n
  BY <1>2, MinOfFinite
<1>4. \A n \in B : Min(T) <= n
  <2> SUFFICES ASSUME NEW n \in B, n \notin T PROVE Min(T) <= n
    BY <1>3
  <2>1. n \in Nat /\ k \in Nat /\ k < n
    BY <1>1
  <2>2. \A y \in T : y \in Nat /\ y <= k
    OBVIOUS
  <2> HIDE DEF T
  <2>3. QED
    BY <1>3, <2>1, <2>2
<1>5. QED
  BY <1>3, <1>4

\* Induction over the subsets of a finite set: of those that are not in G one is smallest.
LEMMA SmallestBad ==
  ASSUME NEW S, IsFiniteSet(S), NEW G, NEW s0 \in SUBSET S, s0 \notin G
  PROVE  \E s \in SUBSET S : s \notin G /\ \A x \in s : s \ {x} \in G
<1> DEFINE B == {Cardinality(s) : s \in {t \in SUBSET S : t \notin G}}
<1>0. \A s \in SUBSET S : IsFiniteSet(s) /\ Cardinality(s) \in Nat
  BY FS_Subset, FS_CardinalityType
<1>1. B \in SUBSET Nat /\ B # {}
  BY <1>0
<1>2. PICK m \in B : \A n \in B : m <= n
  <2> HIDE DEF B
  <2> QED
    BY <1>1, LeastNatural
<1>3. PICK s \in SUBSET S : s \notin G /\ Cardinality(s) = m
  BY <1>2
<1> SUFFICES ASSUME NEW x \in s, s \ {x} \notin G PROVE FALSE
  BY <1>3
<1>5. Cardinality(s \ {x}) = Cardinality(s) - 1
  BY <1>0, FS_RemoveElement
<1>6. s \ {x} \in SUBSET S /\ Cardinality(s \ {x}) \in B
  BY <1>3
<1>7. m \in Nat /\ m <= m - 1
  <2> HIDE DEF B
  <2> QED
    BY <1>0, <1>2, <1>3, <1>5, <1>6
<1>8. QED
  BY <1>7

\* Value g has at s, if it folds h from b over the members that c chooses.
Folded(g, s, b, h, c) == g[s] = IF s = {} THEN b ELSE h[c[s]][g[s \ {c[s]}]]

\* A finite set can be folded, whatever order its members are chosen in.
LEMMA FoldExists ==
  ASSUME NEW S, IsFiniteSet(S), NEW A, NEW b \in A, NEW h \in [S -> [A -> A]],
         NEW c, \A s \in SUBSET S : s # {} => c[s] \in s
  PROVE  \E g \in [SUBSET S -> A] : \A s \in SUBSET S : Folded(g, s, b, h, c)
<1> DEFINE D(n) == {s \in SUBSET S : Cardinality(s) <= n}
           Good(n) == \E g \in [D(n) -> A] : \A s \in D(n) : Folded(g, s, b, h, c)
           Bad == {n \in Nat : ~ Good(n)}
<1>0. \A s \in SUBSET S : IsFiniteSet(s) /\ Cardinality(s) \in Nat
  BY FS_Subset, FS_CardinalityType
<1>1. 0 \notin Bad
  <2> DEFINE g == [s \in D(0) |-> b]
  <2>1. \A s \in D(0) : s = {}
    BY <1>0, FS_EmptySet
  <2>2. g \in [D(0) -> A] /\ \A s \in D(0) : Folded(g, s, b, h, c)
    BY <2>1 DEF Folded
  <2>3. QED
    BY <2>2
<1>2. ASSUME NEW m \in Nat, Good(m) PROVE Good(m + 1)
  <2>1. PICK g \in [D(m) -> A] : \A s \in D(m) : Folded(g, s, b, h, c)
    BY <1>2
  <2> DEFINE f == [s \in D(m + 1) |-> IF s = {} THEN b ELSE h[c[s]][g[s \ {c[s]}]]]
  <2>2. \A s \in D(m + 1) : s # {} => c[s] \in s /\ s \ {c[s]} \in D(m)
    <3> SUFFICES ASSUME NEW s \in SUBSET S, Cardinality(s) <= m + 1, s # {}
                 PROVE  c[s] \in s /\ Cardinality(s \ {c[s]}) <= m
      OBVIOUS
    <3>1. c[s] \in s /\ Cardinality(s) \in Nat /\ IsFiniteSet(s)
      BY <1>0
    <3>2. Cardinality(s \ {c[s]}) = Cardinality(s) - 1
      BY <3>1, FS_RemoveElement
    <3>3. QED
      BY <3>1, <3>2
  <2>3. f \in [D(m + 1) -> A]
    <3> SUFFICES ASSUME NEW s \in D(m + 1), s # {} PROVE h[c[s]][g[s \ {c[s]}]] \in A
      OBVIOUS
    <3>1. c[s] \in S /\ s \ {c[s]} \in D(m)
      BY <2>2
    <3> HIDE DEF D
    <3>2. h[c[s]] \in [A -> A] /\ g[s \ {c[s]}] \in A
      BY <2>1, <3>1
    <3>3. QED
      BY <3>2
  <2>4. \A s \in D(m) : s \in D(m + 1) /\ f[s] = g[s]
    <3>1. D(m) \subseteq D(m + 1)
      BY <1>0
    <3>2. QED
      BY <2>1, <3>1 DEF Folded
  <2>5. \A s \in D(m + 1) : Folded(f, s, b, h, c)
    BY <2>2, <2>4 DEF Folded
  <2>6. QED
    BY <2>3, <2>5
<1>3. Bad = {}
  <2> HIDE DEF Good
  <2> SUFFICES ASSUME Bad # {} PROVE FALSE
    OBVIOUS
  <2>1. PICK m \in Bad : \A n \in Bad : m <= n
    BY LeastNatural
  <2>2. m # 0 /\ m - 1 \in Nat /\ Good(m - 1)
    BY <1>1, <2>1
  <2>3. Good((m - 1) + 1)
    BY <1>2, <2>2
  <2>4. QED
    BY <2>1, <2>3
<1>4. D(Cardinality(S)) = SUBSET S
  BY <1>0, FS_Subset
<1>5. Good(Cardinality(S))
  <2> HIDE DEF Good
  <2> QED
    BY <1>0, <1>3
<1>6. QED
  BY <1>4, <1>5

-----------------------------------------------------------------------------
(* Sums. *)

\* The function that MapThenSumSet and SumFunctionOnSet look up: the sum of F over each subset of T.
Sums(g, F, T) ==
    g = [s \in SUBSET T |-> IF s = {} THEN 0 ELSE F[CHOOSE x \in s : TRUE] + g[s \ {CHOOSE x \in s : TRUE}]]

Narrowed(g, T) == [s \in SUBSET T |-> g[s]]

LEMMA SumsExist ==
  ASSUME NEW S, IsFiniteSet(S), NEW F \in [S -> Int]
  PROVE  \E g \in [SUBSET S -> Int] : \A T \in SUBSET S : Sums(Narrowed(g, T), F, T)
<1> DEFINE c == [s \in SUBSET S |-> CHOOSE x \in s : TRUE]
           h == [x \in S |-> [a \in Int |-> F[x] + a]]
<1>1. \A s \in SUBSET S : c[s] = CHOOSE x \in s : TRUE
  OBVIOUS
<1>2. \A s \in SUBSET S : s # {} => c[s] \in s
  OBVIOUS
<1>3. h \in [S -> [Int -> Int]] /\ \A x \in S, a \in Int : h[x][a] = F[x] + a
  OBVIOUS
<1>4. PICK g \in [SUBSET S -> Int] : \A s \in SUBSET S : Folded(g, s, 0, h, c)
  <2>1. h \in [S -> [Int -> Int]] /\ 0 \in Int
    BY <1>3
  <2> HIDE DEF c, h
  <2> QED
    BY <1>2, <2>1, FoldExists, Zenon
<1>5. \A s \in SUBSET S : g[s] = IF s = {} THEN 0 ELSE F[CHOOSE x \in s : TRUE] + g[s \ {CHOOSE x \in s : TRUE}]
  <2> SUFFICES ASSUME NEW s \in SUBSET S
               PROVE  g[s] = IF s = {} THEN 0 ELSE F[CHOOSE x \in s : TRUE] + g[s \ {CHOOSE x \in s : TRUE}]
    OBVIOUS
  <2>1. g[s] = IF s = {} THEN 0 ELSE h[c[s]][g[s \ {c[s]}]]
    BY <1>4 DEF Folded
  <2>2. s # {} => c[s] \in S /\ g[s \ {c[s]}] \in Int
    BY <1>2, <1>4
  <2> HIDE DEF h
  <2>3. QED
    BY <1>1, <1>3, <2>1, <2>2
<1>6. ASSUME NEW T \in SUBSET S PROVE Sums(Narrowed(g, T), F, T)
  <2> DEFINE t == [s \in SUBSET T |-> g[s]]
  <2>1. \A s \in SUBSET T : s \in SUBSET S /\ s \ {CHOOSE x \in s : TRUE} \in SUBSET T
    OBVIOUS
  <2>2. \A s \in SUBSET T : g[s] = IF s = {} THEN 0 ELSE F[CHOOSE x \in s : TRUE] + t[s \ {CHOOSE x \in s : TRUE}]
    BY <1>5, <2>1
  <2>3. t = [s \in SUBSET T |-> IF s = {} THEN 0 ELSE F[CHOOSE x \in s : TRUE] + t[s \ {CHOOSE x \in s : TRUE}]]
    BY <2>2, Zenon
  <2>4. QED
    BY <2>3 DEF Sums, Narrowed
<1>7. QED
  BY <1>6

LEMMA SumsUnique ==
  ASSUME NEW T, IsFiniteSet(T), NEW F, NEW p, NEW q, Sums(p, F, T), Sums(q, F, T)
  PROVE  p[T] = q[T]
<1> DEFINE G == {s \in SUBSET T : p[s] = q[s]}
<1>1. ASSUME NEW s \in SUBSET T, \A x \in s : s \ {x} \in G PROVE s \in G
  <2>1. s # {} => (CHOOSE x \in s : TRUE) \in s
    OBVIOUS
  <2>2. s # {} => p[s \ {CHOOSE x \in s : TRUE}] = q[s \ {CHOOSE x \in s : TRUE}]
    BY <1>1, <2>1
  <2>3. /\ p[s] = IF s = {} THEN 0 ELSE F[CHOOSE x \in s : TRUE] + p[s \ {CHOOSE x \in s : TRUE}]
        /\ q[s] = IF s = {} THEN 0 ELSE F[CHOOSE x \in s : TRUE] + q[s \ {CHOOSE x \in s : TRUE}]
    BY DEF Sums
  <2>4. QED
    BY <2>2, <2>3
<1> SUFFICES ASSUME T \notin G PROVE FALSE
  OBVIOUS
<1> HIDE DEF G
<1>2. PICK s \in SUBSET T : s \notin G /\ \A x \in s : s \ {x} \in G
  <2>1. T \in SUBSET T
    OBVIOUS
  <2>2. QED
    BY <2>1, SmallestBad
<1>3. QED
  BY <1>1, <1>2

\* What SumFunctionOnSet chooses exists.
LEMMA SumIs ==
  ASSUME NEW S, IsFiniteSet(S), NEW F \in [S -> Int], NEW T \in SUBSET S, NEW g, Sums(g, F, T)
  PROVE  SumFunctionOnSet(F, T) = g[T]
<1> DEFINE r == CHOOSE q : q = [s \in SUBSET T |-> IF s = {} THEN 0 ELSE F[CHOOSE x \in s : TRUE] + q[s \ {CHOOSE x \in s : TRUE}]]
<1>1. r = [s \in SUBSET T |-> IF s = {} THEN 0 ELSE F[CHOOSE x \in s : TRUE] + r[s \ {CHOOSE x \in s : TRUE}]]
  BY DEF Sums
<1>2. SumFunctionOnSet(F, T) = r[T]
  BY DEF SumFunctionOnSet, FoldFunctionOnSet, MapThenFoldSet
<1>3. Sums(r, F, T) /\ IsFiniteSet(T)
  <2> HIDE DEF r
  <2> QED
    BY <1>1, FS_Subset DEF Sums
<1>4. QED
  <2> HIDE DEF r
  <2> QED
    BY <1>2, <1>3, SumsUnique

\* g gives the sums of F over the subsets of S.
SumsOf(g, F, S) ==
    \A s \in SUBSET S :
        /\ g[s] = IF s = {} THEN 0 ELSE F[CHOOSE x \in s : TRUE] + g[s \ {CHOOSE x \in s : TRUE}]
        /\ SumFunctionOnSet(F, s) = g[s]

LEMMA SumUnfolds ==
  ASSUME NEW S, IsFiniteSet(S), NEW F \in [S -> Int]
  PROVE  \E g \in [SUBSET S -> Int] : SumsOf(g, F, S)
<1>1. PICK g \in [SUBSET S -> Int] : \A T \in SUBSET S : Sums(Narrowed(g, T), F, T)
  BY SumsExist
<1>2. ASSUME NEW s \in SUBSET S
      PROVE  /\ g[s] = IF s = {} THEN 0 ELSE F[CHOOSE x \in s : TRUE] + g[s \ {CHOOSE x \in s : TRUE}]
             /\ SumFunctionOnSet(F, s) = g[s]
  <2> DEFINE t == Narrowed(g, s)
  <2>1. Sums(t, F, s)
    BY <1>1
  <2>2. t[s] = g[s] /\ t[s \ {CHOOSE x \in s : TRUE}] = g[s \ {CHOOSE x \in s : TRUE}]
    BY DEF Narrowed
  <2> HIDE DEF t
  <2>3. t[s] = IF s = {} THEN 0 ELSE F[CHOOSE x \in s : TRUE] + t[s \ {CHOOSE x \in s : TRUE}]
    BY <2>1 DEF Sums
  <2>4. SumFunctionOnSet(F, s) = t[s]
    BY <2>1, SumIs
  <2>5. QED
    BY <2>2, <2>3, <2>4
<1>3. QED
  BY <1>2 DEF SumsOf

\* A member may be taken out of a sum.
LEMMA SumRemove ==
  ASSUME NEW S, IsFiniteSet(S), NEW F \in [S -> Int], NEW T \in SUBSET S, NEW x \in T
  PROVE  SumFunctionOnSet(F, T) = F[x] + SumFunctionOnSet(F, T \ {x})
<1>0. PICK g \in [SUBSET S -> Int] : SumsOf(g, F, S)
  BY SumUnfolds
<1>1. /\ \A s \in SUBSET S : g[s] = IF s = {} THEN 0 ELSE F[CHOOSE y \in s : TRUE] + g[s \ {CHOOSE y \in s : TRUE}]
      /\ \A s \in SUBSET S : SumFunctionOnSet(F, s) = g[s]
  BY <1>0 DEF SumsOf
<1> DEFINE G == {s \in SUBSET S : \A y \in s : g[s] = F[y] + g[s \ {y}]}
<1>2. ASSUME NEW s \in SUBSET S, \A y \in s : s \ {y} \in G PROVE s \in G
  <2> SUFFICES ASSUME NEW y \in s PROVE g[s] = F[y] + g[s \ {y}]
    OBVIOUS
  <2>1. PICK c \in s : g[s] = F[c] + g[s \ {c}]
    BY <1>1
  <2>2. CASE c = y
    BY <2>1, <2>2
  <2>3. CASE c # y
    <3>1. g[s \ {c}] = F[y] + g[(s \ {c}) \ {y}] /\ g[s \ {y}] = F[c] + g[(s \ {y}) \ {c}]
      BY <1>2, <2>3
    <3>2. (s \ {c}) \ {y} = (s \ {y}) \ {c} /\ (s \ {c}) \ {y} \in SUBSET S
      OBVIOUS
    <3>3. F[c] \in Int /\ F[y] \in Int /\ g[(s \ {c}) \ {y}] \in Int
      BY <1>1, <3>2
    <3>4. g[s] = F[c] + (F[y] + g[(s \ {c}) \ {y}])
      BY <2>1, <3>1
    <3>5. F[y] + g[s \ {y}] = F[y] + (F[c] + g[(s \ {c}) \ {y}])
      BY <3>1, <3>2
    <3>6. QED
      BY <3>3, <3>4, <3>5
  <2>4. QED
    BY <2>2, <2>3
<1>3. SUBSET S \subseteq G
  <2> HIDE DEF G
  <2> SUFFICES ASSUME NEW s0 \in SUBSET S, s0 \notin G PROVE FALSE
    OBVIOUS
  <2>1. PICK s \in SUBSET S : s \notin G /\ \A y \in s : s \ {y} \in G
    BY SmallestBad
  <2>2. QED
    BY <1>2, <2>1
<1>4. T \ {x} \in SUBSET S
  OBVIOUS
<1>5. QED
  BY <1>1, <1>3, <1>4

LEMMA SumBasics ==
  ASSUME NEW S, IsFiniteSet(S), NEW F \in [S -> Int]
  PROVE  /\ SumFunctionOnSet(F, {}) = 0
         /\ \A T \in SUBSET S : SumFunctionOnSet(F, T) \in Int
<1>0. PICK g \in [SUBSET S -> Int] : SumsOf(g, F, S)
  BY SumUnfolds
<1>1. /\ \A s \in SUBSET S : g[s] = IF s = {} THEN 0 ELSE F[CHOOSE y \in s : TRUE] + g[s \ {CHOOSE y \in s : TRUE}]
      /\ \A s \in SUBSET S : SumFunctionOnSet(F, s) = g[s]
  BY <1>0 DEF SumsOf
<1>2. {} \in SUBSET S
  OBVIOUS
<1>3. g[{}] = 0
  BY <1>1, <1>2
<1>4. QED
  BY <1>1, <1>2, <1>3

\* A sum depends only on the values at the members.
LEMMA SumAgree ==
  ASSUME NEW S, IsFiniteSet(S), NEW F \in [S -> Int], NEW R, IsFiniteSet(R), NEW H \in [R -> Int],
         NEW T \in SUBSET S, T \subseteq R, \A x \in T : F[x] = H[x]
  PROVE  SumFunctionOnSet(F, T) = SumFunctionOnSet(H, T)
<1> DEFINE G == {s \in SUBSET T : SumFunctionOnSet(F, s) = SumFunctionOnSet(H, s)}
<1>0. IsFiniteSet(T) /\ T \in SUBSET T
  BY FS_Subset
<1>1. ASSUME NEW s \in SUBSET T, \A y \in s : s \ {y} \in G PROVE s \in G
  <2>1. CASE s = {}
    <3>1. SumFunctionOnSet(F, s) = 0 /\ SumFunctionOnSet(H, s) = 0
      BY <2>1, SumBasics
    <3>2. QED
      BY <3>1
  <2>2. CASE s # {}
    <3>1. PICK y \in s : s \ {y} \in G
      BY <1>1, <2>2
    <3>2. s \in SUBSET S /\ s \in SUBSET R /\ y \in T
      OBVIOUS
    <3>3. /\ SumFunctionOnSet(F, s) = F[y] + SumFunctionOnSet(F, s \ {y})
          /\ SumFunctionOnSet(H, s) = H[y] + SumFunctionOnSet(H, s \ {y})
      <4> HIDE DEF G
      <4> QED
        BY <3>2, SumRemove
    <3>4. QED
      BY <3>1, <3>2, <3>3
  <2>3. QED
    BY <2>1, <2>2
<1>2. T \in G
  <2> HIDE DEF G
  <2> SUFFICES ASSUME T \notin G PROVE FALSE
    OBVIOUS
  <2>1. PICK s \in SUBSET T : s \notin G /\ \A y \in s : s \ {y} \in G
    BY <1>0, SmallestBad
  <2>2. QED
    BY <1>1, <2>1
<1>3. QED
  BY <1>2

\* Two sets with no common member are summed one after the other.
LEMMA SumUnion ==
  ASSUME NEW S, IsFiniteSet(S), NEW F \in [S -> Int], NEW A \in SUBSET S, NEW B \in SUBSET S,
         A \cap B = {}
  PROVE  SumFunctionOnSet(F, A \cup B) = SumFunctionOnSet(F, A) + SumFunctionOnSet(F, B)
<1> DEFINE G == {s \in SUBSET A :
                    SumFunctionOnSet(F, s \cup B) = SumFunctionOnSet(F, s) + SumFunctionOnSet(F, B)}
<1>0. IsFiniteSet(A) /\ A \in SUBSET A
  BY FS_Subset
<1>a. \A T \in SUBSET S : SumFunctionOnSet(F, T) \in Int
  BY SumBasics
<1>1. ASSUME NEW s \in SUBSET A, \A y \in s : s \ {y} \in G PROVE s \in G
  <2>1. CASE s = {}
    <3>1. SumFunctionOnSet(F, s) = 0 /\ s \cup B = B
      BY <2>1, SumBasics
    <3>2. SumFunctionOnSet(F, s \cup B) = SumFunctionOnSet(F, B) /\ B \in SUBSET S
      BY <3>1, Zenon
    <3>3. SumFunctionOnSet(F, s \cup B) = SumFunctionOnSet(F, s) + SumFunctionOnSet(F, B)
      BY <1>a, <3>1, <3>2
    <3>4. QED
      BY <3>3
  <2>2. CASE s # {}
    <3>1. PICK y \in s : s \ {y} \in G
      BY <1>1, <2>2
    <3>2. /\ s \in SUBSET S /\ s \cup B \in SUBSET S /\ y \in s \cup B /\ y \in S
          /\ (s \cup B) \ {y} = (s \ {y}) \cup B /\ s \ {y} \in SUBSET S
      OBVIOUS
    <3>3. /\ SumFunctionOnSet(F, s) = F[y] + SumFunctionOnSet(F, s \ {y})
          /\ SumFunctionOnSet(F, s \cup B) = F[y] + SumFunctionOnSet(F, (s \cup B) \ {y})
      <4> HIDE DEF G
      <4> QED
        BY <3>2, SumRemove
    <3>4. SumFunctionOnSet(F, (s \ {y}) \cup B) = SumFunctionOnSet(F, s \ {y}) + SumFunctionOnSet(F, B)
      BY <3>1
    <3>5. F[y] \in Int /\ SumFunctionOnSet(F, s \ {y}) \in Int /\ SumFunctionOnSet(F, B) \in Int
      BY <1>a, <3>2
    <3>a. SumFunctionOnSet(F, (s \cup B) \ {y}) = SumFunctionOnSet(F, (s \ {y}) \cup B)
      BY <3>2, Zenon
    <3>6. SumFunctionOnSet(F, s \cup B) = SumFunctionOnSet(F, s) + SumFunctionOnSet(F, B)
      BY <3>3, <3>4, <3>5, <3>a
    <3>7. QED
      BY <3>6
  <2>3. QED
    BY <2>1, <2>2
<1>2. A \in G
  <2> HIDE DEF G
  <2> SUFFICES ASSUME A \notin G PROVE FALSE
    OBVIOUS
  <2>0. IsFiniteSet(A) /\ A \in SUBSET A /\ A \notin G
    BY <1>0
  <2>1. \E s \in SUBSET A : s \notin G /\ \A x \in s : s \ {x} \in G
    BY ONLY <2>0, SmallestBad
  <2>3. PICK s \in SUBSET A : s \notin G /\ \A x \in s : s \ {x} \in G
    BY <2>1
  <2>2. QED
    BY <1>1, <2>3
<1>3. QED
  BY <1>2

\* A sum of natural numbers is one, and it is 0 only if each of them is.
LEMMA SumNat ==
  ASSUME NEW S, IsFiniteSet(S), NEW F \in [S -> Nat]
  PROVE  \A T \in SUBSET S : /\ SumFunctionOnSet(F, T) \in Nat
                             /\ SumFunctionOnSet(F, T) = 0 <=> \A x \in T : F[x] = 0
<1> DEFINE G == {s \in SUBSET S : /\ SumFunctionOnSet(F, s) \in Nat
                                  /\ SumFunctionOnSet(F, s) = 0 <=> \A x \in s : F[x] = 0}
<1>0. F \in [S -> Int]
  OBVIOUS
<1>1. ASSUME NEW s \in SUBSET S, \A y \in s : s \ {y} \in G PROVE s \in G
  <2>1. CASE s = {}
    <3>1. SumFunctionOnSet(F, s) = 0
      BY <1>0, <2>1, SumBasics
    <3>2. QED
      BY <2>1, <3>1
  <2>2. CASE s # {}
    <3>1. PICK y \in s : s \ {y} \in G
      BY <1>1, <2>2
    <3>2. SumFunctionOnSet(F, s) = F[y] + SumFunctionOnSet(F, s \ {y})
      <4> HIDE DEF G
      <4> QED
        BY <1>0, SumRemove
    <3>3. F[y] \in Nat /\ SumFunctionOnSet(F, s \ {y}) \in Nat
      BY <3>1
    <3>4. (\A x \in s : F[x] = 0) <=> F[y] = 0 /\ \A x \in s \ {y} : F[x] = 0
      OBVIOUS
    <3>5. SumFunctionOnSet(F, s \ {y}) = 0 <=> \A x \in s \ {y} : F[x] = 0
      BY <3>1
    <3>6. QED
      BY <3>2, <3>3, <3>4, <3>5
  <2>3. QED
    BY <2>1, <2>2
<1>2. SUBSET S \subseteq G
  <2> HIDE DEF G
  <2> SUFFICES ASSUME NEW s0 \in SUBSET S, s0 \notin G PROVE FALSE
    OBVIOUS
  <2>1. PICK s \in SUBSET S : s \notin G /\ \A y \in s : s \ {y} \in G
    BY SmallestBad
  <2>2. QED
    BY <1>1, <2>1
<1>3. QED
  BY <1>2

\* The recursive function that defines a sum is a value of that sum.
LEMMA SumChosen ==
  ASSUME NEW S, IsFiniteSet(S), NEW F \in [S -> Int]
  PROVE  /\ \E g : Sums(g, F, S)
         /\ \A g : Sums(g, F, S) => g[S] = SumFunctionOnSet(F, S)
<1>0. S \in SUBSET S
  OBVIOUS
<1>1. \E g : Sums(g, F, S)
  <2>1. PICK g \in [SUBSET S -> Int] : \A T \in SUBSET S : Sums(Narrowed(g, T), F, T)
    BY SumsExist
  <2>2. QED
    BY <1>0, <2>1
<1>2. ASSUME NEW g, Sums(g, F, S) PROVE g[S] = SumFunctionOnSet(F, S)
  BY <1>0, <1>2, SumIs
<1>3. QED
  BY <1>1, <1>2

LEMMA DisjointSize ==
  ASSUME NEW A, IsFiniteSet(A), NEW B, IsFiniteSet(B), A \cap B = {}
  PROVE  /\ Cardinality(A \cup B) = Cardinality(A) + Cardinality(B)
         /\ IsFiniteSet(A \cup B)
         /\ Cardinality(A) \in Nat /\ Cardinality(B) \in Nat
<1>1. Cardinality(A) \in Nat /\ Cardinality(B) \in Nat /\ IsFiniteSet(A \cup B)
  BY FS_CardinalityType, FS_Union
<1>2. Cardinality(A \cap B) = 0
  BY FS_EmptySet, Zenon
<1>3. Cardinality(A \cup B) = Cardinality(A) + Cardinality(B) - Cardinality(A \cap B)
  BY FS_Union, Zenon
<1>4. QED
  BY <1>1, <1>2, <1>3

\* A finite set has two members exactly when its size says so.
LEMMA TwoMembers ==
  ASSUME NEW D, IsFiniteSet(D)
  PROVE  Cardinality(D) >= 2 <=> \E x, y \in D : x # y
<1>1. \A x \in D : /\ IsFiniteSet(D \ {x}) /\ Cardinality(D \ {x}) = Cardinality(D) - 1
                   /\ Cardinality(D \ {x}) \in Nat
  BY FS_RemoveElement, FS_CardinalityType
<1>2. Cardinality(D) \in Nat
  BY FS_CardinalityType
<1>3. ASSUME Cardinality(D) >= 2 PROVE \E x, y \in D : x # y
  <2>1. PICK x \in D : TRUE
    BY <1>3, FS_EmptySet
  <2>2. D \ {x} # {}
    BY <1>1, <1>2, <1>3, FS_EmptySet
  <2>3. QED
    BY <2>1, <2>2
<1>4. ASSUME NEW x \in D, NEW y \in D, x # y PROVE Cardinality(D) >= 2
  <2>1. y \in D \ {x}
    BY <1>4
  <2>2. Cardinality(D \ {x}) # 0
    BY <1>1, <2>1, FS_EmptySet
  <2>3. QED
    BY <1>1, <1>2, <2>2
<1>5. QED
  BY <1>3, <1>4

-----------------------------------------------------------------------------
(* Sums over sequences. *)

\* A sum does not change when the members are renamed one to one.
LEMMA SumRenamed ==
  ASSUME NEW S, IsFiniteSet(S), NEW F \in [S -> Int], NEW R, IsFiniteSet(R), NEW H \in [R -> Int],
         NEW f \in [S -> R], \A x, y \in S : f[x] = f[y] => x = y, \A x \in S : H[f[x]] = F[x],
         NEW T \in SUBSET S
  PROVE  SumFunctionOnSet(H, {f[x] : x \in T}) = SumFunctionOnSet(F, T)
<1> DEFINE Image(s) == {f[x] : x \in s}
           G == {s \in SUBSET S : SumFunctionOnSet(H, Image(s)) = SumFunctionOnSet(F, s)}
<1>1. ASSUME NEW s \in SUBSET S, \A y \in s : s \ {y} \in G PROVE s \in G
  <2>1. CASE s = {}
    <3>1. Image(s) = {} /\ s = {}
      BY <2>1
    <3>2. SumFunctionOnSet(F, {}) = 0 /\ SumFunctionOnSet(H, {}) = 0
      BY SumBasics
    <3>3. SumFunctionOnSet(H, Image(s)) = SumFunctionOnSet(F, s)
      <4> HIDE DEF Image
      <4> QED
        BY <3>1, <3>2, Zenon
    <3>4. QED
      BY <3>3
  <2>2. CASE s # {}
    <3>1. PICK y \in s : s \ {y} \in G
      BY <1>1, <2>2
    <3>2. Image(s) \in SUBSET R /\ f[y] \in Image(s) /\ y \in S /\ Image(s \ {y}) = Image(s) \ {f[y]}
      OBVIOUS
    <3>3. /\ SumFunctionOnSet(F, s) = F[y] + SumFunctionOnSet(F, s \ {y})
          /\ SumFunctionOnSet(H, Image(s)) = H[f[y]] + SumFunctionOnSet(H, Image(s) \ {f[y]})
      <4> HIDE DEF G, Image
      <4> QED
        BY <3>2, SumRemove
    <3>4. SumFunctionOnSet(H, Image(s \ {y})) = SumFunctionOnSet(F, s \ {y})
      BY <3>1
    <3>5. SumFunctionOnSet(H, Image(s) \ {f[y]}) = SumFunctionOnSet(F, s \ {y})
      <4> HIDE DEF Image
      <4> QED
        BY <3>2, <3>4, Zenon
    <3>6. QED
      BY <3>2, <3>3, <3>5
  <2>3. QED
    BY <2>1, <2>2
<1>2. T \in G
  <2> HIDE DEF G
  <2> SUFFICES ASSUME T \notin G PROVE FALSE
    OBVIOUS
  <2>0. IsFiniteSet(S) /\ T \in SUBSET S /\ T \notin G
    OBVIOUS
  <2>1. \E s \in SUBSET S : s \notin G /\ \A x \in s : s \ {x} \in G
    BY ONLY <2>0, SmallestBad
  <2>2. QED
    BY <1>1, <2>1
<1>3. QED
  BY <1>2

SeqSum(q) == SumFunctionOnSet(q, DOMAIN q)

LEMMA SeqFinite ==
  ASSUME NEW A, NEW q \in Seq(A)
  PROVE  IsFiniteSet(DOMAIN q) /\ DOMAIN q = 1..Len(q) /\ Len(q) \in Nat /\ q \in [DOMAIN q -> A]
<1>1. DOMAIN q = 1..Len(q) /\ Len(q) \in Nat /\ q \in [1..Len(q) -> A]
  OBVIOUS
<1>2. IsFiniteSet(1..Len(q))
  <2>1. 1 \in Int /\ Len(q) \in Int
    BY <1>1
  <2> QED
    BY <2>1, FS_Interval
<1>3. QED
  BY <1>1, <1>2

\* r is p on P, and elsewhere q, with its arguments renamed by f.
InParts(S, r, P, p, Q, q, f) ==
    /\ IsFiniteSet(S) /\ r \in [S -> Int]
    /\ IsFiniteSet(P) /\ p \in [P -> Int] /\ P \subseteq S
    /\ \A i \in P : r[i] = p[i]
    /\ IsFiniteSet(Q) /\ q \in [Q -> Int] /\ f \in [Q -> S]
    /\ \A x, y \in Q : f[x] = f[y] => x = y
    /\ \A x \in Q : r[f[x]] = q[x]
    /\ P \cap {f[i] : i \in Q} = {} /\ P \cup {f[i] : i \in Q} = S

\* A sum in two parts, each of them another sum.
LEMMA SumInParts ==
  ASSUME NEW S, NEW r, NEW P, NEW p, NEW Q, NEW q, NEW f, InParts(S, r, P, p, Q, q, f)
  PROVE  SumFunctionOnSet(r, S) = SumFunctionOnSet(p, P) + SumFunctionOnSet(q, Q)
<1> DEFINE B == {f[i] : i \in Q}
<1>0. /\ IsFiniteSet(S) /\ r \in [S -> Int]
      /\ IsFiniteSet(P) /\ p \in [P -> Int] /\ P \subseteq S
      /\ \A i \in P : r[i] = p[i]
      /\ IsFiniteSet(Q) /\ q \in [Q -> Int] /\ f \in [Q -> S]
      /\ \A x, y \in Q : f[x] = f[y] => x = y
      /\ \A x \in Q : r[f[x]] = q[x]
      /\ P \cap B = {} /\ P \cup B = S
  BY DEF InParts
<1>1. SumFunctionOnSet(r, B) = SumFunctionOnSet(q, Q)
  <2>1. Q \in SUBSET Q
    OBVIOUS
  <2>2. QED
    BY <1>0, <2>1, SumRenamed
<1>2. SumFunctionOnSet(r, P) = SumFunctionOnSet(p, P)
  <2>1. P \in SUBSET S /\ P \subseteq P
    BY <1>0
  <2>2. QED
    BY <1>0, <2>1, SumAgree
<1>3. SumFunctionOnSet(r, P \cup B) = SumFunctionOnSet(r, P) + SumFunctionOnSet(r, B)
  <2>1. P \in SUBSET S /\ B \in SUBSET S
    BY <1>0
  <2> HIDE DEF B
  <2>2. QED
    BY <1>0, <2>1, SumUnion
<1>4. SumFunctionOnSet(r, P \cup B) = SumFunctionOnSet(r, S)
  BY <1>0, Zenon
<1>5. QED
  BY <1>1, <1>2, <1>3, <1>4

\* r begins as p, and goes on as q.
Joins(r, p, q) ==
    /\ Len(r) = Len(p) + Len(q)
    /\ \A i \in 1..Len(p) : r[i] = p[i]
    /\ \A i \in 1..Len(q) : r[Len(p) + i] = q[i]

LEMMA SeqSumJoins ==
  ASSUME NEW p \in Seq(Int), NEW q \in Seq(Int), NEW r \in Seq(Int), Joins(r, p, q)
  PROVE  SeqSum(r) = SeqSum(p) + SeqSum(q)
<1> DEFINE f == [i \in DOMAIN q |-> Len(p) + i]
           B == {f[i] : i \in DOMAIN q}
<1>1. /\ Len(r) = Len(p) + Len(q)
      /\ \A i \in DOMAIN p : r[i] = p[i]
      /\ \A i \in DOMAIN q : r[Len(p) + i] = q[i]
  <2>1. DOMAIN p = 1..Len(p) /\ DOMAIN q = 1..Len(q)
    OBVIOUS
  <2>2. QED
    BY <2>1, Zenon DEF Joins
<1>2. /\ IsFiniteSet(DOMAIN p) /\ DOMAIN p = 1..Len(p) /\ Len(p) \in Nat /\ p \in [DOMAIN p -> Int]
      /\ IsFiniteSet(DOMAIN q) /\ DOMAIN q = 1..Len(q) /\ Len(q) \in Nat /\ q \in [DOMAIN q -> Int]
  BY SeqFinite
<1>3. IsFiniteSet(DOMAIN r) /\ DOMAIN r = 1..Len(r) /\ r \in [DOMAIN r -> Int]
  BY SeqFinite
<1>4. /\ f \in [DOMAIN q -> DOMAIN r] /\ \A x, y \in DOMAIN q : f[x] = f[y] => x = y
      /\ \A x \in DOMAIN q : r[f[x]] = q[x]
  BY <1>1, <1>2, <1>3
<1>5. /\ DOMAIN p \in SUBSET DOMAIN r /\ B \in SUBSET DOMAIN r /\ DOMAIN p \cap B = {}
      /\ DOMAIN p \cup B = DOMAIN r /\ DOMAIN q \in SUBSET DOMAIN q
  <2>1. DOMAIN p \in SUBSET DOMAIN r /\ B \in SUBSET DOMAIN r /\ DOMAIN p \cap B = {}
    BY <1>1, <1>2, <1>3
  <2>2. ASSUME NEW i \in DOMAIN r, i \notin DOMAIN p PROVE i \in B
    <3>1. i - Len(p) \in DOMAIN q /\ f[i - Len(p)] = i
      BY <1>1, <1>2, <1>3, <2>2
    <3>2. QED
      BY <3>1
  <2>3. QED
    BY <2>1, <2>2
<1> HIDE DEF f, B
<1>6. InParts(DOMAIN r, r, DOMAIN p, p, DOMAIN q, q, f)
  BY <1>1, <1>2, <1>3, <1>4, <1>5 DEF InParts, B
<1>7. SumFunctionOnSet(r, DOMAIN r) = SumFunctionOnSet(p, DOMAIN p) + SumFunctionOnSet(q, DOMAIN q)
  BY <1>6, SumInParts, SMT
<1>8. QED
  BY <1>7 DEF SeqSum

LEMMA SeqSumBasics ==
  /\ SeqSum(<<>>) = 0
  /\ \A x \in Int : SeqSum(<<x>>) = x
  /\ \A q \in Seq(Int) : SeqSum(q) \in Int
<1>1. SeqSum(<<>>) = 0
  <2> DEFINE e == <<>>
  <2>1. e \in [{} -> Int] /\ IsFiniteSet({}) /\ DOMAIN e = {}
    BY FS_EmptySet
  <2> HIDE DEF e
  <2>2. SumFunctionOnSet(e, {}) = 0
    BY <2>1, SumBasics
  <2>3. SeqSum(e) = 0
    BY <2>1, <2>2, Zenon DEF SeqSum
  <2>4. QED
    BY <2>3 DEF e
<1>2. ASSUME NEW x \in Int PROVE SeqSum(<<x>>) = x
  <2> DEFINE e == <<x>>
  <2>1. e \in [{1} -> Int] /\ IsFiniteSet({1}) /\ DOMAIN e = {1} /\ e[1] = x /\ {1} \ {1} = {} /\ {1} \in SUBSET {1}
    <3>1. e \in Seq(Int) /\ Len(e) = 1 /\ e[1] = x
      OBVIOUS
    <3> HIDE DEF e
    <3>2. DOMAIN e = {1} /\ e \in [DOMAIN e -> Int] /\ IsFiniteSet(DOMAIN e)
      BY <3>1, SeqFinite
    <3>3. QED
      BY <3>1, <3>2
  <2> HIDE DEF e
  <2>2. SumFunctionOnSet(e, {1}) = e[1] + SumFunctionOnSet(e, {1} \ {1})
    BY <2>1, SumRemove
  <2>3. SumFunctionOnSet(e, {}) = 0
    BY <2>1, SumBasics
  <2>4. SumFunctionOnSet(e, {1} \ {1}) = 0
    BY <2>1, <2>3, Zenon
  <2>5. SumFunctionOnSet(e, {1}) = x
    BY <2>1, <2>2, <2>4
  <2>6. SeqSum(e) = x
    BY <2>1, <2>5, SMT DEF SeqSum
  <2>7. QED
    BY <2>6 DEF e
<1>3. ASSUME NEW q \in Seq(Int) PROVE SeqSum(q) \in Int
  <2>1. IsFiniteSet(DOMAIN q) /\ q \in [DOMAIN q -> Int] /\ DOMAIN q \in SUBSET DOMAIN q
    BY SeqFinite
  <2>2. QED
    BY <2>1, SumBasics DEF SeqSum
<1>4. QED
  BY <1>1, <1>2, <1>3

\* The function that FoldLeft looks up to add up a sequence: the largest index last.
SumsLeft(g, F, T) ==
    g = [s \in SUBSET T |-> IF s = {} THEN 0 ELSE g[s \ {Max(s)}] + F[Max(s)]]

LEMMA SumsLeftChosen ==
  ASSUME NEW S, S \subseteq Int, IsFiniteSet(S), NEW F \in [S -> Int]
  PROVE  /\ \E g : SumsLeft(g, F, S)
         /\ \A g : SumsLeft(g, F, S) => g[S] = SumFunctionOnSet(F, S)
<1> DEFINE t == [s \in SUBSET S |-> SumFunctionOnSet(F, s)]
<1>1. \A s \in SUBSET S : s # {} => Max(s) \in s
  <2> SUFFICES ASSUME NEW s \in SUBSET S, s # {} PROVE Max(s) \in s
    OBVIOUS
  <2>1. s \subseteq Int /\ IsFiniteSet(s)
    BY FS_Subset
  <2>2. QED
    BY <2>1, MaxOfFinite
<1>2. \A s \in SUBSET S : t[s] = IF s = {} THEN 0 ELSE t[s \ {Max(s)}] + F[Max(s)]
  <2> SUFFICES ASSUME NEW s \in SUBSET S PROVE t[s] = IF s = {} THEN 0 ELSE t[s \ {Max(s)}] + F[Max(s)]
    OBVIOUS
  <2>1. CASE s = {}
    <3>1. SumFunctionOnSet(F, {}) = 0
      BY SumBasics
    <3>2. SumFunctionOnSet(F, s) = 0
      BY <2>1, <3>1, Zenon
    <3>3. QED
      BY <2>1, <3>2
  <2>2. CASE s # {}
    <3>1. Max(s) \in s /\ s \ {Max(s)} \in SUBSET S /\ F[Max(s)] \in Int
      BY <1>1, <2>2
    <3>2. SumFunctionOnSet(F, s) = F[Max(s)] + SumFunctionOnSet(F, s \ {Max(s)})
      <4>1. ASSUME NEW x \in s PROVE SumFunctionOnSet(F, s) = F[x] + SumFunctionOnSet(F, s \ {x})
        BY ONLY IsFiniteSet(S), F \in [S -> Int], s \in SUBSET S, x \in s, SumRemove
      <4>2. QED
        BY <3>1, <4>1
    <3>3. SumFunctionOnSet(F, s \ {Max(s)}) \in Int
      BY <3>1, SumBasics
    <3>4. SumFunctionOnSet(F, s) = SumFunctionOnSet(F, s \ {Max(s)}) + F[Max(s)]
      BY <3>1, <3>2, <3>3
    <3>5. QED
      BY <2>2, <3>1, <3>4
  <2>3. QED
    BY <2>1, <2>2
<1>3. SumsLeft(t, F, S)
  <2>1. t = [s \in SUBSET S |-> t[s]]
    BY Zenon
  <2> HIDE DEF t
  <2>2. QED
    BY <1>2, <2>1 DEF SumsLeft
<1>4. ASSUME NEW g, SumsLeft(g, F, S) PROVE g[S] = SumFunctionOnSet(F, S)
  <2> DEFINE G == {s \in SUBSET S : g[s] = t[s]}
  <2> HIDE DEF t
  <2>1. ASSUME NEW s \in SUBSET S, \A y \in s : s \ {y} \in G PROVE s \in G
    <3>1. g[s] = IF s = {} THEN 0 ELSE g[s \ {Max(s)}] + F[Max(s)]
      BY <1>4 DEF SumsLeft
    <3>2. s # {} => g[s \ {Max(s)}] = t[s \ {Max(s)}]
      BY <1>1, <2>1
    <3>3. g[s] = t[s]
      BY <1>2, <3>1, <3>2
    <3>4. QED
      BY <3>3
  <2>2. S \in G
    <3> HIDE DEF G
    <3> SUFFICES ASSUME S \notin G PROVE FALSE
      OBVIOUS
    <3>1. IsFiniteSet(S) /\ S \in SUBSET S /\ S \notin G
      OBVIOUS
    <3>2. \E s \in SUBSET S : s \notin G /\ \A x \in s : s \ {x} \in G
      BY ONLY <3>1, SmallestBad
    <3>3. QED
      BY <2>1, <3>2
  <2>3. g[S] = t[S]
    BY <2>2
  <2>4. QED
    BY <2>3 DEF t
<1>5. QED
  BY <1>3, <1>4

-----------------------------------------------------------------------------
(* Ranks. *)

Rank(S, i) == Cardinality({j \in S : j <= i})

\* The members of a finite set of integers are numbered from 1, in their order.
LEMMA Ranks ==
  ASSUME NEW S, S \subseteq Int, IsFiniteSet(S)
  PROVE  /\ \A i \in S : Rank(S, i) \in 1..Cardinality(S)
         /\ \A i, k \in S : i < k => Rank(S, i) < Rank(S, k)
         /\ \A i, k \in S : Rank(S, i) = Rank(S, k) => i = k
         /\ \A n \in 1..Cardinality(S) : \E i \in S : Rank(S, i) = n
         /\ Cardinality(S) \in Nat
<1> DEFINE below(i) == {j \in S : j <= i}
<1>0. Cardinality(S) \in Nat
  BY FS_CardinalityType
<1>1. ASSUME NEW i \in S
      PROVE  IsFiniteSet(below(i)) /\ Rank(S, i) = Cardinality(below(i)) /\ Rank(S, i) \in 1..Cardinality(S)
  <2>1. below(i) \in SUBSET S /\ i \in below(i)
    OBVIOUS
  <2>2. Rank(S, i) = Cardinality(below(i))
    BY DEF Rank
  <2> HIDE DEF below
  <2>3. IsFiniteSet(below(i)) /\ Cardinality(below(i)) <= Cardinality(S)
    BY <2>1, FS_Subset
  <2>4. Cardinality(below(i)) \in Nat /\ Cardinality(below(i)) # 0
    BY <2>1, <2>3, FS_CardinalityType, FS_EmptySet
  <2>5. QED
    BY <1>0, <2>2, <2>3, <2>4
<1>2. ASSUME NEW i \in S, NEW k \in S, i < k PROVE Rank(S, i) < Rank(S, k)
  <2>1. i \in Int /\ k \in Int /\ \A j \in S : j \in Int
    OBVIOUS
  <2>2. below(i) \in SUBSET below(k) /\ k \in below(k) /\ k \notin below(i)
    <3>1. \A j \in S : j <= i => j <= k
      BY <1>2, <2>1
    <3>2. ~ (k <= i) /\ k <= k
      BY <1>2, <2>1
    <3>3. QED
      BY <3>1, <3>2
  <2> HIDE DEF below
  <2>3. Cardinality(below(i)) < Cardinality(below(k))
    BY <1>1, <2>2, FS_Subset, FS_CardinalityType
  <2>4. QED
    BY <1>1, <2>3
<1>3. ASSUME NEW i \in S, NEW k \in S, Rank(S, i) = Rank(S, k) PROVE i = k
  <2>1. i \in Int /\ k \in Int /\ Rank(S, i) \in Int /\ Rank(S, k) \in Int
    <3>1. Rank(S, i) \in 1..Cardinality(S) /\ Rank(S, k) \in 1..Cardinality(S)
      BY <1>1
    <3>2. QED
      BY <1>0, <3>1
  <2>2. QED
    BY <1>2, <1>3, <2>1
<1>4. ASSUME NEW n \in 1..Cardinality(S) PROVE \E i \in S : Rank(S, i) = n
  <2> DEFINE f == [i \in S |-> Rank(S, i)]
             V == {f[i] : i \in S}
             R == 1..Cardinality(S)
  <2>1. f = [i \in DOMAIN f |-> f[i]] /\ DOMAIN f = S /\ S \in SUBSET (DOMAIN f)
    OBVIOUS
  <2>2. \A x, y \in DOMAIN f : f[x] = f[y] => x = y
    BY <1>3
  <2>3. V \subseteq R
    BY <1>1
  <2>4. Cardinality(V) = Cardinality(S)
    <3> HIDE DEF f
    <3> QED
      BY <2>1, <2>2, ImageSize
  <2>5. IsFiniteSet(R) /\ Cardinality(R) = Cardinality(S)
    BY <1>0, FS_Interval
  <2>6. V = R
    <3> HIDE DEF V, R
    <3> QED
      BY <2>3, <2>4, <2>5, FS_Subset
  <2>7. PICK i \in S : f[i] = n
    BY <2>6
  <2>8. QED
    BY <2>7
<1>5. QED
  BY <1>0, <1>1, <1>2, <1>3, <1>4

Nth(S, n) == CHOOSE i \in S : Rank(S, i) = n

\* And so there is an n-th one.
LEMMA NthRanks ==
  ASSUME NEW S, S \subseteq Int, IsFiniteSet(S)
  PROVE  /\ \A n \in 1..Cardinality(S) : Nth(S, n) \in S /\ Rank(S, Nth(S, n)) = n
         /\ \A i \in S : Rank(S, i) \in 1..Cardinality(S) /\ Nth(S, Rank(S, i)) = i
         /\ \A n, m \in 1..Cardinality(S) : Nth(S, n) = Nth(S, m) => n = m
         /\ Cardinality(S) \in Nat
<1>1. \A n \in 1..Cardinality(S) : Nth(S, n) \in S /\ Rank(S, Nth(S, n)) = n
  BY Ranks DEF Nth
<1>2. ASSUME NEW i \in S PROVE Rank(S, i) \in 1..Cardinality(S) /\ Nth(S, Rank(S, i)) = i
  <2>1. Rank(S, i) \in 1..Cardinality(S)
    BY Ranks
  <2>2. Nth(S, Rank(S, i)) \in S /\ Rank(S, Nth(S, Rank(S, i))) = Rank(S, i)
    BY <1>1, <2>1
  <2>3. QED
    BY <2>1, <2>2, Ranks
<1>3. Cardinality(S) \in Nat
  BY FS_CardinalityType
<1>4. QED
  BY <1>1, <1>2, <1>3

\* The sums of the parts of a set add up to the sum over the set.
LEMMA SumOfParts ==
  ASSUME NEW S, IsFiniteSet(S), NEW F \in [S -> Int], NEW H, IsFiniteSet(H), NEW c \in [S -> H],
         NEW E \in [H -> Int], \A h \in H : E[h] = SumFunctionOnSet(F, {x \in S : c[x] = h})
  PROVE  SumFunctionOnSet(E, H) = SumFunctionOnSet(F, S)
<1> DEFINE Over(s) == {x \in S : c[x] \in s}
           G == {s \in SUBSET H : SumFunctionOnSet(E, s) = SumFunctionOnSet(F, Over(s))}
<1>1. ASSUME NEW s \in SUBSET H, \A h \in s : s \ {h} \in G PROVE s \in G
  <2>1. CASE s = {}
    <3>1. Over(s) = {}
      BY <2>1
    <3>2. SumFunctionOnSet(E, {}) = 0 /\ SumFunctionOnSet(F, {}) = 0
      BY SumBasics
    <3>3. SumFunctionOnSet(E, s) = SumFunctionOnSet(F, Over(s))
      <4> HIDE DEF Over
      <4> QED
        BY <2>1, <3>1, <3>2, Zenon
    <3>4. QED
      BY <3>3
  <2>2. CASE s # {}
    <3>1. PICK h \in s : TRUE
      BY <2>2
    <3> DEFINE A == {x \in S : c[x] = h}
               B == Over(s \ {h})
    <3>2. A \in SUBSET S /\ B \in SUBSET S /\ A \cap B = {} /\ Over(s) = A \cup B
      BY <3>1
    <3>3. SumFunctionOnSet(E, s) = E[h] + SumFunctionOnSet(E, s \ {h})
      BY <3>1, SumRemove
    <3>4. SumFunctionOnSet(E, s \ {h}) = SumFunctionOnSet(F, B)
      BY <1>1
    <3>5. E[h] = SumFunctionOnSet(F, A)
      BY <3>1
    <3> HIDE DEF A, B, Over
    <3>6. SumFunctionOnSet(F, A \cup B) = SumFunctionOnSet(F, A) + SumFunctionOnSet(F, B)
      BY <3>2, SumUnion
    <3>7. SumFunctionOnSet(F, Over(s)) = SumFunctionOnSet(F, A \cup B)
      BY <3>2, Zenon
    <3>8. SumFunctionOnSet(E, s) = SumFunctionOnSet(F, Over(s))
      BY <3>3, <3>4, <3>5, <3>6, <3>7
    <3>9. QED
      BY <3>8
  <2>3. QED
    BY <2>1, <2>2
<1>2. H \in G
  <2> SUFFICES ASSUME H \notin G PROVE FALSE
    OBVIOUS
  <2> HIDE DEF G
  <2>1. H \in SUBSET H
    OBVIOUS
  <2>2. PICK s \in SUBSET H : s \notin G /\ \A h \in s : s \ {h} \in G
    BY <2>1, SmallestBad
  <2>3. QED
    BY <1>1, <2>2
<1>3. Over(H) = S
  OBVIOUS
<1>4. SumFunctionOnSet(E, H) = SumFunctionOnSet(F, Over(H))
  BY <1>2
<1> HIDE DEF Over
<1>5. QED
  BY <1>3, <1>4, Zenon

\* Of two sums over the same set the one of the larger summands is larger.
LEMMA SumAtMost ==
  ASSUME NEW S, IsFiniteSet(S), NEW F \in [S -> Nat], NEW H \in [S -> Nat], \A x \in S : F[x] <= H[x]
  PROVE  SumFunctionOnSet(F, S) <= SumFunctionOnSet(H, S)
<1> DEFINE G == {s \in SUBSET S : SumFunctionOnSet(F, s) <= SumFunctionOnSet(H, s)}
<1>0. F \in [S -> Int] /\ H \in [S -> Int]
  OBVIOUS
<1>1. ASSUME NEW s \in SUBSET S, \A y \in s : s \ {y} \in G PROVE s \in G
  <2>1. CASE s = {}
    <3>1. SumFunctionOnSet(F, s) = 0 /\ SumFunctionOnSet(H, s) = 0
      BY <1>0, <2>1, SumBasics
    <3>2. QED
      BY <3>1
  <2>2. CASE s # {}
    <3>1. PICK y \in s : s \ {y} \in G
      BY <1>1, <2>2
    <3>2. s \ {y} \in SUBSET S /\ y \in S
      OBVIOUS
    <3>3. /\ SumFunctionOnSet(F, s) = F[y] + SumFunctionOnSet(F, s \ {y})
          /\ SumFunctionOnSet(H, s) = H[y] + SumFunctionOnSet(H, s \ {y})
      <4> HIDE DEF G
      <4> QED
        BY <1>0, SumRemove
    <3>4. SumFunctionOnSet(F, s \ {y}) \in Int /\ SumFunctionOnSet(H, s \ {y}) \in Int
      <4> HIDE DEF G
      <4> QED
        BY <1>0, <3>2, SumBasics
    <3>5. F[y] \in Int /\ H[y] \in Int /\ F[y] <= H[y]
      BY <3>2
    <3>6. SumFunctionOnSet(F, s \ {y}) <= SumFunctionOnSet(H, s \ {y})
      BY <3>1
    <3>7. SumFunctionOnSet(F, s) <= SumFunctionOnSet(H, s)
      <4> HIDE DEF G
      <4> QED
        BY <3>3, <3>4, <3>5, <3>6
    <3>8. QED
      BY <3>7
  <2>3. QED
    BY <2>1, <2>2
<1>2. S \in G
  <2> HIDE DEF G
  <2> SUFFICES ASSUME S \notin G PROVE FALSE
    OBVIOUS
  <2>1. S \in SUBSET S
    OBVIOUS
  <2>2. PICK s \in SUBSET S : s \notin G /\ \A y \in s : s \ {y} \in G
    BY <2>1, SmallestBad
  <2>3. QED
    BY <1>1, <2>2
<1>3. QED
  BY <1>2

\* If one summand grows by d and no other grows, the sum grows by d at most.
LEMMA SumGrows ==
  ASSUME NEW S, IsFiniteSet(S), NEW F \in [S -> Nat], NEW H \in [S -> Nat], NEW a \in S, NEW d \in Int,
         \A x \in S \ {a} : F[x] <= H[x], F[a] <= H[a] + d
  PROVE  SumFunctionOnSet(F, S) <= SumFunctionOnSet(H, S) + d
<1> DEFINE T == S \ {a}
           f == [x \in T |-> F[x]]
           h == [x \in T |-> H[x]]
<1>1. IsFiniteSet(T) /\ T \in SUBSET S /\ T \in SUBSET T
  BY FS_Subset
<1>2. F \in [S -> Int] /\ H \in [S -> Int] /\ f \in [T -> Nat] /\ h \in [T -> Nat] /\ f \in [T -> Int] /\ h \in [T -> Int]
  OBVIOUS
<1>3. /\ SumFunctionOnSet(F, S) = F[a] + SumFunctionOnSet(F, T)
      /\ SumFunctionOnSet(H, S) = H[a] + SumFunctionOnSet(H, T)
  <2>1. S \in SUBSET S
    OBVIOUS
  <2>2. QED
    BY <1>2, <2>1, SumRemove
<1>4. SumFunctionOnSet(F, T) = SumFunctionOnSet(f, T) /\ SumFunctionOnSet(H, T) = SumFunctionOnSet(h, T)
  <2>1. (\A x \in T : F[x] = f[x]) /\ (\A x \in T : H[x] = h[x])
    OBVIOUS
  <2> HIDE DEF T, f, h
  <2>2. QED
    BY <1>1, <1>2, <2>1, SumAgree
<1>5. SumFunctionOnSet(f, T) <= SumFunctionOnSet(h, T)
  <2>1. \A x \in T : f[x] <= h[x]
    OBVIOUS
  <2> HIDE DEF T, f, h
  <2>2. QED
    BY <1>1, <1>2, <2>1, SumAtMost
<1>6. SumFunctionOnSet(F, T) \in Int /\ SumFunctionOnSet(H, T) \in Int
  <2> HIDE DEF T
  <2> QED
    BY <1>1, <1>2, SumBasics
<1>7. F[a] \in Int /\ H[a] \in Int
  OBVIOUS
<1> HIDE DEF T, f, h
<1>8. QED
  BY <1>3, <1>4, <1>5, <1>6, <1>7

-----------------------------------------------------------------------------
(* Steps and turns. *)

\* What holds at 0, and of each number if it holds of the one before, holds up to n.
LEMMA StepByStep ==
  ASSUME NEW n \in Nat, NEW G, 0 \in G, \A i \in 1..n : i - 1 \in G => i \in G
  PROVE  \A i \in 0..n : i \in G
<1> DEFINE B == {i \in 0..n : i \notin G}
<1> SUFFICES ASSUME B # {} PROVE FALSE
  OBVIOUS
<1>1. PICK m \in B : \A i \in B : m <= i
  <2>1. B \in SUBSET Nat
    OBVIOUS
  <2> HIDE DEF B
  <2>2. QED
    BY <2>1, LeastNatural
<1>2. m \in 1..n /\ m - 1 \in 0..n /\ m \notin G
  BY <1>1
<1>3. m - 1 \in B
  BY <1>2
<1>4. QED
  BY <1>1, <1>2, <1>3

\* A function on 0..n may be defined step by step.
Iterates(g, b, h, n) == g[0] = b /\ \A i \in 1..n : g[i] = h[i][g[i - 1]]

LEMMA IterationExists ==
  ASSUME NEW n \in Nat, NEW A, NEW b \in A, NEW h \in [1..n -> [A -> A]]
  PROVE  \E g \in [0..n -> A] : Iterates(g, b, h, n)
<1> DEFINE Good(m) == \E g \in [0..m -> A] : \A i \in 0..m : g[i] = IF i = 0 THEN b ELSE h[i][g[i - 1]]
           G == {m \in 0..n : Good(m)}
<1>1. Good(0)
  <2> DEFINE g == [i \in 0..0 |-> b]
  <2>1. g \in [0..0 -> A] /\ \A i \in 0..0 : g[i] = b /\ i = 0
    OBVIOUS
  <2> HIDE DEF g
  <2>2. QED
    BY <2>1
<1>2. ASSUME NEW m \in 1..n, Good(m - 1) PROVE Good(m)
  <2>1. PICK g \in [0..m - 1 -> A] : \A i \in 0..m - 1 : g[i] = IF i = 0 THEN b ELSE h[i][g[i - 1]]
    BY <1>2
  <2> DEFINE f == [i \in 0..m |-> IF i = m THEN h[m][g[m - 1]] ELSE g[i]]
  <2>2. h[m] \in [A -> A] /\ g[m - 1] \in A
    BY <2>1
  <2>3. f \in [0..m -> A]
    BY <2>1, <2>2
  <2>4. ASSUME NEW i \in 0..m PROVE f[i] = IF i = 0 THEN b ELSE h[i][f[i - 1]]
    <3>1. CASE i = m
      BY <3>1
    <3>2. CASE i # m
      <4>1. i \in 0..m - 1 /\ (i # 0 => i - 1 \in 0..m - 1)
        BY <3>2
      <4>2. f[i] = g[i] /\ (i # 0 => f[i - 1] = g[i - 1])
        BY <3>2, <4>1
      <4>3. QED
        BY <2>1, <4>1, <4>2
    <3>3. QED
      BY <3>1, <3>2
  <2> HIDE DEF f
  <2>5. QED
    BY <2>3, <2>4
<1>3. Good(n)
  <2> HIDE DEF Good
  <2>1. 0 \in G /\ \A m \in 1..n : m - 1 \in G => m \in G
    BY <1>1, <1>2
  <2>2. n \in G
    <3> HIDE DEF G
    <3>1. \A i \in 0..n : i \in G
      BY <2>1, StepByStep
    <3>2. QED
      BY <3>1
  <2>3. QED
    BY <2>2
<1>4. PICK g \in [0..n -> A] : \A i \in 0..n : g[i] = IF i = 0 THEN b ELSE h[i][g[i - 1]]
  BY <1>3
<1>5. Iterates(g, b, h, n)
  BY <1>4 DEF Iterates
<1>6. QED
  BY <1>5

\* Only the summand at one place changes.
LEMMA SumChanged ==
  ASSUME NEW S, IsFiniteSet(S), NEW F \in [S -> Int], NEW H \in [S -> Int], NEW a \in S,
         \A x \in S \ {a} : F[x] = H[x]
  PROVE  SumFunctionOnSet(H, S) = SumFunctionOnSet(F, S) + (H[a] - F[a])
<1>1. S \in SUBSET S /\ S \ {a} \in SUBSET S
  OBVIOUS
<1>2. /\ SumFunctionOnSet(F, S) = F[a] + SumFunctionOnSet(F, S \ {a})
      /\ SumFunctionOnSet(H, S) = H[a] + SumFunctionOnSet(H, S \ {a})
  BY <1>1, SumRemove
<1>3. SumFunctionOnSet(F, S \ {a}) = SumFunctionOnSet(H, S \ {a})
  BY <1>1, SumAgree
<1>4. SumFunctionOnSet(F, S \ {a}) \in Int /\ F[a] \in Int /\ H[a] \in Int
  BY <1>1, SumBasics
<1>5. QED
  BY <1>2, <1>3, <1>4

\* The difference of two counts as a counter modulo c gives it, whole turns apart.
LEMMA WrappedDifference ==
  ASSUME NEW t \in Nat, NEW d \in Nat, t <= d, NEW c \in Nat \ {0}
  PROVE  /\ ((d % c) - (t % c)) % c = (d - t) - c * ((d - t) \div c)
         /\ ((d % c) - (t % c)) % c = 0 => d % c = t % c
<1> DEFINE qd == d \div c
           qt == t \div c
           qa == (d - t) \div c
           rd == d % c
           rt == t % c
           ra == (d - t) % c
           x == (rd - rt) % c
<1>1. /\ qd \in Nat /\ qt \in Nat /\ qa \in Nat /\ d - t \in Nat
      /\ d = qd * c + rd /\ t = qt * c + rt /\ d - t = qa * c + ra
  BY Quotient
<1>2. rd \in 0..c - 1 /\ rt \in 0..c - 1 /\ ra \in 0..c - 1
  OBVIOUS
<1>3. x = IF rd >= rt THEN rd - rt ELSE rd - rt + c
  <2>1. \A y \in 0..c - 1 : y % c = y
    OBVIOUS
  <2>2. \A y \in 1..c - 1 : (y - c) % c = y
    OBVIOUS
  <2> HIDE DEF rd, rt
  <2>3. CASE rd >= rt
    BY <1>2, <2>1, <2>3
  <2>4. CASE rd < rt
    <3>1. rd - rt + c \in 1..c - 1 /\ (rd - rt + c) - c = rd - rt
      BY <1>2, <2>4
    <3>2. QED
      BY <1>2, <2>2, <2>4, <3>1
  <2>5. QED
    BY <1>2, <2>3, <2>4
<1>4. x \in 0..c - 1 /\ (x = 0 => rd = rt)
  <2> HIDE DEF rd, rt, x
  <2> QED
    BY <1>2, <1>3
<1>5. \E k \in Int : d - t = k * c + x
  <2>1. d - t = (qd - qt) * c + (rd - rt)
    <3> HIDE DEF qd, qt, rd, rt
    <3>1. (qd - qt) * c = qd * c - qt * c
      BY <1>1
    <3>2. qd * c \in Int /\ qt * c \in Int
      BY <1>1
    <3>3. QED
      BY <1>1, <1>2, <3>1, <3>2
  <2> DEFINE j == qd - qt
             k == j - 1
  <2>j. j \in Int /\ k \in Int /\ d - t = j * c + (rd - rt) /\ k * c = j * c - c /\ j * c \in Int
    <3>1. j \in Int /\ d - t = j * c + (rd - rt)
      BY <1>1, <2>1
    <3> HIDE DEF j
    <3>2. QED
      BY <3>1
  <2> HIDE DEF qd, qt, rd, rt, x, j, k
  <2>2. CASE rd >= rt
    <3>1. d - t = j * c + x
      BY <1>3, <2>j, <2>2
    <3>2. QED
      BY <2>j, <3>1
  <2>3. CASE rd < rt
    <3>2. d - t = k * c + x
      BY <1>2, <1>3, <2>j, <2>3
    <3>3. QED
      BY <2>j, <3>2
  <2>4. QED
    BY <1>2, <2>2, <2>3
<1>6. x = ra
  <2>1. PICK k \in Int : d - t = k * c + x
    BY <1>5
  <2> HIDE DEF qd, qt, qa, rd, rt, ra, x
  <2>2. (k - qa) * c = ra - x
    <3>1. (k - qa) * c = k * c - qa * c /\ k * c \in Int /\ qa * c \in Int
      BY <1>1
    <3>2. QED
      BY <1>1, <1>2, <1>4, <2>1, <3>1
  <2>3. \A z \in Int : z * c < c /\ 0 - c < z * c => z = 0
    <3> SUFFICES ASSUME NEW z \in Int, z * c < c, 0 - c < z * c, z # 0 PROVE FALSE
      OBVIOUS
    <3>1. CASE z >= 1
      <4>1. z * c >= 1 * c
        BY <3>1
      <4>2. QED
        BY <4>1
    <3>2. CASE z <= 0 - 1
      <4>1. (0 - z) * c >= 1 * c /\ (0 - z) * c = 0 - z * c
        BY <3>2
      <4>2. QED
        BY <4>1
    <3>3. QED
      BY <3>1, <3>2
  <2>4. k - qa = 0
    <3>1. k - qa \in Int /\ (k - qa) * c < c /\ 0 - c < (k - qa) * c
      BY <1>1, <1>2, <1>4, <2>2
    <3>2. QED
      BY <2>3, <3>1
  <2>5. 0 * c = ra - x
    BY <2>2, <2>4
  <2>6. QED
    BY <1>2, <1>4, <2>5
<1>7. c * qa = qa * c /\ qa * c \in Int
  <2> HIDE DEF qa
  <2> QED
    BY <1>1
<1>8. QED
  <2>1. x = (d - t) - c * qa
    <3> HIDE DEF qa, ra, x
    <3> QED
      BY <1>1, <1>2, <1>6, <1>7
  <2>2. QED
    BY <1>4, <2>1
=============================================================================
