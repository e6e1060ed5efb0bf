----------------------------- MODULE SumTheorems -----------------------------
(***************************************************************************)
(* Sums over finite sets.  MapThenSumSet takes elements out of the set one *)
(* by one in an order that CHOOSE picks; the lemmas say of its value what  *)
(* the proofs about stock, tills and card payments use: it is a number, an *)
(* element can be split off, and it grows with its terms.                  *)
(***************************************************************************)
EXTENDS Integers, FiniteSetsExt, FiniteSetTheorems, NaturalsInduction, TLAPS

\* The sum of v over S.
SumOn(v, S) == MapThenSumSet(LAMBDA x : v[x], S)

\* The element the sum takes out of s next.
Pick(s) == CHOOSE x \in s : TRUE

\* sum is, for every subset of S in Q, the sum of v over it.
SumsUp(sum, v, Q) ==
    \A s \in Q : sum[s] = IF s = {} THEN 0 ELSE v[Pick(s)] + sum[s \ {Pick(s)}]

\* The sums of v over the subsets of S.
Sums(v, S) ==
    CHOOSE sum : sum = [s \in SUBSET S |-> IF s = {} THEN 0 ELSE v[Pick(s)] + sum[s \ {Pick(s)}]]

LEMMA SumOnIsLast ==
    ASSUME NEW v, NEW S
    PROVE  SumOn(v, S) = Sums(v, S)[S]
BY Zenon DEF SumOn, MapThenSumSet, MapThenFoldSet, Sums, Pick

\* A set of numbers that has 0 and with every number the next has them all.
LEMMA Climb ==
    ASSUME NEW P, 0 \in P, \A n \in Nat : n \in P => n + 1 \in P
    PROVE  Nat \subseteq P
<1> DEFINE B == Nat \ P
           R == OpToRel(<, Nat)
<1>1. \A x, y \in Nat : <<x, y>> \in OpToRel(<, Nat) <=> x < y
  BY Z3 DEF OpToRel
<1>2. IsWellFoundedOn(R, Nat)
  BY NatLessThanWellFounded
<1>3. \A x, y \in Nat : <<x, y>> \in R <=> x < y
  BY <1>1
<1>4. B \subseteq Nat
  OBVIOUS
<1> HIDE DEF R
<1>5. ASSUME B # {}
      PROVE  FALSE
  <2>1. PICK n \in B : \A m \in B : ~ (m < n)
    <3> HIDE DEF B
    <3>1. \E n \in B : \A m \in B : ~ (<<m, n>> \in R)
      BY <1>2, <1>4, <1>5, WFMin
    <3> QED
      BY <1>3, <1>4, <3>1, Zenon
  <2>2. n \in Nat /\ n # 0 /\ n - 1 \in Nat
    BY <2>1
  <2>3. n - 1 \notin B
    BY <2>1, <2>2
  <2>4. n - 1 + 1 = n
    BY <2>2
  <2> QED
    BY <2>1, <2>2, <2>3, <2>4
<1> QED
  BY <1>5

\* Taking an element out of a finite set leaves one with an element less.
LEMMA OneLess ==
    ASSUME NEW S, IsFiniteSet(S), NEW s \in SUBSET S, s # {}
    PROVE  /\ Pick(s) \in s /\ s \ {Pick(s)} \in SUBSET S
           /\ Cardinality(s) \in Nat \ {0}
           /\ Cardinality(s \ {Pick(s)}) = Cardinality(s) - 1
<1>1. Pick(s) \in s
  BY DEF Pick
<1>2. IsFiniteSet(s)
  BY FS_Subset
<1>3. Cardinality(s) \in Nat /\ Cardinality(s) # 0
  BY <1>1, <1>2, FS_CardinalityType, FS_EmptySet
<1>4. Cardinality(s \ {Pick(s)}) = Cardinality(s) - 1
  BY <1>1, <1>2, FS_RemoveElement
<1> QED
  BY <1>1, <1>3, <1>4

\* What holds of the empty set, and of a set when it holds of it less an
\* element, holds of every subset of a finite set.
LEMMA TakeOut ==
    ASSUME NEW S, IsFiniteSet(S), NEW P, {} \in P,
           \A s \in SUBSET S : s # {} /\ s \ {Pick(s)} \in P => s \in P
    PROVE  SUBSET S \subseteq P
<1> DEFINE N == {n \in Nat : \A s \in SUBSET S : Cardinality(s) = n => s \in P}
<1>1. 0 \in N
  <2>1. ASSUME NEW s \in SUBSET S, Cardinality(s) = 0
        PROVE  s \in P
    <3>1. s = {}
      BY <2>1, OneLess
    <3> QED
      BY <3>1
  <2> QED
    BY <2>1
<1>2. ASSUME NEW n \in Nat, n \in N
      PROVE  n + 1 \in N
  <2>1. ASSUME NEW s \in SUBSET S, Cardinality(s) = n + 1
        PROVE  s \in P
    <3>1. CASE s = {}
      BY <3>1
    <3>2. CASE s # {}
      <4>1. s \ {Pick(s)} \in SUBSET S /\ Cardinality(s \ {Pick(s)}) = Cardinality(s) - 1
        BY <3>2, OneLess
      <4>2. Cardinality(s \ {Pick(s)}) = n
        BY <2>1, <4>1
      <4>3. s \ {Pick(s)} \in P
        BY <1>2, <4>1, <4>2
      <4> QED
        BY <3>2, <4>3
    <3> QED
      BY <3>1, <3>2
  <2>2. n + 1 \in Nat
    OBVIOUS
  <2> QED
    BY <2>1, <2>2
<1>3. Nat \subseteq N
  <2> HIDE DEF N
  <2> QED
    BY <1>1, <1>2, Climb
<1>4. ASSUME NEW s \in SUBSET S
      PROVE  s \in P
  <2>1. Cardinality(s) \in Nat
    BY FS_Subset, FS_CardinalityType
  <2> QED
    BY <1>3, <2>1
<1> QED
  BY <1>4

\* The sums over the subsets of at most n elements exist.
LEMMA SumsUpTo ==
    ASSUME NEW S, IsFiniteSet(S), NEW v,
           NEW n \in Nat
    PROVE  \E sum : SumsUp(sum, v, {s \in SUBSET S : Cardinality(s) <= n})
<1> DEFINE Q(m) == {s \in SUBSET S : Cardinality(s) <= m}
           N == {m \in Nat : \E sum : SumsUp(sum, v, Q(m))}
<1>1. 0 \in N
  <2>1. \A s \in Q(0) : s = {}
    <3> SUFFICES ASSUME NEW s \in Q(0), s # {}
                 PROVE  FALSE
      OBVIOUS
    <3>1. s \in SUBSET S /\ Cardinality(s) <= 0
      OBVIOUS
    <3>2. Cardinality(s) \in Nat \ {0}
      BY <3>1, OneLess
    <3> QED
      BY <3>1, <3>2
  <2>2. SumsUp([s \in Q(0) |-> 0], v, Q(0))
    BY <2>1 DEF SumsUp
  <2> QED
    BY <2>2
<1>2. ASSUME NEW m \in Nat, m \in N
      PROVE  m + 1 \in N
  <2>1. PICK f : SumsUp(f, v, Q(m))
    BY <1>2
  <2> DEFINE g == [s \in Q(m + 1) |-> IF s = {} THEN 0 ELSE v[Pick(s)] + f[s \ {Pick(s)}]]
  <2>2. ASSUME NEW s \in Q(m + 1), s # {}
        PROVE  s \ {Pick(s)} \in Q(m) /\ s \ {Pick(s)} \in Q(m + 1)
    <3>1. s \ {Pick(s)} \in SUBSET S /\ Cardinality(s) \in Nat /\ Cardinality(s \ {Pick(s)}) = Cardinality(s) - 1
      BY <2>2, OneLess
    <3>2. Cardinality(s) <= m + 1
      OBVIOUS
    <3>3. Cardinality(s \ {Pick(s)}) <= m /\ Cardinality(s \ {Pick(s)}) <= m + 1
      BY <3>1, <3>2
    <3> QED
      BY <3>1, <3>3
  <2>3. \A s \in Q(m) : s \in Q(m + 1) => g[s] = f[s]
    <3> SUFFICES ASSUME NEW s \in Q(m), s \in Q(m + 1)
                 PROVE  g[s] = f[s]
      OBVIOUS
    <3> HIDE DEF Q
    <3>1. f[s] = IF s = {} THEN 0 ELSE v[Pick(s)] + f[s \ {Pick(s)}]
      BY <2>1 DEF SumsUp
    <3> QED
      BY <3>1
  <2>4. SumsUp(g, v, Q(m + 1))
    <3> SUFFICES ASSUME NEW s \in Q(m + 1)
                 PROVE  g[s] = IF s = {} THEN 0 ELSE v[Pick(s)] + g[s \ {Pick(s)}]
      BY DEF SumsUp
    <3> HIDE DEF Q
    <3>1. g[s] = IF s = {} THEN 0 ELSE v[Pick(s)] + f[s \ {Pick(s)}]
      OBVIOUS
    <3> HIDE DEF g
    <3>2. CASE s = {}
      BY <3>1, <3>2
    <3>3. CASE s # {}
      <4>1. g[s \ {Pick(s)}] = f[s \ {Pick(s)}]
        BY <2>2, <2>3, <3>3
      <4> QED
        BY <3>1, <3>3, <4>1
    <3> QED
      BY <3>2, <3>3
  <2>5. m + 1 \in Nat
    OBVIOUS
  <2> QED
    BY <2>4, <2>5
<1>3. Nat \subseteq N
  <2> HIDE DEF N
  <2> QED
    BY <1>1, <1>2, Climb
<1> QED
  BY <1>3

\* The sums over all subsets exist, so Sums is what its definition says.
LEMMA SumsAre ==
    ASSUME NEW S, IsFiniteSet(S), NEW v
    PROVE  SumsUp(Sums(v, S), v, SUBSET S)
<1>1. Cardinality(S) \in Nat
  BY FS_CardinalityType
<1>2. \A s \in SUBSET S : Cardinality(s) <= Cardinality(S)
  BY FS_Subset
<1>3. {s \in SUBSET S : Cardinality(s) <= Cardinality(S)} = SUBSET S
  BY <1>2
<1>4. PICK f : SumsUp(f, v, SUBSET S)
  <2>1. \E f : SumsUp(f, v, {s \in SUBSET S : Cardinality(s) <= Cardinality(S)})
    BY <1>1, SumsUpTo
  <2> QED
    BY <1>3, <2>1
<1> DEFINE F(sum) == [s \in SUBSET S |-> IF s = {} THEN 0 ELSE v[Pick(s)] + sum[s \ {Pick(s)}]]
           g == F(f)
<1>5. \A s \in SUBSET S : g[s] = f[s]
  BY <1>4 DEF SumsUp
<1>6. \A s \in SUBSET S : s \ {Pick(s)} \in SUBSET S
  OBVIOUS
<1>7. F(g) = g
  <2>1. \A s \in SUBSET S : g[s \ {Pick(s)}] = f[s \ {Pick(s)}]
    BY <1>5, <1>6
  <2> HIDE DEF g
  <2>2. F(g) = F(f)
    BY <2>1
  <2> QED
    BY <2>2 DEF g
<1>8. Sums(v, S) = F(Sums(v, S))
  <2>1. \E sum : sum = F(sum)
    BY <1>7
  <2> QED
    BY <2>1, Zenon DEF Sums
<1> QED
  <2> DEFINE h == Sums(v, S)
  <2>1. h = F(h)
    BY <1>8
  <2> HIDE DEF h
  <2>2. SumsUp(h, v, SUBSET S)
    BY <2>1 DEF SumsUp
  <2> QED
    BY <2>2 DEF h

\* What is summed over a subset does not depend on the set it is a subset of.
LEMMA SumOfSubset ==
    ASSUME NEW S, IsFiniteSet(S), NEW v, NEW T \in SUBSET S
    PROVE  SumOn(v, T) = Sums(v, S)[T]
<1> DEFINE f == Sums(v, S)
           g == Sums(v, T)
           P == {s \in SUBSET T : g[s] = f[s]}
<1>1. IsFiniteSet(T)
  BY FS_Subset
<1>2. SumsUp(f, v, SUBSET S) /\ SumsUp(g, v, SUBSET T)
  BY <1>1, SumsAre
<1>3. \A s \in SUBSET T : s \in SUBSET S
  OBVIOUS
<1> HIDE DEF f, g
<1>4. {} \in P
  BY <1>2 DEF SumsUp
<1>5. ASSUME NEW s \in SUBSET T, s # {}, s \ {Pick(s)} \in P
      PROVE  s \in P
  <2>1. g[s] = v[Pick(s)] + g[s \ {Pick(s)}] /\ f[s] = v[Pick(s)] + f[s \ {Pick(s)}]
    BY <1>2, <1>3, <1>5 DEF SumsUp
  <2> QED
    BY <1>5, <2>1
<1>6. SUBSET T \subseteq P
  <2> HIDE DEF P
  <2> QED
    BY <1>1, <1>4, <1>5, TakeOut
<1>7. g[T] = f[T]
  BY <1>6
<1> QED
  BY <1>7, SumOnIsLast DEF f, g

\* The sum over nothing.
LEMMA SumOfNone ==
    ASSUME NEW v
    PROVE  SumOn(v, {}) = 0
<1>1. IsFiniteSet({})
  BY FS_EmptySet
<1> QED
  BY <1>1, SumsAre, SumOnIsLast DEF SumsUp

\* The sum takes the picked element first.
LEMMA SumTakes ==
    ASSUME NEW S, IsFiniteSet(S), NEW v, S # {}
    PROVE  SumOn(v, S) = v[Pick(S)] + SumOn(v, S \ {Pick(S)})
<1>1. SumsUp(Sums(v, S), v, SUBSET S)
  BY SumsAre
<1>2. S \in SUBSET S /\ S \ {Pick(S)} \in SUBSET S
  OBVIOUS
<1>3. SumOn(v, S) = Sums(v, S)[S] /\ SumOn(v, S \ {Pick(S)}) = Sums(v, S)[S \ {Pick(S)}]
  BY <1>2, SumOfSubset
<1> QED
  BY <1>1, <1>2, <1>3 DEF SumsUp

\* Sums of integers are integers.
LEMMA SumIsInt ==
    ASSUME NEW S, IsFiniteSet(S), NEW v, \A x \in S : v[x] \in Int
    PROVE  SumOn(v, S) \in Int
<1> DEFINE P == {s \in SUBSET S : SumOn(v, s) \in Int}
<1>1. {} \in P
  BY SumOfNone
<1>2. ASSUME NEW s \in SUBSET S, s # {}, s \ {Pick(s)} \in P
      PROVE  s \in P
  <2>1. IsFiniteSet(s) /\ Pick(s) \in s
    BY <1>2, FS_Subset DEF Pick
  <2>2. SumOn(v, s) = v[Pick(s)] + SumOn(v, s \ {Pick(s)})
    BY <1>2, <2>1, SumTakes
  <2>3. v[Pick(s)] \in Int /\ SumOn(v, s \ {Pick(s)}) \in Int
    BY <1>2, <2>1
  <2> QED
    BY <2>2, <2>3
<1>3. SUBSET S \subseteq P
  <2> HIDE DEF P
  <2> QED
    BY <1>1, <1>2, TakeOut
<1> QED
  BY <1>3

\* Any element can be taken out first.
LEMMA SumSplits ==
    ASSUME NEW S, IsFiniteSet(S), NEW v, \A y \in S : v[y] \in Int,
           NEW x \in S
    PROVE  SumOn(v, S) = v[x] + SumOn(v, S \ {x})
<1> DEFINE N == {n \in Nat : \A s \in SUBSET S : Cardinality(s) = n =>
                             \A y \in s : SumOn(v, s) = v[y] + SumOn(v, s \ {y})}
<1>1. 0 \in N
  <2>1. ASSUME NEW s \in SUBSET S, Cardinality(s) = 0
        PROVE  s = {}
    BY <2>1, OneLess
  <2> QED
    BY <2>1
<1>2. ASSUME NEW n \in Nat, n \in N
      PROVE  n + 1 \in N
  <2>1. ASSUME NEW s \in SUBSET S, Cardinality(s) = n + 1, NEW y \in s
        PROVE  SumOn(v, s) = v[y] + SumOn(v, s \ {y})
    <3> DEFINE p == Pick(s)
               t == s \ {p}
               u == s \ {y}
    <3>1. IsFiniteSet(s) /\ p \in s
      BY FS_Subset DEF Pick
    <3>2. SumOn(v, s) = v[p] + SumOn(v, t)
      BY <3>1, SumTakes
    <3> HIDE DEF p
    <3>3. CASE p = y
      BY <3>2, <3>3
    <3>4. CASE p # y
      <4>1. /\ t \in SUBSET S /\ u \in SUBSET S /\ y \in t /\ p \in u
            /\ t \ {y} = u \ {p}
        BY <3>1, <3>4
      <4>2. Cardinality(t) = n /\ Cardinality(u) = n
        <5>1. Cardinality(t) = Cardinality(s) - 1 /\ Cardinality(u) = Cardinality(s) - 1
          BY <3>1, FS_RemoveElement
        <5> QED
          BY <2>1, <5>1
      <4> DEFINE rest == SumOn(v, u \ {p})
      <4>3. SumOn(v, t) = v[y] + rest /\ SumOn(v, u) = v[p] + rest
        BY <1>2, <4>1, <4>2
      <4>4. v[p] \in Int /\ v[y] \in Int /\ rest \in Int
        <5>1. IsFiniteSet(u \ {p}) /\ u \ {p} \in SUBSET S
          BY <4>1, FS_Subset
        <5> QED
          BY <3>1, <5>1, SumIsInt
      <4> HIDE DEF t, u, rest
      <4>5. SumOn(v, s) = v[y] + SumOn(v, u)
        BY <3>2, <4>3, <4>4
      <4> QED
        BY <4>5 DEF u
    <3> QED
      BY <3>3, <3>4
  <2>2. n + 1 \in Nat
    OBVIOUS
  <2> QED
    BY <2>1, <2>2
<1>3. Nat \subseteq N
  <2> HIDE DEF N
  <2> QED
    BY <1>1, <1>2, Climb
<1>4. Cardinality(S) \in Nat /\ S \in SUBSET S
  BY FS_CardinalityType
<1> QED
  BY <1>3, <1>4

\* Where the terms agree the sums agree.
LEMMA SumOfSame ==
    ASSUME NEW S, IsFiniteSet(S), NEW f, NEW g, \A x \in S : f[x] = g[x]
    PROVE  SumOn(f, S) = SumOn(g, S)
<1> DEFINE P == {s \in SUBSET S : SumOn(f, s) = SumOn(g, s)}
<1>1. {} \in P
  BY SumOfNone
<1>2. ASSUME NEW s \in SUBSET S, s # {}, s \ {Pick(s)} \in P
      PROVE  s \in P
  <2>1. IsFiniteSet(s) /\ Pick(s) \in s
    BY <1>2, FS_Subset DEF Pick
  <2>2. /\ SumOn(f, s) = f[Pick(s)] + SumOn(f, s \ {Pick(s)})
        /\ SumOn(g, s) = g[Pick(s)] + SumOn(g, s \ {Pick(s)})
    BY <1>2, <2>1, SumTakes
  <2>3. f[Pick(s)] = g[Pick(s)] /\ SumOn(f, s \ {Pick(s)}) = SumOn(g, s \ {Pick(s)})
    BY <1>2, <2>1
  <2> QED
    BY <2>2, <2>3
<1>3. SUBSET S \subseteq P
  <2> HIDE DEF P
  <2> QED
    BY <1>1, <1>2, TakeOut
<1> QED
  BY <1>3

\* Terms that are zero can be left out.
LEMMA SumOfZeros ==
    ASSUME NEW S, IsFiniteSet(S), NEW v, \A x \in S : v[x] \in Int,
           NEW T \in SUBSET S, \A x \in S \ T : v[x] = 0
    PROVE  SumOn(v, S) = SumOn(v, T)
<1> DEFINE P == {s \in SUBSET S : SumOn(v, s) = SumOn(v, s \cap T)}
<1>1. {} \in P
  <2>1. {} \cap T = {}
    OBVIOUS
  <2> QED
    BY <2>1
<1>2. ASSUME NEW s \in SUBSET S, s # {}, s \ {Pick(s)} \in P
      PROVE  s \in P
  <2> DEFINE p == Pick(s)
             r == s \ {p}
  <2>1. IsFiniteSet(s) /\ p \in s /\ p \in S
    BY <1>2, FS_Subset DEF Pick
  <2>2. SumOn(v, s) = v[p] + SumOn(v, r)
    BY <1>2, <2>1, SumTakes
  <2>3. SumOn(v, r) = SumOn(v, r \cap T)
    BY <1>2
  <2> HIDE DEF p
  <2>4. IsFiniteSet(s \cap T) /\ IsFiniteSet(r \cap T)
    BY FS_Subset
  <2>5. SumOn(v, r \cap T) \in Int
    BY <2>4, SumIsInt
  <2>6. CASE p \in T
    <3>1. p \in s \cap T /\ (s \cap T) \ {p} = r \cap T
      BY <2>1, <2>6
    <3>2. \A x \in s \cap T : v[x] \in Int
      OBVIOUS
    <3>3. SumOn(v, s \cap T) = v[p] + SumOn(v, (s \cap T) \ {p})
      BY <2>4, <3>1, <3>2, SumSplits
    <3> QED
      BY <2>2, <2>3, <3>1, <3>3
  <2>7. CASE p \notin T
    <3>1. s \cap T = r \cap T /\ v[p] = 0
      BY <2>1, <2>7
    <3>2. SumOn(v, s) = SumOn(v, r \cap T)
      BY <2>2, <2>3, <2>5, <3>1
    <3> QED
      BY <3>1, <3>2
  <2> QED
    BY <2>6, <2>7
<1>3. SUBSET S \subseteq P
  <2> HIDE DEF P
  <2> QED
    BY <1>1, <1>2, TakeOut
<1>4. S \cap T = T /\ S \in SUBSET S
  OBVIOUS
<1> QED
  BY <1>3, <1>4

\* Larger terms have a larger sum.
LEMMA SumGrows ==
    ASSUME NEW S, IsFiniteSet(S), NEW f, NEW g,
           \A x \in S : f[x] \in Int /\ g[x] \in Int /\ f[x] <= g[x]
    PROVE  SumOn(f, S) <= SumOn(g, S)
<1> DEFINE P == {s \in SUBSET S : SumOn(f, s) <= SumOn(g, s)}
<1>1. {} \in P
  BY SumOfNone
<1>2. ASSUME NEW s \in SUBSET S, s # {}, s \ {Pick(s)} \in P
      PROVE  s \in P
  <2> DEFINE p == Pick(s)
             r == s \ {p}
  <2>1. IsFiniteSet(s) /\ IsFiniteSet(r) /\ p \in s
    BY <1>2, FS_Subset DEF Pick
  <2>2. SumOn(f, s) = f[p] + SumOn(f, r) /\ SumOn(g, s) = g[p] + SumOn(g, r)
    BY <1>2, <2>1, SumTakes
  <2>3. SumOn(f, r) <= SumOn(g, r)
    BY <1>2
  <2>4. f[p] \in Int /\ g[p] \in Int /\ f[p] <= g[p]
    BY <2>1
  <2>5. SumOn(f, r) \in Int /\ SumOn(g, r) \in Int
    BY <2>1, SumIsInt
  <2> HIDE DEF p, r
  <2> QED
    BY <2>2, <2>3, <2>4, <2>5
<1>3. SUBSET S \subseteq P
  <2> HIDE DEF P
  <2> QED
    BY <1>1, <1>2, TakeOut
<1> QED
  BY <1>3

\* When one term changes, the sum changes by as much.
LEMMA SumMoves ==
    ASSUME NEW S, IsFiniteSet(S), NEW f, NEW g, NEW x \in S,
           \A y \in S : f[y] \in Int /\ g[y] \in Int,
           \A y \in S \ {x} : f[y] = g[y]
    PROVE  /\ SumOn(f, S) \in Int /\ SumOn(g, S) \in Int
           /\ SumOn(g, S) = SumOn(f, S) + (g[x] - f[x])
<1> DEFINE rest == SumOn(f, S \ {x})
<1>1. IsFiniteSet(S \ {x})
  BY FS_Subset
<1>2. SumOn(g, S \ {x}) = rest
  BY <1>1, SumOfSame
<1>3. SumOn(f, S) = f[x] + rest /\ SumOn(g, S) = g[x] + SumOn(g, S \ {x})
  BY SumSplits
<1>4. rest \in Int /\ SumOn(f, S) \in Int /\ SumOn(g, S) \in Int
  BY <1>1, SumIsInt
<1>5. f[x] \in Int /\ g[x] \in Int
  OBVIOUS
<1> HIDE DEF rest
<1> QED
  BY <1>2, <1>3, <1>4, <1>5

\* The sum over two sets that share nothing is the sum of their sums.
LEMMA SumOfUnion ==
    ASSUME NEW S, IsFiniteSet(S), NEW T, IsFiniteSet(T), S \cap T = {},
           NEW v, \A x \in S \cup T : v[x] \in Int
    PROVE  SumOn(v, S \cup T) = SumOn(v, S) + SumOn(v, T)
<1> DEFINE P == {t \in SUBSET T : SumOn(v, S \cup t) = SumOn(v, S) + SumOn(v, t)}
<1>1. {} \in P
  <2>1. SumOn(v, S) \in Int
    BY SumIsInt
  <2>2. S \cup {} = S
    OBVIOUS
  <2> QED
    BY <2>1, <2>2, SumOfNone
<1>2. ASSUME NEW t \in SUBSET T, t # {}, t \ {Pick(t)} \in P
      PROVE  t \in P
  <2> DEFINE p == Pick(t)
             r == t \ {p}
  <2>1. IsFiniteSet(t) /\ IsFiniteSet(r) /\ p \in t /\ IsFiniteSet(S \cup t)
    <3>1. IsFiniteSet(t) /\ IsFiniteSet(r) /\ p \in t
      BY <1>2, FS_Subset DEF Pick
    <3> QED
      BY <3>1, FS_Union
  <2>2. SumOn(v, t) = v[p] + SumOn(v, r)
    BY <1>2, <2>1, SumTakes
  <2>3. SumOn(v, S \cup r) = SumOn(v, S) + SumOn(v, r)
    BY <1>2
  <2> HIDE DEF p
  <2>4. (S \cup t) \ {p} = S \cup r /\ p \in S \cup t
    BY <2>1
  <2>5. \A x \in S \cup t : v[x] \in Int
    OBVIOUS
  <2>6. SumOn(v, S \cup t) = v[p] + SumOn(v, (S \cup t) \ {p})
    BY <2>1, <2>4, <2>5, SumSplits
  <2>7. v[p] \in Int /\ SumOn(v, S) \in Int /\ SumOn(v, r) \in Int
    <3>1. \A x \in S : v[x] \in Int
      OBVIOUS
    <3>2. \A x \in r : v[x] \in Int
      OBVIOUS
    <3> HIDE DEF r
    <3> QED
      BY <2>1, <2>4, <2>5, <3>1, <3>2, SumIsInt
  <2> HIDE DEF r
  <2>8. SumOn(v, S \cup t) = SumOn(v, S) + SumOn(v, t)
    <3>1. SumOn(v, S \cup t) = v[p] + SumOn(v, S \cup r)
      BY <2>4, <2>6
    <3> QED
      BY <2>2, <2>3, <2>7, <3>1
  <2> QED
    BY <2>8
<1>3. SUBSET T \subseteq P
  <2> HIDE DEF P
  <2> QED
    BY <1>1, <1>2, TakeOut
<1> QED
  BY <1>3

\* The sum of differences is the difference of the sums.
LEMMA SumOfDifferences ==
    ASSUME NEW S, IsFiniteSet(S), NEW f, NEW g, NEW d,
           \A x \in S : f[x] \in Int /\ g[x] \in Int /\ d[x] = f[x] - g[x]
    PROVE  SumOn(d, S) = SumOn(f, S) - SumOn(g, S)
<1> DEFINE P == {s \in SUBSET S : SumOn(d, s) = SumOn(f, s) - SumOn(g, s)}
<1>1. {} \in P
  BY SumOfNone
<1>2. ASSUME NEW s \in SUBSET S, s # {}, s \ {Pick(s)} \in P
      PROVE  s \in P
  <2> DEFINE p == Pick(s)
             r == s \ {p}
  <2>1. IsFiniteSet(s) /\ IsFiniteSet(r) /\ p \in s
    BY <1>2, FS_Subset DEF Pick
  <2>2. SumOn(f, s) = f[p] + SumOn(f, r) /\ SumOn(g, s) = g[p] + SumOn(g, r) /\ SumOn(d, s) = d[p] + SumOn(d, r)
    BY <1>2, <2>1, SumTakes
  <2>3. SumOn(d, r) = SumOn(f, r) - SumOn(g, r)
    BY <1>2
  <2>4. f[p] \in Int /\ g[p] \in Int /\ d[p] = f[p] - g[p]
    BY <2>1
  <2>5. SumOn(f, r) \in Int /\ SumOn(g, r) \in Int
    BY <2>1, SumIsInt
  <2> HIDE DEF p, r
  <2>6. SumOn(d, s) = SumOn(f, s) - SumOn(g, s)
    BY <2>2, <2>3, <2>4, <2>5
  <2> QED
    BY <2>6
<1>3. SUBSET S \subseteq P
  <2> HIDE DEF P
  <2> QED
    BY <1>1, <1>2, TakeOut
<1> QED
  BY <1>3

\* The sum over a set is the sum, over its parts, of their sums; `part` tells
\* the part an element is in.
LEMMA SumOfParts ==
    ASSUME NEW S, IsFiniteSet(S), NEW v, \A x \in S : v[x] \in Int,
           NEW A, IsFiniteSet(A), NEW part, \A x \in S : part[x] \in A,
           NEW Share, \A a \in A : Share[a] \subseteq S /\ \A x \in S : x \in Share[a] <=> part[x] = a,
           NEW of, \A a \in A : of[a] = SumOn(v, Share[a])
    PROVE  SumOn(of, A) = SumOn(v, S)
<1> DEFINE In(b) == {x \in S : part[x] \in b}
           P == {b \in SUBSET A : SumOn(of, b) = SumOn(v, In(b))}
<1>0. \A b : IsFiniteSet(In(b)) /\ \A x \in In(b) : v[x] \in Int
  BY FS_Subset
<1>1. {} \in P
  <2>1. In({}) = {}
    OBVIOUS
  <2> HIDE DEF In
  <2> QED
    BY <2>1, SumOfNone
<1>2. ASSUME NEW b \in SUBSET A, b # {}, b \ {Pick(b)} \in P
      PROVE  b \in P
  <2> DEFINE p == Pick(b)
             r == b \ {p}
             one == Share[p]
  <2>1. IsFiniteSet(b) /\ p \in b /\ p \in A
    BY <1>2, FS_Subset DEF Pick
  <2>2. of[p] = SumOn(v, one)
    BY <2>1
  <2>3. \A a \in A : of[a] \in Int
    <3> SUFFICES ASSUME NEW a \in A
                 PROVE  of[a] \in Int
      OBVIOUS
    <3> DEFINE T == Share[a]
    <3>1. IsFiniteSet(T) /\ \A x \in T : v[x] \in Int
      BY FS_Subset
    <3>2. of[a] = SumOn(v, T)
      OBVIOUS
    <3> HIDE DEF T
    <3> QED
      BY <3>1, <3>2, SumIsInt
  <2>4. \A a \in b : of[a] \in Int
    BY <2>3
  <2> HIDE DEF In
  <2>5. SumOn(of, r) = SumOn(v, In(r))
    BY <1>2
  <2>6. SumOn(of, b) = of[p] + SumOn(of, r)
    BY <1>2, <2>1, <2>4, SumTakes
  <2>7. In(b) = one \cup In(r) /\ one \cap In(r) = {} /\ IsFiniteSet(one)
    <3>1. In(b) = one \cup In(r) /\ one \cap In(r) = {}
      <4> HIDE DEF p
      <4> QED
        BY <2>1 DEF In
    <3>2. IsFiniteSet(one)
      BY <2>1, FS_Subset
    <3> QED
      BY <3>1, <3>2
  <2>8. \A x \in one \cup In(r) : v[x] \in Int
    BY <2>1 DEF In
  <2>9. IsFiniteSet(In(r)) /\ \A x \in one : v[x] \in Int
    BY <1>0, <2>8
  <2> HIDE DEF one, r
  <2>10. SumOn(v, In(b)) = SumOn(v, one) + SumOn(v, In(r))
    BY <2>7, <2>8, <2>9, SumOfUnion
  <2>11. SumOn(of, b) = SumOn(v, In(b))
    BY <2>2, <2>5, <2>6, <2>10
  <2> QED
    BY <2>11
<1>3. SUBSET A \subseteq P
  <2> HIDE DEF P
  <2> QED
    BY <1>1, <1>2, TakeOut
<1>4. SumOn(of, A) = SumOn(v, In(A)) /\ In(A) = S
  BY <1>3
<1> QED
  BY <1>4
=============================================================================
