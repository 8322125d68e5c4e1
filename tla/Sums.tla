-------------------------------- MODULE Sums --------------------------------
(***************************************************************************)
(* Facts about SumFunction of the community module Functions, for the      *)
(* proofs about ledgers whose totals are sums over their holders, batches, *)
(* customers or positions.                                                 *)
(*                                                                         *)
(* A sum is computed index by index in an order nobody knows.  Whatever    *)
(* held of some but not of all subsets of a finite set of indices would    *)
(* first fail at a least one (LeastSubset); each lemma rules that out.     *)
(***************************************************************************)
EXTENDS Integers, FiniteSets, Functions, FiniteSetTheorems, NaturalsInduction, TLAPS

\* Every set of naturals that is not empty has a least element.
LEMMA LeastNat ==
  ASSUME NEW T, T \subseteq Nat, T # {}
  PROVE  \E n \in T : \A m \in T : n <= m
<1> DEFINE R == {p \in Nat \X Nat : p[1] < p[2]}
<1>1. IsWellFoundedOn(R, Nat)
  BY NatLessThanWellFounded DEF OpToRel
<1>2. PICK n \in T : \A m \in T : ~ (<<m, n>> \in R)
  <2> HIDE DEF R
  <2> QED
    BY <1>1, WFMin, Zenon
<1>3. \A m \in T : ~ (m < n)
  BY <1>2
<1> QED
  BY <1>3

\* A least one among some subsets of a finite set.
LEMMA LeastSubset ==
  ASSUME NEW S, IsFiniteSet(S), NEW T, T \subseteq SUBSET S, T # {}
  PROVE  \E s \in T : \A r \in T : r \subseteq s => r = s
<1>1. IsWellFoundedOn(StrictSubsetOrdering(S), SUBSET S)
  <2>1. IsWellFoundedOn(StrictSubsetOrdering(S), FiniteSubsetsOf(S))
    BY FS_StrictSubsetOrderingWellFounded
  <2>2. FiniteSubsetsOf(S) = SUBSET S
    BY FS_FiniteSubsetsOfFinite
  <2> QED
    BY <2>1, <2>2
<1>2. PICK s \in T : \A r \in T : ~ (<<r, s>> \in StrictSubsetOrdering(S))
  <2> HIDE DEF StrictSubsetOrdering
  <2> QED
    BY <1>1, WFMin, Zenon
<1>3. \A r \in T : r \subseteq s /\ r # s => <<r, s>> \in StrictSubsetOrdering(S)
  <2> SUFFICES ASSUME NEW r \in T, r \subseteq s, r # s
               PROVE  <<r, s>> \in StrictSubsetOrdering(S)
    OBVIOUS
  <2>1. <<r, s>> \in (SUBSET S) \X (SUBSET S)
    OBVIOUS
  <2>2. <<r, s>>[1] \subseteq <<r, s>>[2] /\ <<r, s>>[1] # <<r, s>>[2]
    OBVIOUS
  <2> QED
    BY <2>1, <2>2 DEF StrictSubsetOrdering
<1>4. \A r \in T : r \subseteq s => r = s
  <2> HIDE DEF StrictSubsetOrdering
  <2> QED
    BY <1>2, <1>3
<1> QED
  BY <1>4

\* What SumFunction computes: it takes the indices one by one.
AnyOf(s) == CHOOSE x \in s : TRUE
Term(f, F, s) == IF s = {} THEN 0 ELSE f[AnyOf(s)] + F[s \ {AnyOf(s)}]
AddsUp(f, F, S) == F \in [SUBSET S -> Int] /\ \A s \in SUBSET S : F[s] = Term(f, F, s)

\* Two ways of adding up agree where both are defined.
LEMMA AddsUpOnce ==
  ASSUME NEW S, IsFiniteSet(S), NEW f, NEW F, NEW G, NEW t \in SUBSET S, NEW u \in SUBSET S,
         AddsUp(f, F, t), AddsUp(f, G, u), NEW s, s \subseteq t, s \subseteq u
  PROVE  F[s] = G[s]
<1> DEFINE T == {r \in SUBSET S : r \subseteq t /\ r \subseteq u /\ F[r] # G[r]}
<1> SUFFICES ASSUME T # {} PROVE FALSE
  OBVIOUS
<1>1. PICK r \in T : \A q \in T : q \subseteq r => q = r
  <2>1. T \subseteq SUBSET S
    OBVIOUS
  <2> HIDE DEF T
  <2> QED
    BY <2>1, LeastSubset
<1>2. F[r] = Term(f, F, r) /\ G[r] = Term(f, G, r)
  BY DEF AddsUp
<1>3. r # {}
  BY <1>2 DEF Term
<1> DEFINE q == r \ {AnyOf(r)}
<1>4. AnyOf(r) \in r
  BY <1>3 DEF AnyOf
<1>5. q \notin T
  BY <1>1, <1>4
<1>6. F[q] = G[q]
  BY <1>5
<1> QED
  BY <1>2, <1>3, <1>6 DEF Term

\* There is a way of adding up.
LEMMA AddsUpExists ==
  ASSUME NEW S, IsFiniteSet(S), NEW f \in [S -> Int]
  PROVE  \E F : AddsUp(f, F, S)
<1> DEFINE T == {t \in SUBSET S : ~ \E F : AddsUp(f, F, t)}
<1> SUFFICES ASSUME T # {} PROVE FALSE
  OBVIOUS
<1>1. PICK s \in T : \A q \in T : q \subseteq s => q = s
  <2>1. T \subseteq SUBSET S
    OBVIOUS
  <2> HIDE DEF T
  <2> QED
    BY <2>1, LeastSubset
<1> DEFINE Sum(r) == (CHOOSE F : AddsUp(f, F, r))
           Less(r) == r \ {AnyOf(r)}
           H == [r \in SUBSET s |-> IF r = {} THEN 0
                                    ELSE f[AnyOf(r)] + Sum(Less(r))[Less(r)]]
<1>2. \A r \in SUBSET s : r # s => AddsUp(f, Sum(r), r)
  <2> SUFFICES ASSUME NEW r \in SUBSET s, r # s PROVE AddsUp(f, Sum(r), r)
    OBVIOUS
  <2>1. \E F : AddsUp(f, F, r)
    BY <1>1
  <2> QED
    BY <2>1
<1> HIDE DEF Sum
<1>3. \A r \in SUBSET s : r # {} => AnyOf(r) \in r
  BY DEF AnyOf
<1>4. \A r \in SUBSET s : r # {} => Less(r) \in SUBSET s /\ Less(r) # s
  BY <1>3
<1>5. \A r \in SUBSET s : r # s => Sum(r)[r] = H[r] /\ Sum(r)[r] \in Int
  <2> SUFFICES ASSUME NEW r \in SUBSET s, r # s PROVE Sum(r)[r] = H[r] /\ Sum(r)[r] \in Int
    OBVIOUS
  <2>1. AddsUp(f, Sum(r), r)
    BY <1>2
  <2>2. Sum(r)[r] = Term(f, Sum(r), r) /\ Sum(r)[r] \in Int
    BY <2>1 DEF AddsUp
  <2>3. CASE r = {}
    BY <2>2, <2>3 DEF Term
  <2>4. CASE r # {}
    <3>1. AddsUp(f, Sum(Less(r)), Less(r))
      BY <1>2, <1>4, <2>4
    <3>2. Sum(r)[Less(r)] = Sum(Less(r))[Less(r)]
      <4>1. r \in SUBSET S /\ Less(r) \in SUBSET S /\ Less(r) \subseteq r
        OBVIOUS
      <4> HIDE DEF Less
      <4> QED
        BY <2>1, <3>1, <4>1, AddsUpOnce
    <3> QED
      BY <2>2, <2>4, <3>2 DEF Term
  <2> QED
    BY <2>3, <2>4
<1>6. \A r \in SUBSET s : H[r] = Term(f, H, r) /\ H[r] \in Int
  <2> SUFFICES ASSUME NEW r \in SUBSET s PROVE H[r] = Term(f, H, r) /\ H[r] \in Int
    OBVIOUS
  <2>1. CASE r = {}
    BY <2>1 DEF Term
  <2>2. CASE r # {}
    <3>1. Sum(Less(r))[Less(r)] = H[Less(r)] /\ Sum(Less(r))[Less(r)] \in Int
      BY <1>4, <1>5, <2>2
    <3>2. f[AnyOf(r)] \in Int
      BY <1>3, <2>2
    <3> QED
      BY <2>2, <3>1, <3>2 DEF Term
  <2> QED
    BY <2>1, <2>2
<1>7. H \in [SUBSET s -> Int]
  BY <1>6
<1>8. AddsUp(f, H, s)
  BY <1>6, <1>7 DEF AddsUp
<1> QED
  BY <1>8

\* What SumFunction does.
LEMMA SumAddsUp ==
  ASSUME NEW S, IsFiniteSet(S), NEW f \in [S -> Int]
  PROVE  \E F : AddsUp(f, F, S) /\ SumFunction(f) = F[S]
<1> DEFINE G == CHOOSE F : F = [s \in SUBSET S |-> Term(f, F, s)]
<1>1. PICK F : AddsUp(f, F, S)
  BY AddsUpExists
<1>2. F = [s \in SUBSET S |-> Term(f, F, s)]
  BY <1>1 DEF AddsUp
<1>3. G = [s \in SUBSET S |-> Term(f, G, s)]
  BY <1>2
<1>4. SumFunction(f) = G[S]
  BY DEF SumFunction, SumFunctionOnSet, FoldFunctionOnSet, MapThenFoldSet, Term, AnyOf
<1> HIDE DEF G
<1>5. DOMAIN G = SUBSET S /\ \A s \in SUBSET S : G[s] = Term(f, G, s)
  BY <1>3
<1>6. \A s \in SUBSET S : G[s] = F[s]
  <2> DEFINE T == {s \in SUBSET S : G[s] # F[s]}
  <2> SUFFICES ASSUME T # {} PROVE FALSE
    OBVIOUS
  <2>1. PICK s \in T : \A q \in T : q \subseteq s => q = s
    <3>1. T \subseteq SUBSET S
      OBVIOUS
    <3> HIDE DEF T
    <3> QED
      BY <3>1, LeastSubset
  <2>2. F[s] = Term(f, F, s) /\ G[s] = Term(f, G, s)
    BY <1>1, <1>5 DEF AddsUp
  <2>3. s # {}
    BY <2>2 DEF Term
  <2>4. AnyOf(s) \in s
    BY <2>3 DEF AnyOf
  <2>5. s \ {AnyOf(s)} \notin T
    BY <2>1, <2>4
  <2> QED
    BY <2>2, <2>3, <2>5 DEF Term
<1> QED
  BY <1>1, <1>4, <1>6

\* Sums of sums, term by term.
LEMMA SumOfSums ==
  ASSUME NEW S, IsFiniteSet(S), NEW f \in [S -> Int], NEW g \in [S -> Int], NEW h \in [S -> Int],
         \A x \in S : f[x] = g[x] + h[x]
  PROVE  /\ SumFunction(f) \in Int /\ SumFunction(g) \in Int /\ SumFunction(h) \in Int
         /\ SumFunction(f) = SumFunction(g) + SumFunction(h)
<1>1. PICK F, G, H : /\ AddsUp(f, F, S) /\ SumFunction(f) = F[S]
                     /\ AddsUp(g, G, S) /\ SumFunction(g) = G[S]
                     /\ AddsUp(h, H, S) /\ SumFunction(h) = H[S]
  BY SumAddsUp
<1>2. \A s \in SUBSET S : /\ F[s] \in Int /\ G[s] \in Int /\ H[s] \in Int
                          /\ F[s] = Term(f, F, s) /\ G[s] = Term(g, G, s) /\ H[s] = Term(h, H, s)
  BY <1>1 DEF AddsUp
<1> DEFINE T == {s \in SUBSET S : F[s] # G[s] + H[s]}
<1>3. ASSUME T # {} PROVE FALSE
  <2>1. PICK s \in T : \A q \in T : q \subseteq s => q = s
    <3>1. T \subseteq SUBSET S
      OBVIOUS
    <3> HIDE DEF T
    <3> QED
      BY <1>3, <3>1, LeastSubset
  <2>2. CASE s = {}
    <3>1. Term(f, F, s) = 0 /\ Term(g, G, s) = 0 /\ Term(h, H, s) = 0
      BY <2>2 DEF Term
    <3>2. F[s] # G[s] + H[s] /\ s \in SUBSET S
      OBVIOUS
    <3>3. F[s] = 0 /\ G[s] = 0 /\ H[s] = 0
      <4> HIDE DEF T
      <4> QED
        BY <1>2, <3>1, <3>2
    <3> HIDE DEF T
    <3> QED
      BY <3>2, <3>3
  <2>3. CASE s # {}
    <3> DEFINE x == AnyOf(s)
               q == s \ {x}
    <3>1. x \in s
      BY <2>3 DEF AnyOf
    <3>2. q \in SUBSET S /\ q \notin T
      BY <2>1, <3>1
    <3>3. F[q] = G[q] + H[q]
      BY <3>2
    <3>4. F[s] = f[x] + F[q] /\ G[s] = g[x] + G[q] /\ H[s] = h[x] + H[q]
      BY <1>2, <2>3 DEF Term
    <3>5. f[x] = g[x] + h[x] /\ f[x] \in Int /\ g[x] \in Int /\ h[x] \in Int
      BY <3>1
    <3>6. F[q] \in Int /\ G[q] \in Int /\ H[q] \in Int
      BY <1>2, <3>2
    <3>7. F[s] # G[s] + H[s]
      OBVIOUS
    <3> QED
      BY <3>3, <3>4, <3>5, <3>6, <3>7
  <2> QED
    BY <2>2, <2>3
<1>4. S \notin T
  BY <1>3
<1> QED
  BY <1>1, <1>2, <1>4

\* A sum with one term.
LEMMA SumOfOne ==
  ASSUME NEW S, IsFiniteSet(S), NEW f \in [S -> Int], NEW a \in S,
         \A x \in S : x # a => f[x] = 0
  PROVE  SumFunction(f) = f[a]
<1>1. PICK F : AddsUp(f, F, S) /\ SumFunction(f) = F[S]
  BY SumAddsUp
<1>2. \A s \in SUBSET S : F[s] \in Int /\ F[s] = Term(f, F, s)
  BY <1>1 DEF AddsUp
<1> DEFINE Expected(s) == IF a \in s THEN f[a] ELSE 0
           T == {s \in SUBSET S : F[s] # Expected(s)}
<1>3. ASSUME T # {} PROVE FALSE
  <2>1. PICK s \in T : \A q \in T : q \subseteq s => q = s
    <3>1. T \subseteq SUBSET S
      OBVIOUS
    <3> HIDE DEF T
    <3> QED
      BY <1>3, <3>1, LeastSubset
  <2>2. CASE s = {}
    BY <1>2, <2>2 DEF Term
  <2>3. CASE s # {}
    <3> DEFINE x == AnyOf(s)
               q == s \ {x}
    <3>1. x \in s
      BY <2>3 DEF AnyOf
    <3>2. q \in SUBSET S /\ q \notin T
      BY <2>1, <3>1
    <3>3. F[q] = Expected(q) /\ F[q] \in Int
      BY <1>2, <3>2
    <3>4. F[s] = f[x] + F[q]
      BY <1>2, <2>3 DEF Term
    <3>5. f[x] \in Int /\ f[a] \in Int
      BY <3>1
    <3>6. CASE x = a
      BY <3>1, <3>3, <3>4, <3>5, <3>6
    <3>7. CASE x # a
      BY <3>1, <3>3, <3>4, <3>5, <3>7
    <3> QED
      BY <3>6, <3>7
  <2> QED
    BY <2>2, <2>3
<1>4. S \notin T
  BY <1>3
<1> QED
  BY <1>1, <1>4

\* A sum in which one term changes.
LEMMA SumOfChange ==
  ASSUME NEW S, IsFiniteSet(S), NEW f \in [S -> Int], NEW g \in [S -> Int], NEW a \in S,
         \A x \in S : x # a => g[x] = f[x]
  PROVE  /\ SumFunction(f) \in Int /\ SumFunction(g) \in Int
         /\ SumFunction(g) = SumFunction(f) + (g[a] - f[a])
<1> DEFINE h == [x \in S |-> g[x] - f[x]]
<1>1. h \in [S -> Int] /\ \A x \in S : h[x] = g[x] - f[x]
  OBVIOUS
<1> HIDE DEF h
<1>2. \A x \in S : g[x] = f[x] + h[x]
  <2> SUFFICES ASSUME NEW x \in S PROVE g[x] = f[x] + h[x]
    OBVIOUS
  <2>1. g[x] \in Int /\ f[x] \in Int /\ h[x] = g[x] - f[x]
    BY <1>1
  <2> QED
    BY <2>1
<1>3. /\ SumFunction(g) \in Int /\ SumFunction(f) \in Int
      /\ SumFunction(g) = SumFunction(f) + SumFunction(h)
  BY <1>1, <1>2, SumOfSums
<1>4. \A x \in S : x # a => h[x] = 0
  <2> SUFFICES ASSUME NEW x \in S, x # a PROVE h[x] = 0
    OBVIOUS
  <2>1. g[x] \in Int /\ f[x] = g[x] /\ h[x] = g[x] - f[x]
    BY <1>1
  <2> QED
    BY <2>1
<1>5. SumFunction(h) = h[a]
  BY <1>1, <1>4, SumOfOne
<1> QED
  BY <1>1, <1>3, <1>5

\* A sum in which one term loses v and one, perhaps the same, gains w.
Moved(f, a, v, b, w) ==
  [x \in DOMAIN f |-> f[x] - (IF x = a THEN v ELSE 0) + (IF x = b THEN w ELSE 0)]

\* ... is that sum without v and with w.
LEMMA SumOfMoved ==
  ASSUME NEW S, IsFiniteSet(S), NEW f \in [S -> Int], NEW a \in S, NEW b \in S,
         NEW v \in Int, NEW w \in Int
  PROVE  /\ SumFunction(f) \in Int
         /\ SumFunction(Moved(f, a, v, b, w)) = SumFunction(f) - v + w
<1> DEFINE g == Moved(f, a, v, b, w)
           h == [x \in S |-> f[x] - (IF x = a THEN v ELSE 0)]
<1>1. \A x \in S : f[x] \in Int
  OBVIOUS
<1>2. h \in [S -> Int] /\ \A x \in S : h[x] = f[x] - (IF x = a THEN v ELSE 0)
  BY <1>1
<1> HIDE DEF h
<1>3. \A x \in S : h[x] \in Int
  BY <1>2
<1>4. g \in [S -> Int] /\ \A x \in S : g[x] = h[x] + (IF x = b THEN w ELSE 0)
  <2>1. g = [x \in S |-> h[x] + (IF x = b THEN w ELSE 0)]
    BY <1>2 DEF Moved
  <2> HIDE DEF g
  <2> QED
    BY <1>3, <2>1
<1> HIDE DEF g
<1>5. /\ SumFunction(f) \in Int /\ SumFunction(h) \in Int
      /\ SumFunction(h) = SumFunction(f) + (h[a] - f[a])
  <2>1. \A x \in S : x # a => h[x] = f[x]
    BY <1>1, <1>2
  <2> QED
    BY <1>2, <2>1, SumOfChange
<1>6. /\ SumFunction(g) \in Int
      /\ SumFunction(g) = SumFunction(h) + (g[b] - h[b])
  <2>1. \A x \in S : x # b => g[x] = h[x]
    BY <1>3, <1>4
  <2>2. g \in [S -> Int] /\ h \in [S -> Int]
    BY <1>2, <1>4
  <2> QED
    BY <2>1, <2>2, SumOfChange
<1>7. h[a] - f[a] = -v
  BY <1>1, <1>2
<1>8. g[b] - h[b] = w
  BY <1>3, <1>4
<1> QED
  BY <1>5, <1>6, <1>7, <1>8 DEF g

\* A sum of naturals.
LEMMA SumOfNats ==
  ASSUME NEW S, IsFiniteSet(S), NEW f \in [S -> Nat]
  PROVE  SumFunction(f) \in Nat
<1>1. f \in [S -> Int]
  OBVIOUS
<1>2. PICK F : AddsUp(f, F, S) /\ SumFunction(f) = F[S]
  BY <1>1, SumAddsUp
<1> DEFINE T == {s \in SUBSET S : F[s] \notin Nat}
<1>3. ASSUME T # {} PROVE FALSE
  <2>1. PICK s \in T : \A q \in T : q \subseteq s => q = s
    <3>1. T \subseteq SUBSET S
      OBVIOUS
    <3> HIDE DEF T
    <3> QED
      BY <1>3, <3>1, LeastSubset
  <2>2. F[s] = Term(f, F, s)
    BY <1>2 DEF AddsUp
  <2>3. s # {}
    BY <2>2 DEF Term
  <2>4. AnyOf(s) \in s
    BY <2>3 DEF AnyOf
  <2>5. F[s \ {AnyOf(s)}] \in Nat
    BY <2>1, <2>4
  <2> QED
    BY <2>2, <2>3, <2>4, <2>5 DEF Term
<1>4. S \notin T
  BY <1>3
<1> QED
  BY <1>2, <1>4

\* A sum of multiples.
LEMMA SumOfMultiples ==
  ASSUME NEW S, IsFiniteSet(S), NEW k \in Int, NEW f \in [S -> Int], NEW g \in [S -> Int],
         \A x \in S : g[x] = k * f[x]
  PROVE  SumFunction(g) = k * SumFunction(f)
<1>1. PICK F, G : /\ AddsUp(f, F, S) /\ SumFunction(f) = F[S]
                  /\ AddsUp(g, G, S) /\ SumFunction(g) = G[S]
  BY SumAddsUp
<1>2. \A s \in SUBSET S : /\ F[s] \in Int /\ G[s] \in Int
                          /\ F[s] = Term(f, F, s) /\ G[s] = Term(g, G, s)
  BY <1>1 DEF AddsUp
<1> DEFINE T == {s \in SUBSET S : G[s] # k * F[s]}
<1>3. ASSUME T # {} PROVE FALSE
  <2>1. PICK s \in T : \A q \in T : q \subseteq s => q = s
    <3>1. T \subseteq SUBSET S
      OBVIOUS
    <3> HIDE DEF T
    <3> QED
      BY <1>3, <3>1, LeastSubset
  <2>2. CASE s = {}
    <3>1. F[s] = 0 /\ G[s] = 0
      BY <1>2, <2>2 DEF Term
    <3>2. G[s] # k * F[s] /\ k * 0 = 0
      OBVIOUS
    <3> QED
      BY <3>1, <3>2
  <2>3. CASE s # {}
    <3> DEFINE x == AnyOf(s)
               q == s \ {x}
    <3>1. x \in s
      BY <2>3 DEF AnyOf
    <3>2. q \in SUBSET S /\ q \notin T
      BY <2>1, <3>1
    <3>3. G[q] = k * F[q]
      BY <3>2
    <3>4. F[s] = f[x] + F[q] /\ G[s] = g[x] + G[q]
      BY <1>2, <2>3 DEF Term
    <3>5. g[x] = k * f[x] /\ f[x] \in Int /\ F[q] \in Int
      BY <1>2, <3>1, <3>2
    <3>6. \A i, j \in Int : k * (i + j) = k * i + k * j
      OBVIOUS
    <3>7. k * (f[x] + F[q]) = k * f[x] + k * F[q]
      BY <3>5, <3>6
    <3>8. G[s] = k * F[s]
      BY <3>3, <3>4, <3>5, <3>7
    <3> QED
      BY <3>8
  <2> QED
    BY <2>2, <2>3
<1>4. S \notin T
  BY <1>3
<1> QED
  BY <1>1, <1>2, <1>4


\* A sum over a finite set may start with any of its members.
LEMMA SumFromAny ==
  ASSUME NEW S, IsFiniteSet(S), NEW f \in [S -> Int], NEW F, AddsUp(f, F, S),
         NEW s \in SUBSET S, NEW a \in s
  PROVE  F[s] = f[a] + F[s \ {a}]
<1> DEFINE T == {r \in SUBSET S : \E b \in r : F[r] # f[b] + F[r \ {b}]}
<1> SUFFICES ASSUME T # {} PROVE FALSE
  OBVIOUS
<1>1. \A r \in SUBSET S : F[r] = Term(f, F, r) /\ F[r] \in Int
  BY DEF AddsUp
<1>2. PICK r \in T : \A q \in T : q \subseteq r => q = r
  <2>1. T \subseteq SUBSET S
    OBVIOUS
  <2> HIDE DEF T
  <2> QED
    BY <2>1, LeastSubset
<1>3. PICK b \in r : F[r] # f[b] + F[r \ {b}]
  OBVIOUS
<1> DEFINE x == AnyOf(r)
<1>4. x \in r /\ F[r] = f[x] + F[r \ {x}]
  BY <1>1, <1>3 DEF AnyOf, Term
<1>5. x # b
  BY <1>3, <1>4
<1> HIDE DEF x
<1>6. /\ r \ {x} \in SUBSET S /\ r \ {b} \in SUBSET S /\ b \in r \ {x} /\ x \in r \ {b}
      /\ r \ {x} # r /\ r \ {b} # r
  BY <1>4, <1>5
<1>7. F[r \ {x}] = f[b] + F[(r \ {x}) \ {b}]
  BY <1>2, <1>6
<1>8. F[r \ {b}] = f[x] + F[(r \ {b}) \ {x}]
  BY <1>2, <1>6
<1>9. (r \ {x}) \ {b} = (r \ {b}) \ {x}
  OBVIOUS
<1> DEFINE u == (r \ {b}) \ {x}
<1>10. f[x] \in Int /\ f[b] \in Int /\ F[u] \in Int
  <2>1. u \in SUBSET S
    OBVIOUS
  <2> QED
    BY <1>1, <1>4, <2>1
<1> HIDE DEF u
<1>11. F[r] = f[x] + (f[b] + F[u]) /\ F[r \ {b}] = f[x] + F[u]
  BY <1>4, <1>7, <1>8, <1>9 DEF u
<1> QED
  BY <1>3, <1>10, <1>11

\* A sum over no indices.
LEMMA SumOfNone ==
  ASSUME NEW f \in [{} -> Int]
  PROVE  SumFunction(f) = 0
<1>1. IsFiniteSet({})
  BY FS_EmptySet
<1>2. PICK F : AddsUp(f, F, {}) /\ SumFunction(f) = F[{}]
  BY <1>1, SumAddsUp
<1> QED
  BY <1>2 DEF AddsUp, Term

\* Two functions with the same values on some indices have the same sum over those.
LEMMA SumOfSame ==
  ASSUME NEW S, IsFiniteSet(S), NEW f \in [S -> Int], NEW F, AddsUp(f, F, S),
         NEW R, IsFiniteSet(R), NEW g \in [R -> Int], NEW G, AddsUp(g, G, R),
         NEW s, s \subseteq S, s \subseteq R, \A x \in s : f[x] = g[x]
  PROVE  F[s] = G[s]
<1> DEFINE T == {r \in SUBSET S : r \subseteq s /\ F[r] # G[r]}
<1> SUFFICES ASSUME T # {} PROVE FALSE
  OBVIOUS
<1>1. PICK r \in T : \A q \in T : q \subseteq r => q = r
  <2>1. T \subseteq SUBSET S
    OBVIOUS
  <2> HIDE DEF T
  <2> QED
    BY <2>1, LeastSubset
<1>2. F[r] = Term(f, F, r) /\ G[r] = Term(g, G, r)
  BY DEF AddsUp
<1>3. r # {}
  BY <1>2 DEF Term
<1> DEFINE x == AnyOf(r)
<1>4. x \in r
  BY <1>3 DEF AnyOf
<1>5. r \ {x} \notin T
  BY <1>1, <1>4
<1>6. F[r \ {x}] = G[r \ {x}] /\ f[x] = g[x]
  BY <1>4, <1>5
<1> QED
  BY <1>2, <1>3, <1>6 DEF Term

\* A sum with an index more.
LEMMA SumOfOneMore ==
  ASSUME NEW S, IsFiniteSet(S), NEW f \in [S -> Int], NEW R, NEW a \in R, S = R \ {a},
         NEW g \in [R -> Int], \A x \in S : g[x] = f[x]
  PROVE  SumFunction(f) \in Int /\ SumFunction(g) = SumFunction(f) + g[a]
<1>1. IsFiniteSet(R)
  <2>1. R = S \cup {a}
    OBVIOUS
  <2>2. IsFiniteSet(S \cup {a})
    BY FS_AddElement
  <2> QED
    BY <2>1, <2>2
<1>2. a \notin S /\ S \subseteq R
  OBVIOUS
<1>3. PICK F : AddsUp(f, F, S) /\ SumFunction(f) = F[S]
  BY SumAddsUp
<1>4. PICK G : AddsUp(g, G, R) /\ SumFunction(g) = G[R]
  BY <1>1, <1>2, SumAddsUp
<1>5. G[R] = g[a] + G[R \ {a}]
  <2>1. g \in [R -> Int] /\ R \in SUBSET R /\ a \in R
    BY <1>2
  <2> QED
    BY <1>1, <1>4, <2>1, SumFromAny
<1>6. R \ {a} = S
  BY <1>2
<1>7. F[S] = G[S]
  <2>1. g \in [R -> Int] /\ S \subseteq S /\ S \subseteq R /\ \A x \in S : f[x] = g[x]
    BY <1>2
  <2> QED
    BY <1>1, <1>3, <1>4, <2>1, SumOfSame
<1>8. F[S] \in Int /\ g[a] \in Int
  BY <1>2, <1>3 DEF AddsUp
<1>9. G[R \ {a}] = G[S]
  BY <1>6
<1>10. G[R] = g[a] + F[S]
  BY <1>5, <1>7, <1>9
<1>11. g[a] + F[S] = F[S] + g[a]
  BY <1>8
<1> QED
  BY <1>3, <1>4, <1>8, <1>10, <1>11

\* The order of the indices does not matter to a sum.
LEMMA SumOfPermuted ==
  ASSUME NEW S, IsFiniteSet(S), NEW f \in [S -> Int], NEW p \in Injection(S, S)
  PROVE  SumFunction([x \in S |-> f[p[x]]]) = SumFunction(f)
<1> DEFINE g == [x \in S |-> f[p[x]]]
<1>a. p \in [S -> S] /\ \A x, y \in S : p[x] = p[y] => x = y
  BY DEF Injection, IsInjective
<1>b. \A y \in S : \E x \in S : p[x] = y
  <2>1. p \in Surjection(S, S)
    BY FS_Injection
  <2> QED
    BY <2>1 DEF Surjection
<1>c. g \in [S -> Int] /\ \A x \in S : g[x] = f[p[x]]
  BY <1>a
<1> HIDE DEF g
<1>1. PICK F : AddsUp(f, F, S) /\ SumFunction(f) = F[S]
  BY SumAddsUp
<1>2. PICK G : AddsUp(g, G, S) /\ SumFunction(g) = G[S]
  BY <1>c, SumAddsUp
<1> DEFINE Image(s) == {p[x] : x \in s}
           T == {s \in SUBSET S : G[s] # F[Image(s)]}
<1>3. ASSUME T # {} PROVE FALSE
  <2>1. PICK s \in T : \A q \in T : q \subseteq s => q = s
    <3>1. T \subseteq SUBSET S
      OBVIOUS
    <3> HIDE DEF T
    <3> QED
      BY <1>3, <3>1, LeastSubset
  <2>0. s \subseteq S
    OBVIOUS
  <2>2. G[s] # F[Image(s)]
    OBVIOUS
  <2>3. CASE s = {}
    <3>1. Image(s) = {}
      BY <2>3
    <3>2. G[{}] = 0 /\ F[{}] = 0
      BY <1>1, <1>2 DEF AddsUp, Term
    <3> QED
      BY <2>2, <2>3, <3>1, <3>2
  <2>4. CASE s # {}
    <3> DEFINE x == AnyOf(s)
               q == s \ {x}
    <3>1. x \in s
      BY <2>4 DEF AnyOf
    <3>2. G[s] = g[x] + G[q]
      BY <1>2, <2>4 DEF AddsUp, Term
    <3>3. G[q] = F[Image(q)]
      <4>1. q \subseteq s /\ q # s /\ q \in SUBSET S
        BY <2>0, <3>1
      <4>2. q \notin T
        <5> HIDE DEF q, T
        <5> QED
          BY <2>1, <4>1
      <4> HIDE DEF q, Image
      <4> QED
        BY <4>1, <4>2
    <3>4. Image(s) \in SUBSET S /\ p[x] \in Image(s)
      <4>1. \A y \in s : p[y] \in S
        BY <1>a, <2>0
      <4> QED
        BY <3>1, <4>1
    <3>5. Image(q) = Image(s) \ {p[x]}
      <4>1. \A y \in s : p[y] = p[x] => y = x
        BY <1>a, <2>0, <3>1
      <4> HIDE DEF x
      <4> QED
        BY <3>1, <4>1
    <3>6. F[Image(s)] = f[p[x]] + F[Image(s) \ {p[x]}]
      <4> DEFINE r == Image(s)
                 b == p[x]
      <4>1. r \in SUBSET S /\ b \in r
        BY <3>4
      <4> HIDE DEF r, b, T, x, q, Image
      <4>2. F[r] = f[b] + F[r \ {b}]
        BY <1>1, <4>1, SumFromAny
      <4> QED
        BY <4>2 DEF r, b
    <3>7. g[x] = f[p[x]]
      BY <1>c, <2>0, <3>1
    <3> HIDE DEF Image, x, q
    <3> QED
      BY <2>2, <3>2, <3>3, <3>5, <3>6, <3>7
  <2> QED
    BY <2>3, <2>4
<1>4. S \notin T
  BY <1>3
<1>5. Image(S) = S
  BY <1>a, <1>b
<1> QED
  BY <1>1, <1>2, <1>4, <1>5 DEF g

\* A sum over a first part of the naturals, one index longer.
LEMMA SumOfLonger ==
  ASSUME NEW n \in Nat, NEW low \in [1 .. n -> Int], NEW high \in [1 .. (n + 1) -> Int],
         \A i \in 1 .. n : high[i] = low[i]
  PROVE  /\ SumFunction(low) \in Int
         /\ SumFunction(high) = SumFunction(low) + high[n + 1]
<1> DEFINE S == 1 .. n
           R == 1 .. (n + 1)
           a == n + 1
<1>1. IsFiniteSet(S)
  BY FS_Interval
<1>2. a \in R /\ S = R \ {a}
  OBVIOUS
<1>3. low \in [S -> Int] /\ high \in [R -> Int] /\ \A x \in S : high[x] = low[x]
  OBVIOUS
<1> HIDE DEF S, R, a
<1>4. SumFunction(low) \in Int /\ SumFunction(high) = SumFunction(low) + high[a]
  BY <1>1, <1>2, <1>3, SumOfOneMore
<1> QED
  BY <1>4 DEF a

\* A sum of differences is what the first and the last of their terms differ by.
LEMMA SumOfDifferences ==
  ASSUME NEW n \in Nat, NEW left \in [0 .. n -> Int], NEW gone \in [1 .. n -> Int],
         \A i \in 1 .. n : gone[i] = left[i - 1] - left[i]
  PROVE  SumFunction(gone) = left[0] - left[n]
<1> DEFINE Upto(i) == [j \in 1 .. i |-> gone[j]]
           T == {i \in 0 .. n : SumFunction(Upto(i)) # left[0] - left[i]}
<1>1. ASSUME T # {} PROVE FALSE
  <2>1. PICK i \in T : \A j \in T : i <= j
    <3>1. T \subseteq Nat
      OBVIOUS
    <3> HIDE DEF T
    <3> QED
      BY <1>1, <3>1, LeastNat
  <2>2. i \in 0 .. n /\ SumFunction(Upto(i)) # left[0] - left[i]
    OBVIOUS
  <2>3. CASE i = 0
    <3>1. Upto(0) \in [{} -> Int]
      OBVIOUS
    <3>2. SumFunction(Upto(0)) = 0
      BY <3>1, SumOfNone
    <3> QED
      BY <2>2, <2>3, <3>2
  <2>4. CASE i # 0
    <3> DEFINE k == i - 1
    <3>1. k \in 0 .. n /\ k \in Nat /\ i = k + 1 /\ i \in 1 .. n
      BY <2>2, <2>4
    <3>2. k \notin T
      <4>1. ~ (i <= k)
        BY <2>2
      <4> QED
        BY <2>1, <4>1
    <3>3. SumFunction(Upto(k)) = left[0] - left[k]
      BY <3>1, <3>2
    <3> HIDE DEF k, T
    <3>4. Upto(k) \in [1 .. k -> Int] /\ Upto(k + 1) \in [1 .. (k + 1) -> Int]
      BY <3>1
    <3>5. \A j \in 1 .. k : Upto(k + 1)[j] = Upto(k)[j]
      BY <3>1
    <3>6. Upto(k + 1)[k + 1] = gone[i]
      BY <3>1
    <3> HIDE DEF Upto
    <3>7. SumFunction(Upto(k + 1)) = SumFunction(Upto(k)) + Upto(k + 1)[k + 1]
      BY <3>1, <3>4, <3>5, SumOfLonger
    <3>8. /\ gone[i] = left[k] - left[i]
          /\ left[0] \in Int /\ left[i] \in Int /\ left[k] \in Int
      BY <3>1
    <3> QED
      BY <2>2, <3>1, <3>3, <3>6, <3>7, <3>8
  <2> QED
    BY <2>3, <2>4
<1>2. n \notin T
  BY <1>1
<1>3. SumFunction(Upto(n)) = left[0] - left[n]
  <2> HIDE DEF Upto
  <2> QED
    BY <1>2
<1>4. Upto(n) = gone
  OBVIOUS
<1> HIDE DEF Upto
<1> QED
  BY <1>3, <1>4
=============================================================================
