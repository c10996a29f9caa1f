--------------------------- MODULE Sampler_proofs ---------------------------
(***************************************************************************)
(* Proofs about the parts of a sample that Sampler composes.  A part keeps *)
(* an invariant of its own; the steps of the other parts leave its         *)
(* variables alone.                                                        *)
(***************************************************************************)
EXTENDS Sampler, EngineInv, WellFoundedInduction, FiniteSetTheorems, TLAPS
-----------------------------------------------------------------------------
(***************************************************************************)
(* Sequences and sets.                                                     *)
(***************************************************************************)
IsSequence(s) == s \in Seq(Range(s))

LEMMA AppendSequence ==
  ASSUME NEW s, NEW x, IsSequence(s)
  PROVE  /\ IsSequence(Append(s, x))
         /\ Len(Append(s, x)) = Len(s) + 1 /\ Len(s) \in Nat /\ DOMAIN s = 1 .. Len(s)
         /\ \A i \in 1 .. Len(s) : Append(s, x)[i] = s[i]
         /\ Append(s, x)[Len(s) + 1] = x
         /\ Range(Append(s, x)) = Range(s) \cup {x}
<1> DEFINE t == Append(s, x)
           S == Range(s) \cup {x}
<1>1. s \in Seq(S) /\ x \in S /\ DOMAIN s = 1 .. Len(s) /\ Len(s) \in Nat
  <2>1. s \in Seq(Range(s))
    BY DEF IsSequence
  <2> QED BY <2>1
<1>2. t \in Seq(S) /\ Len(t) = Len(s) + 1 /\ DOMAIN t = 1 .. Len(s) + 1
      /\ (\A i \in 1 .. Len(s) : t[i] = s[i]) /\ t[Len(s) + 1] = x
  BY <1>1
<1>3. Range(t) = S
  BY <1>1, <1>2 DEF Range
<1> QED BY <1>1, <1>2, <1>3 DEF IsSequence

LEMMA SequenceOfRange == ASSUME NEW S, NEW t \in Seq(S) PROVE IsSequence(t)
<1>1. t = [i \in 1 .. Len(t) |-> t[i]] /\ Len(t) \in Nat /\ DOMAIN t = 1 .. Len(t)
  OBVIOUS
<1>2. \A i \in 1 .. Len(t) : t[i] \in Range(t)
  BY <1>1 DEF Range
<1>3. [i \in 1 .. Len(t) |-> t[i]] \in Seq(Range(t))
  BY <1>1, <1>2
<1> QED BY <1>1, <1>3 DEF IsSequence

LEMMA ReplaceSequence ==
  ASSUME NEW s, NEW x, NEW k, IsSequence(s)
  PROVE  LET t == [s EXCEPT ![k] = x] IN
         /\ IsSequence(t)
         /\ Len(t) = Len(s) /\ Len(s) \in Nat /\ DOMAIN t = 1 .. Len(s) /\ DOMAIN s = 1 .. Len(s)
         /\ \A i \in 1 .. Len(s) : t[i] = IF i = k THEN x ELSE s[i]
<1> DEFINE t == [s EXCEPT ![k] = x]
           S == Range(s) \cup {x}
<1>1. s \in Seq(S) /\ x \in S /\ DOMAIN s = 1 .. Len(s) /\ Len(s) \in Nat
  <2>1. s \in Seq(Range(s))
    BY DEF IsSequence
  <2> QED BY <2>1
<1>2. t \in Seq(S) /\ Len(t) = Len(s) /\ DOMAIN t = 1 .. Len(s)
      /\ (\A i \in 1 .. Len(s) : t[i] = IF i = k THEN x ELSE s[i])
  <2>1. t = [i \in 1 .. Len(s) |-> IF i = k THEN x ELSE s[i]]
    BY <1>1
  <2>2. \A i \in 1 .. Len(s) : (IF i = k THEN x ELSE s[i]) \in S
    BY <1>1
  <2> HIDE DEF t, S
  <2>3. t \in Seq(S)
    BY <1>1, <2>1, <2>2
  <2> QED BY <1>1, <2>1, <2>3
<1> HIDE DEF t
<1>3. IsSequence(t)
  BY <1>2, SequenceOfRange
<1> QED BY <1>1, <1>2, <1>3 DEF t

\* The greatest element of a bounded set of numbers is what Max chooses.
LEMMA MaxIs ==
  ASSUME NEW S, S \subseteq Int, NEW m \in S, \A s \in S : m >= s
  PROVE  Max(S) = m
<1> DEFINE M(x) == x \in S /\ \A y \in S : x >= y
<1>1. ASSUME NEW x, M(x) PROVE x = m
  <2>1. x \in Int /\ m \in Int /\ x <= m /\ m <= x
    BY <1>1
  <2> QED BY <2>1
<1>2. Max(S) = CHOOSE x : M(x)
  BY DEF Max
<1>3. M(m)
  OBVIOUS
<1> HIDE DEF M
<1> QED BY <1>1, <1>2, <1>3

\* Every set of natural numbers has a least one.
LEMMA LeastNat == ASSUME NEW S, S \subseteq Nat, S # {} PROVE \E m \in S : \A y \in S : m <= y
<1> DEFINE R == {ss \in Nat \X Nat : ss[1] < ss[2]}
<1>1. IsWellFoundedOn(R, Nat)
  BY NatLessThanWellFounded DEF OpToRel
<1>2. PICK m \in S : \A y \in S : ~ (<<y, m>> \in R)
  BY <1>1, WFMin
<1>3. \A y \in S : m <= y
  <2> TAKE y \in S
  <2>1. <<y, m>> \in R <=> y < m
    OBVIOUS
  <2>2. ~ (y < m)
    BY <1>2, <2>1
  <2> QED BY <2>2
<1> QED BY <1>3

\* One with a bound has a greatest one.
LEMMA MaxBounded ==
  ASSUME NEW n \in Nat, NEW S, S \subseteq 0 .. n, S # {}
  PROVE  Max(S) \in S /\ \A y \in S : Max(S) >= y
<1> DEFINE T == {k \in Nat : n - k \in S}
<1>1. T \subseteq Nat /\ T # {}
  <2>1. PICK y \in S : TRUE
    OBVIOUS
  <2>2. n - y \in Nat /\ n - (n - y) = y
    BY <2>1
  <2> QED BY <2>1, <2>2
<1>2. PICK k \in T : \A y \in T : k <= y
  BY <1>1, LeastNat, Zenon
<1>3. n - k \in S /\ k \in Nat
  BY <1>2
<1>4. \A y \in S : n - k >= y
  <2> TAKE y \in S
  <2>1. n - y \in Nat /\ n - (n - y) = y
    OBVIOUS
  <2>2. k <= n - y
    BY <1>2, <2>1
  <2> QED BY <1>3, <2>1, <2>2
<1>5. S \subseteq Int
  OBVIOUS
<1>6. Max(S) = n - k
  BY <1>3, <1>4, <1>5, MaxIs
<1> QED BY <1>3, <1>4, <1>6

-----------------------------------------------------------------------------
(***************************************************************************)
(* Sums over finite sets.  The library's folds are recursive functions: a  *)
(* fact about one is proved from its smallest counterexample.              *)
(***************************************************************************)
\* A set of subsets of a finite set has a smallest one.
LEMMA SmallestSet ==
  ASSUME NEW S, IsFiniteSet(S), NEW C, C \subseteq SUBSET S, C # {}
  PROVE  \E T \in C : \A U \in C : U \subseteq T => U = T
<1>1. FiniteSubsetsOf(S) = SUBSET S
  BY FS_FiniteSubsetsOfFinite
<1>2. IsWellFoundedOn(StrictSubsetOrdering(S), SUBSET S)
  BY <1>1, FS_StrictSubsetOrderingWellFounded
<1>3. PICK T \in C : \A U \in C : ~ (<<U, T>> \in StrictSubsetOrdering(S))
  BY <1>2, WFMin
<1>4. \A U \in C : U \subseteq T => U = T
  BY <1>3 DEF StrictSubsetOrdering
<1> QED BY <1>4

\* g is the sum of f over every subset of S.
Some(s) == CHOOSE x \in s : TRUE
Sums(g, f, S) ==
  g = [s \in SUBSET S |-> IF s = {} THEN 0 ELSE f[Some(s)] + g[s \ {Some(s)}]]
Total(f, S) == LET g == CHOOSE g : Sums(g, f, S) IN g[S]

LEMMA SomeIn == ASSUME NEW s, s # {} PROVE Some(s) \in s
  BY DEF Some

LEMMA SumsAre ==
  ASSUME NEW g, NEW f, NEW S, Sums(g, f, S), NEW s, s \subseteq S
  PROVE  g[s] = IF s = {} THEN 0 ELSE f[Some(s)] + g[s \ {Some(s)}]
  BY Zenon DEF Sums

LEMMA SumsAgree ==
  ASSUME NEW f, NEW S, NEW T, NEW g, NEW h, Sums(g, f, S), Sums(h, f, T),
         NEW v, v \subseteq S, v \subseteq T, IsFiniteSet(v)
  PROVE  g[v] = h[v]
<1> DEFINE C == {u \in SUBSET v : g[u] # h[u]}
<1> SUFFICES ASSUME g[v] # h[v] PROVE FALSE
  OBVIOUS
<1>1. v \in C
  OBVIOUS
<1>2. PICK u \in C : \A w \in C : w \subseteq u => w = u
  <2>1. C \subseteq SUBSET v /\ C # {}
    BY <1>1
  <2> HIDE DEF C
  <2> QED BY <2>1, SmallestSet
<1>3. u \subseteq S /\ u \subseteq T /\ u \subseteq v /\ g[u] # h[u]
  BY <1>2
<1>4. CASE u = {}
  BY <1>3, <1>4, SumsAre
<1>5. CASE u # {}
  <2> DEFINE p == Some(u)
             w == u \ {p}
  <2>1. p \in u
    BY <1>5, SomeIn
  <2>2. w # u /\ w \subseteq u
    BY <2>1
  <2>3. w \notin C
    BY <1>2, <2>2
  <2>4. g[w] = h[w]
    BY <1>3, <2>2, <2>3
  <2>5. g[u] = f[p] + g[w]
    <3>0. Sums(g, f, S) /\ u \subseteq S
      BY <1>3
    <3>1. g[u] = IF u = {} THEN 0 ELSE f[Some(u)] + g[u \ {Some(u)}]
      BY ONLY <3>0, SumsAre
    <3> QED BY <1>5, <3>1
  <2>6. h[u] = f[p] + h[w]
    <3>0. Sums(h, f, T) /\ u \subseteq T
      BY <1>3
    <3>1. h[u] = IF u = {} THEN 0 ELSE f[Some(u)] + h[u \ {Some(u)}]
      BY ONLY <3>0, SumsAre
    <3> QED BY <1>5, <3>1
  <2> QED BY <1>3, <2>4, <2>5, <2>6
<1> QED BY <1>4, <1>5

LEMMA SumsExist ==
  ASSUME NEW S, IsFiniteSet(S), NEW f
  PROVE  \E g : Sums(g, f, S)
<1> DEFINE C == {T \in SUBSET S : ~ \E g : Sums(g, f, T)}
<1> SUFFICES ASSUME ~ \E g : Sums(g, f, S) PROVE FALSE
  OBVIOUS
<1>1. S \in C
  OBVIOUS
<1>2. PICK T \in C : \A U \in C : U \subseteq T => U = T
  <2>1. C \subseteq SUBSET S /\ C # {}
    BY <1>1
  <2> HIDE DEF C
  <2> QED BY <2>1, SmallestSet
<1>3. T \subseteq S /\ IsFiniteSet(T) /\ ~ \E g : Sums(g, f, T)
  BY <1>2, FS_Subset
<1> DEFINE Less(U) == CHOOSE g : Sums(g, f, U)
           next(s) == s \ {Some(s)}
           G == [s \in SUBSET T |-> IF s = {} THEN 0 ELSE f[Some(s)] + Less(next(s))[next(s)]]
<1>4. ASSUME NEW U, U \subseteq T, U # T PROVE Sums(Less(U), f, U)
  <2>1. U \notin C
    BY <1>2, <1>4
  <2>2. \E g : Sums(g, f, U)
    BY <1>3, <1>4, <2>1
  <2> QED BY <2>2
<1>5. ASSUME NEW s \in SUBSET T, s # {}
      PROVE  next(s) \subseteq s /\ next(s) # T /\ next(s) # s /\ IsFiniteSet(next(s))
  <2>1. Some(s) \in s
    BY <1>5, SomeIn
  <2>2. next(s) \subseteq s /\ next(s) # s /\ next(s) # T
    BY <1>5, <2>1
  <2>3. IsFiniteSet(next(s))
    BY <1>3, <1>5, <2>2, FS_Subset
  <2> QED BY <2>2, <2>3
<1>6. \A s \in SUBSET T : s # {} => G[next(s)] = Less(next(s))[next(s)]
  <2> SUFFICES ASSUME NEW s \in SUBSET T, s # {}
               PROVE  G[next(s)] = Less(next(s))[next(s)]
    OBVIOUS
  <2> DEFINE u == next(s)
  <2>1. u \subseteq T /\ u # T /\ IsFiniteSet(u)
    BY <1>5
  <2> HIDE DEF u
  <2>2. Sums(Less(u), f, u)
    BY <1>4, <2>1
  <2>3. G[u] = IF u = {} THEN 0 ELSE f[Some(u)] + Less(next(u))[next(u)]
    BY <2>1
  <2>4. Less(u)[u] = IF u = {} THEN 0 ELSE f[Some(u)] + Less(u)[next(u)]
    <3> HIDE DEF Less
    <3> QED BY <2>2, SumsAre
  <2>5. CASE u = {}
    <3> HIDE DEF G, Less
    <3> QED BY <2>3, <2>4, <2>5 DEF u
  <2>6. CASE u # {}
    <3> DEFINE w == next(u)
    <3>1. w \subseteq u /\ w # T /\ w \subseteq T /\ IsFiniteSet(w)
      BY <1>5, <2>1, <2>6
    <3> HIDE DEF w
    <3>2. Sums(Less(w), f, w)
      BY <1>4, <3>1
    <3>3. Less(w)[w] = Less(u)[w]
      <4> HIDE DEF Less
      <4> QED BY <2>2, <3>1, <3>2, SumsAgree
    <3> HIDE DEF G, Less
    <3> QED BY <2>3, <2>4, <3>3 DEF u, w
  <2> QED BY <2>5, <2>6
<1>7. G = [s \in SUBSET T |-> IF s = {} THEN 0 ELSE f[Some(s)] + G[next(s)]]
  <2>1. \A s \in SUBSET T : G[s] = IF s = {} THEN 0 ELSE f[Some(s)] + G[next(s)]
    <3>1. \A s \in SUBSET T : G[s] = IF s = {} THEN 0 ELSE f[Some(s)] + Less(next(s))[next(s)]
      OBVIOUS
    <3> HIDE DEF G, Less, next
    <3> QED BY <1>6, <3>1
  <2>2. G = [s \in SUBSET T |-> G[s]]
    OBVIOUS
  <2> HIDE DEF G, next
  <2> QED BY <2>1, <2>2
<1>8. Sums(G, f, T)
  <2> HIDE DEF G
  <2> QED BY <1>7 DEF Sums
<1> QED BY <1>3, <1>8

\* The sum over a set is that of the library.
LEMMA TotalIsSum == ASSUME NEW f, NEW S PROVE SumFunctionOnSet(f, S) = Total(f, S)
  BY DEF SumFunctionOnSet, FoldFunctionOnSet, MapThenFoldSet, Total, Sums, Some
LEMMA TotalIsMapped == ASSUME NEW f, NEW S PROVE MapThenSumSet(LAMBDA i : f[i], S) = Total(f, S)
  BY DEF MapThenSumSet, MapThenFoldSet, Total, Sums, Some

LEMMA TotalSums ==
  ASSUME NEW S, IsFiniteSet(S), NEW f
  PROVE  Total(f, S) = IF S = {} THEN 0 ELSE f[Some(S)] + Total(f, S \ {Some(S)})
<1> DEFINE g == CHOOSE g : Sums(g, f, S)
           U == S \ {Some(S)}
           h == CHOOSE h : Sums(h, f, U)
<1>1. Sums(g, f, S)
  BY SumsExist
<1>2. IsFiniteSet(U)
  BY FS_Subset
<1>3. Sums(h, f, U)
  BY <1>2, SumsExist
<1>4. Total(f, S) = g[S] /\ Total(f, U) = h[U]
  BY DEF Total
<1> HIDE DEF g, h
<1>5. g[S] = IF S = {} THEN 0 ELSE f[Some(S)] + g[U]
  BY <1>1, SumsAre
<1>6. g[U] = h[U]
  BY <1>1, <1>2, <1>3, SumsAgree
<1> QED BY <1>4, <1>5, <1>6

LEMMA TotalIsNat ==
  ASSUME NEW S, IsFiniteSet(S), NEW f, \A x \in S : f[x] \in Nat
  PROVE  Total(f, S) \in Nat
<1> DEFINE C == {T \in SUBSET S : Total(f, T) \notin Nat}
<1> SUFFICES ASSUME Total(f, S) \notin Nat PROVE FALSE
  OBVIOUS
<1>1. PICK T \in C : \A U \in C : U \subseteq T => U = T
  <2>1. C \subseteq SUBSET S /\ C # {}
    OBVIOUS
  <2> HIDE DEF C
  <2> QED BY <2>1, SmallestSet
<1>2. T \subseteq S /\ IsFiniteSet(T) /\ Total(f, T) \notin Nat
  BY <1>1, FS_Subset
<1>3. T # {}
  <2>1. IsFiniteSet({}) /\ 0 \in Nat
    BY FS_EmptySet
  <2>2. Total(f, {}) = 0
    BY <2>1, TotalSums
  <2> QED BY <1>2, <2>1, <2>2
<1> DEFINE p == Some(T)
           U == T \ {p}
<1>4. p \in T
  BY <1>3, SomeIn
<1>5. U \notin C /\ U \subseteq S
  BY <1>1, <1>2, <1>4
<1>6. Total(f, U) \in Nat /\ f[p] \in Nat
  BY <1>2, <1>4, <1>5
<1>7. Total(f, T) = f[p] + Total(f, U)
  BY <1>2, <1>3, TotalSums
<1> QED BY <1>2, <1>6, <1>7


\* The sum depends on the values in the set alone.
LEMMA TotalAgrees ==
  ASSUME NEW S, IsFiniteSet(S), NEW f, NEW g, \A x \in S : f[x] = g[x]
  PROVE  Total(f, S) = Total(g, S)
<1> DEFINE C == {T \in SUBSET S : Total(f, T) # Total(g, T)}
<1> SUFFICES ASSUME Total(f, S) # Total(g, S) PROVE FALSE
  OBVIOUS
<1>1. PICK T \in C : \A U \in C : U \subseteq T => U = T
  <2>1. C \subseteq SUBSET S /\ C # {}
    OBVIOUS
  <2> HIDE DEF C
  <2> QED BY <2>1, SmallestSet
<1>2. T \subseteq S /\ IsFiniteSet(T) /\ Total(f, T) # Total(g, T)
  BY <1>1, FS_Subset
<1> DEFINE p == Some(T)
           U == T \ {p}
<1>3. T # {} => p \in T
  BY SomeIn
<1>4. T # {} => U \subseteq T /\ U # T /\ U \in SUBSET S
  BY <1>2, <1>3
<1>5. T # {} => Total(f, U) = Total(g, U)
  BY <1>1, <1>4
<1>6. Total(f, T) = IF T = {} THEN 0 ELSE f[p] + Total(f, U)
  BY <1>2, TotalSums
<1>7. Total(g, T) = IF T = {} THEN 0 ELSE g[p] + Total(g, U)
  BY <1>2, TotalSums
<1>8. T # {} => f[p] = g[p]
  BY <1>2, <1>3
<1> HIDE DEF p, U
<1> QED BY <1>2, <1>5, <1>6, <1>7, <1>8

\* It does not depend on the element that is taken first.
LEMMA TotalTakes ==
  ASSUME NEW S, IsFiniteSet(S), NEW f, \A x \in S : f[x] \in Nat, NEW v \in S
  PROVE  Total(f, S) = f[v] + Total(f, S \ {v})
<1> DEFINE Takes(T) == \A x \in T : Total(f, T) = f[x] + Total(f, T \ {x})
           C == {T \in SUBSET S : ~ Takes(T)}
<1> SUFFICES ASSUME ~ Takes(S) PROVE FALSE
  OBVIOUS
<1>1. PICK T \in C : \A U \in C : U \subseteq T => U = T
  <2>1. C \subseteq SUBSET S /\ C # {}
    OBVIOUS
  <2> HIDE DEF C
  <2> QED BY <2>1, SmallestSet
<1>2. T \subseteq S /\ IsFiniteSet(T) /\ ~ Takes(T)
  BY <1>1, FS_Subset
<1>3. PICK x \in T : Total(f, T) # f[x] + Total(f, T \ {x})
  BY <1>2
<1> DEFINE p == Some(T)
<1>4. p \in T /\ T # {}
  BY <1>3, SomeIn
<1>5. Total(f, T) = f[p] + Total(f, T \ {p})
  BY <1>2, <1>4, TotalSums
<1> HIDE DEF p
<1>6. x # p
  BY <1>3, <1>5
<1>7. \A U \in SUBSET T : U # T => Takes(U)
  BY <1>1, <1>2
<1>8. Takes(T \ {p}) /\ Takes(T \ {x})
  <2>1. T \ {p} \in SUBSET T /\ T \ {p} # T /\ T \ {x} \in SUBSET T /\ T \ {x} # T
    BY <1>4
  <2> HIDE DEF Takes
  <2> QED BY <1>7, <2>1
<1>9. /\ Total(f, T \ {p}) = f[x] + Total(f, (T \ {p}) \ {x})
      /\ Total(f, T \ {x}) = f[p] + Total(f, (T \ {x}) \ {p})
  <2>1. x \in T \ {p} /\ p \in T \ {x}
    BY <1>4, <1>6
  <2> QED BY <1>8, <2>1
<1>10. (T \ {p}) \ {x} = (T \ {x}) \ {p}
  OBVIOUS
<1> DEFINE w == Total(f, (T \ {x}) \ {p})
<1>11. w \in Nat /\ f[x] \in Nat /\ f[p] \in Nat
  <2> DEFINE V == (T \ {x}) \ {p}
  <2>1. IsFiniteSet(V) /\ \A y \in V : f[y] \in Nat
    BY <1>2, FS_Subset
  <2> HIDE DEF V
  <2>2. Total(f, V) \in Nat
    BY <2>1, TotalIsNat
  <2> QED BY <1>2, <1>4, <2>2 DEF V
<1>12. Total(f, T) = f[p] + (f[x] + w) /\ Total(f, T \ {x}) = f[p] + w
  BY <1>5, <1>9, <1>10
<1> HIDE DEF w, Takes
<1> QED BY <1>3, <1>11, <1>12

\* The sum over two sets without a common element.
LEMMA TotalJoins ==
  ASSUME NEW S, IsFiniteSet(S), NEW f, NEW R, IsFiniteSet(R), S \cap R = {},
         \A x \in S \cup R : f[x] \in Nat
  PROVE  Total(f, S \cup R) = Total(f, S) + Total(f, R)
<1> DEFINE Joins(T) == Total(f, T \cup R) = Total(f, T) + Total(f, R)
           C == {T \in SUBSET S : ~ Joins(T)}
<1> SUFFICES ASSUME ~ Joins(S) PROVE FALSE
  OBVIOUS
<1>1. PICK T \in C : \A U \in C : U \subseteq T => U = T
  <2>1. C \subseteq SUBSET S /\ C # {}
    OBVIOUS
  <2> HIDE DEF C
  <2> QED BY <2>1, SmallestSet
<1>2. T \subseteq S /\ IsFiniteSet(T) /\ ~ Joins(T)
  BY <1>1, FS_Subset
<1>3. Total(f, R) \in Nat
  BY TotalIsNat
<1>4. CASE T = {}
  <2>1. IsFiniteSet({}) /\ T \cup R = R
    BY <1>4, FS_EmptySet
  <2>2. Total(f, {}) = 0
    BY <2>1, TotalSums
  <2> QED BY <1>2, <1>3, <1>4, <2>1, <2>2
<1>5. CASE T # {}
  <2>1. PICK x \in T : TRUE
    BY <1>5
  <2> DEFINE U == T \ {x}
  <2>2. U \subseteq T /\ U # T /\ U \in SUBSET S /\ IsFiniteSet(U)
    BY <1>2, <2>1, FS_Subset
  <2>3. Joins(U)
    BY <1>1, <2>2
  <2>4. IsFiniteSet(T \cup R) /\ x \in T \cup R /\ \A y \in T \cup R : f[y] \in Nat
    BY <1>2, <2>1, FS_Union
  <2>5. (T \cup R) \ {x} = U \cup R
    BY <1>2, <2>1
  <2>6. Total(f, T \cup R) = f[x] + Total(f, U \cup R)
    BY <2>4, <2>5, TotalTakes
  <2>7. Total(f, T) = f[x] + Total(f, U)
    BY <1>2, <2>1, TotalTakes
  <2>8. Total(f, U) \in Nat /\ f[x] \in Nat
    BY <1>2, <2>1, <2>2, TotalIsNat
  <2> HIDE DEF U
  <2> QED BY <1>2, <1>3, <2>3, <2>6, <2>7, <2>8
<1> QED BY <1>4, <1>5
-----------------------------------------------------------------------------
(***************************************************************************)
(* Cgroups: the search of the previous sample.                             *)
(***************************************************************************)
\* A member of the chain has the hash of its path.
Member(m) ==
  /\ m = [path |-> m.path, parentseq |-> m.parentseq, depth |-> m.depth, hash |-> m.hash,
          proclist |-> m.proclist, procsbelow |-> m.procsbelow]
  /\ m.hash = hashcalc(m.path)
AChain(s) == IsSequence(s) /\ \A i \in 1 .. Len(s) : Member(s[i])

\* The inductive invariant: the deviations are those of the two chains, as long
\* as there is a current one; there are none while the walk goes on.
ChainsInv ==
  /\ AChain(cgcur) /\ AChain(cgpre)
  /\ todo # << >> => cgdev = << >>
  /\ cgcur # << >> /\ cgdev # << >> => cgdev = cgcalcdeviate

LEMMA EmptyChain == AChain(<< >>)
<1>1. Len(<< >>) = 0 /\ << >> \in Seq(Range(<< >>))
  OBVIOUS
<1> QED BY <1>1 DEF AChain, IsSequence

LEMMA ChainAppends ==
  ASSUME NEW s, AChain(s), NEW m, Member(m)
  PROVE  AChain(Append(s, m))
<1>1. /\ IsSequence(Append(s, m)) /\ Len(Append(s, m)) = Len(s) + 1 /\ Len(s) \in Nat
      /\ \A i \in 1 .. Len(s) : Append(s, m)[i] = s[i]
      /\ Append(s, m)[Len(s) + 1] = m
  BY AppendSequence DEF AChain
<1> QED BY <1>1 DEF AChain

\* The number of processes below a member is not part of its path.
SetBelow(s, k, n) == [s EXCEPT ![k].procsbelow = n]
LEMMA ChainCounts ==
  ASSUME NEW s, AChain(s), NEW k, NEW n
  PROVE  AChain([s EXCEPT ![k].procsbelow = n])
<1> DEFINE x == [s[k] EXCEPT !.procsbelow = n]
           t == [s EXCEPT ![k] = x]
<1>1. /\ IsSequence(t) /\ Len(t) = Len(s) /\ Len(s) \in Nat
      /\ \A i \in 1 .. Len(s) : t[i] = IF i = k THEN x ELSE s[i]
  BY ReplaceSequence DEF AChain
<1>2. ASSUME k \in 1 .. Len(s) PROVE Member(x)
  <2>1. Member(s[k])
    BY <1>2 DEF AChain
  <2>2. x = [path |-> s[k].path, parentseq |-> s[k].parentseq, depth |-> s[k].depth,
             hash |-> s[k].hash, proclist |-> s[k].proclist, procsbelow |-> n]
    BY <2>1 DEF Member
  <2> HIDE DEF x
  <2> QED BY <2>1, <2>2 DEF Member
<1> HIDE DEF x
<1>3. AChain(t)
  BY <1>1, <1>2 DEF AChain
<1> QED BY <1>3 DEF x

LEMMA ChainsNextInv == ChainsInv /\ CgNext => ChainsInv'
<1> SUFFICES ASSUME ChainsInv, CgNext PROVE ChainsInv'
  OBVIOUS
<1>1. ASSUME UNCHANGED <<todo, cgcur, cgpre, cgdev>> PROVE ChainsInv'
  <2>1. cgcalcdeviate' = cgcalcdeviate
    BY <1>1 DEF cgcalcdeviate, InSync, hashfind
  <2> QED BY <1>1, <2>1 DEF ChainsInv
<1>2. CASE Mkdir \/ Rmdir \/ Move
  BY <1>1, <1>2 DEF Mkdir, Rmdir, Move
<1>3. CASE photocgroup
  <2>1. cgpre' = cgcur /\ cgcur' = << >> /\ cgdev' = << >>
    BY <1>3 DEF photocgroup
  <2> QED BY <2>1, EmptyChain DEF ChainsInv
<1>4. CASE Vanished
  <2>1. \E k, n : cgcur' = SetBelow(cgcur, k, n)
    <3> DEFINE k == Head(todo).parentseq
    <3>1. cgcur' = [cgcur EXCEPT ![k].procsbelow = cgcur[k].procsbelow - 1]
      BY <1>4 DEF Vanished
    <3> HIDE DEF k
    <3> QED BY <3>1 DEF SetBelow
  <2>2. todo # << >> /\ UNCHANGED <<cgpre, cgdev>>
    BY <1>4 DEF Vanished, Enter
  <2>3. AChain(cgcur')
    <3>1. AChain(cgcur)
      BY DEF ChainsInv
    <3>2. \A k, n : AChain(SetBelow(cgcur, k, n))
      BY <3>1, ChainCounts DEF SetBelow
    <3> QED BY <2>1, <3>1, <3>2
  <2> QED BY <2>2, <2>3 DEF ChainsInv
<1>5. CASE walkcgroup
  <2>1. PICK m : m = [path |-> Head(todo).path, parentseq |-> Head(todo).parentseq,
           depth |-> Len(Head(todo).path), hash |-> hashcalc(Head(todo).path),
           proclist |-> {pid \in CgPids : where[pid] = Head(todo).path}, procsbelow |-> 0]
    OBVIOUS
  <2>2. cgcur' = Append(cgcur, m)
    BY <1>5, <2>1 DEF walkcgroup
  <2>3. Member(m)
    BY <2>1 DEF Member
  <2>4. todo # << >> /\ UNCHANGED <<cgpre, cgdev>>
    BY <1>5 DEF walkcgroup, Enter
  <2>5. AChain(cgcur')
    BY <2>2, <2>3, ChainAppends DEF ChainsInv
  <2> QED BY <2>4, <2>5 DEF ChainsInv
<1>6. CASE Return
  <2> DEFINE seq == Head(todo).parentseq
             parent == cgcur[seq].parentseq
  <2>1. cgcur' = cgcur \/ \E n : cgcur' = SetBelow(cgcur, parent, n)
    <3>1. cgcur' = IF parent = 0 THEN cgcur
                   ELSE [cgcur EXCEPT ![parent].procsbelow =
                      cgcur[parent].procsbelow + cgcur[seq].procsbelow + Cardinality(cgcur[seq].proclist)]
      BY <1>6 DEF Return
    <3> HIDE DEF seq, parent
    <3> QED BY <3>1 DEF SetBelow
  <2>2. todo # << >> /\ UNCHANGED <<cgpre, cgdev>>
    BY <1>6 DEF Return, Enter
  <2>3. AChain(cgcur')
    <3>1. AChain(cgcur)
      BY DEF ChainsInv
    <3>2. \A k, n : AChain(SetBelow(cgcur, k, n))
      BY <3>1, ChainCounts DEF SetBelow
    <3> QED BY <2>1, <3>1, <3>2
  <2> QED BY <2>2, <2>3 DEF ChainsInv
<1>7. CASE deviatcgroup
  <2>1. todo = << >> /\ cgdev' = cgcalcdeviate /\ UNCHANGED <<todo, cgcur, cgpre>>
    BY <1>7 DEF deviatcgroup, Idle
  <2>2. cgcalcdeviate' = cgcalcdeviate
    BY <2>1 DEF cgcalcdeviate, InSync, hashfind
  <2> QED BY <2>1, <2>2 DEF ChainsInv
<1>8. CASE cgwipecur
  <2>1. todo = << >> /\ cgcur' = << >> /\ UNCHANGED <<todo, cgpre, cgdev>>
    BY <1>8 DEF cgwipecur, Idle
  <2> QED BY <2>1, EmptyChain DEF ChainsInv
<1> QED BY <1>2, <1>3, <1>4, <1>5, <1>6, <1>7, <1>8 DEF CgNext

\* hashfind(): the last cgroup of the previous chain with this hash.
LEMMA HashFinds ==
  ASSUME AChain(cgpre), NEW h
  PROVE  LET f == hashfind(h) IN
         /\ f # 0 => f \in DOMAIN cgpre /\ cgpre[f].hash = h
         /\ f = 0 => \A j \in DOMAIN cgpre : cgpre[j].hash # h
<1> DEFINE S == {0} \union {i \in DOMAIN cgpre : cgpre[i].hash = h}
           f == hashfind(h)
<1>1. DOMAIN cgpre = 1 .. Len(cgpre) /\ Len(cgpre) \in Nat
  <2>1. cgpre \in Seq(Range(cgpre))
    BY DEF AChain, IsSequence
  <2> QED BY <2>1
<1>2. S \subseteq 0 .. Len(cgpre) /\ S # {}
  BY <1>1
<1>3. f = Max(S)
  BY DEF hashfind
<1>4. f \in S /\ \A y \in S : f >= y
  <2> HIDE DEF S, f
  <2> QED BY <1>1, <1>2, <1>3, MaxBounded
<1> HIDE DEF f
<1>5. f = 0 => \A j \in DOMAIN cgpre : cgpre[j].hash # h
  BY <1>1, <1>4
<1> QED BY <1>4, <1>5 DEF f

\* A cgroup is compared with its own counters of the previous sample, and with
\* none if it had none, unless two paths have the same hash: deviatcgroup().
THEOREM OwnIsCompared == Spec => []OwnCounters
<1>1. Init => ChainsInv
  <2> SUFFICES ASSUME Init PROVE ChainsInv
    OBVIOUS
  <2>1. todo = << >> /\ cgcur = << >> /\ cgpre = << >>
    BY DEF Init, CgInit, CgOff
  <2> QED BY <2>1, EmptyChain DEF ChainsInv
<1>2. ChainsInv /\ [Next]_vars => ChainsInv'
  <2> SUFFICES ASSUME ChainsInv, [Next]_vars PROVE ChainsInv'
    OBVIOUS
  <2>1. CASE UNCHANGED cgvars
    <3>1. UNCHANGED <<todo, cgcur, cgpre, cgdev>>
      BY <2>1 DEF cgvars
    <3>2. cgcalcdeviate' = cgcalcdeviate
      BY <3>1 DEF cgcalcdeviate, InSync, hashfind
    <3> QED BY <3>1, <3>2 DEF ChainsInv
  <2>2. CgNext \/ UNCHANGED cgvars
    BY DEF Next, vars
  <2> QED BY <2>1, <2>2, ChainsNextInv
<1>3. ChainsInv => OwnCounters
  <2> SUFFICES ASSUME ChainsInv, cgcur # << >>, cgdev # << >>, ~ SameHash, NEW i \in DOMAIN cgcur
               PROVE  IF cgdev[i] = 0 THEN \A m \in Range(cgpre) : m.path # cgcur[i].path
                      ELSE cgpre[cgdev[i]].path = cgcur[i].path
    BY DEF OwnCounters
  <2>1. /\ DOMAIN cgcur = 1 .. Len(cgcur) /\ \A k \in 1 .. Len(cgcur) : Member(cgcur[k])
        /\ DOMAIN cgpre = 1 .. Len(cgpre) /\ \A k \in 1 .. Len(cgpre) : Member(cgpre[k])
    <3>1. AChain(cgcur) /\ AChain(cgpre)
      BY DEF ChainsInv
    <3>2. cgcur \in Seq(Range(cgcur)) /\ cgpre \in Seq(Range(cgpre))
      BY <3>1 DEF AChain, IsSequence
    <3>3. DOMAIN cgcur = 1 .. Len(cgcur)
      BY <3>2
    <3>4. DOMAIN cgpre = 1 .. Len(cgpre)
      BY <3>2
    <3> QED BY <3>1, <3>3, <3>4 DEF AChain
  <2>2. \A j \in DOMAIN cgpre : cgcur[i].hash = cgpre[j].hash => cgpre[j].path = cgcur[i].path
    <3> SUFFICES ASSUME NEW j \in DOMAIN cgpre, cgcur[i].hash = cgpre[j].hash
                 PROVE  cgpre[j].path = cgcur[i].path
      OBVIOUS
    <3>1. hashcalc(cgcur[i].path) = hashcalc(cgpre[j].path)
      BY <2>1 DEF Member
    <3>2. cgcur[i] \in Range(cgcur) /\ cgpre[j] \in Range(cgpre)
      BY DEF Range
    <3> QED BY <3>1, <3>2 DEF SameHash
  <2>3. \A j \in DOMAIN cgpre : cgpre[j].path = cgcur[i].path => cgcur[i].hash = cgpre[j].hash
    BY <2>1 DEF Member
  <2>4. cgdev[i] = IF InSync(i) THEN i ELSE hashfind(cgcur[i].hash)
    BY DEF ChainsInv, cgcalcdeviate
  <2>5. CASE InSync(i)
    <3>1. i \in DOMAIN cgpre /\ cgcur[i].hash = cgpre[i].hash /\ i # 0
      BY <2>1, <2>5 DEF InSync
    <3> QED BY <2>2, <2>4, <2>5, <3>1
  <2>6. CASE ~ InSync(i)
    <3> DEFINE f == hashfind(cgcur[i].hash)
    <3>1. /\ f # 0 => f \in DOMAIN cgpre /\ cgpre[f].hash = cgcur[i].hash
          /\ f = 0 => \A j \in DOMAIN cgpre : cgpre[j].hash # cgcur[i].hash
      BY HashFinds DEF ChainsInv
    <3> HIDE DEF f
    <3>2. cgdev[i] = f
      BY <2>4, <2>6 DEF f
    <3>3. ASSUME f = 0, NEW m \in Range(cgpre) PROVE m.path # cgcur[i].path
      <4>1. PICK j \in DOMAIN cgpre : m = cgpre[j]
        BY DEF Range
      <4> QED BY <2>3, <3>1, <3>3, <4>1
    <3> QED BY <2>2, <3>1, <3>2, <3>3
  <2> QED BY <2>5, <2>6
<1> QED BY <1>1, <1>2, <1>3, PTL DEF Spec
-----------------------------------------------------------------------------
(***************************************************************************)
(* SysFlow: the counters that the system has once.                         *)
(***************************************************************************)
Values == [c : Nat, g : Int, o : Nat \cup {-1}]

\* The sections with a counter.
Counting == {"vm", "snmp", "snmp6", "nfsd", "nfs", "psi", "llc", "freq", "ib"}

\* The inductive invariant: a sample of a section that could be read holds the
\* counter as it was, and the counter has only grown since, unless it was reset.
FlowTypes ==
  /\ sec \in Sections /\ kernel \in [c : Nat, g : Nat, o : Nat] /\ there \in BOOLEAN
  /\ memo \in Int /\ (sec = "ib" => memo \in {Unset, Off, 1}) /\ nflow \in Nat
  /\ fcur \in Values
  /\ had \in [now : BOOLEAN, before : BOOLEAN, reset : BOOLEAN, was : Nat, grown : Int]
HeldInv ==
  /\ sec \notin Counting => fcur.c = 0
  /\ sec \in Counting /\ had.now /\ memo # Off => fcur.c = had.was
  /\ had.now /\ sec = "ib" => memo # Unset
  /\ ~ had.reset => had.was <= kernel.c
FlowInv ==
  /\ FlowRight
  /\ IF tbl = "flow" THEN FlowTypes /\ HeldInv ELSE nflow = 0

\* photosyst(), section by section.
LEMMA PhotoHolds ==
  ASSUME FlowTypes
  PROVE  LET n == Photo(kernel) IN
         /\ n \in Values
         /\ sec \notin Counting => n.c = 0
         /\ sec \in Counting /\ there /\ PhotoMemo(kernel) # Off => n.c = kernel.c
         /\ sec = "freq" /\ there => n.o = kernel.c
<1> DEFINE n == Photo(kernel)
           Holds == /\ n \in Values
                    /\ sec \notin Counting => n.c = 0
                    /\ sec \in Counting /\ there /\ PhotoMemo(kernel) # Off => n.c = kernel.c
                    /\ sec = "freq" /\ there => n.o = kernel.c
<1>0. /\ kernel.c \in Nat /\ kernel.g \in Nat /\ kernel.o \in Nat /\ there \in BOOLEAN /\ memo \in Int
      /\ sec \in Sections
  BY DEF FlowTypes
<1>1. \A x \in Nat, y \in Int, z \in Nat \cup {-1} : [c |-> x, g |-> y, o |-> z] \in Values
  BY DEF Values
<1>2. CASE sec \in {"load", "sock", "nummem", "frag"}
  <2>1. n = [c |-> 0, g |-> IF there THEN kernel.g ELSE 0, o |-> 0]
    BY <1>2 DEF Photo, Loadavg, Sockstat, NumaMem, Frag, Nothing
  <2>2. n \in Values /\ n.c = 0
    BY <1>0, <1>1, <2>1
  <2> QED BY <1>2, <2>2 DEF Counting
<1>3. CASE sec \in {"mem", "balloon", "zfs"}
  <2>1. n = [c |-> 0, g |-> IF there THEN kernel.g ELSE -1, o |-> 0]
    BY <1>3 DEF Photo, Meminfo, Balloon, Zfs, Nothing
  <2>2. n \in Values /\ n.c = 0
    BY <1>0, <1>1, <2>1
  <2> QED BY <1>3, <2>2 DEF Counting
<1>4. CASE sec \in {"low", "huge", "ksm"}
  <2>1. n = IF sec = "low" THEN LowWater(kernel) ELSE IF sec = "huge" THEN Huge(kernel) ELSE Ksm(kernel)
    BY <1>4 DEF Photo
  <2> HIDE DEF n
  <2>2. \E x \in Int : n = [c |-> 0, g |-> x, o |-> 0]
    BY <1>0, <1>4, <2>1 DEF LowWater, Huge, Ksm, Nothing
  <2>3. n \in Values /\ n.c = 0
    BY <1>1, <2>2
  <2> QED BY <1>4, <2>3 DEF Counting, n
<1>5. CASE sec \in {"snmp", "psi", "llc"}
  <2>0. n = IF sec = "snmp" THEN Snmp(kernel) ELSE IF sec = "psi" THEN Psi(kernel) ELSE Llc(kernel)
    BY <1>5 DEF Photo
  <2>1. n = IF there THEN [c |-> kernel.c, g |-> kernel.g, o |-> 0] ELSE Nothing
    BY <1>5, <2>0 DEF Snmp, Psi, Llc, Nothing
  <2>2. n \in Values /\ (there => n.c = kernel.c)
    BY <1>0, <1>1, <2>1 DEF Nothing
  <2> QED BY <1>5, <2>2 DEF Counting
<1>6. CASE sec \in {"snmp6", "nfsd", "nfs"}
  <2>1. n = IF there THEN [c |-> kernel.c, g |-> 0, o |-> 0] ELSE Nothing
    BY <1>6 DEF Photo, Snmp6, NfsServer, NfsClient, Nothing
  <2>2. n \in Values /\ (there => n.c = kernel.c)
    BY <1>0, <1>1, <2>1 DEF Nothing
  <2> QED BY <1>6, <2>2 DEF Counting
<1>7. CASE sec = "vm"
  <2>1. n = IF there THEN [c |-> kernel.c, g |-> 0, o |-> kernel.o] ELSE [c |-> 0, g |-> 0, o |-> -1]
    <3>1. n = Vmstat(kernel)
      BY <1>7 DEF Photo
    <3> QED BY <3>1 DEF Vmstat, Nothing
  <2>2. n \in Values /\ (there => n.c = kernel.c)
    BY <1>0, <1>1, <2>1
  <2> QED BY <1>7, <2>2 DEF Counting
<1>8. CASE sec = "freq"
  <2>1. n = IF there THEN [c |-> kernel.c, g |-> 0, o |-> kernel.c] ELSE [c |-> kernel.g, g |-> 0, o |-> 0]
    <3>1. n = Freq(kernel)
      BY <1>8 DEF Photo
    <3> QED BY <3>1 DEF Freq, Nothing
  <2>2. n \in Values /\ (there => n.c = kernel.c /\ n.o = kernel.c)
    BY <1>0, <1>1, <2>1
  <2> QED BY <1>8, <2>2 DEF Counting
<1>9. CASE sec = "ib"
  <2>1. n = IF IbMemo = 1 /\ there THEN [c |-> kernel.c, g |-> 0, o |-> 0] ELSE Nothing
    BY <1>9 DEF Photo, Ib, Nothing
  <2>2. PhotoMemo(kernel) = IbMemo
    BY <1>9 DEF PhotoMemo
  <2>3. n \in Values
    BY <1>0, <1>1, <2>1 DEF Nothing
  <2>4. ASSUME there, IbMemo # Off PROVE n.c = kernel.c
    <3>1. memo \in {Unset, Off, 1}
      BY <1>9 DEF FlowTypes
    <3>2. IbMemo = 1
      BY <2>4, <3>1 DEF IbMemo
    <3> QED BY <2>1, <2>4, <3>2
  <2> QED BY <1>9, <2>2, <2>3, <2>4 DEF Counting
<1>10. sec \in {"load", "sock", "nummem", "frag", "mem", "balloon", "zfs", "vm", "snmp",
                "snmp6", "nfsd", "nfs", "psi", "llc", "freq", "low", "huge", "ib", "ksm"}
  BY <1>0, SysFlowAssumption
<1> QED BY <1>2, <1>3, <1>4, <1>5, <1>6, <1>7, <1>8, <1>9, <1>10

LEMMA MemoHolds ==
  ASSUME FlowTypes
  PROVE  PhotoMemo(kernel) \in Int /\ (sec = "ib" => PhotoMemo(kernel) \in {Off, 1})
<1>1. kernel.g \in Nat /\ memo \in Int /\ (sec = "ib" => memo \in {Unset, Off, 1})
  BY DEF FlowTypes
<1> QED BY <1>1 DEF PhotoMemo, LowWaterMemo, HugeMemo, IbMemo, KsmMemo, Off, Unset

\* deviatsyst(): what becomes of the counter, by the way a section is treated.
LEMMA DevIs ==
  ASSUME FlowTypes, NEW n \in Values, NEW p \in Values
  PROVE  LET d == DevFlow(n, p) IN
         /\ sec \in {"vm", "nfsd", "nfs"} =>
              d.c = subcount(n.c, p.c) /\ d.o >= -1
         /\ sec \in {"snmp", "snmp6", "ib", "llc"} => d.c = n.c - p.c
         /\ sec = "psi" => d.c = IF there THEN n.c - p.c ELSE n.c
         /\ sec = "freq" => d.c = IF n.o = 0 THEN n.c ELSE subcount(n.c, p.c)
         /\ sec \in {"snmp", "psi", "llc", "mem"} => d.g = n.g
<1> DEFINE d == DevFlow(n, p)
<1>1. n.c \in Nat /\ p.c \in Nat /\ n.o \in Nat \cup {-1} /\ p.o \in Nat \cup {-1}
  BY DEF Values
<1>2. \A x : [n EXCEPT !.c = x].c = x /\ [n EXCEPT !.c = x].g = n.g
  BY DEF Values
<1>3. CASE sec \in {"vm", "nfsd", "nfs"}
  <2>1. d = IF sec = "vm" THEN DevVmstat(n, p) ELSE DevNfsCount(n, p)
    BY <1>3 DEF DevFlow
  <2>2. DevVmstat(n, p).c = subcount(n.c, p.c) /\ DevNfsCount(n, p).c = subcount(n.c, p.c)
    BY DEF DevVmstat, DevNfsCount, Nothing
  <2>3. DevVmstat(n, p).o = (IF n.o = -1 THEN -1 ELSE subcount(n.o, p.o)) /\ DevNfsCount(n, p).o = 0
    BY DEF DevVmstat, DevNfsCount, Nothing
  <2>4. (IF n.o = -1 THEN -1 ELSE subcount(n.o, p.o)) >= -1
    BY <1>1 DEF subcount
  <2> QED BY <1>3, <2>1, <2>2, <2>3, <2>4
<1>4. CASE sec \in {"snmp", "snmp6", "ib", "llc"}
  <2>1. d = [n EXCEPT !.c = n.c - p.c]
    BY <1>4 DEF DevFlow, DevTables, DevIb, DevLlc
  <2> QED BY <1>2, <1>4, <2>1, Zenon
<1>5. CASE sec = "psi"
  <2>1. d = IF there THEN [n EXCEPT !.c = n.c - p.c] ELSE n
    BY <1>5 DEF DevFlow, DevPsi
  <2>2. d.c = (IF there THEN n.c - p.c ELSE n.c) /\ d.g = n.g
    <3>1. CASE there
      BY <1>2, <2>1, <3>1, Zenon
    <3>2. CASE ~ there
      BY <2>1, <3>2
    <3> QED BY <3>1, <3>2
  <2> HIDE DEF d
  <2> QED BY <1>5, <2>2 DEF d
<1>6. CASE sec = "freq"
  <2>1. d = IF n.o = 0 THEN n ELSE [n EXCEPT !.c = subcount(n.c, p.c), !.o = subcount(n.o, p.o)]
    BY <1>6 DEF DevFlow, DevFreq
  <2>2. \A x, y : [n EXCEPT !.c = x, !.o = y].c = x
    BY DEF Values
  <2>3. d.c = IF n.o = 0 THEN n.c ELSE subcount(n.c, p.c)
    <3>1. CASE n.o = 0
      BY <2>1, <3>1
    <3>2. CASE n.o # 0
      BY <2>1, <2>2, <3>2, Zenon
    <3> QED BY <3>1, <3>2
  <2> HIDE DEF d
  <2> QED BY <1>6, <2>3 DEF d
<1>7. CASE sec = "mem"
  <2>1. d = [Nothing EXCEPT !.g = n.g]
    BY <1>7 DEF DevFlow, DevGauges
  <2> QED BY <1>7, <2>1 DEF Nothing
<1>8. CASE sec \notin {"vm", "nfsd", "nfs", "snmp", "snmp6", "ib", "llc", "psi", "freq", "mem"}
  BY <1>8
<1> QED BY <1>3, <1>4, <1>5, <1>6, <1>7, <1>8

LEMMA FlowStarts == FlowInit => FlowTypes /\ HeldInv /\ FlowRight
<1> SUFFICES ASSUME FlowInit PROVE FlowTypes /\ HeldInv /\ FlowRight
  OBVIOUS
<1>1. /\ sec \in Sections /\ there \in BOOLEAN /\ memo = Unset /\ nflow = 0
      /\ fcur = Nothing
      /\ had = [now |-> FALSE, before |-> FALSE, reset |-> FALSE, was |-> 0, grown |-> 0]
  BY DEF FlowInit
<1>2. kernel \in [c : {0}, g : 0 .. MaxValue, o : {0}]
  BY DEF FlowInit
<1>3. kernel \in [c : Nat, g : Nat, o : Nat]
  BY <1>2, SysFlowAssumption
<1>4. FlowTypes
  BY <1>1, <1>3 DEF FlowTypes, Values, Nothing, Unset
<1>5. HeldInv
  BY <1>1, <1>3 DEF HeldInv, Nothing
<1> QED BY <1>1, <1>4, <1>5 DEF FlowRight

LEMMA FlowSampleInv == FlowTypes /\ HeldInv /\ FlowSample => (FlowTypes /\ HeldInv /\ FlowRight)'
<1> SUFFICES ASSUME FlowTypes, HeldInv, FlowSample PROVE (FlowTypes /\ HeldInv /\ FlowRight)'
  OBVIOUS
<1> DEFINE n == Photo(kernel)
           d == DevFlow(n, fcur)
<1>1. /\ nflow' = nflow + 1 /\ fcur' = n /\ fdev' = d /\ memo' = PhotoMemo(kernel)
      /\ had' = [now |-> there, before |-> had.now /\ ~ had.reset, reset |-> FALSE,
                 was |-> kernel.c, grown |-> kernel.c - had.was]
      /\ UNCHANGED <<sec, kernel, there>>
  BY DEF FlowSample
<1>2. /\ sec \in Sections /\ kernel \in [c : Nat, g : Nat, o : Nat] /\ there \in BOOLEAN
      /\ memo \in Int /\ nflow \in Nat /\ fcur \in Values
      /\ had \in [now : BOOLEAN, before : BOOLEAN, reset : BOOLEAN, was : Nat, grown : Int]
  BY DEF FlowTypes
<1>3. /\ n \in Values
      /\ sec \notin Counting => n.c = 0
      /\ sec \in Counting /\ there /\ memo' # Off => n.c = kernel.c
      /\ sec = "freq" /\ there => n.o = kernel.c
  BY <1>1, PhotoHolds
<1>4. memo' \in Int /\ (sec = "ib" => memo' \in {Off, 1})
  BY <1>1, MemoHolds
<1>5. /\ sec \in {"vm", "nfsd", "nfs"} => d.c = subcount(n.c, fcur.c) /\ d.o >= -1
      /\ sec \in {"snmp", "snmp6", "ib", "llc"} => d.c = n.c - fcur.c
      /\ sec = "psi" => d.c = IF there THEN n.c - fcur.c ELSE n.c
      /\ sec = "freq" => d.c = IF n.o = 0 THEN n.c ELSE subcount(n.c, fcur.c)
      /\ sec \in {"snmp", "psi", "llc", "mem"} => d.g = n.g
  BY <1>2, <1>3, DevIs
<1> HIDE DEF n, d
<1>6. /\ had'.now = there /\ had'.before = (had.now /\ ~ had.reset) /\ had'.reset = FALSE
      /\ had'.was = kernel.c /\ had'.grown = kernel.c - had.was
      /\ had.now \in BOOLEAN /\ had.reset \in BOOLEAN /\ had.was \in Nat /\ kernel.c \in Nat
  BY <1>1, <1>2
<1>7. had' \in [now : BOOLEAN, before : BOOLEAN, reset : BOOLEAN, was : Nat, grown : Int]
  BY <1>1, <1>2, <1>6
<1>8. FlowTypes'
  BY <1>1, <1>2, <1>3, <1>4, <1>7 DEF FlowTypes
<1>9. HeldInv'
  BY <1>1, <1>3, <1>4, <1>6 DEF HeldInv, Off, Unset
<1>10. n.c \in Nat /\ n.o \in Int /\ fcur.c \in Nat
  BY <1>2, <1>3 DEF Values
<1>11. ASSUME had'.now, had'.before, memo' # Off, n.c # 0 PROVE d.c = had'.grown
  <2>1. sec \in Counting /\ there /\ had.now /\ ~ had.reset /\ n.c = kernel.c
    BY <1>3, <1>6, <1>11
  <2>2. memo # Off
    <3>1. CASE sec = "ib"
      <4>1. IbMemo # Off
        BY <1>1, <1>11, <3>1 DEF PhotoMemo
      <4> QED BY <4>1 DEF IbMemo, Off, Unset
    <3>2. CASE sec # "ib"
      <4>1. PhotoMemo(kernel) = memo
        BY <2>1, <3>2 DEF PhotoMemo, Counting
      <4> QED BY <1>1, <1>11, <4>1
    <3> QED BY <3>1, <3>2
  <2>3. fcur.c = had.was /\ had.was <= kernel.c
    BY <2>1, <2>2 DEF HeldInv
  <2>4. subcount(n.c, fcur.c) = n.c - fcur.c
    BY <1>6, <2>1, <2>3 DEF subcount
  <2>5. d.c = n.c - fcur.c
    BY <1>3, <1>5, <1>11, <2>1, <2>4 DEF Counting
  <2> QED BY <1>6, <2>1, <2>3, <2>5
<1>12. subcount(n.c, fcur.c) >= 0
  BY <1>10 DEF subcount
<1>13. FlowRight'
  BY <1>1, <1>5, <1>11, <1>12 DEF FlowRight
<1> QED BY <1>8, <1>9, <1>13

LEMMA FlowNextInv ==
  FlowTypes /\ HeldInv /\ FlowRight /\ FlowNext => (FlowTypes /\ HeldInv /\ FlowRight)'
<1> SUFFICES ASSUME FlowTypes, HeldInv, FlowRight, FlowNext
             PROVE  (FlowTypes /\ HeldInv /\ FlowRight)'
  OBVIOUS
<1>0. /\ sec \in Sections /\ kernel \in [c : Nat, g : Nat, o : Nat] /\ there \in BOOLEAN
      /\ memo \in Int /\ nflow \in Nat /\ fcur \in Values
      /\ had \in [now : BOOLEAN, before : BOOLEAN, reset : BOOLEAN, was : Nat, grown : Int]
  BY DEF FlowTypes
<1>1. CASE Grow
  <2>1. PICK x \in {0, 1} : kernel' = [kernel EXCEPT !.c = @ + 1, !.o = @ + x]
    BY <1>1 DEF Grow
  <2>2. UNCHANGED <<sec, there, memo, fpre, fcur, fdev, had, resets, nflow>>
    BY <1>1 DEF Grow
  <2>3. kernel' \in [c : Nat, g : Nat, o : Nat] /\ kernel'.c = kernel.c + 1 /\ kernel.c \in Nat
    <3>1. kernel.c \in Nat /\ kernel.o \in Nat
      BY <1>0
    <3>2. kernel' = [kernel EXCEPT !.c = kernel.c + 1, !.o = kernel.o + x]
      BY <2>1
    <3>3. kernel.c + 1 \in Nat /\ kernel.o + x \in Nat
      BY <3>1
    <3>4. \A y, z \in Nat : LET k == [kernel EXCEPT !.c = y, !.o = z]
                           IN  k \in [c : Nat, g : Nat, o : Nat] /\ k.c = y
      BY <1>0
    <3> QED BY <3>1, <3>2, <3>3, <3>4, Zenon
  <2>4. FlowTypes'
    BY <2>2, <2>3 DEF FlowTypes
  <2>5. HeldInv'
    BY <1>0, <2>2, <2>3 DEF HeldInv
  <2> QED BY <2>2, <2>4, <2>5 DEF FlowRight
<1>2. CASE Gauge
  <2>1. PICK g \in 0 .. MaxValue : kernel' = [kernel EXCEPT !.g = g]
    BY <1>2 DEF Gauge
  <2>2. UNCHANGED <<sec, there, memo, fpre, fcur, fdev, had, resets, nflow>>
    BY <1>2 DEF Gauge
  <2>3. kernel' \in [c : Nat, g : Nat, o : Nat] /\ kernel'.c = kernel.c
    BY <1>0, <2>1, SysFlowAssumption
  <2>4. FlowTypes'
    BY <2>2, <2>3 DEF FlowTypes
  <2>5. HeldInv'
    BY <2>2, <2>3 DEF HeldInv
  <2> QED BY <2>2, <2>4, <2>5 DEF FlowRight
<1>3. CASE Zero
  <2>1. kernel' = [kernel EXCEPT !.c = 0, !.o = 0] /\ had' = [had EXCEPT !.reset = TRUE]
    BY <1>3 DEF Zero
  <2>2. UNCHANGED <<sec, there, memo, fpre, fcur, fdev, nflow>>
    BY <1>3 DEF Zero
  <2>3. kernel' \in [c : Nat, g : Nat, o : Nat]
    BY <1>0, <2>1
  <2>4. /\ had' \in [now : BOOLEAN, before : BOOLEAN, reset : BOOLEAN, was : Nat, grown : Int]
        /\ had'.now = had.now /\ had'.before = had.before /\ had'.was = had.was
        /\ had'.grown = had.grown /\ had'.reset
    BY <1>0, <2>1
  <2>5. FlowTypes'
    BY <2>2, <2>3, <2>4 DEF FlowTypes
  <2>6. HeldInv'
    BY <2>2, <2>4 DEF HeldInv
  <2> QED BY <2>2, <2>4, <2>5, <2>6 DEF FlowRight
<1>4. CASE Appear
  <2>1. there' \in BOOLEAN /\ UNCHANGED <<sec, kernel, memo, fpre, fcur, fdev, had, resets, nflow>>
    BY <1>0, <1>4 DEF Appear
  <2>2. FlowTypes' /\ HeldInv'
    BY <2>1 DEF FlowTypes, HeldInv
  <2> QED BY <2>1, <2>2 DEF FlowRight
<1>5. CASE FlowSample
  BY <1>5, FlowSampleInv
<1> QED BY <1>1, <1>2, <1>3, <1>4, <1>5 DEF FlowNext

\* A counter that could be read twice gives its growth, and no counter of memory
\* or NFS a negative number: photosyst() and deviatsyst().
THEOREM CountersAreRight == Spec => []FlowRight
<1>1. Init => FlowInv
  <2> SUFFICES ASSUME Init PROVE FlowInv
    OBVIOUS
  <2>1. DevInit \/ DevOff
    BY DEF Init
  <2>2. (tbl = "flow" /\ FlowInit) \/ (tbl # "flow" /\ FlowOff)
    BY <2>1 DEF DevInit, DevOff
  <2>3. CASE tbl = "flow" /\ FlowInit
    BY <2>3, FlowStarts DEF FlowInv
  <2>4. CASE tbl # "flow" /\ FlowOff
    BY <2>4 DEF FlowInv, FlowOff, FlowRight
  <2> QED BY <2>2, <2>3, <2>4
<1>2. FlowInv /\ [Next]_vars => FlowInv'
  <2> SUFFICES ASSUME FlowInv, [Next]_vars PROVE FlowInv'
    OBVIOUS
  <2>1. CASE UNCHANGED <<tbl, fvars>>
    <3>1. UNCHANGED <<tbl, sec, kernel, there, memo, fcur, fdev, had, nflow>>
      BY <2>1 DEF fvars
    <3> QED BY <3>1 DEF FlowInv, FlowTypes, HeldInv, FlowRight
  <2>2. CASE tbl = "flow" /\ FlowNext /\ UNCHANGED dvars
    <3>1. (FlowTypes /\ HeldInv /\ FlowRight)'
      BY <2>2, FlowNextInv DEF FlowInv
    <3>2. tbl' = tbl
      BY <2>2 DEF dvars
    <3> QED BY <2>2, <3>1, <3>2 DEF FlowInv
  <2>3. CASE (System \/ Sample) /\ UNCHANGED fvars
    <3>1. UNCHANGED tbl
      BY <2>3 DEF System, Sample, Plug, Unplug, Hotplug, Work, Tick, SampleIntf, SampleDsk, SampleNfs,
                  SampleCpu, Took
    <3> QED BY <2>1, <2>3, <3>1
  <2>4. UNCHANGED devvars => UNCHANGED <<tbl, fvars>>
    BY DEF devvars, dvars
  <2>5. UNCHANGED devvars \/ DevNext
    BY DEF Next, vars
  <2> QED BY <2>1, <2>2, <2>3, <2>4, <2>5 DEF DevNext
<1>3. FlowInv => FlowRight
  BY DEF FlowInv
<1> QED BY <1>1, <1>2, <1>3, PTL DEF Spec
-----------------------------------------------------------------------------
(***************************************************************************)
(* PhotoProc: the list of the processes.                                   *)
(***************************************************************************)
Open == ppc \in {"task", "thread"}     \* the threads of at are being read
Busy == Open \/ ppc = "status"
Scans == {"scan", "status", "task", "thread", "check", "done"}
Lines == [pid : Procs, tid : Nat, nthr : Nat]

PhotoTypes ==
  /\ nthr \in [Procs -> Nat] /\ ppc \in Scans \cup {"threads", "procs"} /\ curtlen \in Nat
  /\ stayed \subseteq Procs
HeadOf == Len(list) - thr              \* the entry of the process that is being read
\* Where an entry is: its process was reached, it is behind its process, and
\* there is place for it.
PlaceInv ==
  /\ list \in Seq(Lines) /\ at \in Nat /\ thr \in Nat /\ stayed \subseteq Alive
  /\ Busy => at \in Procs
  /\ Len(list) <= curtlen /\ (ppc = "status" => Len(list) < curtlen)
  /\ \A i, j \in DOMAIN list : i < j => /\ list[i].pid <= list[j].pid
                                        /\ list[j].tid = 0 => list[i].pid < list[j].pid
  /\ \A i \in DOMAIN list : list[i].pid <= at /\ (ppc = "status" => list[i].pid < at)
\* The process that is being read has only threads behind it, and what its status
\* file told is true as long as it has not changed.
OpenInv == Open =>
  /\ HeadOf \in DOMAIN list /\ list[HeadOf].pid = at /\ list[HeadOf].tid = 0
  /\ \A i \in DOMAIN list : i > HeadOf => list[i].pid = at /\ list[i].tid > 0
  /\ at \in stayed => list[HeadOf].nthr = nthr[at] /\ thr <= nthr[at]
  /\ ppc = "task" => thr = 0
\* Every process that has been read is as Complete asks for.
Settled(i) ==
  LET b == Behind(i)
  IN \/ list[i].nthr = 1 /\ b = {}
     \/ list[i].nthr = Cardinality(b) /\ b = i + 1 .. i + Cardinality(b)
     \/ b = {} /\ list[i].pid \notin stayed
SettledInv == \A i \in DOMAIN list : list[i].tid = 0 /\ ~ (Open /\ i = HeadOf) => Settled(i)
\* No process that was there all the time has been passed over, as long as there
\* is place.
PassedInv == Room =>
  \A p \in stayed :
    /\ p < at \/ (p = at /\ ~ Busy) => \E i \in DOMAIN list : list[i] = Entries(p, 0, nthr[p])
    /\ ppc = "check" \/ (ppc = "done" /\ list # << >>) => p <= at
PhotoInv ==
  /\ PhotoTypes
  /\ ppc \in Scans => PlaceInv /\ OpenInv /\ SettledInv /\ PassedInv
  /\ ppc = "done" /\ list # << >> => Room

LEMMA PhotoChanges ==
  ASSUME PhotoInv, NEW p \in Procs, NEW n \in Nat, Change(p, n)
  PROVE  PhotoInv'
<1>1. /\ ppc # "done" /\ nthr' = [nthr EXCEPT ![p] = n] /\ stayed' = stayed \ {p}
      /\ UNCHANGED <<ppc, curtlen, list, at, thr>>
  BY DEF Change
<1>2. PhotoTypes'
  BY <1>1 DEF PhotoInv, PhotoTypes
<1>3. \A q \in Procs : q # p => nthr'[q] = nthr[q]
  BY <1>1 DEF PhotoInv, PhotoTypes
<1>4. CASE ppc \in Scans
  <2>1. PlaceInv /\ OpenInv /\ SettledInv /\ PassedInv /\ stayed \subseteq Procs
    BY <1>4 DEF PhotoInv, PhotoTypes
  <2>2. PlaceInv'
    <3>1. stayed' \subseteq Alive'
      BY <1>1, <1>3, <2>1 DEF PlaceInv, Alive
    <3> QED BY <1>1, <2>1, <3>1 DEF PlaceInv, Busy, Open
  <2>3. OpenInv'
    <3>1. HeadOf' = HeadOf /\ Open' = Open
      BY <1>1 DEF HeadOf, Open
    <3>2. at \in stayed' => at \in stayed /\ nthr'[at] = nthr[at]
      BY <1>1, <1>3, <2>1
    <3> QED BY <1>1, <2>1, <3>1, <3>2 DEF OpenInv
  <2>4. SettledInv'
    <3>1. \A i : i \in DOMAIN list => (Settled(i) => Settled(i)')
      BY <1>1 DEF Settled, Behind
    <3>2. HeadOf' = HeadOf /\ Open' = Open
      BY <1>1 DEF HeadOf, Open
    <3> QED BY <1>1, <2>1, <3>1, <3>2 DEF SettledInv
  <2>5. PassedInv'
    <3>1. (Room' <=> Room) /\ (Busy' <=> Busy)
      BY <1>1 DEF Room, Busy, Open
    <3>2. \A q \in stayed' : q \in stayed /\ Entries(q, 0, nthr[q])' = Entries(q, 0, nthr[q])
      BY <1>1, <1>3, <2>1 DEF Entries
    <3> QED BY <1>1, <2>1, <3>1, <3>2 DEF PassedInv, Entries
  <2> QED BY <1>1, <1>2, <2>2, <2>3, <2>4, <2>5 DEF PhotoInv
<1> QED BY <1>1, <1>2, <1>4 DEF PhotoInv

LEMMA CountingBegins == ASSUME PhotoInv, CountThreads \/ CountProcs PROVE PhotoInv'
<1>1. IsFiniteSet(Alive) /\ Alive \subseteq Procs /\ Cardinality(Alive) \in Nat
  <2>1. IsFiniteSet(Alive) /\ Alive \subseteq Procs
    BY PhotoProcAssumption, FS_Subset DEF Alive
  <2> QED BY <2>1, FS_CardinalityType
<1>2. CASE CountThreads
  <2>1. curtlen' \in Nat
    <3>1. curtlen' = MapThenSumSet(LAMBDA q : nthr[q], Alive)
      BY <1>2 DEF CountThreads
    <3>2. MapThenSumSet(LAMBDA q : nthr[q], Alive) = Total(nthr, Alive)
      BY TotalIsMapped
    <3>3. \A q \in Alive : nthr[q] \in Nat
      BY <1>1 DEF PhotoInv, PhotoTypes
    <3>4. Total(nthr, Alive) \in Nat
      BY <1>1, <3>3, TotalIsNat
    <3> QED BY <3>1, <3>2, <3>4
  <2>2. ppc' = "procs" /\ UNCHANGED <<nthr, stayed>>
    BY <1>2 DEF CountThreads
  <2> QED BY <2>1, <2>2 DEF PhotoInv, PhotoTypes, Scans
<1>3. CASE CountProcs
  <2>1. /\ ppc' \in {"done", "scan"} /\ list' = << >> /\ at' = 0 /\ thr' = 0 /\ stayed' = Alive
        /\ nthr' = nthr /\ curtlen \in Nat
        /\ curtlen' = Cardinality(Alive) + (IF curtlen < Cardinality(Alive) THEN Cardinality(Alive) ELSE curtlen)
    BY <1>3 DEF CountProcs, PhotoInv, PhotoTypes
  <2>2. curtlen' \in Nat
    BY <1>1, <2>1
  <2>3. Len(list') = 0 /\ DOMAIN list' = {} /\ list' \in Seq(Lines)
    BY <2>1
  <2>4. PhotoTypes'
    BY <1>1, <2>1, <2>2 DEF PhotoInv, PhotoTypes, Scans
  <2>5. PlaceInv'
    <3>1. Alive' = Alive
      BY <2>1 DEF Alive
    <3> QED BY <2>1, <2>2, <2>3, <3>1 DEF PlaceInv, Busy, Open
  <2>6. OpenInv' /\ SettledInv'
    BY <2>1, <2>3 DEF OpenInv, SettledInv, Open
  <2>7. PassedInv'
    <3>1. \A q \in stayed' : ~ (q <= at')
      BY <1>1, <2>1, PhotoProcAssumption
    <3>2. ~ (ppc' = "check" \/ (ppc' = "done" /\ list' # << >>))
      BY <2>1
    <3>3. \A q \in stayed' : ~ (q < at') /\ q # at'
      BY <1>1, <2>1, PhotoProcAssumption
    <3> QED BY <3>2, <3>3 DEF PassedInv
  <2> QED BY <2>1, <2>4, <2>5, <2>6, <2>7 DEF PhotoInv
<1> QED BY <1>2, <1>3

\* Min chooses the least element of a set of numbers.
LEMMA MinIs == ASSUME NEW S, S \subseteq Nat, S # {} PROVE Min(S) \in S /\ \A y \in S : Min(S) <= y
<1>1. PICK m \in S : \A y \in S : m <= y
  BY LeastNat
<1>2. \E x \in S : \A y \in S : x <= y
  BY <1>1
<1> QED BY <1>2 DEF Min

LEMMA ProcIsNext == ASSUME PhotoInv, NextProc PROVE PhotoInv'
<1> DEFINE rest == {q \in Alive : q > at}
<1>1. /\ ppc = "scan" /\ UNCHANGED <<nthr, stayed, curtlen, list, thr>>
      /\ IF rest # {} /\ Room THEN at' = Min(rest) /\ ppc' = "status"
         ELSE ppc' = "check" /\ at' = at
  BY DEF NextProc
<1>2. PhotoTypes /\ PlaceInv /\ OpenInv /\ SettledInv /\ PassedInv
  BY <1>1 DEF PhotoInv, Scans
<1>3. rest \subseteq Procs /\ Procs \subseteq Nat /\ at \in Nat /\ stayed \subseteq Alive
  BY <1>2, PhotoProcAssumption DEF Alive, PlaceInv
<1>4. PhotoTypes'
  BY <1>1, <1>2 DEF PhotoTypes, Scans
<1>5. OpenInv' /\ SettledInv'
  <2>1. ~ Open' /\ ~ Open
    BY <1>1 DEF Open
  <2>2. \A i : i \in DOMAIN list => (Settled(i) => Settled(i)')
    BY <1>1 DEF Settled, Behind
  <2> QED BY <1>1, <1>2, <2>1, <2>2 DEF OpenInv, SettledInv
<1>6. (Room' <=> Room) /\ Alive' = Alive /\ ~ Busy
  BY <1>1 DEF Room, Alive, Busy, Open
<1>7. CASE rest # {} /\ Room
  <2> DEFINE m == Min(rest)
  <2>1. m \in rest /\ \A q \in rest : m <= q
    BY <1>3, <1>7, MinIs
  <2>2. at' = m /\ ppc' = "status"
    BY <1>1, <1>7
  <2>3. m \in Procs /\ m \in Nat /\ m > at
    BY <1>3, <2>1
  <2> HIDE DEF m
  <2>4. PlaceInv'
    <3>1. \A i \in DOMAIN list : list[i].pid \in Nat /\ list[i].pid <= at
      <4>1. \A i \in DOMAIN list : list[i] \in Lines
        BY <1>2 DEF PlaceInv
      <4> QED BY <1>2, <1>3, <4>1 DEF PlaceInv, Lines
    <3>2. \A i \in DOMAIN list : list[i].pid < m /\ list[i].pid <= m
      BY <1>3, <2>3, <3>1
    <3>3. Len(list) < curtlen
      BY <1>7 DEF Room
    <3> QED BY <1>1, <1>2, <1>6, <2>2, <2>3, <3>2, <3>3 DEF PlaceInv
  <2>5. PassedInv'
    <3>1. \A q \in stayed : q < m \/ (q = m /\ ~ Busy') => q <= at
      <4> SUFFICES ASSUME NEW q \in stayed, q < m \/ (q = m /\ ~ Busy') PROVE q <= at
        OBVIOUS
      <4>1. q < m
        BY <2>2 DEF Busy
      <4>2. q \in Alive /\ q \in Nat /\ q \notin rest
        BY <1>3, <2>1, <2>3, <4>1 DEF Alive
      <4> QED BY <1>3, <4>2
    <3>2. \A q \in stayed : q <= at => \E i \in DOMAIN list : list[i] = Entries(q, 0, nthr[q])
      <4>1. \A q \in stayed : q \in Nat
        BY <1>3 DEF Alive
      <4>2. \A q \in stayed : q < at \/ (q = at /\ ~ Busy)
              => \E i \in DOMAIN list : list[i] = Entries(q, 0, nthr[q])
        BY <1>2, <1>7, Zenon DEF PassedInv
      <4>3. \A q \in stayed : q <= at => q < at \/ q = at
        BY <1>3, <4>1
      <4> QED BY <1>6, <4>2, <4>3
    <3>3. \A q \in stayed' : q < at' \/ (q = at' /\ ~ Busy')
            => \E i \in DOMAIN list' : list'[i] = Entries(q, 0, nthr[q])'
      <4> QED BY <1>1, <2>2, <3>1, <3>2, Zenon DEF Entries
    <3>4. ~ (ppc' = "check" \/ (ppc' = "done" /\ list' # << >>))
      BY <2>2
    <3> QED BY <3>3, <3>4 DEF PassedInv
  <2> QED BY <1>4, <1>5, <2>2, <2>4, <2>5 DEF PhotoInv
<1>8. CASE ~ (rest # {} /\ Room)
  <2>1. at' = at /\ ppc' = "check"
    BY <1>1, <1>8
  <2>2. PlaceInv'
    BY <1>1, <1>2, <1>6, <2>1 DEF PlaceInv, Busy, Open
  <2>3. PassedInv'
    <3>1. ASSUME Room, NEW q \in stayed PROVE q <= at
      <4>1. q \in Alive /\ q \in Nat /\ q \notin rest
        BY <1>3, <1>8, <3>1 DEF Alive
      <4> QED BY <1>3, <4>1
    <3> QED BY <1>1, <1>2, <1>6, <2>1, <3>1 DEF PassedInv, Busy, Open, Entries
  <2> QED BY <1>4, <1>5, <2>1, <2>2, <2>3 DEF PhotoInv
<1> QED BY <1>7, <1>8

\* A line is added behind the others.
LEMMA LineAdded ==
  ASSUME list \in Seq(Lines), NEW e \in Lines, list' = Append(list, e)
  PROVE  /\ list' \in Seq(Lines) /\ Len(list) \in Nat /\ Len(list') = Len(list) + 1
         /\ DOMAIN list = 1 .. Len(list) /\ DOMAIN list' = 1 .. Len(list) + 1
         /\ \A i \in DOMAIN list : list'[i] = list[i]
         /\ list'[Len(list) + 1] = e
  OBVIOUS

\* It is behind no process before it but its own.
LEMMA BehindStays ==
  ASSUME list \in Seq(Lines), NEW e \in Lines, list' = Append(list, e),
         NEW i \in DOMAIN list, list[i].pid # e.pid
  PROVE  Behind(i)' = Behind(i)
<1>1. /\ DOMAIN list = 1 .. Len(list) /\ DOMAIN list' = 1 .. Len(list) + 1 /\ Len(list) \in Nat
      /\ \A j \in DOMAIN list : list'[j] = list[j]
      /\ list'[Len(list) + 1] = e
  BY LineAdded
<1>2. Behind(i)' = {j \in DOMAIN list' : j > i /\ list'[j].pid = list'[i].pid}
  BY DEF Behind
<1>3. \A j \in DOMAIN list' : j \in DOMAIN list \/ j = Len(list) + 1
  BY <1>1
<1>4. \A j : j \in Behind(i)' <=> j \in Behind(i)
  BY <1>1, <1>2, <1>3 DEF Behind
<1> QED BY <1>4

LEMMA ProcIsRead == ASSUME PhotoInv, ReadProc PROVE PhotoInv'
<1>1. ppc = "status" /\ UNCHANGED <<nthr, stayed, curtlen, at>>
  BY DEF ReadProc
<1>2. PhotoTypes /\ PlaceInv /\ OpenInv /\ SettledInv /\ PassedInv
  BY <1>1 DEF PhotoInv, Scans
<1>3. /\ list \in Seq(Lines) /\ at \in Procs /\ at \in Nat /\ thr \in Nat /\ stayed \subseteq Alive
      /\ nthr \in [Procs -> Nat] /\ nthr[at] \in Nat /\ stayed \subseteq Procs /\ Procs \subseteq Nat
      /\ Len(list) \in Nat /\ curtlen \in Nat /\ Len(list) < curtlen /\ Room
      /\ Len(list) < curtlen => Len(list) + 1 <= curtlen
  <2>1. list \in Seq(Lines) /\ at \in Procs /\ thr \in Nat /\ at \in Nat /\ stayed \subseteq Alive /\ Len(list) < curtlen
    BY <1>1, <1>2 DEF PlaceInv, Busy
  <2>2. nthr \in [Procs -> Nat] /\ curtlen \in Nat /\ stayed \subseteq Procs
    BY <1>2 DEF PhotoTypes
  <2>3. Len(list) \in Nat
    BY <2>1
  <2> QED BY <2>1, <2>2, <2>3, PhotoProcAssumption DEF Room
<1>4. \A i \in DOMAIN list : list[i].pid \in Nat /\ list[i].pid < at
  <2>1. \A i \in DOMAIN list : list[i] \in Lines
    BY <1>3
  <2> QED BY <1>1, <1>2, <1>3, <2>1 DEF PlaceInv, Lines
<1>5. Alive' = Alive
  BY <1>1 DEF Alive
<1>6. \A q \in stayed : q < at => \E i \in DOMAIN list : list[i] = Entries(q, 0, nthr[q])
  BY <1>2, <1>3, Zenon DEF PassedInv
<1>7. CASE nthr[at] = 0
  <2>1. ppc' = "scan" /\ list' = list /\ thr' = thr
    BY <1>7 DEF ReadProc
  <2>2. PhotoTypes'
    BY <1>1, <1>2, <2>1 DEF PhotoTypes, Scans
  <2>3. PlaceInv'
    BY <1>1, <1>2, <1>5, <2>1 DEF PlaceInv, Busy, Open
  <2>4. OpenInv' /\ SettledInv'
    <3>1. ~ Open' /\ ~ Open
      BY <1>1, <2>1 DEF Open
    <3>2. \A i : i \in DOMAIN list => (Settled(i) => Settled(i)')
      BY <1>1, <2>1 DEF Settled, Behind
    <3> QED BY <1>2, <2>1, <3>1, <3>2 DEF OpenInv, SettledInv
  <2>5. PassedInv'
    <3>1. at \notin stayed
      BY <1>3, <1>7 DEF Alive
    <3> QED BY <1>1, <1>6, <2>1, <3>1 DEF PassedInv, Entries
  <2> QED BY <2>1, <2>2, <2>3, <2>4, <2>5 DEF PhotoInv
<1>8. CASE nthr[at] # 0
  <2> DEFINE e == Entries(at, 0, nthr[at])
  <2>1. list' = Append(list, e) /\ thr' = 0 /\ ppc' = IF nthr[at] > 1 THEN "task" ELSE "scan"
    BY <1>8 DEF ReadProc
  <2>2. e \in Lines /\ e.pid = at /\ e.tid = 0 /\ e.nthr = nthr[at]
    BY <1>3 DEF Entries, Lines
  <2> HIDE DEF e
  <2>3. /\ list' \in Seq(Lines) /\ Len(list) \in Nat /\ Len(list') = Len(list) + 1
        /\ DOMAIN list = 1 .. Len(list) /\ DOMAIN list' = 1 .. Len(list) + 1
        /\ \A i \in DOMAIN list : list'[i] = list[i]
        /\ list'[Len(list) + 1] = e
    BY <1>3, <2>1, <2>2, LineAdded
  <2>4. \A i \in DOMAIN list' : i \in DOMAIN list \/ i = Len(list) + 1
    BY <2>3
  <2>5. \A i \in DOMAIN list : i <= Len(list) /\ i \in Nat
    BY <2>3
  <2>6. HeadOf' = Len(list) + 1
    BY <2>1, <2>3 DEF HeadOf
  <2>7. PhotoTypes'
    BY <1>1, <1>2, <2>1 DEF PhotoTypes, Scans
  <2>8. PlaceInv'
    <3>1. at' \in Nat /\ thr' \in Nat /\ stayed' \subseteq Alive' /\ (Busy' => at' \in Procs) /\ list' \in Seq(Lines)
      BY <1>1, <1>3, <1>5, <2>1, <2>3
    <3>2. Len(list') <= curtlen' /\ ppc' # "status"
      BY <1>1, <1>3, <2>1, <2>3
    <3>3. ASSUME NEW i \in DOMAIN list', NEW j \in DOMAIN list', i < j
          PROVE  list'[i].pid <= list'[j].pid /\ (list'[j].tid = 0 => list'[i].pid < list'[j].pid)
      <4>1. i \in DOMAIN list
        BY <2>3, <2>4, <3>3
      <4>2. CASE j \in DOMAIN list
        BY <1>2, <2>3, <3>3, <4>1, <4>2 DEF PlaceInv
      <4>3. CASE j = Len(list) + 1
        BY <1>3, <1>4, <2>2, <2>3, <4>1, <4>3
      <4> QED BY <2>4, <4>2, <4>3
    <3>4. \A i \in DOMAIN list' : list'[i].pid <= at'
      BY <1>1, <1>3, <1>4, <2>2, <2>3, <2>4
    <3> QED BY <3>1, <3>2, <3>3, <3>4 DEF PlaceInv
  <2>9. OpenInv'
    <3>1. \A i \in DOMAIN list' : ~ (i > Len(list) + 1)
      BY <2>3
    <3>2. at \in stayed => list'[HeadOf'].nthr = nthr'[at'] /\ thr' <= nthr'[at']
      BY <1>1, <1>3, <2>1, <2>2, <2>3, <2>6
    <3>3. HeadOf' \in DOMAIN list' /\ list'[HeadOf'].pid = at' /\ list'[HeadOf'].tid = 0
      BY <1>1, <2>2, <2>3, <2>6
    <3> QED BY <1>1, <2>1, <2>6, <3>1, <3>2, <3>3 DEF OpenInv
  <2>10. SettledInv'
    <3>1. ASSUME NEW i \in DOMAIN list, list[i].tid = 0 PROVE Settled(i)'
      <4>1. list[i].pid # e.pid
        BY <1>3, <1>4, <2>2
      <4>2. Behind(i)' = Behind(i)
        BY <1>3, <2>1, <2>2, <4>1, BehindStays
      <4>3. Settled(i)
        BY <1>1, <1>2, <3>1 DEF SettledInv, Open
      <4> QED BY <1>1, <2>3, <4>2, <4>3 DEF Settled
    <3>2. ASSUME ~ Open', NEW i, i = Len(list) + 1 PROVE Settled(i)'
      <4>1. nthr[at] = 1
        BY <1>3, <1>8, <2>1, <3>2 DEF Open
      <4>2. Behind(i)' = {}
        BY <2>3, <3>2 DEF Behind
      <4> QED BY <2>2, <2>3, <3>2, <4>1, <4>2 DEF Settled
    <3> QED BY <2>3, <2>4, <2>6, <3>1, <3>2 DEF SettledInv
  <2>11. PassedInv'
    <3>1. ASSUME NEW q \in stayed, q < at \/ q = at
          PROVE  \E i \in DOMAIN list' : list'[i] = Entries(q, 0, nthr[q])
      <4>1. CASE q < at
        BY <1>6, <2>3, <2>5, <4>1
      <4>2. CASE q = at
        BY <2>3, <4>2 DEF e
      <4> QED BY <3>1, <4>1, <4>2
    <3>2. ~ (ppc' = "check" \/ (ppc' = "done" /\ list' # << >>))
      BY <2>1
    <3> QED BY <1>1, <3>1, <3>2 DEF PassedInv, Entries
  <2> QED BY <2>1, <2>7, <2>8, <2>9, <2>10, <2>11 DEF PhotoInv
<1> QED BY <1>7, <1>8

LEMMA TaskIsOpened == ASSUME PhotoInv, OpenTask PROVE PhotoInv'
<1>1. /\ ppc = "task" /\ ppc' = (IF nthr[at] = 0 THEN "scan" ELSE "thread")
      /\ UNCHANGED <<nthr, stayed, curtlen, list, at, thr>>
  BY DEF OpenTask
<1>2. PhotoTypes /\ PlaceInv /\ OpenInv /\ SettledInv /\ PassedInv
  BY <1>1 DEF PhotoInv, Scans
<1>3. Alive' = Alive /\ HeadOf' = HeadOf /\ (Room' <=> Room) /\ Open /\ Busy /\ ppc # "status"
  BY <1>1 DEF Alive, HeadOf, Room, Open, Busy
<1>4. PhotoTypes'
  BY <1>1, <1>2 DEF PhotoTypes, Scans
<1>5. PlaceInv'
  BY <1>1, <1>2, <1>3 DEF PlaceInv, Busy, Open
<1>6. OpenInv'
  BY <1>1, <1>2, <1>3 DEF OpenInv
<1>7. SettledInv'
  <2>1. \A i : i \in DOMAIN list => (Settled(i) => Settled(i)')
    BY <1>1 DEF Settled, Behind
  <2>2. CASE nthr[at] = 0
    <3>1. at \notin stayed
      BY <1>2, <2>2 DEF PlaceInv, Alive
    <3>2. Behind(HeadOf) = {} /\ list[HeadOf].pid = at
      <4>1. thr = 0 /\ HeadOf = Len(list) /\ DOMAIN list = 1 .. Len(list) /\ Len(list) \in Nat /\ list[HeadOf].pid = at
        <5>1. list \in Seq(Lines) /\ thr = 0 /\ list[HeadOf].pid = at
          BY <1>1, <1>2, <1>3 DEF OpenInv, PlaceInv
        <5>2. Len(list) \in Nat /\ DOMAIN list = 1 .. Len(list)
          BY <5>1
        <5> QED BY <5>1, <5>2 DEF HeadOf
      <4> QED BY <4>1 DEF Behind
    <3>3. Settled(HeadOf)
      BY <3>1, <3>2 DEF Settled
    <3>4. \A i \in DOMAIN list : list[i].tid = 0 => Settled(i)
      BY <1>2, <3>3 DEF SettledInv
    <3> QED BY <1>1, <2>1, <3>4 DEF SettledInv
  <2>3. CASE nthr[at] # 0
    <3>1. Open'
      BY <1>1, <2>3 DEF Open
    <3> QED BY <1>1, <1>2, <1>3, <2>1, <3>1 DEF SettledInv
  <2> QED BY <2>2, <2>3
<1>8. PassedInv'
  <2>1. at \in stayed => ppc' = "thread"
    BY <1>1, <1>2 DEF PlaceInv, Alive
  <2>2. \A q \in stayed : q = at => Busy'
    BY <2>1 DEF Busy, Open
  <2> QED BY <1>1, <1>2, <1>3, <2>2 DEF PassedInv, Entries
<1> QED BY <1>1, <1>4, <1>5, <1>6, <1>7, <1>8 DEF PhotoInv

\* The entry of the process that is being read is the one that is adjusted.
LEMMA HeadFound ==
  ASSUME PlaceInv, OpenInv, Open
  PROVE  /\ Head1(at) = HeadOf
         /\ {i \in DOMAIN list : list[i].pid = at /\ list[i].tid > 0} = HeadOf + 1 .. Len(list)
         /\ Behind(HeadOf) = HeadOf + 1 .. Len(list)
         /\ Cardinality(HeadOf + 1 .. Len(list)) = thr
<1>1. /\ HeadOf \in DOMAIN list /\ list[HeadOf].pid = at /\ list[HeadOf].tid = 0
      /\ \A i \in DOMAIN list : i > HeadOf => list[i].pid = at /\ list[i].tid > 0
  BY DEF OpenInv
<1>2. list \in Seq(Lines) /\ at \in Nat /\ thr \in Nat
  BY DEF PlaceInv
<1>3. DOMAIN list = 1 .. Len(list) /\ Len(list) \in Nat /\ HeadOf \in Int /\ HeadOf = Len(list) - thr
  BY <1>1, <1>2 DEF HeadOf
<1>4. \A i \in DOMAIN list : list[i].pid \in Nat
  <2>1. \A i \in DOMAIN list : list[i] \in Lines
    BY <1>2
  <2> QED BY <2>1, PhotoProcAssumption DEF Lines
<1>5. \A i \in DOMAIN list : i < HeadOf => list[i].pid # at
  <2>1. \A i \in DOMAIN list : i < HeadOf => list[i].pid < list[HeadOf].pid
    BY <1>1 DEF PlaceInv
  <2> QED BY <1>1, <1>2, <1>4, <2>1
<1> HIDE DEF HeadOf
<1>6. Head1(at) = HeadOf
  <2>1. \A i \in DOMAIN list : list[i].pid = at /\ list[i].tid = 0 <=> i = HeadOf
    <3> TAKE i \in DOMAIN list
    <3>1. i < HeadOf \/ i = HeadOf \/ i > HeadOf
      BY <1>3
    <3>2. ~ (0 > 0)
      OBVIOUS
    <3> QED BY <1>1, <1>5, <3>1, <3>2
  <2> QED BY <1>1, <2>1 DEF Head1
<1>7. {i \in DOMAIN list : list[i].pid = at /\ list[i].tid > 0} = HeadOf + 1 .. Len(list)
  <2>1. \A i \in DOMAIN list : list[i].pid = at /\ list[i].tid > 0 <=> i > HeadOf
    <3> TAKE i \in DOMAIN list
    <3>1. i < HeadOf \/ i = HeadOf \/ i > HeadOf
      BY <1>3
    <3>2. ~ (0 > 0)
      OBVIOUS
    <3> QED BY <1>1, <1>3, <1>5, <3>1, <3>2
  <2>2. {i \in DOMAIN list : i > HeadOf} = HeadOf + 1 .. Len(list)
    BY <1>1, <1>3
  <2> QED BY <2>1, <2>2
<1>8. Behind(HeadOf) = HeadOf + 1 .. Len(list)
  <2>1. Behind(HeadOf) = {i \in DOMAIN list : i > HeadOf}
    BY <1>1 DEF Behind
  <2>2. {i \in DOMAIN list : i > HeadOf} = HeadOf + 1 .. Len(list)
    BY <1>1, <1>3
  <2> QED BY <2>1, <2>2
<1>9. Cardinality(HeadOf + 1 .. Len(list)) = thr
  <2> DEFINE a == HeadOf + 1
             b == Len(list)
  <2>1. a \in Int /\ b \in Int /\ (IF a > b THEN 0 ELSE b - a + 1) = thr
    BY <1>2, <1>3
  <2> HIDE DEF a, b
  <2>2. Cardinality(a .. b) = thr
    BY <2>1, FS_Interval
  <2> QED BY <2>2 DEF a, b
<1> QED BY <1>6, <1>7, <1>8, <1>9

\* The number of threads of an entry is adjusted.
LEMMA LineAdjusted ==
  ASSUME list \in Seq(Lines), NEW h \in DOMAIN list, NEW n \in Nat,
         list' = [list EXCEPT ![h].nthr = n]
  PROVE  /\ list' \in Seq(Lines) /\ Len(list') = Len(list) /\ DOMAIN list' = DOMAIN list
         /\ \A i \in DOMAIN list : list'[i].pid = list[i].pid /\ list'[i].tid = list[i].tid
         /\ \A i \in DOMAIN list : i # h => list'[i] = list[i]
         /\ list'[h] = Entries(list[h].pid, list[h].tid, n)
         /\ \A i \in DOMAIN list : Behind(i)' = Behind(i)
<1> DEFINE x == [list[h] EXCEPT !.nthr = n]
<1>1. list[h] \in Lines
  OBVIOUS
<1>2. x \in Lines /\ x.pid = list[h].pid /\ x.tid = list[h].tid /\ x = Entries(list[h].pid, list[h].tid, n)
  BY <1>1 DEF Lines, Entries
<1>3. list' = [list EXCEPT ![h] = x]
  OBVIOUS
<1> HIDE DEF x
<1>4. list' \in Seq(Lines) /\ Len(list') = Len(list) /\ DOMAIN list' = DOMAIN list
  BY <1>2, <1>3
<1>5. \A i \in DOMAIN list : list'[i] = IF i = h THEN x ELSE list[i]
  BY <1>3
<1>6. \A i \in DOMAIN list : list'[i].pid = list[i].pid /\ list'[i].tid = list[i].tid
  BY <1>2, <1>5
<1>7. \A i \in DOMAIN list : Behind(i)' = Behind(i)
  BY <1>4, <1>6 DEF Behind
<1> QED BY <1>2, <1>4, <1>5, <1>6, <1>7

LEMMA ThreadIsRead == ASSUME PhotoInv, ReadThread PROVE PhotoInv'
<1>1. ppc = "thread" /\ UNCHANGED <<nthr, stayed, curtlen, at>>
  BY DEF ReadThread
<1>2. PhotoTypes /\ PlaceInv /\ OpenInv /\ SettledInv /\ PassedInv
  BY <1>1 DEF PhotoInv, Scans
<1>3. /\ list \in Seq(Lines) /\ at \in Procs /\ at \in Nat /\ thr \in Nat /\ stayed \subseteq Alive
      /\ nthr \in [Procs -> Nat] /\ nthr[at] \in Nat /\ stayed \subseteq Procs /\ Procs \subseteq Nat
      /\ Len(list) \in Nat /\ curtlen \in Nat /\ Len(list) <= curtlen /\ DOMAIN list = 1 .. Len(list)
      /\ Open /\ Busy
  <2>1. Open /\ Busy
    BY <1>1 DEF Open, Busy
  <2>2. list \in Seq(Lines) /\ at \in Procs /\ thr \in Nat /\ at \in Nat /\ stayed \subseteq Alive /\ Len(list) <= curtlen
    BY <1>2, <2>1 DEF PlaceInv
  <2>3. nthr \in [Procs -> Nat] /\ curtlen \in Nat /\ stayed \subseteq Procs
    BY <1>2 DEF PhotoTypes
  <2>4. Len(list) \in Nat /\ DOMAIN list = 1 .. Len(list)
    BY <2>2
  <2> QED BY <2>1, <2>2, <2>3, <2>4, PhotoProcAssumption
<1>4. /\ HeadOf \in DOMAIN list /\ list[HeadOf].pid = at /\ list[HeadOf].tid = 0
      /\ \A i \in DOMAIN list : i > HeadOf => list[i].pid = at /\ list[i].tid > 0
      /\ at \in stayed => list[HeadOf].nthr = nthr[at] /\ thr <= nthr[at]
  BY <1>2, <1>3 DEF OpenInv
<1>5. \A i \in DOMAIN list : list[i].pid \in Nat /\ list[i].pid <= at
  <2>1. \A i \in DOMAIN list : list[i] \in Lines
    BY <1>3
  <2> QED BY <1>2, <1>3, <2>1 DEF PlaceInv, Lines
<1>6. Alive' = Alive
  BY <1>1 DEF Alive
<1>7. Room => \A q \in stayed : q < at => \E i \in DOMAIN list : list[i] = Entries(q, 0, nthr[q])
  BY <1>2, Zenon DEF PassedInv
<1>8. CASE thr < nthr[at] /\ ThreadRoom
  <2> DEFINE e == Entries(at, thr + 1, 1)
  <2>1. list' = Append(list, e) /\ thr' = thr + 1 /\ ppc' = "thread" /\ Room
    BY <1>1, <1>8 DEF ReadThread, ThreadRoom
  <2>2. e \in Lines /\ e.pid = at /\ e.tid > 0
    BY <1>3 DEF Entries, Lines
  <2> HIDE DEF e
  <2>3. /\ list' \in Seq(Lines) /\ Len(list) \in Nat /\ Len(list') = Len(list) + 1
        /\ DOMAIN list = 1 .. Len(list) /\ DOMAIN list' = 1 .. Len(list) + 1
        /\ \A i \in DOMAIN list : list'[i] = list[i]
        /\ list'[Len(list) + 1] = e
    BY <1>3, <2>1, <2>2, LineAdded
  <2>4. \A i \in DOMAIN list' : i \in DOMAIN list \/ i = Len(list) + 1
    BY <2>3
  <2>5. HeadOf' = HeadOf
    BY <1>3, <2>1, <2>3 DEF HeadOf
  <2>6. PhotoTypes'
    BY <1>1, <1>2, <2>1 DEF PhotoTypes, Scans
  <2>7. Open' /\ Busy' /\ ppc' # "status"
    BY <2>1 DEF Open, Busy
  <2>8. PlaceInv'
    <3>1. at' \in Nat /\ thr' \in Nat /\ stayed' \subseteq Alive' /\ at' \in Procs /\ list' \in Seq(Lines)
      BY <1>1, <1>3, <1>6, <2>1, <2>3
    <3>2. Len(list') <= curtlen'
      BY <1>1, <1>3, <2>1, <2>3 DEF Room
    <3>3. ASSUME NEW i \in DOMAIN list', NEW j \in DOMAIN list', i < j
          PROVE  list'[i].pid <= list'[j].pid /\ (list'[j].tid = 0 => list'[i].pid < list'[j].pid)
      <4>1. i \in DOMAIN list
        BY <2>3, <2>4, <3>3
      <4>2. CASE j \in DOMAIN list
        BY <1>2, <2>3, <3>3, <4>1, <4>2 DEF PlaceInv
      <4>3. CASE j = Len(list) + 1
        BY <1>3, <1>5, <2>2, <2>3, <4>1, <4>3
      <4> QED BY <2>4, <4>2, <4>3
    <3>4. \A i \in DOMAIN list' : list'[i].pid <= at'
      BY <1>1, <1>3, <1>5, <2>2, <2>3, <2>4
    <3> QED BY <2>7, <3>1, <3>2, <3>3, <3>4 DEF PlaceInv
  <2>9. OpenInv'
    <3>1. \A i \in DOMAIN list' : i > HeadOf => list'[i].pid = at /\ list'[i].tid > 0
      BY <1>4, <2>2, <2>3, <2>4
    <3>2. at \in stayed => thr + 1 <= nthr[at]
      BY <1>3, <1>8
    <3>3. HeadOf \in DOMAIN list' /\ list'[HeadOf] = list[HeadOf]
      BY <1>4, <2>3
    <3> QED BY <1>1, <1>4, <2>1, <2>5, <3>1, <3>2, <3>3 DEF OpenInv
  <2>10. SettledInv'
    <3>1. ASSUME NEW i \in DOMAIN list, list[i].tid = 0, i # HeadOf PROVE Settled(i)'
      <4>1. list[i].pid # e.pid
        <5>1. i < HeadOf
          <6>1. ~ (i > HeadOf)
            BY <1>4, <3>1
          <6>2. i \in Int /\ HeadOf \in Int
            BY <1>3, <1>4
          <6> QED BY <3>1, <6>1, <6>2
        <5>2. list[i].pid < list[HeadOf].pid
          BY <1>2, <1>4, <5>1 DEF PlaceInv
        <5> QED BY <1>4, <1>5, <2>2, <5>2
      <4>2. Behind(i)' = Behind(i)
        BY <1>3, <2>1, <2>2, <4>1, BehindStays
      <4>3. Settled(i)
        BY <1>2, <3>1 DEF SettledInv
      <4> QED BY <1>1, <2>3, <4>2, <4>3 DEF Settled
    <3>2. \A i : i = Len(list) + 1 => list'[i].tid # 0
      <4>1. e.tid # 0
        BY <2>2
      <4> QED BY <2>3, <4>1
    <3> QED BY <2>3, <2>4, <2>5, <2>7, <3>1, <3>2 DEF SettledInv
  <2>11. PassedInv'
    <3>1. \A q \in stayed : q < at => \E i \in DOMAIN list' : list'[i] = Entries(q, 0, nthr[q])
      <4>1. DOMAIN list \subseteq DOMAIN list'
        BY <2>3
      <4> QED BY <1>7, <2>1, <2>3, <4>1
    <3>2. ~ (ppc' = "check" \/ (ppc' = "done" /\ list' # << >>))
      BY <2>1
    <3> QED BY <1>1, <2>7, <3>1, <3>2 DEF PassedInv, Entries
  <2> QED BY <2>1, <2>6, <2>8, <2>9, <2>10, <2>11 DEF PhotoInv
<1>9. CASE ~ (thr < nthr[at] /\ ThreadRoom)
  <2>1. /\ Head1(at) = HeadOf
        /\ {i \in DOMAIN list : list[i].pid = at /\ list[i].tid > 0} = HeadOf + 1 .. Len(list)
        /\ Behind(HeadOf) = HeadOf + 1 .. Len(list)
        /\ Cardinality(HeadOf + 1 .. Len(list)) = thr
    BY <1>2, <1>3, HeadFound
  <2>2. ppc' = "scan" /\ thr' = thr /\ list' = [list EXCEPT ![HeadOf].nthr = thr]
    BY <1>9, <2>1 DEF ReadThread, Calibrate
  <2>3. /\ list' \in Seq(Lines) /\ Len(list') = Len(list) /\ DOMAIN list' = DOMAIN list
        /\ \A i \in DOMAIN list : list'[i].pid = list[i].pid /\ list'[i].tid = list[i].tid
        /\ \A i \in DOMAIN list : i # HeadOf => list'[i] = list[i]
        /\ list'[HeadOf] = Entries(list[HeadOf].pid, list[HeadOf].tid, thr)
        /\ \A i \in DOMAIN list : Behind(i)' = Behind(i)
    <3> DEFINE h == HeadOf
    <3>1. h \in DOMAIN list /\ list' = [list EXCEPT ![h].nthr = thr]
      BY <1>4, <2>2
    <3> HIDE DEF h
    <3>2. /\ list' \in Seq(Lines) /\ Len(list') = Len(list) /\ DOMAIN list' = DOMAIN list
          /\ \A i \in DOMAIN list : list'[i].pid = list[i].pid /\ list'[i].tid = list[i].tid
          /\ \A i \in DOMAIN list : i # h => list'[i] = list[i]
          /\ list'[h] = Entries(list[h].pid, list[h].tid, thr)
          /\ \A i \in DOMAIN list : Behind(i)' = Behind(i)
      BY <1>3, <3>1, LineAdjusted
    <3> QED BY <3>2 DEF h
  <2>4. PhotoTypes'
    BY <1>1, <1>2, <2>2 DEF PhotoTypes, Scans
  <2>5. ~ Open' /\ ~ Busy' /\ ppc' # "status"
    BY <2>2 DEF Open, Busy
  <2>6. PlaceInv'
    BY <1>1, <1>2, <1>3, <1>6, <2>2, <2>3, <2>5 DEF PlaceInv
  <2>7. OpenInv'
    BY <2>5 DEF OpenInv
  <2>8. SettledInv'
    <3>1. ASSUME NEW i \in DOMAIN list, list[i].tid = 0, i # HeadOf PROVE Settled(i)'
      <4>1. Settled(i)
        BY <1>2, <3>1 DEF SettledInv
      <4> QED BY <1>1, <2>3, <3>1, <4>1 DEF Settled
    <3>2. ASSUME NEW i, i = HeadOf PROVE Settled(i)'
      <4>1. Behind(i)' = i + 1 .. Len(list) /\ Cardinality(i + 1 .. Len(list)) = thr
        BY <1>4, <2>1, <2>3, <3>2
      <4>2. list'[i].nthr = thr
        BY <2>3, <3>2 DEF Entries
      <4>3. i + 1 .. i + thr = i + 1 .. Len(list)
        <5>1. i + thr = Len(list)
          BY <1>3, <3>2 DEF HeadOf
        <5> QED BY <5>1
      <4> QED BY <4>1, <4>2, <4>3 DEF Settled
    <3> QED BY <2>3, <3>1, <3>2 DEF SettledInv
  <2>9. PassedInv'
    <3>1. Room' <=> Room
      BY <1>1, <2>3 DEF Room
    <3>2. ASSUME Room, NEW q \in stayed, q < at \/ q = at
          PROVE  \E i \in DOMAIN list' : list'[i] = Entries(q, 0, nthr[q])
      <4>1. CASE q < at
        <5>1. PICK i \in DOMAIN list : list[i] = Entries(q, 0, nthr[q])
          BY <1>7, <3>2, <4>1
        <5>2. i # HeadOf
          <6>1. list[i].pid = q
            BY <5>1 DEF Entries
          <6>2. q # at
            BY <1>3, <4>1
          <6> QED BY <1>4, <6>1, <6>2
        <5> QED BY <2>3, <5>1, <5>2
      <4>2. CASE q = at
        <5>1. thr = nthr[at]
          BY <1>3, <1>4, <1>9, <3>2, <4>2 DEF ThreadRoom
        <5>2. list'[HeadOf] = Entries(q, 0, nthr[q])
          BY <1>4, <2>3, <4>2, <5>1
        <5> QED BY <1>4, <2>3, <5>2
      <4> QED BY <3>2, <4>1, <4>2
    <3>3. ~ (ppc' = "check" \/ (ppc' = "done" /\ list' # << >>))
      BY <2>2
    <3> QED BY <1>1, <2>5, <3>1, <3>2, <3>3 DEF PassedInv, Entries
  <2> QED BY <2>2, <2>4, <2>6, <2>7, <2>8, <2>9 DEF PhotoInv
<1> QED BY <1>8, <1>9

LEMMA ListIsChecked == ASSUME PhotoInv, Check PROVE PhotoInv'
<1>1. /\ ppc = "check" /\ ppc' = (IF Full THEN "threads" ELSE "done")
      /\ UNCHANGED <<nthr, stayed, curtlen, list, at, thr>>
  BY DEF Check
<1>2. PhotoTypes /\ PlaceInv /\ OpenInv /\ SettledInv /\ PassedInv
  BY <1>1 DEF PhotoInv, Scans
<1>3. PhotoTypes'
  BY <1>1, <1>2 DEF PhotoTypes, Scans
<1>4. CASE Full
  BY <1>1, <1>3, <1>4 DEF PhotoInv, Scans
<1>5. CASE ~ Full
  <2>1. Alive' = Alive /\ HeadOf' = HeadOf /\ (Room' <=> Room) /\ ~ Open /\ ~ Open' /\ ~ Busy /\ ~ Busy'
    BY <1>1, <1>5 DEF Alive, HeadOf, Room, Open, Busy
  <2>2. PlaceInv'
    BY <1>1, <1>2, <1>5, <2>1 DEF PlaceInv
  <2>3. OpenInv'
    BY <2>1 DEF OpenInv
  <2>4. SettledInv'
    <3>1. \A i : i \in DOMAIN list => (Settled(i) => Settled(i)')
      BY <1>1 DEF Settled, Behind
    <3> QED BY <1>1, <1>2, <2>1, <3>1 DEF SettledInv
  <2>5. PassedInv'
    BY <1>1, <1>2, <2>1 DEF PassedInv, Entries
  <2>6. Room'
    <3>1. Len(list) \in Nat /\ curtlen \in Nat /\ Len(list) <= curtlen /\ Len(list) # curtlen
      <4>1. list \in Seq(Lines) /\ Len(list) <= curtlen /\ curtlen \in Nat
        BY <1>2 DEF PlaceInv, PhotoTypes
      <4> QED BY <1>5, <4>1 DEF Full
    <3>2. Room
      BY <3>1 DEF Room
    <3> QED BY <2>1, <3>2
  <2> QED BY <1>3, <2>2, <2>3, <2>4, <2>5, <2>6 DEF PhotoInv
<1> QED BY <1>4, <1>5

\* The list the engine goes on with has every process that was there all the
\* time, with its threads behind it, and has not outgrown its memory: photoproc()
\* and the loop of engine().
THEOREM ListIsComplete == Spec => []Complete
<1>1. Init => PhotoInv
  <2> SUFFICES ASSUME Init PROVE PhotoInv
    OBVIOUS
  <2>1. CASE PhotoInit
    BY <2>1, PhotoProcAssumption DEF PhotoInit, PhotoInv, PhotoTypes, Scans
  <2>2. CASE PhotoOff
    <3>1. /\ nthr = [q \in Procs |-> 0] /\ stayed = {} /\ ppc = "done" /\ curtlen = 0 /\ list = << >>
          /\ at = 0 /\ thr = 0
      BY <2>2 DEF PhotoOff
    <3>2. Len(list) = 0 /\ DOMAIN list = {} /\ list \in Seq(Lines)
      BY <3>1
    <3>3. PhotoTypes
      BY <3>1 DEF PhotoTypes, Scans
    <3>4. PlaceInv /\ OpenInv /\ SettledInv
      BY <3>1, <3>2 DEF PlaceInv, OpenInv, SettledInv, Open, Busy
    <3>5. PassedInv
      BY <3>1 DEF PassedInv
    <3> QED BY <3>1, <3>3, <3>4, <3>5 DEF PhotoInv
  <2> QED BY <2>1, <2>2 DEF Init
<1>2. PhotoInv /\ [Next]_vars => PhotoInv'
  <2> SUFFICES ASSUME PhotoInv, [Next]_vars PROVE PhotoInv'
    OBVIOUS
  <2>1. CASE UNCHANGED pvars
    BY <2>1 DEF pvars, PhotoInv, PhotoTypes, PlaceInv, OpenInv, SettledInv, PassedInv, Settled, Behind,
                Open, Busy, HeadOf, Alive, Room, Entries
  <2>2. CASE PhotoNext
    <3>1. nthr \in [Procs -> Nat]
      BY DEF PhotoInv, PhotoTypes
    <3>2. CASE ProcStart
      <4>1. PICK q \in Procs : Change(q, 1)
        BY <3>2 DEF ProcStart
      <4> QED BY <4>1, PhotoChanges
    <3>3. CASE ProcEnd
      <4>1. PICK q \in Procs : Change(q, 0)
        BY <3>3 DEF ProcEnd
      <4> QED BY <4>1, PhotoChanges
    <3>4. CASE Clone
      <4>1. PICK q \in Procs : Change(q, nthr[q] + 1)
        BY <3>4 DEF Clone
      <4>2. PICK n \in Nat : n = nthr[q] + 1
        BY <3>1
      <4> QED BY <4>1, <4>2, PhotoChanges
    <3>5. CASE ThreadEnd
      <4>1. PICK q \in Procs : nthr[q] > 1 /\ Change(q, nthr[q] - 1)
        BY <3>5 DEF ThreadEnd
      <4>2. PICK n \in Nat : n = nthr[q] - 1
        BY <3>1, <4>1
      <4> QED BY <4>1, <4>2, PhotoChanges
    <3> QED BY <2>2, <3>2, <3>3, <3>4, <3>5, CountingBegins, ProcIsNext, ProcIsRead, TaskIsOpened,
               ThreadIsRead, ListIsChecked DEF PhotoNext
  <2> QED BY <2>1, <2>2 DEF Next, vars
<1>3. PhotoInv => Complete
  <2> SUFFICES ASSUME PhotoInv, ppc = "done", list # << >>
               PROVE  /\ \A p \in stayed : \E i \in DOMAIN list : list[i] = Entries(p, 0, nthr[p])
                      /\ \A i \in DOMAIN list : list[i].tid = 0 => Settled(i)
                      /\ Len(list) < curtlen
    BY DEF Complete, Settled
  <2>1. PlaceInv /\ SettledInv /\ PassedInv /\ Room /\ ~ Open /\ ~ Busy
    BY DEF PhotoInv, Scans, Open, Busy
  <2>2. \A p \in stayed : p < at \/ p = at
    <3>1. stayed \subseteq Nat /\ at \in Nat
      BY PhotoProcAssumption DEF PhotoInv, PhotoTypes, Scans, PlaceInv
    <3>2. \A p \in stayed : p <= at
      BY <2>1 DEF PassedInv
    <3> QED BY <3>1, <3>2
  <2>3. \A p \in stayed : \E i \in DOMAIN list : list[i] = Entries(p, 0, nthr[p])
    BY <2>1, <2>2 DEF PassedInv
  <2>4. \A i \in DOMAIN list : list[i].tid = 0 => Settled(i)
    BY <2>1 DEF SettledInv
  <2> QED BY <2>1, <2>3, <2>4 DEF Room
<1> QED BY <1>1, <1>2, <1>3, PTL DEF Spec
-----------------------------------------------------------------------------
(***************************************************************************)
(* Cgroups: the numbers of processes below a cgroup.                       *)
(***************************************************************************)
\* p is the path of a directory above q.
IsOver(p, q) == Len(q) > Len(p) /\ IsPrefix(p, q)

LEMMA AboveIs ==
  ASSUME NEW p \in Seq(Nat), NEW q \in Seq(Nat)
  PROVE  IsOver(p, q) <=> Len(p) < Len(q) /\ \A i \in 1 .. Len(p) : p[i] = q[i]
<1>1. Len(p) \in Nat /\ Len(q) \in Nat
  OBVIOUS
<1> DEFINE a == SubSeq(p, 1, Len(p))
           b == SubSeq(q, 1, Len(p))
<1>2. a = [i \in 1 .. Len(p) |-> p[i]]
  BY <1>1
<1>3. Len(p) < Len(q) => b = [i \in 1 .. Len(p) |-> q[i]]
  BY <1>1
<1>4. IsOver(p, q) <=> Len(p) < Len(q) /\ a = b
  BY <1>1 DEF IsOver, IsPrefix
<1> HIDE DEF a, b
<1>5. Len(p) < Len(q) => (a = b <=> \A i \in 1 .. Len(p) : p[i] = q[i])
  <2> SUFFICES ASSUME Len(p) < Len(q) PROVE a = b <=> \A i \in 1 .. Len(p) : p[i] = q[i]
    OBVIOUS
  <2>1. b = [i \in 1 .. Len(p) |-> q[i]]
    BY <1>3
  <2>2. (\A i \in 1 .. Len(p) : p[i] = q[i]) => a = b
    BY <1>2, <2>1
  <2>3. ASSUME a = b, NEW i \in 1 .. Len(p) PROVE p[i] = q[i]
    <3>1. a[i] = p[i] /\ b[i] = q[i]
      BY <1>2, <2>1
    <3> QED BY <2>3, <3>1
  <2> QED BY <2>2, <2>3
<1> QED BY <1>4, <1>5

LEMMA FrontIs ==
  ASSUME NEW d \in Seq(Nat), d # << >>
  PROVE  Front(d) \in Seq(Nat) /\ Len(Front(d)) = Len(d) - 1 /\ \A i \in 1 .. Len(d) - 1 : Front(d)[i] = d[i]
<1>1. Len(d) \in Nat /\ Len(d) > 0
  OBVIOUS
<1> DEFINE n == Len(d) - 1
<1>2. n \in Nat /\ n <= Len(d)
  BY <1>1
<1>3. Front(d) = SubSeq(d, 1, n)
  BY DEF Front
<1> HIDE DEF n
<1>4. SubSeq(d, 1, n) = [i \in 1 .. n |-> d[i]]
  BY <1>1, <1>2
<1>5. \A i \in 1 .. n : d[i] \in Nat
  BY <1>1, <1>2
<1>6. /\ [i \in 1 .. n |-> d[i]] \in Seq(Nat) /\ Len([i \in 1 .. n |-> d[i]]) = n
      /\ \A i \in 1 .. n : [k \in 1 .. n |-> d[k]][i] = d[i]
  BY <1>2, <1>5
<1> QED BY <1>3, <1>4, <1>6 DEF n

\* What is above a directory is its parent or above that.
LEMMA AboveFront ==
  ASSUME NEW d \in Seq(Nat), d # << >>
  PROVE  /\ Front(d) \in Seq(Nat) /\ Front(d) # d /\ ~ IsOver(d, Front(d))
         /\ \A p \in Seq(Nat) : IsOver(p, d) <=> p = Front(d) \/ IsOver(p, Front(d))
<1>1. Len(d) \in Nat /\ Len(d) > 0
  OBVIOUS
<1> DEFINE u == Front(d)
<1>2. u \in Seq(Nat) /\ Len(u) = Len(d) - 1 /\ \A i \in 1 .. Len(d) - 1 : u[i] = d[i]
  BY FrontIs
<1> HIDE DEF u
<1>3. ~ IsOver(d, u)
  BY <1>1, <1>2 DEF IsOver
<1>4. ASSUME NEW p \in Seq(Nat) PROVE IsOver(p, d) <=> p = u \/ IsOver(p, u)
  <2>1. Len(p) \in Nat /\ Len(u) \in Nat
    BY <1>2
  <2>2. IsOver(p, d) <=> Len(p) < Len(d) /\ \A i \in 1 .. Len(p) : p[i] = d[i]
    BY AboveIs
  <2>3. IsOver(p, u) <=> Len(p) < Len(u) /\ \A i \in 1 .. Len(p) : p[i] = u[i]
    BY <1>2, AboveIs
  <2>4. Len(p) <= Len(u) => \A i \in 1 .. Len(p) : u[i] = d[i]
    BY <1>2, <2>1
  <2>5. p = u <=> Len(p) = Len(u) /\ \A i \in 1 .. Len(p) : p[i] = u[i]
    <3>1. p = [i \in 1 .. Len(p) |-> p[i]] /\ u = [i \in 1 .. Len(u) |-> u[i]]
      BY <1>2
    <3>2. ASSUME Len(p) = Len(u), \A i \in 1 .. Len(p) : p[i] = u[i] PROVE p = u
      BY <3>1, <3>2
    <3> QED BY <3>2
  <2>6. Len(p) < Len(d) <=> Len(p) < Len(u) \/ Len(p) = Len(u)
    BY <1>1, <1>2, <2>1
  <2>7. Len(p) < Len(u) \/ Len(p) = Len(u) => Len(p) <= Len(u)
    BY <2>1
  <2> QED BY <2>2, <2>3, <2>4, <2>5, <2>6, <2>7
<1>5. u # d
  BY <1>1, <1>2
<1> QED BY <1>2, <1>3, <1>4, <1>5 DEF u

LEMMA AboveDown ==
  ASSUME NEW p \in Seq(Nat), NEW q \in Seq(Nat), p # << >>, IsOver(p, q)
  PROVE  IsOver(Front(p), q)
<1>1. Len(p) \in Nat /\ Len(p) > 0 /\ Len(q) \in Nat
  OBVIOUS
<1>2. Front(p) \in Seq(Nat) /\ Len(Front(p)) = Len(p) - 1 /\ \A i \in 1 .. Len(p) - 1 : Front(p)[i] = p[i]
  BY FrontIs
<1>3. Len(p) < Len(q) /\ \A i \in 1 .. Len(p) : p[i] = q[i]
  BY AboveIs
<1>4. Len(Front(p)) < Len(q) /\ \A i \in 1 .. Len(Front(p)) : Front(p)[i] = q[i]
  BY <1>1, <1>2, <1>3
<1> QED BY <1>2, <1>4, AboveIs

LEMMA AboveNone == ASSUME NEW p \in Seq(Nat) PROVE ~ IsOver(p, p) /\ ~ IsOver(p, << >>)
<1>1. Len(p) \in Nat /\ Len(<< >>) = 0
  OBVIOUS
<1> QED BY <1>1 DEF IsOver

\* The members whose call has not returned.
Opens(t) == {t[k].parentseq : k \in {k \in DOMAIN t : t[k].call = "leave"}}
LEMMA OpensAre ==
  ASSUME NEW t, NEW o
  PROVE  o \in Opens(t) <=> \E k \in DOMAIN t : t[k].call = "leave" /\ t[k].parentseq = o
  BY Zenon DEF Opens

Counts(s) == [j \in 1 .. Len(s) |-> Cardinality(s[j].proclist)]
BelowOf(s, i) == {j \in 1 .. Len(s) : IsOver(s[i].path, s[j].path)}
\* The members below an open one that have been returned to it.
Returned(t, s, i) == {j \in 1 .. Len(s) : j > i /\ \A o \in Opens(t) : o > i => j < o}

\* The inductive invariant of the walk, for calls t that are to be made or
\* finished and the chain s: a call goes to a directory below the member that is
\* open last; the members are the directories in the order of the walk, each
\* once; what a member has is the sum of what has been returned to it.
WalkTypes(t, s) ==
  /\ AChain(s) /\ IsSequence(t)
  /\ \A i \in 1 .. Len(s) : /\ s[i].path \in Seq(Nat) /\ s[i].parentseq \in Nat
                            /\ s[i].proclist \subseteq CgPids /\ s[i].procsbelow \in Nat
  /\ \A k \in 1 .. Len(t) : /\ t[k].call \in {"enter", "leave"} /\ t[k].path \in Seq(Nat)
                            /\ t[k].parentseq \in 0 .. Len(s)
Deeper(t) == \A k, l \in 1 .. Len(t) : k < l =>
  /\ t[l].parentseq <= t[k].parentseq
  /\ t[k].call = "leave" => t[l].parentseq < t[k].parentseq
Entered(t, s) == \A k \in 1 .. Len(t) : t[k].call = "enter" =>
  IF t[k].parentseq = 0 THEN t[k].path = << >> /\ Len(s) = 0
  ELSE t[k].parentseq \in Opens(t) /\ t[k].path # << >> /\ Front(t[k].path) = s[t[k].parentseq].path
Fresh(t, s) ==
  /\ \A k, l \in 1 .. Len(t) : k # l /\ t[k].call = "enter" /\ t[l].call = "enter" => t[k].path # t[l].path
  /\ \A k \in 1 .. Len(t), j \in 1 .. Len(s) : t[k].call = "enter" =>
       t[k].path # s[j].path /\ ~ IsOver(t[k].path, s[j].path)
Tree(s) ==
  /\ \A i, j \in 1 .. Len(s) : i # j => s[i].path # s[j].path
  /\ \A i, j \in 1 .. Len(s) : IsOver(s[i].path, s[j].path) => i < j
  /\ \A j \in 1 .. Len(s) : s[j].path # << >> => \E i \in 1 .. Len(s) : s[i].path = Front(s[j].path)
Stack(t, s) ==
  /\ Opens(t) \subseteq 1 .. Len(s)
  /\ \A i \in 1 .. Len(s), j \in Opens(t) : IsOver(s[i].path, s[j].path) => i \in Opens(t)
  /\ \A i \in Opens(t), j \in 1 .. Len(s) : i < j => IsOver(s[i].path, s[j].path)
  /\ \A j \in Opens(t) :
       IF s[j].parentseq = 0 THEN \A i \in Opens(t) : ~ (i < j)
       ELSE s[j].parentseq \in Opens(t) /\ s[j].parentseq < j /\ \A i \in Opens(t) : i < j => i <= s[j].parentseq
SumInv(t, s) == \A i \in 1 .. Len(s) :
  s[i].procsbelow = Total(Counts(s), IF i \in Opens(t) THEN Returned(t, s, i) ELSE BelowOf(s, i))
Walk(t, s) == WalkTypes(t, s) /\ Deeper(t) /\ Entered(t, s) /\ Fresh(t, s) /\ Tree(s) /\ Stack(t, s) /\ SumInv(t, s)

LEMMA CountsAreNat ==
  ASSUME NEW s, NEW t, WalkTypes(t, s)
  PROVE  Len(s) \in Nat /\ IsFiniteSet(1 .. Len(s)) /\ \A j \in 1 .. Len(s) : Counts(s)[j] \in Nat
<1>1. Len(s) \in Nat
  <2>1. s \in Seq(Range(s))
    BY DEF WalkTypes, AChain, IsSequence
  <2> QED BY <2>1
<1>2. IsFiniteSet(1 .. Len(s))
  BY <1>1, FS_Interval
<1>3. ASSUME NEW j \in 1 .. Len(s) PROVE Counts(s)[j] \in Nat
  <2>1. s[j].proclist \subseteq CgPids
    BY DEF WalkTypes
  <2>2. IsFiniteSet(s[j].proclist)
    BY <2>1, CgroupsAssumption, FS_Subset
  <2> QED BY <2>2, FS_CardinalityType DEF Counts
<1> QED BY <1>1, <1>2, <1>3

\* A chain that is continued keeps the numbers of its processes.
LEMMA CountsStay ==
  ASSUME NEW s, NEW t, WalkTypes(t, s), NEW v, \A j \in 1 .. Len(s) : Counts(v)[j] = Counts(s)[j],
         NEW S, S \subseteq 1 .. Len(s)
  PROVE  Total(Counts(v), S) = Total(Counts(s), S)
<1>1. IsFiniteSet(S)
  BY CountsAreNat, FS_Subset
<1>2. ASSUME NEW f, NEW g, f = Counts(v), g = Counts(s) PROVE Total(f, S) = Total(g, S)
  <2>1. \A j \in S : f[j] = g[j]
    BY <1>2
  <2> QED BY <1>1, <2>1, TotalAgrees
<1> QED BY <1>2

LEMMA CountsAppended ==
  ASSUME NEW s, NEW t, WalkTypes(t, s), NEW x, NEW v, v = Append(s, x)
  PROVE  \A S \in SUBSET (1 .. Len(s)) : Total(Counts(v), S) = Total(Counts(s), S)
<1>1. /\ Len(v) = Len(s) + 1 /\ Len(s) \in Nat
      /\ \A i \in 1 .. Len(s) : v[i] = s[i]
  BY AppendSequence DEF WalkTypes, AChain
<1>2. \A j \in 1 .. Len(s) : Counts(v)[j] = Counts(s)[j]
  BY <1>1 DEF Counts
<1> QED BY <1>2, CountsStay

\* x is added to s, for u opens it, and nothing else; what is above it is r, that
\* was open, or above r.
Grows(t, s, x, u, v, n, r) ==
  /\ v = Append(s, x) /\ n = Len(s) + 1 /\ x.procsbelow = 0
  /\ Opens(u) = Opens(t) \cup {n} /\ (r # 0 => r \in Opens(t))
  /\ \A i, j \in 1 .. n : IsOver(v[i].path, v[j].path)
       <=> \/ i \in 1 .. Len(s) /\ j \in 1 .. Len(s) /\ IsOver(s[i].path, s[j].path)
           \/ i \in 1 .. Len(s) /\ j = n /\ r # 0 /\ (i = r \/ IsOver(s[i].path, s[r].path))

\* A new member has nothing yet, and the others keep what they have.
LEMMA SumEnters ==
  ASSUME NEW t, NEW s, WalkTypes(t, s), Stack(t, s), SumInv(t, s),
         NEW x, NEW u, NEW v, NEW n, NEW r, Grows(t, s, x, u, v, n, r)
  PROVE  SumInv(u, v)
<1>0. /\ v = Append(s, x) /\ n = Len(s) + 1 /\ x.procsbelow = 0
      /\ Opens(u) = Opens(t) \cup {n} /\ (r # 0 => r \in Opens(t))
      /\ \A i, j \in 1 .. n : IsOver(v[i].path, v[j].path)
           <=> \/ i \in 1 .. Len(s) /\ j \in 1 .. Len(s) /\ IsOver(s[i].path, s[j].path)
               \/ i \in 1 .. Len(s) /\ j = n /\ r # 0 /\ (i = r \/ IsOver(s[i].path, s[r].path))
  BY DEF Grows
<1>1. /\ Len(v) = n /\ Len(s) \in Nat /\ v[n] = x /\ n \in 1 .. n
      /\ \A i \in 1 .. Len(s) : v[i] = s[i] /\ i \in 1 .. n /\ i < n /\ i \in Nat
      /\ \A i \in 1 .. n : i \in 1 .. Len(s) \/ i = n
  <2>1. Len(v) = n /\ Len(s) \in Nat /\ v[n] = x /\ \A i \in 1 .. Len(s) : v[i] = s[i]
    BY <1>0, AppendSequence DEF WalkTypes, AChain
  <2> QED BY <1>0, <2>1
<1> SUFFICES ASSUME NEW i \in 1 .. Len(v)
             PROVE  v[i].procsbelow
                    = Total(Counts(v), IF i \in Opens(u) THEN Returned(u, v, i) ELSE BelowOf(v, i))
  BY DEF SumInv
<1>2. \A S \in SUBSET (1 .. Len(s)) : Total(Counts(v), S) = Total(Counts(s), S)
  BY <1>0, CountsAppended
<1>3. CASE i = n
  <2>1. Returned(u, v, i) = {}
    <3>1. \A j \in 1 .. Len(v) : ~ (j > n)
      BY <1>0, <1>1
    <3> QED BY <1>0, <1>3, <3>1 DEF Returned
  <2>2. Total(Counts(v), {}) = 0
    <3>1. IsFiniteSet({})
      BY FS_EmptySet
    <3> QED BY <3>1, TotalSums
  <2> QED BY <1>0, <1>1, <1>3, <2>1, <2>2
<1>4. CASE i \in 1 .. Len(s)
  <2>1. i # n /\ i < n /\ (i \in Opens(u) <=> i \in Opens(t))
    BY <1>0, <1>1, <1>4
  <2>2. s[i].procsbelow = Total(Counts(s), IF i \in Opens(t) THEN Returned(t, s, i) ELSE BelowOf(s, i))
    BY <1>0, <1>4 DEF SumInv
  <2>3. Returned(u, v, i) = Returned(t, s, i)
    <3>1. \A j \in 1 .. Len(v) : j < n <=> j \in 1 .. Len(s)
      BY <1>0, <1>1
    <3>2. ASSUME NEW j PROVE j \in Returned(u, v, i) <=> j \in Returned(t, s, i)
      <4>1. j \in Returned(u, v, i)
            <=> j \in 1 .. Len(v) /\ j > i /\ (\A o \in Opens(t) : o > i => j < o) /\ j < n
        BY <1>0, <2>1 DEF Returned
      <4>2. j \in 1 .. Len(s) => j \in 1 .. Len(v)
        BY <1>0, <1>1
      <4> QED BY <3>1, <4>1, <4>2 DEF Returned
    <3> QED BY <3>2
  <2>4. i \notin Opens(t) => BelowOf(v, i) = BelowOf(s, i)
    <3> SUFFICES ASSUME i \notin Opens(t), NEW j PROVE j \in BelowOf(v, i) <=> j \in BelowOf(s, i)
      OBVIOUS
    <3>1. ~ (r # 0 /\ (i = r \/ IsOver(s[i].path, s[r].path)))
      BY <1>0, <1>4 DEF Stack
    <3>2. n \notin 1 .. Len(s)
      BY <1>0, <1>1
    <3>3. j \in 1 .. n => (IsOver(v[i].path, v[j].path) <=> j \in 1 .. Len(s) /\ IsOver(s[i].path, s[j].path))
      BY <1>0, <1>1, <1>4, <3>1, <3>2
    <3> QED BY <1>0, <1>1, <3>3 DEF BelowOf
  <2>5. Returned(t, s, i) \subseteq 1 .. Len(s) /\ BelowOf(s, i) \subseteq 1 .. Len(s)
    BY DEF Returned, BelowOf
  <2> QED BY <1>0, <1>1, <1>2, <1>4, <2>1, <2>2, <2>3, <2>4, <2>5
<1> QED BY <1>0, <1>1, <1>3, <1>4

LEMMA ConcatIs ==
  ASSUME NEW S, NEW a \in Seq(S), NEW b \in Seq(S), NEW u, u = a \o b
  PROVE  /\ u \in Seq(S) /\ Len(u) = Len(a) + Len(b)
         /\ \A k \in 1 .. Len(a) : u[k] = a[k]
         /\ \A k \in 1 .. Len(b) : u[Len(a) + k] = b[k]
<1>1. Len(a) \in Nat /\ Len(b) \in Nat
  OBVIOUS
<1>2. a \o b \in Seq(S) /\ Len(a \o b) = Len(a) + Len(b)
  OBVIOUS
<1>3. ASSUME NEW k \in 1 .. Len(a) PROVE (a \o b)[k] = a[k]
  <2>1. k \in 1 .. Len(a) + Len(b) /\ k <= Len(a)
    BY <1>1
  <2> QED BY <1>1, <1>2, <2>1
<1>4. ASSUME NEW k \in 1 .. Len(b) PROVE (a \o b)[Len(a) + k] = b[k]
  <2>1. Len(a) + k \in 1 .. Len(a) + Len(b) /\ ~ (Len(a) + k <= Len(a)) /\ (Len(a) + k) - Len(a) = k
    BY <1>1
  <2> QED BY <1>1, <1>2, <2>1
<1> QED BY <1>2, <1>3, <1>4

\* The calls for the subdirectories and its own end come in front of the others.
InFront(t, a, y, u) ==
  /\ IsSequence(u) /\ Len(u) = Len(a) + Len(t)
  /\ \A k \in 1 .. Len(a) : u[k] = a[k]
  /\ u[Len(a) + 1] = y
  /\ \A k \in 2 .. Len(t) : u[Len(a) + k] = t[k]
LEMMA TodoGrows ==
  ASSUME NEW t, IsSequence(t), t # << >>, NEW a, IsSequence(a), NEW y
  PROVE  InFront(t, a, y, a \o <<y>> \o Tail(t))
<1> DEFINE S == Range(a) \cup {y} \cup Range(t)
           b == a \o <<y>>
           w == Tail(t)
           u == b \o w
<1>1. a \in Seq(S) /\ t \in Seq(S) /\ y \in S
  <2>1. a \in Seq(Range(a)) /\ t \in Seq(Range(t))
    BY DEF IsSequence
  <2> QED BY <2>1
<1> HIDE DEF S
<1>2. /\ b \in Seq(S) /\ Len(b) = Len(a) + 1 /\ Len(a) \in Nat /\ b[Len(a) + 1] = y
      /\ \A k \in 1 .. Len(a) : b[k] = a[k]
  BY <1>1
<1>3. /\ w \in Seq(S) /\ Len(w) = Len(t) - 1 /\ Len(t) \in Nat \ {0} /\ DOMAIN t = 1 .. Len(t)
      /\ \A k \in 1 .. Len(t) - 1 : w[k] = t[k + 1]
  BY <1>1
<1> HIDE DEF b, w
<1>4. /\ u \in Seq(S) /\ Len(u) = Len(b) + Len(w)
      /\ \A k \in 1 .. Len(b) : u[k] = b[k]
      /\ \A k \in 1 .. Len(w) : u[Len(b) + k] = w[k]
  <2>1. b \in Seq(S) /\ w \in Seq(S) /\ u = b \o w
    BY <1>2, <1>3
  <2> HIDE DEF u
  <2> QED BY <2>1, ConcatIs
<1> HIDE DEF u
<1>5. IsSequence(u)
  BY <1>4, SequenceOfRange
<1>6. ASSUME NEW k \in 2 .. Len(t) PROVE u[Len(a) + k] = t[k]
  <2>1. k - 1 \in 1 .. Len(w) /\ Len(b) + (k - 1) = Len(a) + k /\ k - 1 \in 1 .. Len(t) - 1 /\ (k - 1) + 1 = k
    BY <1>2, <1>3
  <2>2. u[Len(b) + (k - 1)] = w[k - 1]
    BY <1>4, <2>1
  <2>3. w[k - 1] = t[(k - 1) + 1]
    BY <1>3, <2>1
  <2> QED BY <2>1, <2>2, <2>3
<1>7. Len(u) = Len(a) + Len(t) /\ (\A k \in 1 .. Len(a) : u[k] = a[k]) /\ u[Len(a) + 1] = y
  BY <1>2, <1>3, <1>4
<1>8. InFront(t, a, y, u)
  BY <1>5, <1>6, <1>7 DEF InFront
<1> QED BY <1>8 DEF u, b, w

\* walkcgroup(): x is the new member, sub its m directories.
Visits(t, s, m, sub, x, u, v) ==
  /\ t # << >> /\ t[1].call = "enter"
  /\ m \in Nat
  /\ \A i \in 1 .. m : sub[i] \in Seq(Nat) /\ sub[i] # << >> /\ Front(sub[i]) = t[1].path
  /\ \A i, j \in 1 .. m : i # j => sub[i] # sub[j]
  /\ Member(x) /\ x.path = t[1].path /\ x.parentseq = t[1].parentseq
  /\ x.proclist \subseteq CgPids /\ x.procsbelow = 0
  /\ v = Append(s, x)
  /\ IsSequence(u) /\ Len(u) = m + Len(t)
  /\ \A k \in 1 .. m : u[k].call = "enter" /\ u[k].path = sub[k] /\ u[k].parentseq = Len(s) + 1
  /\ u[m + 1].call = "leave" /\ u[m + 1].path = t[1].path /\ u[m + 1].parentseq = Len(s) + 1
  /\ \A k \in 2 .. Len(t) : u[m + k] = t[k]
LEMMA WalkEnters ==
  ASSUME NEW t, NEW s, Walk(t, s), NEW m, NEW sub, NEW x, NEW u, NEW v, Visits(t, s, m, sub, x, u, v)
  PROVE  Walk(u, v)
<1> SUFFICES ASSUME
      t # << >>, t[1].call = "enter", m \in Nat,
      \A i \in 1 .. m : sub[i] \in Seq(Nat) /\ sub[i] # << >> /\ Front(sub[i]) = t[1].path,
      \A i, j \in 1 .. m : i # j => sub[i] # sub[j],
      Member(x), x.path = t[1].path, x.parentseq = t[1].parentseq,
      x.proclist \subseteq CgPids, x.procsbelow = 0,
      v = Append(s, x),
      IsSequence(u), Len(u) = m + Len(t),
      \A k \in 1 .. m : u[k].call = "enter" /\ u[k].path = sub[k] /\ u[k].parentseq = Len(s) + 1,
      u[m + 1].call = "leave" /\ u[m + 1].path = t[1].path /\ u[m + 1].parentseq = Len(s) + 1,
      \A k \in 2 .. Len(t) : u[m + k] = t[k]
    PROVE Walk(u, v)
  BY DEF Visits
<1> DEFINE n == Len(s) + 1
           r == t[1].parentseq
           c == t[1].path
<1>0. WalkTypes(t, s) /\ Deeper(t) /\ Entered(t, s) /\ Fresh(t, s) /\ Tree(s) /\ Stack(t, s) /\ SumInv(t, s)
  BY DEF Walk
<1>1. /\ Len(v) = n /\ Len(s) \in Nat /\ DOMAIN s = 1 .. Len(s) /\ v[n] = x /\ n \in 1 .. n
      /\ \A i \in 1 .. Len(s) : v[i] = s[i] /\ i \in 1 .. n /\ i < n /\ i \in Nat
      /\ \A i \in 1 .. n : i \in 1 .. Len(s) \/ i = n
  <2>1. /\ Len(v) = n /\ Len(s) \in Nat /\ DOMAIN s = 1 .. Len(s) /\ v[n] = x
        /\ \A i \in 1 .. Len(s) : v[i] = s[i]
    BY <1>0, AppendSequence DEF WalkTypes, AChain
  <2> QED BY <2>1
<1>2. /\ Len(t) \in Nat /\ Len(t) > 0 /\ DOMAIN t = 1 .. Len(t) /\ 1 \in 1 .. Len(t)
      /\ DOMAIN u = 1 .. Len(u) /\ Len(u) \in Nat
  <2>1. t \in Seq(Range(t)) /\ u \in Seq(Range(u))
    BY <1>0 DEF WalkTypes, IsSequence
  <2>2. Len(t) \in Nat /\ Len(t) > 0 /\ DOMAIN t = 1 .. Len(t)
    BY <2>1
  <2> QED BY <2>1, <2>2
<1>3. r \in 0 .. Len(s) /\ c \in Seq(Nat)
  BY <1>0, <1>2 DEF WalkTypes
<1> HIDE DEF n
<1>4. ASSUME NEW k \in 1 .. Len(u)
      PROVE  \/ k \in 1 .. m /\ u[k].call = "enter" /\ u[k].path = sub[k] /\ u[k].parentseq = n
             \/ k = m + 1 /\ u[k].call = "leave" /\ u[k].path = c /\ u[k].parentseq = n
             \/ \E l \in 2 .. Len(t) : k = m + l /\ u[k] = t[l]
  <2>1. k \in 1 .. m \/ k = m + 1 \/ k - m \in 2 .. Len(t)
    BY <1>2
  <2>2. k - m \in 2 .. Len(t) => k = m + (k - m) /\ u[m + (k - m)] = t[k - m]
    BY <1>2
  <2> QED BY <2>1, <2>2 DEF n
<1>5. \A l \in 2 .. Len(t) : l \in 1 .. Len(t) /\ l # 1 /\ 1 < l /\ m + l \in 1 .. Len(u) /\ l \in Nat
  BY <1>2
<1>6. m + 1 \in 1 .. Len(u)
  BY <1>2
<1>7. Opens(u) = Opens(t) \cup {n}
  <2>1. ASSUME NEW o \in Opens(t) PROVE o \in Opens(u)
    <3>1. PICK k \in 1 .. Len(t) : t[k].call = "leave" /\ o = t[k].parentseq
      BY <1>2, <2>1 DEF Opens
    <3>2. k \in 2 .. Len(t)
      <4>1. k # 1
        BY <3>1
      <4> QED BY <1>2, <4>1
    <3>3. m + k \in DOMAIN u /\ u[m + k] = t[k]
      BY <1>2, <1>5, <3>2
    <3>4. \E q \in DOMAIN u : u[q].call = "leave" /\ u[q].parentseq = o
      BY <3>1, <3>3
    <3> QED BY <3>4, OpensAre
  <2>2. n \in Opens(u)
    BY <1>2, <1>6 DEF Opens, n
  <2>3. ASSUME NEW o \in Opens(u) PROVE o \in Opens(t) \cup {n}
    <3>1. PICK k \in 1 .. Len(u) : u[k].call = "leave" /\ o = u[k].parentseq
      BY <1>2, <2>3 DEF Opens
    <3>2. CASE \E l \in 2 .. Len(t) : k = m + l /\ u[k] = t[l]
      <4>1. PICK l \in 2 .. Len(t) : u[k] = t[l]
        BY <3>2
      <4>2. l \in DOMAIN t /\ t[l].call = "leave" /\ t[l].parentseq = o
        BY <1>2, <1>5, <3>1, <4>1
      <4>3. o \in Opens(t)
        BY <4>2, OpensAre
      <4> QED BY <4>3
    <3> QED BY <1>4, <3>1, <3>2
  <2> QED BY <2>1, <2>2, <2>3
<1>8. \A o \in Opens(t) : o \in 1 .. Len(s) /\ o \in Nat /\ o < n /\ o <= r
  <2> TAKE o \in Opens(t)
  <2>1. PICK k \in 1 .. Len(t) : t[k].call = "leave" /\ o = t[k].parentseq
    BY <1>2 DEF Opens
  <2>2. 1 < k
    <3>1. k # 1
      BY <2>1
    <3> QED BY <1>2, <3>1
  <2>3. o <= r
    BY <1>0, <1>2, <2>1, <2>2 DEF Deeper
  <2>4. o \in 1 .. Len(s)
    BY <1>0 DEF Stack
  <2> QED BY <1>1, <2>3, <2>4
<1>9. /\ r = 0 => c = << >> /\ Len(s) = 0 /\ Opens(t) = {}
      /\ r # 0 => r \in Opens(t) /\ r \in 1 .. Len(s) /\ c # << >> /\ Front(c) = s[r].path
  <2>1. r = 0 => c = << >> /\ Len(s) = 0
    BY <1>0, <1>2 DEF Entered
  <2>2. r # 0 => r \in Opens(t) /\ c # << >> /\ Front(c) = s[r].path
    BY <1>0, <1>2 DEF Entered
  <2>3. r = 0 => Opens(t) = {}
    <3> SUFFICES ASSUME r = 0, NEW o \in Opens(t) PROVE FALSE
      OBVIOUS
    <3> QED BY <1>8, <2>1
  <2> QED BY <1>8, <2>1, <2>2, <2>3
<1> HIDE DEF r, c
<1>10. \A i \in 1 .. Len(s) : s[i].path \in Seq(Nat) /\ s[i].path # c /\ ~ IsOver(c, s[i].path)
  BY <1>0, <1>2 DEF WalkTypes, Fresh, c
\* What is above the new member is its parent or above it.
<1>11. ASSUME NEW p \in Seq(Nat), IsOver(p, c)
       PROVE  r # 0 /\ (p = s[r].path \/ IsOver(p, s[r].path))
  <2>1. r # 0
    BY <1>9, <1>11, AboveNone
  <2>2. c # << >> /\ Front(c) = s[r].path
    BY <1>9, <2>1
  <2> QED BY <1>3, <1>11, <2>1, <2>2, AboveFront
<1>12. ASSUME r # 0, NEW p \in Seq(Nat), p = s[r].path \/ IsOver(p, s[r].path)
       PROVE  IsOver(p, c)
  <2>1. c # << >> /\ Front(c) = s[r].path
    BY <1>9, <1>12
  <2> QED BY <1>3, <1>12, <2>1, AboveFront
<1>13. WalkTypes(u, v)
  <2>1. AChain(v)
    BY <1>0, ChainAppends DEF WalkTypes
  <2>2. ASSUME NEW i \in 1 .. Len(v)
        PROVE  /\ v[i].path \in Seq(Nat) /\ v[i].parentseq \in Nat
               /\ v[i].proclist \subseteq CgPids /\ v[i].procsbelow \in Nat
    <3>1. CASE i \in 1 .. Len(s)
      BY <1>0, <1>1, <3>1 DEF WalkTypes
    <3>2. CASE i = n
      <4>1. r \in Nat
        BY <1>1, <1>3
      <4> QED BY <1>1, <1>3, <3>2, <4>1 DEF r, c
    <3> QED BY <1>1, <2>2, <3>1, <3>2
  <2>3. ASSUME NEW k \in 1 .. Len(u)
        PROVE  /\ u[k].call \in {"enter", "leave"} /\ u[k].path \in Seq(Nat)
               /\ u[k].parentseq \in 0 .. Len(v)
    <3>1. n \in 0 .. Len(v) /\ 0 .. Len(s) \subseteq 0 .. Len(v)
      BY <1>1
    <3>2. CASE \E l \in 2 .. Len(t) : k = m + l /\ u[k] = t[l]
      BY <1>0, <1>5, <3>1, <3>2 DEF WalkTypes
    <3> QED BY <1>3, <1>4, <3>1, <3>2
  <2> QED BY <2>1, <2>2, <2>3 DEF WalkTypes
<1>14. Deeper(u)
  <2> SUFFICES ASSUME NEW k \in 1 .. Len(u), NEW l \in 1 .. Len(u), k < l
               PROVE  /\ u[l].parentseq <= u[k].parentseq
                      /\ u[k].call = "leave" => u[l].parentseq < u[k].parentseq
    BY DEF Deeper
  <2>1. \A h \in 2 .. Len(t) : t[h].parentseq \in Nat /\ t[h].parentseq < n
    <3>1. \A h \in 2 .. Len(t) : t[h].parentseq \in 0 .. Len(s)
      BY <1>0, <1>5 DEF WalkTypes
    <3> QED BY <1>1, <3>1 DEF n
  <2>2. n \in Nat
    BY <1>1 DEF n
  <2>3. CASE k \in 1 .. m /\ u[k].call = "enter" /\ u[k].parentseq = n
    <3>1. u[l].parentseq <= n
      <4>1. CASE u[l].parentseq = n
        BY <2>2, <4>1
      <4>2. CASE \E h \in 2 .. Len(t) : u[l] = t[h]
        BY <2>1, <2>2, <4>2
      <4> QED BY <1>4, <4>1, <4>2
    <3> QED BY <2>3, <3>1
  <2>4. CASE k = m + 1 /\ u[k].parentseq = n
    <3>1. ~ (l \in 1 .. m) /\ l # m + 1
      BY <2>4
    <3>2. PICK h \in 2 .. Len(t) : u[l] = t[h]
      BY <1>4, <3>1
    <3> QED BY <2>1, <2>2, <2>4, <3>2
  <2>5. CASE \E h \in 2 .. Len(t) : k = m + h /\ u[k] = t[h]
    <3>1. PICK h \in 2 .. Len(t) : k = m + h /\ u[k] = t[h]
      BY <2>5
    <3>2. ~ (l \in 1 .. m) /\ l # m + 1
      BY <3>1
    <3>3. PICK g \in 2 .. Len(t) : l = m + g /\ u[l] = t[g]
      BY <1>4, <3>2
    <3>4. h < g
      BY <3>1, <3>3
    <3> QED BY <1>0, <1>5, <3>1, <3>3, <3>4 DEF Deeper
  <2> QED BY <1>4, <2>3, <2>4, <2>5
<1>15. Entered(u, v)
  <2> SUFFICES ASSUME NEW k \in 1 .. Len(u), u[k].call = "enter"
               PROVE  IF u[k].parentseq = 0 THEN u[k].path = << >> /\ Len(v) = 0
                      ELSE /\ u[k].parentseq \in Opens(u) /\ u[k].path # << >>
                           /\ Front(u[k].path) = v[u[k].parentseq].path
    BY DEF Entered
  <2>1. CASE k \in 1 .. m /\ u[k].path = sub[k] /\ u[k].parentseq = n
    <3>1. n # 0
      BY <1>1 DEF n
    <3> QED BY <1>1, <1>7, <2>1, <3>1
  <2>2. CASE \E l \in 2 .. Len(t) : k = m + l /\ u[k] = t[l]
    <3>1. PICK l \in 2 .. Len(t) : u[k] = t[l]
      BY <2>2
    <3>2. t[l].parentseq # 0
      <4> SUFFICES ASSUME t[l].parentseq = 0 PROVE FALSE
        OBVIOUS
      <4>1. t[l].path = << >> /\ Len(s) = 0
        BY <1>0, <1>5, <3>1 DEF Entered
      <4>2. r = 0
        BY <1>3, <4>1
      <4>3. c = << >> /\ c # t[l].path
        BY <1>0, <1>2, <1>5, <1>9, <3>1, <4>2 DEF Fresh, c
      <4> QED BY <4>1, <4>3
    <3>3. t[l].parentseq \in Opens(t) /\ t[l].path # << >> /\ Front(t[l].path) = s[t[l].parentseq].path
      BY <1>0, <1>5, <3>1, <3>2 DEF Entered
    <3>4. v[t[l].parentseq] = s[t[l].parentseq]
      BY <1>1, <1>8, <3>3
    <3> QED BY <1>7, <3>1, <3>2, <3>3, <3>4
  <2> QED BY <1>4, <2>1, <2>2
<1>16. \A i \in 1 .. m : /\ sub[i] \in Seq(Nat) /\ sub[i] # << >> /\ Front(sub[i]) = c /\ sub[i] # c
                         /\ ~ IsOver(sub[i], c)
  <2> TAKE i \in 1 .. m
  <2>1. sub[i] \in Seq(Nat) /\ sub[i] # << >> /\ Front(sub[i]) = c
    BY DEF c
  <2> QED BY <2>1, AboveFront
<1>17. \A i \in 1 .. m, j \in 1 .. Len(s) : sub[i] # s[j].path /\ ~ IsOver(sub[i], s[j].path)
  <2> SUFFICES ASSUME NEW i \in 1 .. m, NEW j \in 1 .. Len(s)
               PROVE  sub[i] # s[j].path /\ ~ IsOver(sub[i], s[j].path)
    OBVIOUS
  <2>1. ASSUME sub[i] = s[j].path PROVE FALSE
    <3>1. s[j].path # << >> /\ Front(s[j].path) = c
      BY <1>16, <2>1
    <3>2. \E h \in 1 .. Len(s) : s[h].path = Front(s[j].path)
      BY <1>0, <3>1 DEF Tree
    <3> QED BY <1>10, <3>1, <3>2
  <2>2. ASSUME IsOver(sub[i], s[j].path) PROVE FALSE
    <3>1. IsOver(Front(sub[i]), s[j].path)
      BY <1>10, <1>16, <2>2, AboveDown
    <3> QED BY <1>10, <1>16, <3>1
  <2> QED BY <2>1, <2>2
<1>18. \A l \in 2 .. Len(t) : t[l].call = "enter" =>
         /\ t[l].path \in Seq(Nat) /\ t[l].path # c /\ ~ IsOver(t[l].path, c)
         /\ \A i \in 1 .. m : t[l].path # sub[i]
         /\ \A j \in 1 .. Len(s) : t[l].path # s[j].path /\ ~ IsOver(t[l].path, s[j].path)
  <2> SUFFICES ASSUME NEW l \in 2 .. Len(t), t[l].call = "enter"
               PROVE  /\ t[l].path \in Seq(Nat) /\ t[l].path # c /\ ~ IsOver(t[l].path, c)
                      /\ \A i \in 1 .. m : t[l].path # sub[i]
                      /\ \A j \in 1 .. Len(s) : t[l].path # s[j].path /\ ~ IsOver(t[l].path, s[j].path)
    OBVIOUS
  <2>1. t[l].path \in Seq(Nat) /\ \A j \in 1 .. Len(s) : t[l].path # s[j].path /\ ~ IsOver(t[l].path, s[j].path)
    BY <1>0, <1>5 DEF WalkTypes, Fresh
  <2>2. t[l].path # c
    BY <1>0, <1>2, <1>5 DEF Fresh, c
  <2>3. ~ IsOver(t[l].path, c)
    BY <1>9, <1>11, <2>1
  <2>4. ASSUME NEW i \in 1 .. m, t[l].path = sub[i] PROVE FALSE
    <3>1. t[l].path # << >> /\ Front(t[l].path) = c
      BY <1>16, <2>4
    <3>2. t[l].parentseq \in Opens(t) /\ Front(t[l].path) = s[t[l].parentseq].path
      BY <1>0, <1>5, <3>1 DEF Entered
    <3> QED BY <1>8, <1>10, <3>1, <3>2
  <2> QED BY <2>1, <2>2, <2>3, <2>4
\* A call to enter that is to be made: for a subdirectory or an earlier one.
<1>19. ASSUME NEW k \in 1 .. Len(u), u[k].call = "enter"
       PROVE  \/ k \in 1 .. m /\ u[k].path = sub[k]
              \/ \E l \in 2 .. Len(t) : k = m + l /\ u[k] = t[l] /\ t[l].call = "enter"
  <2>1. CASE \E l \in 2 .. Len(t) : k = m + l /\ u[k] = t[l]
    BY <1>19, <2>1
  <2> QED BY <1>4, <1>19, <2>1
<1>20. Fresh(u, v)
  <2>1. ASSUME NEW k \in 1 .. Len(u), NEW l \in 1 .. Len(u), k # l, u[k].call = "enter", u[l].call = "enter"
        PROVE  u[k].path # u[l].path
    <3>1. CASE k \in 1 .. m /\ u[k].path = sub[k]
      <4>1. CASE l \in 1 .. m /\ u[l].path = sub[l]
        BY <2>1, <3>1, <4>1
      <4>2. CASE \E g \in 2 .. Len(t) : l = m + g /\ u[l] = t[g] /\ t[g].call = "enter"
        BY <1>18, <3>1, <4>2
      <4> QED BY <1>19, <2>1, <4>1, <4>2
    <3>2. CASE \E h \in 2 .. Len(t) : k = m + h /\ u[k] = t[h] /\ t[h].call = "enter"
      <4>1. CASE l \in 1 .. m /\ u[l].path = sub[l]
        BY <1>18, <3>2, <4>1
      <4>2. CASE \E g \in 2 .. Len(t) : l = m + g /\ u[l] = t[g] /\ t[g].call = "enter"
        <5>1. PICK h \in 2 .. Len(t) : k = m + h /\ u[k] = t[h] /\ t[h].call = "enter"
          BY <3>2
        <5>2. PICK g \in 2 .. Len(t) : l = m + g /\ u[l] = t[g] /\ t[g].call = "enter"
          BY <4>2
        <5>3. h # g
          BY <2>1, <5>1, <5>2
        <5> QED BY <1>0, <1>5, <5>1, <5>2, <5>3 DEF Fresh
      <4> QED BY <1>19, <2>1, <4>1, <4>2
    <3> QED BY <1>19, <2>1, <3>1, <3>2
  <2>2. ASSUME NEW k \in 1 .. Len(u), NEW j \in 1 .. Len(v), u[k].call = "enter"
        PROVE  u[k].path # v[j].path /\ ~ IsOver(u[k].path, v[j].path)
    <3>1. v[n].path = c
      BY <1>1 DEF c
    <3>2. CASE k \in 1 .. m /\ u[k].path = sub[k]
      <4>1. CASE j \in 1 .. Len(s)
        BY <1>1, <1>17, <3>2, <4>1
      <4>2. CASE j = n
        BY <1>16, <3>1, <3>2, <4>2
      <4> QED BY <1>1, <2>2, <4>1, <4>2
    <3>3. CASE \E h \in 2 .. Len(t) : k = m + h /\ u[k] = t[h] /\ t[h].call = "enter"
      BY <1>1, <1>18, <3>1, <3>3
    <3> QED BY <1>19, <2>2, <3>2, <3>3
  <2> QED BY <2>1, <2>2 DEF Fresh
<1>21. v[n].path = c /\ v[n].parentseq = r /\ v[n].proclist \subseteq CgPids /\ v[n].procsbelow = 0
  BY <1>1 DEF r, c
\* Of two members one of which is the new one, only the old one can be above.
<1>22. ASSUME NEW i \in 1 .. n, NEW j \in 1 .. n
       PROVE  IsOver(v[i].path, v[j].path)
              <=> \/ i \in 1 .. Len(s) /\ j \in 1 .. Len(s) /\ IsOver(s[i].path, s[j].path)
                  \/ i \in 1 .. Len(s) /\ j = n /\ r # 0 /\ (i = r \/ IsOver(s[i].path, s[r].path))
  <2>1. n \notin 1 .. Len(s)
    BY <1>1 DEF n
  <2>2. CASE i \in 1 .. Len(s) /\ j \in 1 .. Len(s)
    BY <1>1, <2>1, <2>2
  <2>3. CASE i = n /\ j \in 1 .. Len(s)
    BY <1>1, <1>10, <1>21, <2>1, <2>3
  <2>4. CASE i = n /\ j = n
    BY <1>3, <1>21, <2>1, <2>4, AboveNone
  <2>5. CASE i \in 1 .. Len(s) /\ j = n
    <3>1. s[i].path \in Seq(Nat) /\ v[i].path = s[i].path /\ v[j].path = c
      BY <1>1, <1>10, <1>21, <2>5
    <3>2. IsOver(s[i].path, c) <=> r # 0 /\ (s[i].path = s[r].path \/ IsOver(s[i].path, s[r].path))
      BY <1>11, <1>12, <3>1
    <3>3. r # 0 => (s[i].path = s[r].path <=> i = r)
      BY <1>0, <1>9, <2>5 DEF Tree
    <3> QED BY <2>1, <2>5, <3>1, <3>2, <3>3
  <2> QED BY <1>1, <2>2, <2>3, <2>4, <2>5
<1>23. Tree(v)
  <2>1. ASSUME NEW i \in 1 .. Len(v), NEW j \in 1 .. Len(v), i # j PROVE v[i].path # v[j].path
    <3>1. CASE i \in 1 .. Len(s) /\ j \in 1 .. Len(s)
      BY <1>0, <1>1, <2>1, <3>1 DEF Tree
    <3>2. CASE i = n \/ j = n
      BY <1>1, <1>10, <1>21, <2>1, <3>2
    <3> QED BY <1>1, <3>1, <3>2
  <2>2. ASSUME NEW i \in 1 .. Len(v), NEW j \in 1 .. Len(v), IsOver(v[i].path, v[j].path) PROVE i < j
    BY <1>0, <1>1, <1>22, <2>2 DEF Tree
  <2>3. ASSUME NEW j \in 1 .. Len(v), v[j].path # << >> PROVE \E i \in 1 .. Len(v) : v[i].path = Front(v[j].path)
    <3>1. CASE j \in 1 .. Len(s)
      <4>1. \E i \in 1 .. Len(s) : s[i].path = Front(s[j].path)
        BY <1>0, <1>1, <2>3, <3>1 DEF Tree
      <4> QED BY <1>1, <3>1, <4>1
    <3>2. CASE j = n
      <4>1. r # 0
        BY <1>9, <1>21, <2>3, <3>2
      <4>2. r \in 1 .. Len(s) /\ Front(c) = s[r].path
        BY <1>9, <4>1
      <4> QED BY <1>1, <1>21, <3>2, <4>2
    <3> QED BY <1>1, <2>3, <3>1, <3>2
  <2> QED BY <2>1, <2>2, <2>3 DEF Tree
<1>24. Stack(u, v)
  <2>1. Opens(u) \subseteq 1 .. Len(v)
    BY <1>1, <1>7, <1>8
  <2>2. ASSUME NEW i \in 1 .. Len(v), NEW j \in Opens(u), IsOver(v[i].path, v[j].path) PROVE i \in Opens(u)
    <3>1. n \notin 1 .. Len(s)
      BY <1>1 DEF n
    <3>2. CASE j \in Opens(t)
      <4>1. i \in 1 .. Len(s) /\ IsOver(s[i].path, s[j].path)
        BY <1>1, <1>8, <1>22, <2>2, <3>1, <3>2
      <4> QED BY <1>0, <1>7, <3>2, <4>1 DEF Stack
    <3>3. CASE j = n
      <4>1. r # 0 /\ i \in 1 .. Len(s) /\ (i = r \/ IsOver(s[i].path, s[r].path))
        BY <1>1, <1>22, <2>2, <3>1, <3>3
      <4>2. r \in Opens(t)
        BY <1>9, <4>1
      <4>3. i \in Opens(t)
        BY <1>0, <4>1, <4>2 DEF Stack
      <4> QED BY <1>7, <4>3
    <3> QED BY <1>7, <2>2, <3>2, <3>3
  <2>3. ASSUME NEW i \in Opens(u), NEW j \in 1 .. Len(v), i < j PROVE IsOver(v[i].path, v[j].path)
    <3>1. i \in Opens(t)
      <4>1. ~ (n < j)
        BY <1>1, <2>3 DEF n
      <4> QED BY <1>7, <2>3, <4>1
    <3>2. i \in 1 .. Len(s)
      BY <1>8, <3>1
    <3>3. CASE j \in 1 .. Len(s)
      <4>1. IsOver(s[i].path, s[j].path)
        BY <1>0, <2>3, <3>1, <3>3 DEF Stack
      <4> QED BY <1>1, <3>2, <3>3, <4>1
    <3>4. CASE j = n
      <4>1. r # 0 /\ r \in 1 .. Len(s)
        BY <1>9, <3>1
      <4>2. i = r \/ i < r
        BY <1>8, <3>1, <4>1
      <4>3. i < r => IsOver(s[i].path, s[r].path)
        BY <1>0, <3>1, <4>1 DEF Stack
      <4> QED BY <1>1, <1>22, <3>2, <3>4, <4>1, <4>2, <4>3
    <3> QED BY <1>1, <2>3, <3>3, <3>4
  <2>4. ASSUME NEW j \in Opens(u)
        PROVE  IF v[j].parentseq = 0 THEN \A i \in Opens(u) : ~ (i < j)
               ELSE /\ v[j].parentseq \in Opens(u) /\ v[j].parentseq < j
                    /\ \A i \in Opens(u) : i < j => i <= v[j].parentseq
    <3>1. CASE j \in Opens(t)
      <4>1. j \in 1 .. Len(s) /\ v[j].parentseq = s[j].parentseq
        BY <1>1, <1>8, <3>1
      <4>2. ~ (n < j)
        BY <1>1, <4>1 DEF n
      <4>3. IF s[j].parentseq = 0 THEN \A i \in Opens(t) : ~ (i < j)
            ELSE s[j].parentseq \in Opens(t) /\ s[j].parentseq < j /\ \A i \in Opens(t) : i < j => i <= s[j].parentseq
        BY <1>0, <3>1 DEF Stack
      <4> QED BY <1>7, <4>1, <4>2, <4>3
    <3>2. CASE j = n
      <4>1. ~ (n < n)
        BY <1>1 DEF n
      <4>2. r = 0 => \A i \in Opens(u) : ~ (i < j)
        BY <1>7, <1>9, <3>2, <4>1
      <4>3. r # 0 => r \in Opens(u) /\ r < j /\ \A i \in Opens(u) : i < j => i <= r
        BY <1>7, <1>8, <1>9, <3>2, <4>1
      <4> QED BY <1>21, <3>2, <4>2, <4>3
    <3> QED BY <1>7, <2>4, <3>1, <3>2
  <2> QED BY <2>1, <2>2, <2>3, <2>4 DEF Stack
<1>25. SumInv(u, v)
  <2>1. r # 0 => r \in Opens(t)
    BY <1>9
  <2>2. \A i, j \in 1 .. n : IsOver(v[i].path, v[j].path)
          <=> \/ i \in 1 .. Len(s) /\ j \in 1 .. Len(s) /\ IsOver(s[i].path, s[j].path)
              \/ i \in 1 .. Len(s) /\ j = n /\ r # 0 /\ (i = r \/ IsOver(s[i].path, s[r].path))
    BY <1>22
  <2>3. n = Len(s) + 1
    BY DEF n
  <2>4. Grows(t, s, x, u, v, n, r)
    BY <1>7, <2>1, <2>2, <2>3 DEF Grows
  <2> QED BY ONLY <1>0, <2>4, SumEnters
<1> QED BY <1>13, <1>14, <1>15, <1>20, <1>23, <1>24, <1>25 DEF Walk

\* The last open member q is finished; it returns to r, unless it is the root.
Shrinks(t, s, u, v, q, r) ==
  /\ q \in Opens(t) /\ q \in 1 .. Len(s) /\ Opens(u) = Opens(t) \ {q} /\ \A o \in Opens(t) : o <= q
  /\ IF r = 0 THEN Opens(u) = {} ELSE r \in Opens(u) /\ r < q /\ \A o \in Opens(u) : o <= r
  /\ Len(v) = Len(s)
  /\ \A i \in 1 .. Len(s) :
       /\ v[i].path = s[i].path /\ v[i].parentseq = s[i].parentseq /\ v[i].proclist = s[i].proclist
       /\ v[i].procsbelow = IF r # 0 /\ i = r THEN s[r].procsbelow + s[q].procsbelow + Cardinality(s[q].proclist)
                            ELSE s[i].procsbelow

LEMMA SumReturns ==
  ASSUME NEW t, NEW s, WalkTypes(t, s), Tree(s), Stack(t, s), SumInv(t, s),
         NEW u, NEW v, NEW q, NEW r, Shrinks(t, s, u, v, q, r)
  PROVE  SumInv(u, v)
<1>1. /\ q \in Opens(t) /\ q \in 1 .. Len(s) /\ Opens(u) = Opens(t) \ {q} /\ (\A o \in Opens(t) : o <= q)
      /\ IF r = 0 THEN Opens(u) = {} ELSE r \in Opens(u) /\ r < q /\ \A o \in Opens(u) : o <= r
      /\ Len(v) = Len(s)
      /\ \A i \in 1 .. Len(s) :
           /\ v[i].path = s[i].path /\ v[i].proclist = s[i].proclist
           /\ v[i].procsbelow = IF r # 0 /\ i = r THEN s[r].procsbelow + s[q].procsbelow + Cardinality(s[q].proclist)
                                ELSE s[i].procsbelow
  BY DEF Shrinks
<1>2. Len(s) \in Nat /\ IsFiniteSet(1 .. Len(s)) /\ \A j \in 1 .. Len(s) : Counts(s)[j] \in Nat
  BY CountsAreNat
<1>3. Opens(t) \subseteq 1 .. Len(s)
  BY DEF Stack
<1>4. Counts(v) = Counts(s)
  BY <1>1 DEF Counts
<1>5. \A i \in 1 .. Len(s) : BelowOf(v, i) = BelowOf(s, i)
  BY <1>1 DEF BelowOf
<1>6. \A i \in 1 .. Len(s) :
        s[i].procsbelow = Total(Counts(s), IF i \in Opens(t) THEN Returned(t, s, i) ELSE BelowOf(s, i))
  BY DEF SumInv
<1>7. Returned(t, s, q) = {j \in 1 .. Len(s) : j > q}
  <2>1. \A o \in Opens(t) : ~ (o > q)
    <3>1. \A o \in Opens(t) : o \in Nat /\ o <= q
      BY <1>1, <1>3
    <3> QED BY <1>1, <3>1
  <2> QED BY <2>1 DEF Returned
<1> SUFFICES ASSUME NEW i \in 1 .. Len(s)
             PROVE  v[i].procsbelow
                    = Total(Counts(s), IF i \in Opens(u) THEN Returned(u, v, i) ELSE BelowOf(s, i))
  BY <1>1, <1>4, <1>5 DEF SumInv
<1>8. \A X \in SUBSET (1 .. Len(s)) : IsFiniteSet(X) /\ \A j \in X : Counts(s)[j] \in Nat
  BY <1>2, FS_Subset
<1>9. CASE i \notin Opens(t)
  <2>1. i \notin Opens(u) /\ ~ (r # 0 /\ i = r)
    BY <1>1, <1>9
  <2> QED BY <1>1, <1>6, <1>9, <2>1
<1>10. CASE i = q
  <2>1. BelowOf(s, q) = {j \in 1 .. Len(s) : j > q}
    <3>1. \A j \in 1 .. Len(s) : IsOver(s[q].path, s[j].path) => q < j
      BY <1>1 DEF Tree
    <3>2. \A j \in 1 .. Len(s) : q < j => IsOver(s[q].path, s[j].path)
      BY <1>1 DEF Stack
    <3>3. \A j \in 1 .. Len(s) : j > q <=> q < j
      BY <1>1
    <3> QED BY <3>1, <3>2, <3>3 DEF BelowOf
  <2>2. q \notin Opens(u) /\ ~ (r # 0 /\ q = r)
    BY <1>1
  <2> QED BY <1>1, <1>6, <1>7, <1>10, <2>1, <2>2
<1>11. CASE i \in Opens(u) /\ i # r
  <2>1. r # 0 /\ r \in Opens(u) /\ r < q /\ i <= r /\ i < r /\ r \in Nat /\ q \in Nat
    <3>1. r # 0 /\ r \in Opens(u) /\ r < q /\ i <= r
      BY <1>1, <1>11
    <3> QED BY <1>1, <1>3, <1>11, <3>1
  <2>2. Returned(u, v, i) = Returned(t, s, i)
    <3>1. ASSUME NEW j \in 1 .. Len(s), \A o \in Opens(u) : o > i => j < o PROVE j < q
      <4>1. j < r
        BY <2>1, <3>1
      <4> QED BY <2>1, <4>1
    <3>2. \A j \in 1 .. Len(s) : (\A o \in Opens(u) : o > i => j < o) <=> (\A o \in Opens(t) : o > i => j < o)
      BY <1>1, <3>1
    <3> QED BY <1>1, <3>2 DEF Returned
  <2>3. i \in Opens(t)
    BY <1>1, <1>11
  <2> QED BY <1>1, <1>6, <1>11, <2>2, <2>3
<1>12. CASE i \in Opens(u) /\ i = r
  <2> DEFINE A == Returned(t, s, r)
             B == Returned(t, s, q)
             f == Counts(s)
  <2>1. r # 0 /\ r \in Opens(u) /\ r \in Opens(t) /\ r < q /\ (\A o \in Opens(u) : o <= r) /\ r \in Nat /\ q \in Nat
    <3>1. r # 0 /\ r \in Opens(u) /\ r < q /\ (\A o \in Opens(u) : o <= r)
      BY <1>1, <1>12
    <3> QED BY <1>1, <1>3, <3>1
  <2>2. Returned(u, v, r) = {j \in 1 .. Len(s) : j > r}
    <3>1. \A o \in Opens(u) : ~ (o > r)
      <4>1. \A o \in Opens(u) : o \in Nat /\ o <= r
        BY <1>1, <1>3, <2>1
      <4> QED BY <2>1, <4>1
    <3> QED BY <1>1, <3>1 DEF Returned
  <2>3. A = {j \in 1 .. Len(s) : j > r /\ j < q}
    <3>1. \A o \in Opens(t) : o > r => o = q
      <4>1. \A o \in Opens(t) : o \in Nat /\ (o = q \/ o <= r)
        BY <1>1, <1>3, <2>1
      <4> QED BY <2>1, <4>1
    <3>2. q \in Opens(t) /\ q > r
      BY <1>1, <2>1
    <3>3. \A j \in 1 .. Len(s) : (\A o \in Opens(t) : o > r => j < o) <=> j < q
      BY <3>1, <3>2
    <3> QED BY <3>3 DEF Returned
  <2> HIDE DEF A, B, f
  <2>4. B = {j \in 1 .. Len(s) : j > q}
    BY <1>7 DEF B
  <2>5. {j \in 1 .. Len(s) : j > r} = A \cup (B \cup {q}) /\ A \cap (B \cup {q}) = {} /\ q \notin B
        /\ B \cup {q} \subseteq 1 .. Len(s) /\ A \subseteq 1 .. Len(s) /\ B \subseteq 1 .. Len(s)
        /\ (B \cup {q}) \ {q} = B
    BY <1>1, <1>2, <2>1, <2>3, <2>4
  <2>6. \A X \in SUBSET (1 .. Len(s)) : IsFiniteSet(X) /\ \A j \in X : f[j] \in Nat
    BY <1>8 DEF f
  <2>7. Total(f, A \cup (B \cup {q})) = Total(f, A) + Total(f, B \cup {q})
    <3> DEFINE C == B \cup {q}
    <3>1. IsFiniteSet(A) /\ IsFiniteSet(C) /\ A \cap C = {} /\ \A j \in A \cup C : f[j] \in Nat
      BY <2>5, <2>6
    <3> HIDE DEF C
    <3>2. Total(f, A \cup C) = Total(f, A) + Total(f, C)
      BY <3>1, TotalJoins
    <3> QED BY <3>2 DEF C
  <2>8. Total(f, B \cup {q}) = f[q] + Total(f, B)
    <3> DEFINE C == B \cup {q}
    <3>1. IsFiniteSet(C) /\ (\A j \in C : f[j] \in Nat) /\ q \in C
      BY <2>5, <2>6
    <3>2. C \ {q} = B
      BY <2>5
    <3> HIDE DEF C
    <3>3. Total(f, C) = f[q] + Total(f, C \ {q})
      BY <3>1, TotalTakes
    <3> QED BY <3>2, <3>3 DEF C
  <2>9. f[q] = Cardinality(s[q].proclist) /\ f[q] \in Nat
    BY <1>1, <1>2 DEF Counts, f
  <2>10. s[r].procsbelow = Total(f, A) /\ s[q].procsbelow = Total(f, B)
    BY <1>1, <1>3, <1>6, <2>1 DEF A, B, f
  <2>11. Total(f, A) \in Nat /\ Total(f, B) \in Nat
    BY <2>5, <2>6, TotalIsNat
  <2>12. v[r].procsbelow = s[r].procsbelow + s[q].procsbelow + Cardinality(s[q].proclist)
    BY <1>1, <1>3, <2>1
  <2>13. v[r].procsbelow = Total(f, Returned(u, v, r))
    <3> DEFINE a == Total(f, A)
               b == Total(f, B)
               c == f[q]
               d == v[r].procsbelow
    <3>1. Returned(u, v, r) = A \cup (B \cup {q})
      BY <2>2, <2>5
    <3>2. Total(f, Returned(u, v, r)) = a + (c + b)
      BY <2>7, <2>8, <3>1
    <3>3. d = a + b + c
      BY <2>9, <2>10, <2>12
    <3>4. a \in Nat /\ b \in Nat /\ c \in Nat
      BY <2>9, <2>11
    <3> HIDE DEF a, b, c, d
    <3>5. d = a + (c + b)
      BY <3>3, <3>4
    <3> QED BY <3>2, <3>5 DEF d
  <2> QED BY <1>12, <2>13 DEF f
<1> QED BY <1>1, <1>9, <1>10, <1>11, <1>12

\* v is the chain s with the number n of processes below k.
Changed(s, v, k, n) ==
  /\ AChain(v) /\ Len(v) = Len(s)
  /\ \A i \in 1 .. Len(s) :
       /\ v[i].path = s[i].path /\ v[i].parentseq = s[i].parentseq /\ v[i].proclist = s[i].proclist
       /\ v[i].procsbelow = IF i = k THEN n ELSE s[i].procsbelow
LEMMA ChainReturns ==
  ASSUME NEW s, AChain(s), NEW k, NEW n, NEW v, v = [s EXCEPT ![k].procsbelow = n]
  PROVE  Changed(s, v, k, n)
<1> DEFINE x == [s[k] EXCEPT !.procsbelow = n]
           w == [s EXCEPT ![k] = x]
<1>1. /\ Len(w) = Len(s) /\ Len(s) \in Nat
      /\ \A i \in 1 .. Len(s) : w[i] = IF i = k THEN x ELSE s[i]
  BY ReplaceSequence DEF AChain
<1>2. AChain(w)
  <2>1. AChain([s EXCEPT ![k].procsbelow = n])
    BY ChainCounts
  <2> QED BY <2>1
<1>3. ASSUME k \in 1 .. Len(s)
      PROVE  /\ x.path = s[k].path /\ x.parentseq = s[k].parentseq /\ x.proclist = s[k].proclist
             /\ x.procsbelow = n
  <2>1. Member(s[k])
    BY <1>3 DEF AChain
  <2>2. x = [path |-> s[k].path, parentseq |-> s[k].parentseq, depth |-> s[k].depth,
             hash |-> s[k].hash, proclist |-> s[k].proclist, procsbelow |-> n]
    BY <2>1 DEF Member
  <2> HIDE DEF x
  <2> QED BY <2>2
<1> HIDE DEF x
<1>4. \A i \in 1 .. Len(s) :
        /\ w[i].path = s[i].path /\ w[i].parentseq = s[i].parentseq /\ w[i].proclist = s[i].proclist
        /\ w[i].procsbelow = IF i = k THEN n ELSE s[i].procsbelow
  BY <1>1, <1>3
<1>5. /\ AChain(w) /\ Len(w) = Len(s)
  BY <1>1, <1>2
<1> HIDE DEF w
<1>6. w = v
  BY DEF w, x
<1> QED BY <1>4, <1>5, <1>6 DEF Changed

\* The tree is one of paths.
LEMMA TreeStays ==
  ASSUME NEW s, NEW v, Tree(s), Len(v) = Len(s), \A i \in 1 .. Len(s) : v[i].path = s[i].path
  PROVE  Tree(v)
<1>1. /\ \A i, j \in 1 .. Len(s) : i # j => s[i].path # s[j].path
      /\ \A i, j \in 1 .. Len(s) : IsOver(s[i].path, s[j].path) => i < j
      /\ \A j \in 1 .. Len(s) : s[j].path # << >> => \E i \in 1 .. Len(s) : s[i].path = Front(s[j].path)
  BY DEF Tree
<1>2. \A i, j \in 1 .. Len(v) : i # j => v[i].path # v[j].path
  BY <1>1
<1>3. ASSUME NEW i \in 1 .. Len(v), NEW j \in 1 .. Len(v), IsOver(v[i].path, v[j].path) PROVE i < j
  <2>1. i \in 1 .. Len(s) /\ j \in 1 .. Len(s)
    OBVIOUS
  <2>2. IsOver(s[i].path, s[j].path)
    BY <1>3, <2>1
  <2> QED BY <1>1, <2>1, <2>2
<1>4. ASSUME NEW j \in 1 .. Len(v), v[j].path # << >>
      PROVE  \E i \in 1 .. Len(v) : v[i].path = Front(v[j].path)
  <2>1. j \in 1 .. Len(s) /\ s[j].path = v[j].path
    OBVIOUS
  <2>2. PICK i \in 1 .. Len(s) : s[i].path = Front(s[j].path)
    BY <1>1, <1>4, <2>1
  <2> QED BY <2>1, <2>2
<1>5. \A i, j \in 1 .. Len(v) : IsOver(v[i].path, v[j].path) => i < j
  BY <1>3
<1>6. \A j \in 1 .. Len(v) : v[j].path # << >> => \E i \in 1 .. Len(v) : v[i].path = Front(v[j].path)
  BY <1>4
<1> QED BY <1>2, <1>5, <1>6 DEF Tree

\* Return: the call that is open last returns to that for its parent.
LEMMA WalkReturns ==
  ASSUME NEW t, NEW s, Walk(t, s), t # << >>, t[1].call = "leave",
         NEW u, u = Tail(t), NEW q, q = t[1].parentseq, NEW r, r = s[q].parentseq,
         NEW v, v = IF r = 0 THEN s
                    ELSE [s EXCEPT ![r].procsbelow = s[r].procsbelow + s[q].procsbelow + Cardinality(s[q].proclist)]
  PROVE  Walk(u, v)
<1>0. WalkTypes(t, s) /\ Deeper(t) /\ Entered(t, s) /\ Fresh(t, s) /\ Tree(s) /\ Stack(t, s) /\ SumInv(t, s)
  BY DEF Walk
<1>1. /\ Len(t) \in Nat /\ Len(t) > 0 /\ DOMAIN t = 1 .. Len(t)
      /\ IsSequence(u) /\ Len(u) = Len(t) - 1 /\ DOMAIN u = 1 .. Len(u)
      /\ \A k \in 1 .. Len(u) : u[k] = t[k + 1]
  <2>1. t \in Seq(Range(t))
    BY <1>0 DEF WalkTypes, IsSequence
  <2>2. /\ Len(t) \in Nat /\ Len(t) > 0 /\ DOMAIN t = 1 .. Len(t)
        /\ Tail(t) \in Seq(Range(t)) /\ Len(Tail(t)) = Len(t) - 1 /\ DOMAIN Tail(t) = 1 .. Len(Tail(t))
        /\ \A k \in 1 .. Len(t) - 1 : Tail(t)[k] = t[k + 1]
    BY <2>1
  <2>3. IsSequence(u)
    BY <2>2, SequenceOfRange
  <2> QED BY <2>2, <2>3
<1>2. 1 \in 1 .. Len(t) /\ \A k \in 1 .. Len(u) : k + 1 \in 1 .. Len(t) /\ k + 1 # 1 /\ 1 < k + 1 /\ k \in Nat
  BY <1>1
<1>3. q \in Opens(t) /\ q \in 1 .. Len(s) /\ Opens(t) \subseteq 1 .. Len(s)
  <2>1. q \in Opens(t)
    BY <1>1, <1>2, OpensAre
  <2> QED BY <1>0, <2>1 DEF Stack
<1>4. Len(s) \in Nat
  BY <1>0, CountsAreNat
\* Every other call that is to be made or finished is for a member before it.
<1>5. \A k \in 1 .. Len(u) : u[k].parentseq < q
  BY <1>0, <1>1, <1>2 DEF Deeper
<1>6. Opens(u) = Opens(t) \ {q}
  <2>1. ASSUME NEW o \in Opens(u) PROVE o \in Opens(t) \ {q}
    <3>0. \E k \in DOMAIN u : u[k].call = "leave" /\ u[k].parentseq = o
      BY <2>1, OpensAre
    <3>1. PICK k \in 1 .. Len(u) : u[k].call = "leave" /\ u[k].parentseq = o
      BY <1>1, <3>0
    <3>2. o \in Opens(t)
      BY <1>1, <1>2, <3>1, OpensAre
    <3>3. o < q
      BY <1>5, <3>1
    <3> QED BY <1>3, <3>2, <3>3
  <2>2. ASSUME NEW o \in Opens(t), o # q PROVE o \in Opens(u)
    <3>1. PICK k \in 1 .. Len(t) : t[k].call = "leave" /\ t[k].parentseq = o
      BY <1>1, OpensAre
    <3>2. k # 1
      BY <2>2, <3>1
    <3>3. k - 1 \in 1 .. Len(u) /\ (k - 1) + 1 = k
      BY <1>1, <3>2
    <3>4. u[k - 1] = t[k]
      BY <1>1, <3>3
    <3>5. \E l \in DOMAIN u : u[l].call = "leave" /\ u[l].parentseq = o
      BY <1>1, <3>1, <3>3, <3>4
    <3> QED BY <3>5, OpensAre
  <2> QED BY <2>1, <2>2
<1>7. \A o \in Opens(t) : o <= q /\ o \in Nat
  <2> TAKE o \in Opens(t)
  <2>1. o \in Nat /\ q \in Nat
    BY <1>3, <1>4
  <2>2. CASE o = q
    BY <2>1, <2>2
  <2>3. CASE o # q
    <3>1. PICK k \in 1 .. Len(u) : u[k].call = "leave" /\ u[k].parentseq = o
      BY <1>1, <1>6, <2>3, OpensAre
    <3> QED BY <1>5, <2>1, <3>1
  <2> QED BY <2>2, <2>3
<1>8. IF r = 0 THEN Opens(u) = {} ELSE r \in Opens(u) /\ r < q /\ \A o \in Opens(u) : o <= r
  <2>1. IF r = 0 THEN \A i \in Opens(t) : ~ (i < q)
        ELSE r \in Opens(t) /\ r < q /\ \A i \in Opens(t) : i < q => i <= r
    BY <1>0, <1>3 DEF Stack
  <2>2. \A i \in Opens(u) : i \in Opens(t) /\ i < q
    <3> TAKE i \in Opens(u)
    <3>1. i \in Opens(t) /\ i # q
      BY <1>6
    <3>2. i <= q /\ i \in Nat /\ q \in Nat
      BY <1>3, <1>7, <3>1
    <3> QED BY <3>1, <3>2
  <2>3. CASE r = 0
    BY <2>1, <2>2, <2>3
  <2>4. CASE r # 0
    <3>1. r \in Opens(t) /\ r < q /\ r # q
      BY <1>3, <1>7, <2>1, <2>4
    <3> QED BY <1>6, <2>1, <2>2, <2>4, <3>1
  <2> QED BY <2>3, <2>4
<1>9. /\ AChain(v) /\ Len(v) = Len(s)
      /\ \A i \in 1 .. Len(s) :
           /\ v[i].path = s[i].path /\ v[i].parentseq = s[i].parentseq /\ v[i].proclist = s[i].proclist
           /\ v[i].procsbelow = IF r # 0 /\ i = r THEN s[r].procsbelow + s[q].procsbelow + Cardinality(s[q].proclist)
                                ELSE s[i].procsbelow
  <2>1. AChain(s)
    BY <1>0 DEF WalkTypes
  <2>2. CASE r = 0
    BY <2>1, <2>2
  <2>3. CASE r # 0
    <3> DEFINE n == s[r].procsbelow + s[q].procsbelow + Cardinality(s[q].proclist)
    <3>1. v = [s EXCEPT ![r].procsbelow = n]
      BY <2>3
    <3> HIDE DEF n
    <3>2. Changed(s, v, r, n)
      BY <2>1, <3>1, ChainReturns
    <3> QED BY <2>3, <3>2 DEF Changed, n
  <2> QED BY <2>2, <2>3
<1>10. Shrinks(t, s, u, v, q, r)
  BY <1>3, <1>6, <1>7, <1>8, <1>9 DEF Shrinks
<1>11. SumInv(u, v)
  BY ONLY <1>0, <1>10, SumReturns
<1>12. WalkTypes(u, v)
  <2>1. \A i \in 1 .. Len(s) : /\ s[i].path \in Seq(Nat) /\ s[i].parentseq \in Nat
                               /\ s[i].proclist \subseteq CgPids /\ s[i].procsbelow \in Nat
    BY <1>0 DEF WalkTypes
  <2>2. r # 0 => r \in 1 .. Len(s)
    BY <1>3, <1>6, <1>8
  <2>3. r # 0 => s[r].procsbelow + s[q].procsbelow + Cardinality(s[q].proclist) \in Nat
    <3>1. Cardinality(s[q].proclist) \in Nat
      <4>1. Counts(s)[q] \in Nat
        BY <1>0, <1>3, CountsAreNat
      <4> QED BY <1>3, <4>1 DEF Counts
    <3>2. s[q].procsbelow \in Nat
      BY <1>3, <2>1
    <3>3. r # 0 => s[r].procsbelow \in Nat
      BY <2>1, <2>2
    <3> DEFINE a == s[r].procsbelow
               b == s[q].procsbelow
               c == Cardinality(s[q].proclist)
    <3>4. a \in Nat /\ b \in Nat /\ c \in Nat => a + b + c \in Nat
      <4> HIDE DEF a, b, c
      <4> QED OBVIOUS
    <3> QED BY <3>1, <3>2, <3>3, <3>4
  <2>4. \A i \in 1 .. Len(v) : /\ v[i].path \in Seq(Nat) /\ v[i].parentseq \in Nat
                               /\ v[i].proclist \subseteq CgPids /\ v[i].procsbelow \in Nat
    <3> TAKE i \in 1 .. Len(v)
    <3>1. /\ i \in 1 .. Len(s) /\ s[i].path \in Seq(Nat) /\ s[i].parentseq \in Nat
          /\ s[i].proclist \subseteq CgPids /\ s[i].procsbelow \in Nat
      BY <1>9, <2>1
    <3>2. v[i].path = s[i].path /\ v[i].parentseq = s[i].parentseq /\ v[i].proclist = s[i].proclist
      BY <1>9, <3>1
    <3>3. v[i].procsbelow \in Nat
      <4>1. CASE r # 0 /\ i = r
        <5>1. v[i].procsbelow = s[r].procsbelow + s[q].procsbelow + Cardinality(s[q].proclist)
          BY <1>9, <3>1, <4>1
        <5> QED BY <2>3, <4>1, <5>1
      <4>2. CASE ~ (r # 0 /\ i = r)
        <5>1. v[i].procsbelow = s[i].procsbelow
          BY <1>9, <3>1, <4>2
        <5> QED BY <3>1, <5>1
      <4> QED BY <4>1, <4>2
    <3> QED BY <3>1, <3>2, <3>3
  <2>5. \A k \in 1 .. Len(u) : /\ u[k].call \in {"enter", "leave"} /\ u[k].path \in Seq(Nat)
                               /\ u[k].parentseq \in 0 .. Len(v)
    <3> TAKE k \in 1 .. Len(u)
    <3>1. u[k] = t[k + 1] /\ k + 1 \in 1 .. Len(t) /\ Len(v) = Len(s)
      BY <1>1, <1>2, <1>9
    <3>2. /\ t[k + 1].call \in {"enter", "leave"} /\ t[k + 1].path \in Seq(Nat)
          /\ t[k + 1].parentseq \in 0 .. Len(s)
      BY <1>0, <3>1 DEF WalkTypes
    <3> QED BY <3>1, <3>2
  <2> QED BY <1>1, <1>9, <2>4, <2>5 DEF WalkTypes
<1>13. Deeper(u)
  <2> SUFFICES ASSUME NEW k \in 1 .. Len(u), NEW l \in 1 .. Len(u), k < l
               PROVE  /\ u[l].parentseq <= u[k].parentseq
                      /\ u[k].call = "leave" => u[l].parentseq < u[k].parentseq
    BY DEF Deeper
  <2>1. k + 1 < l + 1
    OBVIOUS
  <2> QED BY <1>0, <1>1, <1>2, <2>1 DEF Deeper
\* A call to enter that is left: it was there, for a member that is still open.
<1>14. \A k \in 1 .. Len(u) : u[k].call = "enter" =>
         /\ u[k].parentseq \in Opens(u) /\ u[k].parentseq # 0
         /\ u[k].path # << >> /\ Front(u[k].path) = s[u[k].parentseq].path
  <2> SUFFICES ASSUME NEW k \in 1 .. Len(u), u[k].call = "enter"
               PROVE  /\ u[k].parentseq \in Opens(u) /\ u[k].parentseq # 0
                      /\ u[k].path # << >> /\ Front(u[k].path) = s[u[k].parentseq].path
    OBVIOUS
  <2>1. u[k] = t[k + 1] /\ k + 1 \in 1 .. Len(t)
    BY <1>1, <1>2
  <2>2. IF u[k].parentseq = 0 THEN u[k].path = << >> /\ Len(s) = 0
        ELSE /\ u[k].parentseq \in Opens(t) /\ u[k].path # << >>
             /\ Front(u[k].path) = s[u[k].parentseq].path
    BY <1>0, <2>1 DEF Entered
  <2>3. Len(s) # 0
    BY <1>3, <1>4
  <2>4. u[k].parentseq # q
    <3>1. u[k].parentseq < q /\ q \in Nat
      BY <1>3, <1>5
    <3> QED BY <3>1
  <2> QED BY <1>6, <2>2, <2>3, <2>4
<1>15. Entered(u, v)
  <2> SUFFICES ASSUME NEW k \in 1 .. Len(u), u[k].call = "enter"
               PROVE  IF u[k].parentseq = 0 THEN u[k].path = << >> /\ Len(v) = 0
                      ELSE /\ u[k].parentseq \in Opens(u) /\ u[k].path # << >>
                           /\ Front(u[k].path) = v[u[k].parentseq].path
    BY DEF Entered
  <2>1. u[k].parentseq \in 1 .. Len(s)
    BY <1>3, <1>6, <1>14
  <2> QED BY <1>9, <1>14, <2>1
<1>16. Fresh(u, v)
  <2>1. ASSUME NEW k \in 1 .. Len(u), NEW l \in 1 .. Len(u), k # l, u[k].call = "enter", u[l].call = "enter"
        PROVE  u[k].path # u[l].path
    <3>1. k + 1 # l + 1
      BY <2>1
    <3> QED BY <1>0, <1>1, <1>2, <2>1, <3>1 DEF Fresh
  <2>2. ASSUME NEW k \in 1 .. Len(u), NEW j \in 1 .. Len(v), u[k].call = "enter"
        PROVE  u[k].path # v[j].path /\ ~ IsOver(u[k].path, v[j].path)
    <3>1. u[k] = t[k + 1] /\ k + 1 \in 1 .. Len(t) /\ j \in 1 .. Len(s) /\ v[j].path = s[j].path
      BY <1>1, <1>2, <1>9
    <3>2. t[k + 1].path # s[j].path /\ ~ IsOver(t[k + 1].path, s[j].path)
      BY <1>0, <2>2, <3>1 DEF Fresh
    <3> QED BY <3>1, <3>2
  <2>3. \A k, l \in 1 .. Len(u) : k # l /\ u[k].call = "enter" /\ u[l].call = "enter" => u[k].path # u[l].path
    BY <2>1
  <2>4. \A k \in 1 .. Len(u), j \in 1 .. Len(v) : u[k].call = "enter" =>
          u[k].path # v[j].path /\ ~ IsOver(u[k].path, v[j].path)
    BY <2>2
  <2> QED BY ONLY <2>3, <2>4 DEF Fresh
<1>17. Tree(v)
  <2>1. Len(v) = Len(s) /\ \A i \in 1 .. Len(s) : v[i].path = s[i].path
    BY <1>9
  <2> QED BY ONLY <1>0, <2>1, TreeStays
<1>18. Stack(u, v)
  <2>1. Opens(u) \subseteq 1 .. Len(v)
    BY <1>3, <1>6, <1>9
  <2>2. ASSUME NEW i \in 1 .. Len(v), NEW j \in Opens(u), IsOver(v[i].path, v[j].path) PROVE i \in Opens(u)
    <3>1. j \in Opens(t) /\ j \in 1 .. Len(s) /\ i \in 1 .. Len(s) /\ j # q
      BY <1>3, <1>6, <1>9
    <3>2. IsOver(s[i].path, s[j].path)
      BY <1>9, <2>2, <3>1
    <3>3. i \in Opens(t) /\ i < j
      BY <1>0, <3>1, <3>2 DEF Stack, Tree
    <3>4. i # q
      BY <1>3, <1>7, <3>1, <3>3
    <3> QED BY <1>6, <3>3, <3>4
  <2>3. ASSUME NEW i \in Opens(u), NEW j \in 1 .. Len(v), i < j PROVE IsOver(v[i].path, v[j].path)
    <3>1. i \in Opens(t) /\ i \in 1 .. Len(s) /\ j \in 1 .. Len(s)
      BY <1>3, <1>6, <1>9
    <3>2. IsOver(s[i].path, s[j].path)
      BY <1>0, <2>3, <3>1 DEF Stack
    <3> QED BY <1>9, <3>1, <3>2
  <2>4. ASSUME NEW j \in Opens(u)
        PROVE  IF v[j].parentseq = 0 THEN \A i \in Opens(u) : ~ (i < j)
               ELSE /\ v[j].parentseq \in Opens(u) /\ v[j].parentseq < j
                    /\ \A i \in Opens(u) : i < j => i <= v[j].parentseq
    <3>1. j \in Opens(t) /\ j \in 1 .. Len(s) /\ v[j].parentseq = s[j].parentseq
      BY <1>3, <1>6, <1>9
    <3>2. IF s[j].parentseq = 0 THEN \A i \in Opens(t) : ~ (i < j)
          ELSE s[j].parentseq \in Opens(t) /\ s[j].parentseq < j /\ \A i \in Opens(t) : i < j => i <= s[j].parentseq
      BY <1>0, <3>1 DEF Stack
    <3>3. s[j].parentseq # 0 => s[j].parentseq # q
      <4> SUFFICES ASSUME s[j].parentseq = q, q < j PROVE FALSE
        BY <3>2
      <4>1. j <= q /\ j \in Nat /\ q \in Nat
        BY <1>3, <1>7, <3>1
      <4> QED BY <4>1
    <3> QED BY <1>6, <3>1, <3>2, <3>3
  <2> QED BY <2>1, <2>2, <2>3, <2>4 DEF Stack
<1> QED BY <1>11, <1>12, <1>13, <1>15, <1>16, <1>17, <1>18 DEF Walk

\* A walk begins with a call for the root.
LEMMA WalkEmpty == Walk(<< >>, << >>)
<1>1. IsSequence(<< >>) /\ Len(<< >>) = 0 /\ DOMAIN << >> = {}
  <2>1. IsSequence(<< >>)
    BY EmptyChain DEF AChain
  <2> QED BY <2>1
<1>2. 1 .. Len(<< >>) = {}
  BY <1>1
<1>3. Opens(<< >>) = {}
  BY <1>1 DEF Opens
<1>4. WalkTypes(<< >>, << >>)
  BY <1>1, <1>2, EmptyChain DEF WalkTypes
<1>5. Deeper(<< >>) /\ Entered(<< >>, << >>) /\ Fresh(<< >>, << >>) /\ Tree(<< >>) /\ SumInv(<< >>, << >>)
  BY <1>2 DEF Deeper, Entered, Fresh, Tree, SumInv
<1>6. Stack(<< >>, << >>)
  BY <1>2, <1>3 DEF Stack
<1> QED BY <1>4, <1>5, <1>6 DEF Walk

LEMMA WalkBegins ==
  ASSUME NEW t, t = << [call |-> "enter", path |-> << >>, parentseq |-> 0] >>
  PROVE  Walk(t, << >>)
<1>1. Len(<< >>) = 0 /\ 1 .. Len(<< >>) = {} /\ 0 .. Len(<< >>) = {0} /\ << >> \in Seq(Nat)
  OBVIOUS
<1>2. /\ Len(t) = 1 /\ DOMAIN t = {1} /\ 1 .. Len(t) = {1} /\ t[1].call = "enter"
      /\ t[1].path = << >> /\ t[1].parentseq = 0
  OBVIOUS
<1>3. IsSequence(t)
  <2>1. t \in Seq({[call |-> "enter", path |-> << >>, parentseq |-> 0]})
    OBVIOUS
  <2> QED BY <2>1, SequenceOfRange
<1>4. Opens(t) = {}
  <2> SUFFICES ASSUME NEW o \in Opens(t) PROVE FALSE
    OBVIOUS
  <2>1. PICK k \in DOMAIN t : t[k].call = "leave"
    BY OpensAre
  <2>2. k = 1
    BY <1>2
  <2> QED BY <1>2, <2>1, <2>2
<1>5. WalkTypes(t, << >>)
  BY <1>1, <1>2, <1>3, EmptyChain DEF WalkTypes
<1>6. Deeper(t) /\ Entered(t, << >>) /\ Fresh(t, << >>) /\ Tree(<< >>) /\ SumInv(t, << >>)
  BY <1>1, <1>2 DEF Deeper, Entered, Fresh, Tree, SumInv
<1>7. Stack(t, << >>)
  BY <1>1, <1>4 DEF Stack
<1> QED BY <1>5, <1>6, <1>7 DEF Walk

LEMMA FunctionIsSequence ==
  ASSUME NEW m \in Nat, NEW a, DOMAIN a = 1 .. m, a = [i \in 1 .. m |-> a[i]]
  PROVE  IsSequence(a) /\ Len(a) = m
<1>1. \A i \in 1 .. m : a[i] \in Range(a)
  BY DEF Range
<1>2. [i \in 1 .. m |-> a[i]] \in Seq(Range(a)) /\ Len([i \in 1 .. m |-> a[i]]) = m
  BY <1>1
<1> QED BY <1>2 DEF IsSequence

\* The inductive invariant: a walk in which no directory has gone.
WalkInv ==
  /\ IsFiniteSet(dirs) /\ dirs \subseteq Seq(Nat)
  /\ lost = {} => Walk(todo, cgcur)

LEMMA PathsAreSequences == ASSUME NEW p \in Paths PROVE p \in Seq(Nat)
<1>1. PICK n \in 0 .. MaxLevels : p \in [1 .. n -> Letters]
  BY DEF Paths
<1>2. n \in Nat /\ p = [i \in 1 .. n |-> p[i]] /\ \A i \in 1 .. n : p[i] \in Nat
  <2>1. n \in Nat
    BY CgroupsAssumption
  <2>2. p = [i \in 1 .. n |-> p[i]] /\ \A i \in 1 .. n : p[i] \in Letters
    BY <1>1
  <2>3. Letters \subseteq Nat
    BY CgroupsAssumption
  <2> QED BY <2>1, <2>2, <2>3
<1>3. [i \in 1 .. n |-> p[i]] \in Seq(Nat)
  BY <1>2
<1> QED BY <1>2, <1>3

\* walkcgroup() for a directory that is there.
LEMMA WalkStep ==
  ASSUME WalkInv, walkcgroup, lost = {}
  PROVE  Walk(todo', cgcur')
<1> DEFINE c == Head(todo)
           n == Len(cgcur) + 1
           D == SubDirs(c.path)
           m == Cardinality(D)
<1>1. Walk(todo, cgcur)
  BY DEF WalkInv
<1>2. /\ todo # << >> /\ c = todo[1] /\ c.call = "enter" /\ IsSequence(todo) /\ Len(todo) \in Nat \ {0}
      /\ c.path \in Seq(Nat)
  <2>1. todo # << >> /\ c.call = "enter"
    BY DEF walkcgroup, Enter
  <2>2. WalkTypes(todo, cgcur)
    BY <1>1 DEF Walk
  <2>3. todo \in Seq(Range(todo))
    BY <2>2 DEF WalkTypes, IsSequence
  <2>4. c = todo[1] /\ Len(todo) \in Nat \ {0} /\ 1 \in 1 .. Len(todo)
    BY <2>1, <2>3
  <2> QED BY <2>1, <2>2, <2>4 DEF WalkTypes
<1>3. PICK x : x = [path |-> c.path, parentseq |-> c.parentseq,
           depth |-> Len(c.path), hash |-> hashcalc(c.path),
           proclist |-> {pid \in CgPids : where[pid] = c.path}, procsbelow |-> 0]
  OBVIOUS
<1>4. cgcur' = Append(cgcur, x)
  BY <1>3 DEF walkcgroup
<1>5. /\ Member(x) /\ x.path = c.path /\ x.parentseq = c.parentseq
      /\ x.proclist \subseteq CgPids /\ x.procsbelow = 0
  BY <1>3 DEF Member
<1>6. PICK sub \in SetToSeqs(D) :
        todo' = [i \in DOMAIN sub |-> [call |-> "enter", path |-> sub[i], parentseq |-> n]]
                \o <<[call |-> "leave", path |-> c.path, parentseq |-> n]>> \o Tail(todo)
  BY DEF walkcgroup
<1>7. m \in Nat /\ D \subseteq dirs /\ \A d \in D : d \in Seq(Nat) /\ d # << >> /\ Front(d) = c.path
  <2>1. D \subseteq dirs /\ \A d \in D : d # << >> /\ Front(d) = c.path
    BY DEF SubDirs, Up
  <2>2. IsFiniteSet(D) /\ dirs \subseteq Seq(Nat)
    BY <2>1, FS_Subset DEF WalkInv
  <2>3. m \in Nat
    BY <2>2, FS_CardinalityType
  <2> QED BY <2>1, <2>2, <2>3
<1> HIDE DEF D
<1>8. DOMAIN sub = 1 .. m /\ (\A i \in 1 .. m : sub[i] \in D) /\ \A i, j \in 1 .. m : i # j => sub[i] # sub[j]
  BY <1>6 DEF SetToSeqs
<1> HIDE DEF c, n, m
<1> DEFINE a == [i \in 1 .. m |-> [call |-> "enter", path |-> sub[i], parentseq |-> n]]
           y == [call |-> "leave", path |-> c.path, parentseq |-> n]
<1>9. todo' = a \o <<y>> \o Tail(todo)
  BY <1>6, <1>8
<1>10. /\ IsSequence(a) /\ Len(a) = m
       /\ \A i \in 1 .. m : a[i].call = "enter" /\ a[i].path = sub[i] /\ a[i].parentseq = n
  <2>1. DOMAIN a = 1 .. m /\ a = [i \in 1 .. m |-> a[i]]
    OBVIOUS
  <2>2. \A i \in 1 .. m : a[i].call = "enter" /\ a[i].path = sub[i] /\ a[i].parentseq = n
    OBVIOUS
  <2> HIDE DEF a
  <2> QED BY <1>7, <2>1, <2>2, FunctionIsSequence
<1>11. y.call = "leave" /\ y.path = c.path /\ y.parentseq = n
  OBVIOUS
<1> HIDE DEF a, y
<1>12. PICK u : u = todo'
  OBVIOUS
<1>13. /\ IsSequence(u) /\ Len(u) = m + Len(todo)
       /\ \A k \in 1 .. m : u[k] = a[k]
       /\ u[m + 1] = y
       /\ \A k \in 2 .. Len(todo) : u[m + k] = todo[k]
  <2>1. InFront(todo, a, y, u)
    BY <1>2, <1>9, <1>10, <1>12, TodoGrows
  <2> QED BY <1>10, <2>1 DEF InFront
<1>14. \A k \in 1 .. m : u[k].call = "enter" /\ u[k].path = sub[k] /\ u[k].parentseq = Len(cgcur) + 1
  BY <1>10, <1>13 DEF n
<1>15. u[m + 1].call = "leave" /\ u[m + 1].path = todo[1].path /\ u[m + 1].parentseq = Len(cgcur) + 1
  BY <1>2, <1>11, <1>13 DEF n
<1>16. \A i \in 1 .. m : sub[i] \in Seq(Nat) /\ sub[i] # << >> /\ Front(sub[i]) = todo[1].path
  BY <1>2, <1>7, <1>8
<1>17. x.path = todo[1].path /\ x.parentseq = todo[1].parentseq /\ todo[1].call = "enter"
  BY <1>2, <1>5
<1>18. ASSUME NEW v, v = Append(cgcur, x) PROVE Walk(u, v)
  <2>1. Visits(todo, cgcur, m, sub, x, u, v)
    BY <1>2, <1>5, <1>7, <1>8, <1>13, <1>14, <1>15, <1>16, <1>17, <1>18 DEF Visits
  <2> QED BY <1>1, <2>1, WalkEnters
<1> QED BY <1>4, <1>12, <1>18

\* The end of walkcgroup().
LEMMA ReturnStep ==
  ASSUME WalkInv, Return, lost = {}
  PROVE  Walk(todo', cgcur')
<1> DEFINE q == Head(todo).parentseq
           r == cgcur[q].parentseq
<1>1. Walk(todo, cgcur)
  BY DEF WalkInv
<1>2. /\ todo # << >> /\ Head(todo) = todo[1] /\ todo[1].call = "leave"
      /\ todo' = Tail(todo)
      /\ cgcur' = IF r = 0 THEN cgcur
                  ELSE [cgcur EXCEPT ![r].procsbelow =
                          cgcur[r].procsbelow + cgcur[q].procsbelow + Cardinality(cgcur[q].proclist)]
  <2>1. /\ todo # << >> /\ Head(todo).call = "leave" /\ todo' = Tail(todo)
        /\ cgcur' = IF r = 0 THEN cgcur
                    ELSE [cgcur EXCEPT ![r].procsbelow =
                            cgcur[r].procsbelow + cgcur[q].procsbelow + Cardinality(cgcur[q].proclist)]
    BY DEF Return, Enter
  <2>2. todo \in Seq(Range(todo))
    BY <1>1 DEF Walk, WalkTypes, IsSequence
  <2>3. Head(todo) = todo[1]
    BY <2>1, <2>2
  <2> QED BY <2>1, <2>3
<1>3. q = todo[1].parentseq
  BY <1>2
<1> HIDE DEF q
<1>4. ASSUME NEW u, u = Tail(todo), NEW p, p = r,
             NEW v, v = IF p = 0 THEN cgcur
                        ELSE [cgcur EXCEPT ![p].procsbelow =
                                cgcur[p].procsbelow + cgcur[q].procsbelow + Cardinality(cgcur[q].proclist)]
      PROVE  Walk(u, v)
  BY <1>1, <1>2, <1>3, <1>4, WalkReturns
<1> QED BY <1>2, <1>4

LEMMA WalkNextInv == WalkInv /\ CgNext => WalkInv'
<1> SUFFICES ASSUME WalkInv, CgNext PROVE WalkInv'
  OBVIOUS
<1>1. CASE Mkdir
  <2>1. PICK p \in Paths : dirs' = dirs \union {p}
    BY <1>1 DEF Mkdir
  <2>2. IsFiniteSet(dirs') /\ dirs' \subseteq Seq(Nat)
    BY <2>1, PathsAreSequences, FS_AddElement DEF WalkInv
  <2> QED BY <1>1, <2>2 DEF WalkInv, Mkdir
<1>2. CASE Rmdir
  <2>1. dirs' \subseteq dirs
    BY <1>2 DEF Rmdir
  <2>2. IsFiniteSet(dirs')
    BY <2>1, FS_Subset DEF WalkInv
  <2> QED BY <1>2, <2>1, <2>2 DEF WalkInv, Rmdir
<1>3. CASE Move \/ deviatcgroup
  BY <1>3 DEF WalkInv, Move, deviatcgroup
<1>4. CASE photocgroup
  <2>1. todo' = << [call |-> "enter", path |-> << >>, parentseq |-> 0] >> /\ cgcur' = << >> /\ UNCHANGED dirs
    BY <1>4 DEF photocgroup
  <2>2. Walk(todo', cgcur')
    BY <2>1, WalkBegins
  <2> QED BY <2>1, <2>2 DEF WalkInv
<1>5. CASE Vanished
  BY <1>5 DEF WalkInv, Vanished
<1>6. CASE walkcgroup
  <2>1. UNCHANGED <<dirs, lost>>
    BY <1>6 DEF walkcgroup
  <2> QED BY <1>6, <2>1, WalkStep DEF WalkInv
<1>7. CASE Return
  <2>1. UNCHANGED <<dirs, lost>>
    BY <1>7 DEF Return
  <2> QED BY <1>7, <2>1, ReturnStep DEF WalkInv
<1>8. CASE cgwipecur
  <2>1. todo' = << >> /\ cgcur' = << >> /\ UNCHANGED dirs
    BY <1>8 DEF cgwipecur, Idle
  <2> QED BY <2>1, WalkEmpty DEF WalkInv
<1> QED BY <1>1, <1>2, <1>3, <1>4, <1>5, <1>6, <1>7, <1>8 DEF CgNext

\* What is listed is the sum over the members.
LEMMA ListedIs ==
  ASSUME Walk(todo, cgcur), NEW S, S \subseteq 1 .. Len(cgcur)
  PROVE  Listed(S) = Total(Counts(cgcur), S)
<1> DEFINE g == [j \in S |-> Cardinality(cgcur[j].proclist)]
           f == Counts(cgcur)
<1>1. Listed(S) = SumFunctionOnSet(g, S)
  <2>1. DOMAIN g = S
    OBVIOUS
  <2>2. Listed(S) = SumFunctionOnSet(g, DOMAIN g)
    BY DEF Listed, SumFunction
  <2> HIDE DEF g
  <2> QED BY <2>1, <2>2
<1>2. \A j \in S : g[j] = f[j]
  BY DEF Counts
<1>3. IsFiniteSet(S)
  <2>1. IsFiniteSet(1 .. Len(cgcur))
    BY CountsAreNat DEF Walk
  <2> QED BY <2>1, FS_Subset
<1> HIDE DEF f, g
<1>4. Total(g, S) = Total(f, S)
  BY <1>2, <1>3, TotalAgrees
<1>5. SumFunctionOnSet(g, S) = Total(g, S)
  BY TotalIsSum
<1> QED BY <1>1, <1>4, <1>5 DEF f

\* The number of processes below a cgroup is that of the members below it,
\* whatever is made and moved while walkcgroup() goes on.
THEOREM BelowIsCounted == Spec => []BelowAddsUp
<1>1. Init => WalkInv
  <2> SUFFICES ASSUME Init PROVE WalkInv
    OBVIOUS
  <2>1. todo = << >> /\ cgcur = << >>
    BY DEF Init, CgInit, CgOff
  <2>2. Walk(todo, cgcur)
    BY <2>1, WalkEmpty
  <2>3. dirs \in {{}, {<< >>}, {<< >>, <<1>>, <<2>>}, {<< >>, <<1>>, <<1, 2>>}}
    BY DEF Init, CgInit, CgOff
  <2>4. IsFiniteSet(dirs)
    <3>1. IsFiniteSet({}) /\ IsFiniteSet({<< >>})
      BY FS_EmptySet, FS_Singleton
    <3>2. IsFiniteSet({<< >>, <<1>>, <<2>>}) /\ IsFiniteSet({<< >>, <<1>>, <<1, 2>>})
      <4>1. \A d : IsFiniteSet({<< >>} \cup {d})
        BY <3>1, FS_AddElement
      <4>2. \A d, e : IsFiniteSet(({<< >>} \cup {d}) \cup {e})
        BY <4>1, FS_AddElement
      <4>3. \A d, e : ({<< >>} \cup {d}) \cup {e} = {<< >>, d, e}
        OBVIOUS
      <4>4. \A d, e : IsFiniteSet({<< >>, d, e})
        <5> TAKE d, e
        <5>1. IsFiniteSet(({<< >>} \cup {d}) \cup {e}) /\ ({<< >>} \cup {d}) \cup {e} = {<< >>, d, e}
          BY <4>2, <4>3
        <5> QED BY <5>1
      <4> QED BY <4>4
    <3> QED BY <2>3, <3>1, <3>2
  <2>5. dirs \subseteq Seq(Nat)
    <3>1. << >> \in Seq(Nat) /\ <<1>> \in Seq(Nat) /\ <<2>> \in Seq(Nat) /\ <<1, 2>> \in Seq(Nat)
      OBVIOUS
    <3> QED BY <2>3, <3>1
  <2> QED BY <2>2, <2>4, <2>5 DEF WalkInv
<1>2. WalkInv /\ [Next]_vars => WalkInv'
  <2> SUFFICES ASSUME WalkInv, [Next]_vars PROVE WalkInv'
    OBVIOUS
  <2>1. CASE UNCHANGED cgvars
    <3>1. UNCHANGED <<dirs, todo, cgcur, lost>>
      BY <2>1 DEF cgvars
    <3> QED BY <3>1 DEF WalkInv
  <2>2. CgNext \/ UNCHANGED cgvars
    BY DEF Next, vars
  <2> QED BY <2>1, <2>2, WalkNextInv
<1>3. WalkInv => BelowAddsUp
  <2> SUFFICES ASSUME WalkInv, todo = << >>, lost = {}, NEW i \in DOMAIN cgcur
               PROVE  cgcur[i].procsbelow = Listed(Below(i))
    BY DEF BelowAddsUp, Walked, Idle
  <2>1. Walk(todo, cgcur)
    BY DEF WalkInv
  <2>2. DOMAIN cgcur = 1 .. Len(cgcur)
    <3>1. cgcur \in Seq(Range(cgcur))
      BY <2>1 DEF Walk, WalkTypes, AChain, IsSequence
    <3> QED BY <3>1
  <2>3. Opens(todo) = {}
    BY DEF Opens
  <2>4. cgcur[i].procsbelow = Total(Counts(cgcur), BelowOf(cgcur, i))
    BY <2>1, <2>2, <2>3 DEF Walk, SumInv
  <2>5. Below(i) = BelowOf(cgcur, i)
    BY <2>2 DEF Below, BelowOf, IsOver
  <2>6. Below(i) \subseteq 1 .. Len(cgcur)
    BY <2>2 DEF Below
  <2>7. Listed(Below(i)) = Total(Counts(cgcur), Below(i))
    BY <2>1, <2>6, ListedIs
  <2> QED BY <2>4, <2>5, <2>7
<1> QED BY <1>1, <1>2, <1>3, PTL DEF Spec
-----------------------------------------------------------------------------
(***************************************************************************)
(* Numbers in their order, and functions defined step by step.             *)
(***************************************************************************)
UpToIn(S, i) == {j \in S : j <= i}

LEMMA RanksDiffer ==
  ASSUME NEW S, S \subseteq Nat, IsFiniteSet(S), NEW a \in S, NEW b \in S
  PROVE  /\ IsFiniteSet(UpToIn(S, a)) /\ Cardinality(UpToIn(S, a)) \in 1 .. Cardinality(S)
         /\ a < b => Cardinality(UpToIn(S, a)) < Cardinality(UpToIn(S, b))
<1>1. ASSUME NEW i \in S
      PROVE  /\ IsFiniteSet(UpToIn(S, i)) /\ Cardinality(UpToIn(S, i)) \in Nat
             /\ Cardinality(UpToIn(S, i)) <= Cardinality(S) /\ Cardinality(S) \in Nat
             /\ Cardinality(UpToIn(S, i)) # 0
  <2>1. UpToIn(S, i) \in SUBSET S /\ i \in UpToIn(S, i)
    BY DEF UpToIn
  <2>2. UpToIn(S, i) # {}
    BY <2>1
  <2> QED BY <2>1, <2>2, FS_Subset, FS_CardinalityType, FS_EmptySet
<1>2. ASSUME a < b PROVE Cardinality(UpToIn(S, a)) < Cardinality(UpToIn(S, b))
  <2>1. UpToIn(S, a) \in SUBSET UpToIn(S, b) /\ b \in UpToIn(S, b) /\ b \notin UpToIn(S, a)
    <3>1. a \in Nat /\ b \in Nat /\ \A j \in S : j \in Nat
      OBVIOUS
    <3>2. ~ (b <= a) /\ b <= b /\ \A j \in S : j <= a => j <= b
      BY <1>2, <3>1
    <3> QED BY <3>2, Zenon DEF UpToIn
  <2>2. UpToIn(S, a) # UpToIn(S, b)
    BY <2>1
  <2>3. /\ Cardinality(UpToIn(S, a)) <= Cardinality(UpToIn(S, b))
        /\ Cardinality(UpToIn(S, b)) # Cardinality(UpToIn(S, a))
    BY <1>1, <2>1, <2>2, FS_Subset
  <2> QED BY <1>1, <2>3
<1> QED BY <1>1, <1>2

\* Nth() is the element of this rank.
LEMMA NthIs ==
  ASSUME NEW S, S \subseteq Nat, IsFiniteSet(S), NEW k \in 1 .. Cardinality(S)
  PROVE  Nth(S, k) \in S /\ Cardinality(UpToIn(S, Nth(S, k))) = k
<1> DEFINE Ranked(m) == \E i \in S : Cardinality(UpToIn(S, i)) = m
           n == Cardinality(S)
<1>0. n \in Nat
  BY FS_CardinalityType
<1>1. ASSUME NEW m \in 0 .. n - 1, m = 0 \/ Ranked(m) PROVE Ranked(m + 1)
  <2> DEFINE L == IF m = 0 THEN {} ELSE UpToIn(S, CHOOSE i \in S : Cardinality(UpToIn(S, i)) = m)
             R == S \ L
  <2>1. /\ L \subseteq S /\ IsFiniteSet(L) /\ Cardinality(L) = m
        /\ \A x \in L, y \in S : y <= x => y \in L
    <3>1. CASE m = 0
      BY <3>1, FS_EmptySet
    <3>2. CASE m # 0
      <4>1. PICK i \in S : L = UpToIn(S, i) /\ Cardinality(UpToIn(S, i)) = m
        BY <1>1, <3>2
      <4>2. IsFiniteSet(L)
        BY <4>1, RanksDiffer
      <4> HIDE DEF L
      <4> QED BY <4>1, <4>2 DEF UpToIn
    <3> QED BY <3>1, <3>2
  <2> HIDE DEF L
  <2>2. R # {} /\ R \subseteq Nat
    <3>1. L # S
      BY <1>0, <2>1
    <3> QED BY <2>1, <3>1
  <2>3. PICK x \in R : \A y \in R : x <= y
    BY <2>2, LeastNat
  <2>4. UpToIn(S, x) = L \cup {x}
    <3>1. \A y \in L : y <= x
      BY <2>1, <2>3
    <3>2. \A y \in S : y <= x /\ y \notin L => y = x
      <4> SUFFICES ASSUME NEW y \in S, y <= x, y \notin L PROVE y = x
        OBVIOUS
      <4>1. x <= y /\ x \in Nat /\ y \in Nat
        BY <2>2, <2>3
      <4> QED BY <4>1
    <3>3. x \in S /\ x <= x
      BY <2>2, <2>3
    <3>4. \A y \in S : y <= x <=> y \in L \/ y = x
      BY <3>1, <3>2, <3>3, Zenon
    <3> QED BY <2>1, <3>3, <3>4 DEF UpToIn
  <2>5. Cardinality(L \cup {x}) = m + 1
    BY <2>1, <2>3, FS_AddElement
  <2> QED BY <2>3, <2>4, <2>5
<1> HIDE DEF Ranked
<1>2. Ranked(k)
  <2> SUFFICES ASSUME ~ Ranked(k) PROVE FALSE
    OBVIOUS
  <2> DEFINE Bad == {m \in 1 .. n : ~ Ranked(m)}
  <2>1. Bad # {} /\ Bad \subseteq Nat
    BY <1>0
  <2>2. PICK m \in Bad : \A y \in Bad : m <= y
    BY <2>1, LeastNat
  <2>3. m - 1 \in 0 .. n - 1 /\ (m - 1) + 1 = m /\ (m - 1 = 0 \/ m - 1 \in 1 .. n)
    BY <1>0, <2>2
  <2>4. m - 1 = 0 \/ Ranked(m - 1)
    BY <1>0, <2>2, <2>3
  <2>5. Ranked(m)
    BY <1>1, <2>3, <2>4
  <2> QED BY <2>2, <2>5
<1>3. PICK i \in S : Cardinality({j \in S : j <= i}) = k
  BY <1>2 DEF Ranked, UpToIn
<1> QED BY <1>3 DEF Nth, UpToIn

LEMMA NthGrows ==
  ASSUME NEW S, S \subseteq Nat, IsFiniteSet(S),
         NEW k \in 1 .. Cardinality(S), NEW l \in 1 .. Cardinality(S)
  PROVE  k < l <=> Nth(S, k) < Nth(S, l)
<1> DEFINE a == Nth(S, k)
           b == Nth(S, l)
<1>1. /\ a \in S /\ Cardinality(UpToIn(S, a)) = k
      /\ b \in S /\ Cardinality(UpToIn(S, b)) = l
  BY NthIs
<1> HIDE DEF a, b
<1>2. a \in Nat /\ b \in Nat /\ Cardinality(S) \in Nat
  BY <1>1, FS_CardinalityType
<1>3. (a < b => k < l) /\ (b < a => l < k) /\ (a = b => k = l)
  BY <1>1, RanksDiffer
<1> QED BY <1>2, <1>3 DEF a, b

\* There is no other element than these.
LEMMA NthAll ==
  ASSUME NEW S, S \subseteq Nat, IsFiniteSet(S), NEW i \in S
  PROVE  \E k \in 1 .. Cardinality(S) : Nth(S, k) = i
<1> DEFINE k == Cardinality(UpToIn(S, i))
           a == Nth(S, k)
<1>1. k \in 1 .. Cardinality(S)
  BY RanksDiffer
<1>2. a \in S /\ Cardinality(UpToIn(S, a)) = k
  BY <1>1, NthIs
<1> HIDE DEF a
<1>3. a \in Nat /\ i \in Nat
  BY <1>2
<1>4. ~ (a < i) /\ ~ (i < a)
  <2>1. Cardinality(UpToIn(S, i)) = k /\ k \in Nat
    BY <1>1, FS_CardinalityType
  <2> HIDE DEF k
  <2>2. a < i => k < k
    BY <1>2, <2>1, RanksDiffer
  <2>3. i < a => k < k
    BY <1>2, <2>1, RanksDiffer
  <2> QED BY <2>1, <2>2, <2>3
<1> QED BY <1>1, <1>3, <1>4 DEF a

\* Induction up to n, for a set.
LEMMA Upwards ==
  ASSUME NEW n \in Nat, NEW G, 0 \in G, \A k \in 1 .. n : k - 1 \in G => k \in G
  PROVE  0 .. n \subseteq G
<1> DEFINE Bad == {k \in 0 .. n : k \notin G}
<1> SUFFICES ASSUME Bad # {} PROVE FALSE
  OBVIOUS
<1>1. Bad \subseteq Nat
  OBVIOUS
<1>2. PICK m \in Bad : \A y \in Bad : m <= y
  BY <1>1, LeastNat
<1>3. m # 0 /\ m \in 1 .. n /\ m - 1 \in 0 .. n
  BY <1>2
<1>4. m - 1 \in G
  BY <1>2, <1>3
<1> QED BY <1>2, <1>3, <1>4

\* A function whose values are made of the value before: F makes them.
Stays(F, n, T) == \A k \in 1 .. n, s \in T : F[<<k, s>>] \in T
Iterates(g, F, n, T, e) ==
  g \in [0 .. n -> T] /\ g[0] = e /\ \A k \in 1 .. n : g[k] = F[<<k, g[k - 1]>>]

LEMMA Iterated ==
  ASSUME NEW n \in Nat, NEW T, NEW e \in T, NEW F, Stays(F, n, T)
  PROVE  \E g : Iterates(g, F, n, T, e)
<1>0. \A k \in 1 .. n, s \in T : F[<<k, s>>] \in T
  BY DEF Stays
<1> DEFINE G == {m \in 0 .. n : \E g \in [0 .. m -> T] :
                   g[0] = e /\ \A k \in 1 .. m : g[k] = F[<<k, g[k - 1]>>]}
<1>1. 0 \in G
  <2> DEFINE g == [k \in 0 .. 0 |-> e]
  <2>1. g \in [0 .. 0 -> T] /\ g[0] = e /\ \A k : k \notin 1 .. 0
    OBVIOUS
  <2> HIDE DEF g
  <2> QED BY <2>1
<1>2. ASSUME NEW m \in 1 .. n, m - 1 \in G PROVE m \in G
  <2>1. PICK g \in [0 .. m - 1 -> T] :
           g[0] = e /\ \A k \in 1 .. m - 1 : g[k] = F[<<k, g[k - 1]>>]
    BY <1>2
  <2> DEFINE x == F[<<m, g[m - 1]>>]
             h == [k \in 0 .. m |-> IF k = m THEN x ELSE g[k]]
  <2>2. x \in T
    <3>1. g[m - 1] \in T
      OBVIOUS
    <3> QED BY <1>0, <3>1
  <2>3. x = F[<<m, g[m - 1]>>]
    OBVIOUS
  <2> HIDE DEF x
  <2>4. h \in [0 .. m -> T] /\ \A k \in 0 .. m : h[k] = IF k = m THEN x ELSE g[k]
    BY <2>2
  <2> HIDE DEF h
  <2>5. h[0] = e
    BY <2>1, <2>4
  <2>6. \A k \in 1 .. m : h[k] = F[<<k, h[k - 1]>>]
    <3> TAKE k \in 1 .. m
    <3>1. h[k - 1] = g[k - 1]
      BY <2>4
    <3>2. CASE k = m
      BY <2>3, <2>4, <3>1, <3>2
    <3>3. CASE k # m
      <4>1. k \in 1 .. m - 1 /\ h[k] = g[k]
        BY <2>4, <3>3
      <4> QED BY <2>1, <3>1, <4>1
    <3> QED BY <3>2, <3>3
  <2> QED BY <2>4, <2>5, <2>6
<1> HIDE DEF G
<1>3. 0 .. n \subseteq G
  BY <1>1, <1>2, Upwards
<1>4. n \in G
  BY <1>3
<1> QED BY <1>4 DEF G, Iterates
-----------------------------------------------------------------------------
(***************************************************************************)
(* Devices that come and go: interfaces, disks and mounts.                 *)
(***************************************************************************)
Devices == [name : Int, id : Nat, val : Nat, age : Nat, on : BOOLEAN]
DeviceTables == {"intf", "dsk", "nfs"}

\* The devices of a list have names of their own; an earlier one is older.
Orderly(s) ==
  /\ s \in Seq(Devices)
  /\ \A i \in 1 .. Len(s) : s[i].name \in Nat
  /\ \A i, j \in 1 .. Len(s) : i < j => s[i].id < s[j].id /\ s[i].name # s[j].name

\* A list has some of the devices of another one, in their order.
Sublist(c, s) ==
  /\ c \in Seq(Devices)
  /\ \E m \in [1 .. Len(c) -> 1 .. Len(s)] :
       /\ \A k \in 1 .. Len(c) : c[k] = s[m[k]]
       /\ \A k, l \in 1 .. Len(c) : k < l => m[k] < m[l]

LEMMA SublistOrderly ==
  ASSUME NEW s, Orderly(s), NEW c, Sublist(c, s)
  PROVE  /\ Orderly(c)
         /\ \A k \in 1 .. Len(c) : \E i \in 1 .. Len(s) : c[k] = s[i]
<1>1. PICK m \in [1 .. Len(c) -> 1 .. Len(s)] :
         /\ \A k \in 1 .. Len(c) : c[k] = s[m[k]]
         /\ \A k, l \in 1 .. Len(c) : k < l => m[k] < m[l]
  BY DEF Sublist
<1>2. \A k \in 1 .. Len(c) : m[k] \in 1 .. Len(s)
  OBVIOUS
<1>3. ASSUME NEW k \in 1 .. Len(c), NEW l \in 1 .. Len(c), k < l
      PROVE  c[k].id < c[l].id /\ c[k].name # c[l].name
  <2>1. m[k] < m[l] /\ c[k] = s[m[k]] /\ c[l] = s[m[l]]
    BY <1>1, <1>3
  <2> QED BY <1>2, <2>1 DEF Orderly
<1>4. \A k \in 1 .. Len(c) : c[k].name \in Nat
  BY <1>1, <1>2 DEF Orderly
<1> QED BY <1>1, <1>2, <1>3, <1>4 DEF Orderly, Sublist

LEMMA FirstOfIs ==
  ASSUME kern \in Seq(Devices), NEW S, S \subseteq DOMAIN kern
  PROVE  Sublist(FirstOf(S), kern)
<1> DEFINE n == IF Cardinality(S) < MAXENT - 1 THEN Cardinality(S) ELSE MAXENT - 1
           m == [k \in 1 .. n |-> Nth(S, k)]
           c == FirstOf(S)
<1>1. S \subseteq 1 .. Len(kern) /\ Len(kern) \in Nat /\ S \subseteq Nat
  OBVIOUS
<1>2. IsFiniteSet(S)
  <2>1. IsFiniteSet(1 .. Len(kern))
    BY <1>1, FS_Interval
  <2> QED BY <1>1, <2>1, FS_Subset
<1>3. Cardinality(S) \in Nat
  BY <1>2, FS_CardinalityType
<1>4. n \in Nat /\ n <= Cardinality(S)
  BY <1>3, SysDevAssumption
<1> HIDE DEF n
<1>5. \A k \in 1 .. n : k \in 1 .. Cardinality(S)
  BY <1>3, <1>4
<1>6. \A k \in 1 .. n : Nth(S, k) \in S
  BY <1>1, <1>2, <1>5, NthIs
<1>7. \A k, l \in 1 .. n : k < l => Nth(S, k) < Nth(S, l)
  BY <1>1, <1>2, <1>5, NthGrows
<1>8. m \in [1 .. n -> 1 .. Len(kern)] /\ \A k \in 1 .. n : m[k] = Nth(S, k)
  BY <1>1, <1>6
<1> HIDE DEF m
<1>9. c = [k \in 1 .. n |-> kern[Nth(S, k)]]
  BY DEF FirstOf, n
<1> HIDE DEF c
<1>10. \A k \in 1 .. n : kern[Nth(S, k)] \in Devices
  BY <1>1, <1>6
<1>11. c \in Seq(Devices) /\ Len(c) = n /\ \A k \in 1 .. n : c[k] = kern[Nth(S, k)]
  BY <1>4, <1>9, <1>10
<1> QED BY <1>7, <1>8, <1>11 DEF Sublist, c

\* Find(): the first place with this name.
LEMMA FindIs ==
  ASSUME NEW p \in Seq(Devices), NEW n, NEW j \in Nat \ {0}
  PROVE  LET k == Find(p, n, j) IN
         \/ k \in j .. Len(p) /\ p[k].name = n
         \/ k = Len(p) + 1 /\ \A l \in j .. Len(p) : p[l].name # n
<1> DEFINE hits == {k \in j .. Len(p) : p[k].name = n}
           k == Find(p, n, j)
<1>1. k = IF hits = {} THEN Len(p) + 1 ELSE CHOOSE k0 \in hits : \A l \in hits : k0 <= l
  BY DEF Find
<1>2. CASE hits = {}
  BY <1>1, <1>2
<1>3. CASE hits # {}
  <2>1. hits \subseteq Nat
    OBVIOUS
  <2>2. \E k0 \in hits : \A l \in hits : k0 <= l
    BY <1>3, <2>1, LeastNat
  <2> HIDE DEF hits, k
  <2>3. k \in hits
    BY <1>1, <1>3, <2>2
  <2> QED BY <2>3 DEF hits, k
<1> QED BY <1>2, <1>3

\* One step of the loop: the place of the name, if it is found.
Stepped(p, n, j, r) ==
  /\ r = [at |-> r.at, j |-> r.j]
  /\ r.at \in 0 .. Len(p) /\ r.j \in Nat \ {0}
  /\ r.at # 0 => p[r.at].name = n /\ r.j = r.at + 1
  /\ r.at = 0 => \A l \in (IF tbl = "dsk" THEN j ELSE 1) .. Len(p) : p[l].name # n
  /\ tbl = "dsk" /\ r.at = 0 => r.j = j

LEMMA StepIs ==
  ASSUME tbl \in DeviceTables, NEW p \in Seq(Devices), NEW n \in Nat, NEW j \in Nat \ {0}
  PROVE  Stepped(p, n, j, Step(p, n, j))
<1>0. Len(p) \in Nat /\ DOMAIN p = 1 .. Len(p) /\ j + 1 \in Nat \ {0} /\ 1 \in Nat \ {0}
  OBVIOUS
<1>1. ASSUME NameAt(p, j) = n PROVE j \in 1 .. Len(p) /\ p[j].name = n
  BY <1>0, <1>1 DEF NameAt
<1>2. NameAt(p, j) # n => ~ (j \in 1 .. Len(p) /\ p[j].name = n)
  BY <1>0 DEF NameAt
<1>3. CASE tbl = "intf"
  <2> DEFINE k == IF NameAt(p, j) = n THEN j ELSE Find(p, n, 1)
  <2>1. (k \in 1 .. Len(p) /\ p[k].name = n)
        \/ (k = Len(p) + 1 /\ \A l \in 1 .. Len(p) : p[l].name # n)
    BY <1>0, <1>1, FindIs
  <2>2. Step(p, n, j) = IF k > Len(p) THEN [at |-> 0, j |-> 2] ELSE [at |-> k, j |-> k + 1]
    BY <1>3 DEF Step, StepIntf
  <2> HIDE DEF k
  <2> QED BY <1>0, <1>3, <2>1, <2>2 DEF Stepped
<1>4. CASE tbl = "nfs"
  <2> DEFINE k == IF NameAt(p, j) = n THEN j ELSE Find(p, n, 1)
  <2>1. (k \in 1 .. Len(p) /\ p[k].name = n)
        \/ (k = Len(p) + 1 /\ \A l \in 1 .. Len(p) : p[l].name # n)
    BY <1>0, <1>1, FindIs
  <2>2. Step(p, n, j) = [at |-> IF k > Len(p) THEN 0 ELSE k, j |-> k + 1]
    BY <1>4 DEF Step, StepNfs
  <2> HIDE DEF k
  <2> QED BY <1>0, <1>4, <2>1, <2>2 DEF Stepped
<1>5. CASE tbl = "dsk"
  <2> DEFINE k == IF NameAt(p, j) = n THEN j ELSE Find(p, n, j + 1)
  <2>1. (k \in j .. Len(p) /\ p[k].name = n)
        \/ (k = Len(p) + 1 /\ \A l \in j .. Len(p) : p[l].name # n)
    <3>1. CASE NameAt(p, j) = n
      BY <1>0, <1>1, <3>1
    <3>2. CASE NameAt(p, j) # n
      <4>1. \A l \in j .. Len(p) : l = j \/ l \in j + 1 .. Len(p)
        BY <1>0
      <4>2. \/ k \in j + 1 .. Len(p) /\ p[k].name = n
            \/ k = Len(p) + 1 /\ \A l \in j + 1 .. Len(p) : p[l].name # n
        BY <1>0, <3>2, FindIs
      <4>3. j \in j .. Len(p) => p[j].name # n
        BY <1>0, <1>2, <3>2
      <4>4. k \in j + 1 .. Len(p) => k \in j .. Len(p)
        BY <1>0
      <4> HIDE DEF k
      <4> QED BY <4>1, <4>2, <4>3, <4>4
    <3> QED BY <3>1, <3>2
  <2>2. Step(p, n, j) = IF k > Len(p) THEN [at |-> 0, j |-> j] ELSE [at |-> k, j |-> k + 1]
    BY <1>5 DEF Step, StepDsk
  <2> HIDE DEF k
  <2> QED BY <1>0, <1>5, <2>1, <2>2 DEF Stepped
<1> QED BY <1>3, <1>4, <1>5 DEF DeviceTables

\* The loop over the devices: what it has found, and where it looks next.
Walks(w, c, p) ==
  w = [i \in 0 .. Len(c) |->
         IF i = 0 THEN [at |-> 0, j |-> 1] ELSE Step(p, c[i].name, w[i - 1].j)]

LEMMA PlacesAre ==
  ASSUME tbl \in DeviceTables, NEW c \in Seq(Devices), NEW p \in Seq(Devices),
         \A i \in 1 .. Len(c) : c[i].name \in Nat
  PROVE  \E w : /\ w[0] = [at |-> 0, j |-> 1]
                /\ \A i \in 0 .. Len(c) : w[i].j \in Nat \ {0}
                /\ \A i \in 1 .. Len(c) : Stepped(p, c[i].name, w[i - 1].j, w[i])
                /\ Places(c, p) = [i \in 1 .. Len(c) |-> w[i].at]
<1> DEFINE n == Len(c)
           T == [at : Nat, j : Nat \ {0}]
           e == [at |-> 0, j |-> 1]
           F == [ks \in (1 .. n) \X T |-> Step(p, c[ks[1]].name, ks[2].j)]
           w == CHOOSE v : Walks(v, c, p)
<1>1. n \in Nat /\ e \in T
  OBVIOUS
<1>2. ASSUME NEW k \in 1 .. n, NEW s \in T
      PROVE  F[<<k, s>>] = Step(p, c[k].name, s.j) /\ F[<<k, s>>] \in T
             /\ Stepped(p, c[k].name, s.j, Step(p, c[k].name, s.j))
  <2>1. F[<<k, s>>] = Step(p, c[k].name, s.j)
    OBVIOUS
  <2>2. s.j \in Nat \ {0} /\ c[k].name \in Nat
    OBVIOUS
  <2> DEFINE r == Step(p, c[k].name, s.j)
  <2> HIDE DEF F
  <2>3. Stepped(p, c[k].name, s.j, r)
    BY <2>2, StepIs
  <2> HIDE DEF r
  <2>4. r \in T
    BY <2>3 DEF Stepped
  <2> QED BY <2>1, <2>3, <2>4 DEF r
<1> HIDE DEF F, T, e, n
<1>3. PICK g : g \in [0 .. n -> T] /\ g[0] = e /\ \A k \in 1 .. n : g[k] = F[<<k, g[k - 1]>>]
  <2>1. Stays(F, n, T)
    BY <1>2 DEF Stays
  <2>2. \E g : Iterates(g, F, n, T, e)
    BY <1>1, <2>1, Iterated
  <2> QED BY <2>2 DEF Iterates
<1>4. \A k \in 1 .. n : g[k - 1] \in T /\ g[k] = Step(p, c[k].name, g[k - 1].j)
  <2> TAKE k \in 1 .. n
  <2>1. g[k - 1] \in T
    BY <1>1, <1>3
  <2> QED BY <1>2, <1>3, <2>1
<1>5. Walks(g, c, p)
  <2>1. \A i \in 0 .. n : g[i] = IF i = 0 THEN e ELSE Step(p, c[i].name, g[i - 1].j)
    <3> TAKE i \in 0 .. n
    <3>1. i # 0 => i \in 1 .. n
      BY <1>1
    <3> QED BY <1>3, <1>4, <3>1
  <2>2. g = [i \in 0 .. n |-> g[i]]
    BY <1>3
  <2>3. g = [i \in 0 .. n |-> IF i = 0 THEN e ELSE Step(p, c[i].name, g[i - 1].j)]
    BY <2>1, <2>2
  <2> QED BY <2>3, Zenon DEF Walks, e, n
<1>6. Walks(w, c, p)
  BY <1>5
<1>7. Places(c, p) = [i \in 1 .. n |-> w[i].at]
  BY Zenon DEF Places, Walks, n
<1> HIDE DEF w
<1>8. w[0] = e /\ \A k \in 1 .. n : w[k] = Step(p, c[k].name, w[k - 1].j)
  <2>1. w = [i \in 0 .. n |-> IF i = 0 THEN e ELSE Step(p, c[i].name, w[i - 1].j)]
    BY <1>6, Zenon DEF Walks, e, n
  <2>2. \A i \in 0 .. n : w[i] = IF i = 0 THEN e ELSE Step(p, c[i].name, w[i - 1].j)
    BY <2>1, Zenon
  <2>3. 0 \in 0 .. n /\ \A k \in 1 .. n : k \in 0 .. n /\ k # 0
    BY <1>1
  <2> QED BY <2>2, <2>3
<1>9. \A i \in 0 .. n : w[i] = g[i]
  <2> DEFINE G == {i \in 0 .. n : w[i] = g[i]}
  <2>1. 0 \in G
    BY <1>1, <1>3, <1>8
  <2>2. \A k \in 1 .. n : k - 1 \in G => k \in G
    BY <1>1, <1>4, <1>8
  <2> HIDE DEF G
  <2>3. 0 .. n \subseteq G
    BY <1>1, <2>1, <2>2, Upwards
  <2> QED BY <2>3 DEF G
<1>10. \A i \in 0 .. n : w[i] \in T
  BY <1>3, <1>9
<1>11. \A i \in 0 .. n : w[i].j \in Nat \ {0}
  BY <1>10 DEF T
<1>12. ASSUME NEW i \in 1 .. n PROVE Stepped(p, c[i].name, w[i - 1].j, w[i])
  <2>1. i - 1 \in 0 .. n
    BY <1>1
  <2>2. w[i - 1] \in T
    BY <1>10, <2>1
  <2> QED BY <1>2, <1>8, <2>2
<1> QED BY <1>7, <1>8, <1>11, <1>12 DEF e, n

\* What the devices of a list c have to do with those of the previous list p:
\* a device keeps its name and never counts back; one that has the name of
\* another is younger than all of the previous list.
Since(c, p, t) ==
  \A i \in 1 .. Len(c), k \in 1 .. Len(p) :
    /\ c[i].id = p[k].id =>
         c[i].name = p[k].name /\ c[i].val >= p[k].val /\ c[i].age >= t
    /\ c[i].name = p[k].name /\ c[i].id # p[k].id =>
         c[i].age <= t /\ \A l \in 1 .. Len(p) : p[l].id < c[i].id

\* The place that is found has the name, and it is that of the device itself
\* as long as the device was there.
Found(pl, c, p) ==
  \A i \in 1 .. Len(c) :
    /\ pl[i] \in 0 .. Len(p)
    /\ pl[i] # 0 => p[pl[i]].name = c[i].name
    /\ \A k \in 1 .. Len(p) : p[k].id = c[i].id => pl[i] = k

LEMMA PlacesFound ==
  ASSUME tbl \in DeviceTables, NEW c, Orderly(c), NEW p, Orderly(p), NEW t, Since(c, p, t)
  PROVE  Found(Places(c, p), c, p)
<1>0. c \in Seq(Devices) /\ p \in Seq(Devices) /\ Len(c) \in Nat /\ Len(p) \in Nat
  BY DEF Orderly
<1>1. PICK w : /\ w[0] = [at |-> 0, j |-> 1]
               /\ \A i \in 0 .. Len(c) : w[i].j \in Nat \ {0}
               /\ \A i \in 1 .. Len(c) : Stepped(p, c[i].name, w[i - 1].j, w[i])
               /\ Places(c, p) = [i \in 1 .. Len(c) |-> w[i].at]
  <2>1. \A i \in 1 .. Len(c) : c[i].name \in Nat
    BY DEF Orderly
  <2> QED BY <1>0, <2>1, PlacesAre
<1>2. ASSUME NEW i \in 1 .. Len(c)
      PROVE  Places(c, p)[i] = w[i].at /\ w[i].at \in 0 .. Len(p)
             /\ (w[i].at # 0 => p[w[i].at].name = c[i].name)
  BY <1>1 DEF Stepped
\* Devices of one name at most.
<1>3. \A k, l \in 1 .. Len(p) : p[k].name = p[l].name => k = l
  <2> SUFFICES ASSUME NEW k \in 1 .. Len(p), NEW l \in 1 .. Len(p), p[k].name = p[l].name, k # l
               PROVE  FALSE
    OBVIOUS
  <2>1. k < l \/ l < k
    BY <1>0
  <2> QED BY <2>1 DEF Orderly
\* The loop has not gone past a device that was there: all devices before it
\* were there too, and have been found at their own places.
<1>4. ASSUME NEW i \in 1 .. Len(c), NEW k \in 1 .. Len(p), p[k].id = c[i].id, tbl = "dsk"
      PROVE  \A m \in 0 .. i - 1 : w[m].j <= k
  <2> DEFINE G == {m \in 0 .. i - 1 : w[m].j <= k}
             n == i - 1
  <2>0. n \in Nat /\ n < i /\ i <= Len(c)
    BY <1>0
  <2>1. 0 \in G
    BY <1>0, <1>1
  <2>2. ASSUME NEW m \in 1 .. n, m - 1 \in G PROVE m \in G
    <3>1. m \in 1 .. Len(c) /\ m < i
      BY <1>0
    <3>2. Stepped(p, c[m].name, w[m - 1].j, w[m]) /\ w[m - 1].j <= k
      BY <1>1, <2>2, <3>1
    <3>3. CASE w[m].at = 0
      <4>1. w[m].j = w[m - 1].j
        BY <1>4, <3>2, <3>3 DEF Stepped
      <4> QED BY <3>2, <4>1
    <3>4. CASE w[m].at # 0
      <4> DEFINE a == w[m].at
      <4>1. a \in 1 .. Len(p) /\ p[a].name = c[m].name /\ w[m].j = a + 1
        BY <1>0, <3>2, <3>4 DEF Stepped
      <4> HIDE DEF a
      <4>2. c[m].id < c[i].id
        BY <3>1 DEF Orderly
      <4>3. c[m] \in Devices /\ c[i] \in Devices /\ p[a] \in Devices /\ p[k] \in Devices
        BY <1>0, <3>1, <4>1
      <4>4. c[m].id = p[a].id
        <5> SUFFICES ASSUME c[m].id # p[a].id PROVE FALSE
          OBVIOUS
        <5>1. p[k].id < c[m].id
          BY <3>1, <4>1 DEF Since
        <5>2. c[m].id < p[k].id
          BY <1>4, <4>2
        <5>3. p[k].id \in Nat /\ c[m].id \in Nat
          BY <4>3 DEF Devices
        <5> HIDE DEF n, G
        <5> QED BY <5>1, <5>2, <5>3
      <4>5. p[a].id < p[k].id
        BY <1>4, <4>2, <4>4
      <4>6. a < k
        <5>1. p[k].id \in Nat /\ p[a].id \in Nat
          BY <4>3 DEF Devices
        <5>2. k # a
          BY <4>5, <5>1
        <5>3. k < a => p[k].id < p[a].id
          BY <4>1 DEF Orderly
        <5>4. ~ (k < a)
          BY <4>5, <5>1, <5>3
        <5> QED BY <4>1, <5>2, <5>4
      <4> QED BY <4>1, <4>6
    <3> QED BY <3>3, <3>4
  <2> HIDE DEF G, n
  <2>3. 0 .. n \subseteq G
    BY <2>0, <2>1, <2>2, Upwards
  <2> QED BY <2>3 DEF G, n
<1>5. ASSUME NEW i \in 1 .. Len(c), NEW k \in 1 .. Len(p), p[k].id = c[i].id
      PROVE  w[i].at = k
  <2>1. c[i].name = p[k].name
    BY <1>5 DEF Since
  <2>2. w[i].at # 0
    <3> SUFFICES ASSUME w[i].at = 0 PROVE FALSE
      OBVIOUS
    <3> DEFINE j == w[i - 1].j
    <3>1. j \in Nat \ {0}
      <4>1. i - 1 \in 0 .. Len(c)
        BY <1>0
      <4> QED BY <1>1, <4>1
    <3>2. \A l \in (IF tbl = "dsk" THEN j ELSE 1) .. Len(p) : p[l].name # c[i].name
      BY <1>1 DEF Stepped
    <3>3. tbl = "dsk" => j <= k
      <4>1. i - 1 \in 0 .. i - 1
        BY <1>0
      <4> QED BY <1>4, <1>5, <4>1
    <3> HIDE DEF j
    <3> QED BY <1>0, <2>1, <3>1, <3>2, <3>3
  <2> DEFINE a == w[i].at
  <2>3. a \in 1 .. Len(p) /\ p[a].name = p[k].name
    BY <1>0, <1>2, <2>1, <2>2
  <2> HIDE DEF a
  <2>4. a = k
    BY <1>3, <2>3
  <2> QED BY <2>4 DEF a
<1> QED BY <1>2, <1>5 DEF Found

\* The deviations of a list, said of the lists: Attributed speaks of the last two.
Attributes(c, p, d) ==
  \A i \in DOMAIN d :
    LET own  == {j \in DOMAIN p : p[j].id = c[i].id}
        same == {j \in DOMAIN p : p[j].name = c[i].name}
        all  == c[i].val
    IN /\ d[i].name = c[i].name /\ d[i].val \in 0 .. all
       /\ same = {} => d[i].val = all
       /\ own # {} => \/ d[i].val = all - p[CHOOSE j \in own : TRUE].val
                      \/ tbl = "nfs" /\ c[i].age = DevInterval /\ d[i].val = all
       /\ tbl = "nfs" /\ own = {} => d[i].val = all

LEMMA DiffIs ==
  ASSUME NEW c \in Seq(Devices), NEW p \in Seq(Devices), NEW pl, NEW i \in 1 .. Len(c),
         pl[i] \in 0 .. Len(p)
  PROVE  /\ Diff(c, p, pl)[i].name = c[i].name
         /\ Diff(c, p, pl)[i].val \in 0 .. c[i].val
         /\ pl[i] = 0 => Diff(c, p, pl)[i].val = c[i].val
         /\ pl[i] # 0 /\ p[pl[i]].val <= c[i].val => Diff(c, p, pl)[i].val = c[i].val - p[pl[i]].val
<1> DEFINE a == IF pl[i] = 0 THEN 0 ELSE p[pl[i]].val
           d == Diff(c, p, pl)[i]
<1>1. d = [c[i] EXCEPT !.val = subcount(c[i].val, a)]
  <2>1. i \in DOMAIN c
    OBVIOUS
  <2> QED BY <2>1, Zenon DEF Diff
<1>2. a \in Nat /\ c[i] \in Devices
  <2>1. pl[i] # 0 => p[pl[i]] \in Devices
    OBVIOUS
  <2>2. pl[i] # 0 => p[pl[i]].val \in Nat
    BY <2>1 DEF Devices
  <2> QED BY <2>2
<1>3. (pl[i] = 0 => a = 0) /\ (pl[i] # 0 => a = p[pl[i]].val)
  OBVIOUS
<1> HIDE DEF a, d
<1>4. d.name = c[i].name /\ d.val = subcount(c[i].val, a) /\ c[i].val \in Nat
  BY <1>1, <1>2 DEF Devices
<1>5. subcount(c[i].val, a) = IF c[i].val >= a THEN c[i].val - a ELSE c[i].val
  BY <1>4 DEF subcount
<1> QED BY <1>2, <1>3, <1>4, <1>5 DEF d

LEMMA DiffRight ==
  ASSUME tbl \in DeviceTables, NEW c, Orderly(c), NEW p, Orderly(p),
         NEW t \in Nat, tbl = "nfs" => t = DevInterval, Since(c, p, t),
         NEW pl, Found(pl, c, p),
         NEW b, \A i \in 1 .. Len(c) : b[i] = IF tbl = "nfs" /\ Young(c[i]) THEN 0 ELSE pl[i]
  PROVE  Attributes(c, p, Diff(c, p, b))
<1> DEFINE d == Diff(c, p, b)
<1>0. c \in Seq(Devices) /\ p \in Seq(Devices) /\ DOMAIN c = 1 .. Len(c) /\ DOMAIN p = 1 .. Len(p)
      /\ Len(c) \in Nat /\ Len(p) \in Nat
  BY DEF Orderly
<1>1. DOMAIN d = 1 .. Len(c)
  BY <1>0 DEF Diff
<1>2. ASSUME NEW i \in 1 .. Len(c)
      PROVE  LET own  == {j \in DOMAIN p : p[j].id = c[i].id}
                 same == {j \in DOMAIN p : p[j].name = c[i].name}
                 all  == c[i].val
             IN /\ d[i].name = c[i].name /\ d[i].val \in 0 .. all
                /\ same = {} => d[i].val = all
                /\ own # {} => \/ d[i].val = all - p[CHOOSE j \in own : TRUE].val
                               \/ tbl = "nfs" /\ c[i].age = DevInterval /\ d[i].val = all
                /\ tbl = "nfs" /\ own = {} => d[i].val = all
  <2> DEFINE own  == {j \in DOMAIN p : p[j].id = c[i].id}
             same == {j \in DOMAIN p : p[j].name = c[i].name}
             x == d[i]
             ci == c[i]
  <2>1. /\ pl[i] \in 0 .. Len(p) /\ (pl[i] # 0 => p[pl[i]].name = ci.name)
        /\ \A k \in 1 .. Len(p) : p[k].id = ci.id => pl[i] = k
    BY DEF Found
  <2>2. b[i] = IF tbl = "nfs" /\ Young(ci) THEN 0 ELSE pl[i]
    OBVIOUS
  <2>3. b[i] \in 0 .. Len(p)
    BY <1>0, <2>1, <2>2
  <2>4. /\ x.name = ci.name /\ x.val \in 0 .. ci.val
        /\ b[i] = 0 => x.val = ci.val
        /\ b[i] # 0 /\ p[b[i]].val <= ci.val => x.val = ci.val - p[b[i]].val
    BY <1>0, <2>3, DiffIs
  <2>5. \A k \in 1 .. Len(p) :
          /\ ci.id = p[k].id => ci.name = p[k].name /\ ci.val >= p[k].val /\ ci.age >= t
          /\ ci.name = p[k].name /\ ci.id # p[k].id => ci.age <= t
    BY DEF Since
  <2>6. ci \in Devices /\ \A k \in 1 .. Len(p) : p[k] \in Devices
    BY <1>0
  <2>7. Young(ci) <=> ci.age <= DevInterval
    BY DEF Young
  <2> HIDE DEF x, ci
  <2>8. same = {} => x.val = ci.val
    <3> SUFFICES ASSUME same = {} PROVE b[i] = 0
      BY <2>4
    <3>1. \A j \in 1 .. Len(p) : p[j].name # ci.name
      BY <1>0 DEF ci
    <3> HIDE DEF same
    <3> QED BY <1>0, <2>1, <2>2, <3>1
  <2>9. ASSUME own # {}
        PROVE  \/ x.val = ci.val - p[CHOOSE j \in own : TRUE].val
               \/ tbl = "nfs" /\ ci.age = DevInterval /\ x.val = ci.val
    <3> DEFINE k == CHOOSE j \in own : TRUE
    <3>1. k \in own
      BY <2>9
    <3>2. k \in 1 .. Len(p) /\ p[k].id = ci.id
      BY <1>0, <3>1 DEF ci
    <3> HIDE DEF k, own
    <3>3. pl[i] = k /\ ci.val >= p[k].val /\ ci.age >= t
      BY <2>1, <2>5, <3>2
    <3>4. CASE tbl = "nfs" /\ Young(ci)
      <4>1. x.val = ci.val
        BY <2>2, <2>4, <3>4
      <4>2. ci.age = DevInterval
        BY <2>6, <2>7, <3>3, <3>4 DEF Devices
      <4> QED BY <3>4, <4>1, <4>2
    <3>5. CASE ~ (tbl = "nfs" /\ Young(ci))
      <4>1. b[i] = k /\ k # 0
        BY <2>2, <3>2, <3>3, <3>5
      <4>2. p[k].val <= ci.val
        BY <2>6, <3>2, <3>3 DEF Devices
      <4>3. x.val = ci.val - p[k].val
        BY <2>4, <4>1, <4>2
      <4> QED BY <4>3 DEF k
    <3> QED BY <3>4, <3>5
  <2>10. ASSUME tbl = "nfs", own = {} PROVE x.val = ci.val
    <3>1. \A j \in 1 .. Len(p) : p[j].id # ci.id
      BY <1>0, <2>10 DEF ci
    <3>2. b[i] = 0
      <4> SUFFICES ASSUME pl[i] # 0, ~ Young(ci) PROVE FALSE
        BY <2>2, <2>10
      <4> DEFINE k == pl[i]
      <4>1. k \in 1 .. Len(p) /\ p[k].name = ci.name
        BY <1>0, <2>1
      <4> HIDE DEF k
      <4>2. ci.age <= t
        BY <2>5, <3>1, <4>1
      <4> QED BY <2>7, <2>10, <4>2
    <3> QED BY <2>4, <3>2
  <2> QED BY <2>4, <2>8, <2>9, <2>10, Zenon DEF x, ci
<1> HIDE DEF d
<1> QED BY <1>1, <1>2 DEF Attributes, d

\* The list of the kernel and that of the last sample; identities are given
\* in ascending order.
Bound == Cardinality(Names) + changes
Given(s, b) == \A i \in 1 .. Len(s) : s[i].id <= b

LEMMA GivenIds ==
  ASSUME NEW s \in Seq(Devices), NEW b, Given(s, b)
  PROVE  \A i \in 1 .. Len(s) : s[i].id <= b /\ s[i].id \in Nat
<1> TAKE i \in 1 .. Len(s)
<1>1. s[i] \in Devices
  OBVIOUS
<1> QED BY <1>1 DEF Given, Devices

Lists == /\ Orderly(kern) /\ Given(kern, Bound)
         /\ Orderly(cur) /\ Given(cur, Bound)
         /\ Since(kern, cur, clock)

ListsInv ==
  /\ clock \in Nat /\ changes \in Nat
  /\ tbl \in {"intf", "dsk", "nfs", "cpu", "flow", "off"}
  /\ tbl \in {"flow", "off"} => nsample = 0
  /\ tbl \in DeviceTables => Lists
  /\ Attributed

\* Every device of r is one of s, not counting back and dt seconds older, or new.
PerfFollows(r, s, p, t, dt) ==
  \A k \in 1 .. Len(r) :
    \/ \E i \in 1 .. Len(s) : /\ r[k].id = s[i].id /\ r[k].name = s[i].name
                              /\ r[k].val >= s[i].val /\ r[k].age = s[i].age + dt
    \/ r[k].age <= t + dt /\ \A l \in 1 .. Len(p) : p[l].id < r[k].id

LEMMA SinceStays ==
  ASSUME NEW p \in Seq(Devices), NEW s \in Seq(Devices), NEW r \in Seq(Devices),
         NEW t \in Nat, NEW dt \in Nat, Since(s, p, t), PerfFollows(r, s, p, t, dt)
  PROVE  Since(r, p, t + dt)
<1>1. ASSUME NEW k \in 1 .. Len(r), NEW l \in 1 .. Len(p)
      PROVE  /\ r[k].id = p[l].id =>
                  r[k].name = p[l].name /\ r[k].val >= p[l].val /\ r[k].age >= t + dt
             /\ r[k].name = p[l].name /\ r[k].id # p[l].id =>
                  r[k].age <= t + dt /\ \A m \in 1 .. Len(p) : p[m].id < r[k].id
  <2> DEFINE x == r[k]
             y == p[l]
  <2>1. x \in Devices /\ y \in Devices
    OBVIOUS
  <2>2. CASE \E i \in 1 .. Len(s) : /\ x.id = s[i].id /\ x.name = s[i].name
                                    /\ x.val >= s[i].val /\ x.age = s[i].age + dt
    <3>1. PICK i \in 1 .. Len(s) : /\ x.id = s[i].id /\ x.name = s[i].name
                                   /\ x.val >= s[i].val /\ x.age = s[i].age + dt
      BY <2>2
    <3> DEFINE z == s[i]
    <3>2. z \in Devices
      OBVIOUS
    <3>3. /\ z.id = y.id => z.name = y.name /\ z.val >= y.val /\ z.age >= t
          /\ z.name = y.name /\ z.id # y.id =>
               z.age <= t /\ \A m \in 1 .. Len(p) : p[m].id < z.id
      BY DEF Since
    <3>4. x.val \in Nat /\ y.val \in Nat /\ z.val \in Nat /\ z.age \in Nat
      BY <2>1, <3>2 DEF Devices
    <3> HIDE DEF x, y, z
    <3>5. x.id = z.id /\ x.name = z.name /\ x.val >= z.val /\ x.age = z.age + dt
      BY <3>1 DEF z
    <3>6. x.id = y.id => x.name = y.name /\ x.val >= y.val /\ x.age >= t + dt
      BY <3>3, <3>4, <3>5
    <3>7. x.name = y.name /\ x.id # y.id =>
            x.age <= t + dt /\ \A m \in 1 .. Len(p) : p[m].id < x.id
      BY <3>3, <3>4, <3>5
    <3> QED BY <3>6, <3>7 DEF x, y
  <2>3. CASE x.age <= t + dt /\ \A m \in 1 .. Len(p) : p[m].id < x.id
    <3>1. y.id < x.id /\ y.id \in Nat /\ x.id \in Nat
      BY <2>1, <2>3 DEF Devices
    <3>2. x.id # y.id
      BY <3>1
    <3> QED BY <2>3, <3>2
  <2> QED BY <2>2, <2>3 DEF PerfFollows
<1> QED BY <1>1 DEF Since

\* What has been added, and what is left.
LEMMA PlugLists ==
  ASSUME ListsInv, tbl \in DeviceTables, Plug
  PROVE  Lists'
<1>1. PICK n \in Names \ {kern[i].name : i \in DOMAIN kern} :
         kern' = Append(kern, Device(n, Cardinality(Names) + changes + 1))
  BY DEF Plug
<1>2. changes' = changes + 1 /\ cur' = cur /\ clock' = clock
  BY DEF Plug
<1>3. Lists /\ clock \in Nat /\ changes \in Nat
  BY DEF ListsInv
<1>4. Cardinality(Names) \in Nat /\ Names \subseteq Nat
  BY SysDevAssumption, FS_CardinalityType
<1>5. Bound' = Bound + 1 /\ Bound \in Nat
  BY <1>2, <1>3, <1>4 DEF Bound
<1> DEFINE d == Device(n, Bound + 1)
<1>6. kern' = Append(kern, d)
  <2>1. Cardinality(Names) + changes + 1 = Bound + 1
    BY <1>3, <1>4 DEF Bound
  <2> QED BY <1>1, <2>1
<1>7. d \in Devices /\ d.name = n /\ d.id = Bound + 1 /\ d.val = 0 /\ d.age = 0
  BY <1>4, <1>5 DEF Device, Devices
<1> HIDE DEF d
<1>8. kern \in Seq(Devices) /\ cur \in Seq(Devices)
  BY <1>3 DEF Lists, Orderly
<1>9. /\ kern' \in Seq(Devices) /\ Len(kern') = Len(kern) + 1 /\ Len(kern) \in Nat
      /\ \A i \in 1 .. Len(kern) : kern'[i] = kern[i]
      /\ kern'[Len(kern) + 1] = d
  BY <1>6, <1>7, <1>8
<1>10. \A i \in 1 .. Len(kern) : kern[i].name # n
  BY <1>8
<1> DEFINE k == kern'
           m == Len(kern)
<1>11. /\ k \in Seq(Devices) /\ Len(k) = m + 1 /\ m \in Nat
       /\ \A i \in 1 .. m : k[i] = kern[i]
       /\ k[m + 1] = d
  BY <1>9
<1>12. \A i \in 1 .. m + 1 : i \in 1 .. m \/ i = m + 1
  BY <1>11
<1>a. \A i \in 1 .. m : kern[i].id <= Bound /\ kern[i].id \in Nat
  BY <1>3, <1>8, GivenIds DEF Lists
<1> HIDE DEF k
<1>13. Given(k, Bound + 1)
  <2>1. \A i \in 1 .. m : k[i].id <= Bound + 1
    BY <1>5, <1>11, <1>a
  <2> QED BY <1>5, <1>7, <1>11, <1>12, <2>1 DEF Given
<1>14. Orderly(k)
  <2>1. \A i \in 1 .. m + 1 : k[i].name \in Nat
    BY <1>3, <1>4, <1>7, <1>11, <1>12 DEF Lists, Orderly
  <2>2. ASSUME NEW i \in 1 .. m + 1, NEW j \in 1 .. m + 1, i < j
        PROVE  k[i].id < k[j].id /\ k[i].name # k[j].name
    <3>1. CASE j \in 1 .. m
      <4>1. i \in 1 .. m
        BY <1>11, <2>2, <3>1
      <4>2. kern[i].id < kern[j].id /\ kern[i].name # kern[j].name
        BY <1>3, <2>2, <3>1, <4>1 DEF Lists, Orderly
      <4> QED BY <1>11, <3>1, <4>1, <4>2
    <3>2. CASE j = m + 1
      <4>1. i \in 1 .. m
        BY <1>11, <2>2, <3>2
      <4>2. k[i].id <= Bound /\ k[i].id \in Nat /\ k[i].name # n
        BY <1>10, <1>11, <1>a, <4>1
      <4> QED BY <1>5, <1>7, <1>11, <3>2, <4>2
    <3> QED BY <1>12, <3>1, <3>2
  <2> QED BY <1>11, <2>1, <2>2 DEF Orderly
<1>15. Given(cur, Bound + 1)
  <2>1. \A i \in 1 .. Len(cur) : cur[i].id <= Bound /\ cur[i].id \in Nat
    BY <1>3, <1>8, GivenIds DEF Lists
  <2> QED BY <1>5, <2>1 DEF Given
<1>16. Since(k, cur, clock)
  <2>1. PerfFollows(k, kern, cur, clock, 0)
    <3>1. ASSUME NEW i \in 1 .. m
          PROVE  \E j \in 1 .. m : /\ k[i].id = kern[j].id /\ k[i].name = kern[j].name
                                   /\ k[i].val >= kern[j].val /\ k[i].age = kern[j].age + 0
      <4>1. k[i] = kern[i] /\ kern[i] \in Devices
        BY <1>8, <1>11
      <4>2. kern[i].val >= kern[i].val /\ kern[i].age = kern[i].age + 0
        BY <4>1 DEF Devices
      <4> QED BY <4>1, <4>2
    <3>2. d.age <= clock + 0 /\ \A l \in 1 .. Len(cur) : cur[l].id < d.id
      <4>1. \A i \in 1 .. Len(cur) : cur[i].id <= Bound /\ cur[i].id \in Nat
        BY <1>3, <1>8, GivenIds DEF Lists
      <4> QED BY <1>3, <1>5, <1>7, <4>1
    <3> QED BY <1>11, <1>12, <3>1, <3>2 DEF PerfFollows
  <2>2. Since(k, cur, clock + 0)
    BY <1>3, <1>8, <1>11, <2>1, SinceStays DEF Lists
  <2> QED BY <1>3, <2>2
<1>17. Orderly(cur)
  BY <1>3 DEF Lists
<1> QED BY <1>2, <1>5, <1>13, <1>14, <1>15, <1>16, <1>17 DEF Lists, k

\* The devices that are left, with what they have done.
Keeps(r, s, dt) ==
  \A k \in 1 .. Len(r) :
    \E i \in 1 .. Len(s) : /\ r[k].id = s[i].id /\ r[k].name = s[i].name
                           /\ r[k].val >= s[i].val /\ r[k].age = s[i].age + dt

LEMMA ListsFollow ==
  ASSUME Lists, clock \in Nat, changes \in Nat, NEW dt \in Nat, clock' = clock + dt,
         changes' \in Nat, changes' >= changes, cur' = cur,
         NEW r, r = kern', Orderly(r), Keeps(r, kern, dt)
  PROVE  Lists'
<1>1. Bound \in Nat /\ Bound' \in Nat /\ Bound <= Bound'
  <2>1. Cardinality(Names) \in Nat
    BY SysDevAssumption, FS_CardinalityType
  <2> QED BY <2>1 DEF Bound
<1>2. kern \in Seq(Devices) /\ cur \in Seq(Devices) /\ r \in Seq(Devices) /\ Given(kern, Bound) /\ Given(cur, Bound)
  BY DEF Lists, Orderly
<1> DEFINE b == Bound'
<1>3. Given(cur, b)
  <2>1. \A i \in 1 .. Len(cur) : cur[i].id <= Bound /\ cur[i].id \in Nat
    BY <1>2, GivenIds
  <2> QED BY <1>1, <2>1 DEF Given
<1>4. Given(r, b)
  <2>1. \A i \in 1 .. Len(kern) : kern[i].id <= Bound /\ kern[i].id \in Nat
    BY <1>2, GivenIds
  <2>2. \A k \in 1 .. Len(r) : r[k].id <= Bound /\ r[k].id \in Nat
    BY <2>1 DEF Keeps
  <2> QED BY <1>1, <2>2 DEF Given
<1>5. Since(r, cur, clock + dt)
  <2>1. PerfFollows(r, kern, cur, clock, dt)
    BY DEF PerfFollows, Keeps
  <2> QED BY <1>2, <2>1, SinceStays DEF Lists
<1> HIDE DEF b
<1>6. Orderly(cur) /\ b = Bound'
  BY DEF Lists, b
<1> QED BY <1>3, <1>4, <1>5, <1>6 DEF Lists

LEMMA RemovedIs ==
  ASSUME NEW s \in Seq(Devices), NEW x \in 1 .. Len(s), NEW r, r = RemoveAt(s, x)
  PROVE  /\ r \in Seq(Devices) /\ Len(r) = Len(s) - 1
         /\ \A k \in 1 .. Len(s) - 1 : r[k] = IF k < x THEN s[k] ELSE s[k + 1]
<1> DEFINE n == Len(s)
<1>1. n \in Nat /\ r = SubSeq(s, 1, x - 1) \o SubSeq(s, x + 1, n)
  BY DEF RemoveAt
<1> DEFINE a == SubSeq(s, 1, x - 1)
           e == SubSeq(s, x + 1, n)
<1>2. a \in Seq(Devices) /\ Len(a) = x - 1 /\ \A k \in 1 .. x - 1 : a[k] = s[k]
  BY <1>1
<1>3. e \in Seq(Devices) /\ Len(e) = n - x /\ \A k \in 1 .. n - x : e[k] = s[x + k]
  BY <1>1
<1>4. r = a \o e
  BY <1>1
<1> HIDE DEF a, e
<1>5. /\ r \in Seq(Devices) /\ Len(r) = Len(a) + Len(e)
      /\ \A k \in 1 .. Len(a) : r[k] = a[k]
      /\ \A k \in 1 .. Len(e) : r[Len(a) + k] = e[k]
  <2>1. a \in Seq(Devices) /\ e \in Seq(Devices)
    BY <1>2, <1>3
  <2> QED BY <1>4, <2>1, ConcatIs
<1>6. Len(r) = n - 1
  <2>1. (x - 1) + (n - x) = n - 1
    BY <1>1
  <2>2. Len(r) = (x - 1) + (n - x)
    BY <1>2, <1>3, <1>5, Zenon
  <2> QED BY <2>1, <2>2, Zenon
<1>7. ASSUME NEW k \in 1 .. n - 1 PROVE r[k] = IF k < x THEN s[k] ELSE s[k + 1]
  <2>1. CASE k < x
    <3>1. k \in 1 .. x - 1
      BY <1>1, <2>1
    <3> QED BY <1>2, <1>5, <2>1, <3>1
  <2>2. CASE ~ (k < x)
    <3> DEFINE l == k - x + 1
    <3>1. l \in 1 .. n - x /\ k = Len(a) + l /\ x + l = k + 1
      BY <1>1, <1>2, <2>2
    <3> HIDE DEF l
    <3>2. r[Len(a) + l] = e[l] /\ e[l] = s[x + l]
      BY <1>3, <1>5, <3>1
    <3> QED BY <2>2, <3>1, <3>2
  <2> QED BY <2>1, <2>2
<1> QED BY <1>5, <1>6, <1>7

LEMMA UnplugLists ==
  ASSUME ListsInv, tbl \in DeviceTables, Unplug
  PROVE  Lists'
<1>1. Lists /\ clock \in Nat /\ changes \in Nat
  BY DEF ListsInv
<1>2. Orderly(kern) /\ kern \in Seq(Devices)
  BY <1>1 DEF Lists, Orderly
<1>3. PICK x \in 1 .. Len(kern) : kern' = RemoveAt(kern, x)
  <2>1. DOMAIN kern = 1 .. Len(kern)
    BY <1>2
  <2> QED BY <2>1 DEF Unplug
<1>4. changes' = changes + 1 /\ cur' = cur /\ clock' = clock + 0
  BY <1>1 DEF Unplug
<1> DEFINE r == kern'
           n == Len(kern)
<1>5. n \in Nat
  BY <1>2
<1>6. /\ r \in Seq(Devices) /\ Len(r) = n - 1
      /\ \A k \in 1 .. n - 1 : r[k] = IF k < x THEN kern[k] ELSE kern[k + 1]
  BY <1>2, <1>3, RemovedIs
<1> HIDE DEF r
<1> DEFINE m == [k \in 1 .. n - 1 |-> IF k < x THEN k ELSE k + 1]
<1>7. Sublist(r, kern)
  <2>1. m \in [1 .. Len(r) -> 1 .. n]
    <3>1. \A k \in 1 .. n - 1 : (IF k < x THEN k ELSE k + 1) \in 1 .. n
      BY <1>5
    <3> QED BY <1>6, <3>1
  <2>2. \A k \in 1 .. n - 1 : m[k] = IF k < x THEN k ELSE k + 1
    OBVIOUS
  <2> HIDE DEF m
  <2>3. \A k \in 1 .. Len(r) : r[k] = kern[m[k]]
    BY <1>6, <2>2
  <2>4. ASSUME NEW k \in 1 .. Len(r), NEW l \in 1 .. Len(r), k < l PROVE m[k] < m[l]
    <3>1. m[k] = (IF k < x THEN k ELSE k + 1) /\ m[l] = (IF l < x THEN l ELSE l + 1)
      BY <1>6, <2>2
    <3> QED BY <1>5, <1>6, <2>4, <3>1
  <2> QED BY <1>6, <2>1, <2>3, <2>4 DEF Sublist
<1>8. Orderly(r) /\ \A k \in 1 .. Len(r) : \E i \in 1 .. n : r[k] = kern[i]
  BY <1>2, <1>7, SublistOrderly
<1>9. Keeps(r, kern, 0)
  <2> SUFFICES ASSUME NEW k \in 1 .. Len(r)
               PROVE  \E i \in 1 .. n : /\ r[k].id = kern[i].id /\ r[k].name = kern[i].name
                                        /\ r[k].val >= kern[i].val /\ r[k].age = kern[i].age + 0
    BY DEF Keeps
  <2>1. PICK i \in 1 .. n : r[k] = kern[i]
    BY <1>8
  <2>2. kern[i] \in Devices
    BY <1>2
  <2>3. kern[i].val >= kern[i].val /\ kern[i].age = kern[i].age + 0
    BY <2>2 DEF Devices
  <2> QED BY <2>1, <2>3
<1>10. changes' \in Nat /\ changes' >= changes
  BY <1>1, <1>4
<1>11. r = kern'
  BY DEF r
<1> QED BY <1>1, <1>4, <1>8, <1>9, <1>10, <1>11, ListsFollow

\* The devices are the same, and have done something or become older.
LEMMA WorkLists ==
  ASSUME ListsInv, tbl \in DeviceTables, Work \/ Tick
  PROVE  Lists'
<1>1. Lists /\ clock \in Nat /\ changes \in Nat
  BY DEF ListsInv
<1>2. Orderly(kern) /\ kern \in Seq(Devices) /\ DOMAIN kern = 1 .. Len(kern) /\ Len(kern) \in Nat
  BY <1>1 DEF Lists, Orderly
<1>3. ASSUME NEW r, NEW dt \in Nat, r \in Seq(Devices), Len(r) = Len(kern),
             \A i \in 1 .. Len(kern) : /\ r[i].id = kern[i].id /\ r[i].name = kern[i].name
                                       /\ r[i].val >= kern[i].val /\ r[i].age = kern[i].age + dt
      PROVE  Orderly(r) /\ Keeps(r, kern, dt)
  BY <1>2, <1>3 DEF Orderly, Keeps
<1>4. CASE Work
  <2>1. PICK x \in 1 .. Len(kern) : kern' = [kern EXCEPT ![x].val = @ + 1]
    BY <1>2, <1>4 DEF Work
  <2>2. changes' = changes /\ cur' = cur /\ clock' = clock + 0 /\ changes' >= changes
    BY <1>1, <1>4 DEF Work
  <2> DEFINE d == [kern[x] EXCEPT !.val = @ + 1]
             r == [kern EXCEPT ![x] = d]
  <2>3. kern' = r
    BY <2>1
  <2>4. kern[x] \in Devices
    BY <1>2
  <2>5. d \in Devices /\ d.id = kern[x].id /\ d.name = kern[x].name
        /\ d.val >= kern[x].val /\ d.age = kern[x].age + 0
    BY <2>4 DEF Devices
  <2> HIDE DEF d
  <2>6. r \in Seq(Devices) /\ Len(r) = Len(kern)
        /\ \A i \in 1 .. Len(kern) : r[i] = IF i = x THEN d ELSE kern[i]
    BY <1>2, <2>5
  <2> HIDE DEF r
  <2>7. ASSUME NEW i \in 1 .. Len(kern)
        PROVE  /\ r[i].id = kern[i].id /\ r[i].name = kern[i].name
               /\ r[i].val >= kern[i].val /\ r[i].age = kern[i].age + 0
    <3>1. CASE i = x
      BY <2>5, <2>6, <3>1
    <3>2. CASE i # x
      <4>1. kern[i] \in Devices /\ r[i] = kern[i]
        BY <1>2, <2>6, <3>2
      <4>2. kern[i].val >= kern[i].val /\ kern[i].age = kern[i].age + 0
        BY <4>1 DEF Devices
      <4> QED BY <4>1, <4>2
    <3> QED BY <3>1, <3>2
  <2>8. Orderly(r) /\ Keeps(r, kern, 0)
    BY <1>3, <2>6, <2>7
  <2> QED BY <1>1, <2>2, <2>3, <2>8, ListsFollow
<1>5. CASE Tick
  <2>1. kern' = [i \in 1 .. Len(kern) |-> [kern[i] EXCEPT !.age = @ + 1]]
    BY <1>2, <1>5, Zenon DEF Tick
  <2>2. changes' = changes /\ cur' = cur /\ clock' = clock + 1 /\ changes' >= changes
    BY <1>1, <1>5 DEF Tick
  <2> DEFINE f == [i \in 1 .. Len(kern) |-> [kern[i] EXCEPT !.age = @ + 1]]
  <2>3. ASSUME NEW i \in 1 .. Len(kern)
        PROVE  /\ f[i] \in Devices
               /\ f[i].id = kern[i].id /\ f[i].name = kern[i].name
               /\ f[i].val >= kern[i].val /\ f[i].age = kern[i].age + 1
    <3>1. kern[i] \in Devices
      BY <1>2
    <3>2. f[i] = [kern[i] EXCEPT !.age = @ + 1]
      OBVIOUS
    <3> HIDE DEF f
    <3> QED BY <3>1, <3>2 DEF Devices
  <2>4. f \in Seq(Devices) /\ Len(f) = Len(kern)
    <3>1. f = [i \in 1 .. Len(kern) |-> f[i]]
      OBVIOUS
    <3> HIDE DEF f
    <3>2. \A i \in 1 .. Len(kern) : f[i] \in Devices
      BY <2>3
    <3> QED BY <1>2, <3>1, <3>2
  <2>5. f = kern'
    BY <2>1
  <2> HIDE DEF f
  <2>6. Orderly(f) /\ Keeps(f, kern, 1)
    BY <1>3, <2>3, <2>4
  <2> QED BY <1>1, <2>2, <2>5, <2>6, ListsFollow
<1> QED BY <1>4, <1>5

\* A sample of some of the devices is what the next one is compared with.
LEMMA SampledSince ==
  ASSUME NEW s, Orderly(s), NEW c, Sublist(c, s)
  PROVE  Since(s, c, 0)
<1>1. s \in Seq(Devices) /\ Len(s) \in Nat
  BY DEF Orderly
<1>2. \A l \in 1 .. Len(c) : \E j \in 1 .. Len(s) : c[l] = s[j]
  BY SublistOrderly
<1>3. ASSUME NEW i \in 1 .. Len(s), NEW j \in 1 .. Len(s), s[i].id = s[j].id \/ s[i].name = s[j].name
      PROVE  i = j
  <2>1. s[i] \in Devices /\ s[j] \in Devices
    BY <1>1
  <2>2. s[i].id \in Nat /\ s[j].id \in Nat
    BY <2>1 DEF Devices
  <2>3. ~ (i < j) /\ ~ (j < i)
    <3>1. i < j => s[i].id < s[j].id /\ s[i].name # s[j].name
      BY DEF Orderly
    <3>2. j < i => s[j].id < s[i].id /\ s[j].name # s[i].name
      BY DEF Orderly
    <3> QED BY <1>3, <2>2, <3>1, <3>2
  <2> QED BY <1>1, <2>3
<1>4. ASSUME NEW i \in 1 .. Len(s), NEW l \in 1 .. Len(c)
      PROVE  /\ s[i].id = c[l].id =>
                  s[i].name = c[l].name /\ s[i].val >= c[l].val /\ s[i].age >= 0
             /\ s[i].name = c[l].name => s[i].id = c[l].id
  <2>1. PICK j \in 1 .. Len(s) : c[l] = s[j]
    BY <1>2
  <2>2. s[i].id = c[l].id \/ s[i].name = c[l].name => i = j
    BY <1>3, <2>1
  <2>3. s[i] \in Devices
    BY <1>1
  <2>4. s[i].val >= s[i].val /\ s[i].age >= 0
    BY <2>3 DEF Devices
  <2> QED BY <2>1, <2>2, <2>4
<1> QED BY <1>4 DEF Since

LEMMA SinceOfSome ==
  ASSUME NEW s, Orderly(s), NEW c, Sublist(c, s), NEW p, NEW t, Since(s, p, t)
  PROVE  Since(c, p, t)
<1>1. \A l \in 1 .. Len(c) : \E j \in 1 .. Len(s) : c[l] = s[j]
  BY SublistOrderly
<1> QED BY <1>1 DEF Since

\* A sample that attributes rightly.
LEMMA TookLists ==
  ASSUME ListsInv, tbl \in DeviceTables, NEW c, Sublist(c, kern), NEW d, Took(c, d),
         Attributes(c, cur, d)
  PROVE  ListsInv'
<1>1. Lists /\ clock \in Nat /\ changes \in Nat /\ Orderly(kern) /\ kern \in Seq(Devices)
  BY DEF ListsInv, Lists, Orderly
<1>2. pre' = cur /\ cur' = c /\ dev' = d /\ clock' = 0 /\ UNCHANGED <<tbl, ktype, kern, changes>>
  BY DEF Took
<1>3. Orderly(c) /\ \A l \in 1 .. Len(c) : \E j \in 1 .. Len(kern) : c[l] = kern[j]
  BY <1>1, SublistOrderly
<1>4. Given(c, Bound) /\ Given(kern, Bound)
  BY <1>1, <1>3 DEF Lists, Given
<1>5. Since(kern, c, 0)
  BY <1>1, SampledSince
<1>6. Bound' = Bound
  BY <1>2 DEF Bound
<1>7. Lists'
  BY <1>1, <1>2, <1>3, <1>4, <1>5, <1>6 DEF Lists
<1>8. Attributed'
  <2>1. Attributed' <=> ((nsample' > 0 /\ tbl # "cpu") => Attributes(c, cur, d))
    <3>1. pre' = cur /\ cur' = c /\ dev' = d /\ tbl' = tbl
      BY <1>2
    <3> QED BY <3>1 DEF Attributed, Attributes
  <2> QED BY <2>1
<1>9. tbl' \in {"intf", "dsk", "nfs", "cpu", "flow", "off"} /\ tbl' \notin {"flow", "off"}
  BY <1>2 DEF DeviceTables
<1>10. clock' \in Nat /\ changes' \in Nat
  BY <1>1, <1>2
<1> QED BY <1>7, <1>8, <1>9, <1>10 DEF ListsInv

LEMMA SampleDskLists ==
  ASSUME ListsInv, SampleDsk PROVE ListsInv'
<1>0. tbl = "dsk" /\ tbl \in DeviceTables
  BY DEF SampleDsk, DeviceTables
<1>1. Lists /\ clock \in Nat /\ Orderly(kern) /\ Orderly(cur) /\ Since(kern, cur, clock)
      /\ kern \in Seq(Devices)
  BY <1>0 DEF ListsInv, Lists, Orderly
<1> DEFINE c == PhotoDsk
           S == {i \in DOMAIN kern : kern[i].val # 0}
           pl == Places(c, cur)
           d == DevDsk(c, cur)
<1>2. Sublist(c, kern)
  <2>1. S \subseteq DOMAIN kern /\ c = FirstOf(S)
    BY DEF PhotoDsk
  <2> HIDE DEF S, c
  <2> QED BY <1>1, <2>1, FirstOfIs
<1>3. Took(c, d) /\ d = Diff(c, cur, pl)
  BY DEF SampleDsk, DevDsk
<1> HIDE DEF c, d, pl
<1>4. Orderly(c) /\ Since(c, cur, clock)
  BY <1>1, <1>2, SublistOrderly, SinceOfSome
<1>5. Found(pl, c, cur)
  BY <1>0, <1>1, <1>4, PlacesFound DEF pl
<1>6. tbl # "nfs"
  BY <1>0
<1>7. Attributes(c, cur, Diff(c, cur, pl))
  BY <1>0, <1>1, <1>4, <1>5, <1>6, DiffRight
<1> QED BY <1>0, <1>2, <1>3, <1>7, TookLists

LEMMA SampleNfsLists ==
  ASSUME ListsInv, SampleNfs PROVE ListsInv'
<1>0. tbl = "nfs" /\ tbl \in DeviceTables /\ clock = DevInterval
  BY DEF SampleNfs, DeviceTables
<1>1. Lists /\ clock \in Nat /\ Orderly(kern) /\ Orderly(cur) /\ Since(kern, cur, clock)
      /\ kern \in Seq(Devices)
  BY <1>0 DEF ListsInv, Lists, Orderly
<1> DEFINE c == PhotoNfs
           pl == Places(c, cur)
           b == [i \in DOMAIN c |-> IF Young(c[i]) THEN 0 ELSE pl[i]]
           d == DevNfs(c, cur)
<1>2. Sublist(c, kern)
  <2>1. DOMAIN kern \subseteq DOMAIN kern /\ c = FirstOf(DOMAIN kern)
    BY DEF PhotoNfs
  <2> HIDE DEF c
  <2> QED BY <1>1, <2>1, FirstOfIs
<1>3. Took(c, d) /\ d = Diff(c, cur, b)
  BY DEF SampleNfs, DevNfs
<1> HIDE DEF c, d, pl
<1>4. Orderly(c) /\ Since(c, cur, clock)
  BY <1>1, <1>2, SublistOrderly, SinceOfSome
<1>5. Found(pl, c, cur)
  BY <1>0, <1>1, <1>4, PlacesFound DEF pl
<1>6. \A i \in 1 .. Len(c) : b[i] = IF tbl = "nfs" /\ Young(c[i]) THEN 0 ELSE pl[i]
  <2>1. DOMAIN c = 1 .. Len(c)
    BY <1>4 DEF Orderly
  <2> QED BY <1>0, <2>1
<1> HIDE DEF b
<1>7. Attributes(c, cur, Diff(c, cur, b))
  BY <1>0, <1>1, <1>4, <1>5, <1>6, DiffRight
<1> QED BY <1>0, <1>2, <1>3, <1>7, TookLists

LEMMA SampleIntfLists ==
  ASSUME ListsInv, NEW due \in BOOLEAN, SampleIntf(due) PROVE ListsInv'
<1>0. tbl = "intf" /\ tbl \in DeviceTables
  BY DEF SampleIntf, DeviceTables
<1>1. Lists /\ clock \in Nat /\ Orderly(kern) /\ Orderly(cur) /\ Since(kern, cur, clock)
      /\ kern \in Seq(Devices) /\ cur \in Seq(Devices)
  BY <1>0 DEF ListsInv, Lists, Orderly
<1> DEFINE c == PhotoIntf(ifhash')
           q == FirstIntf(c, cur)
           pl == Places(c, q)
           d == DevIntf(c, cur)
<1>2. Sublist(c, kern)
  <2>1. c = FirstOf({i \in DOMAIN kern : Valid(ifhash', kern[i].name)})
    BY DEF PhotoIntf, ValidIn
  <2> DEFINE S == {i \in DOMAIN kern : Valid(ifhash', kern[i].name)}
  <2>2. S \subseteq DOMAIN kern /\ c = FirstOf(S)
    BY <2>1
  <2> HIDE DEF S, c
  <2> QED BY <1>1, <2>2, FirstOfIs
<1>3. Took(c, d) /\ d = Diff(c, q, pl)
  BY DEF SampleIntf, DevIntf
<1>a. q = IF cur = << >> THEN [i \in DOMAIN c |-> [c[i] EXCEPT !.val = 0]] ELSE cur
  BY DEF FirstIntf
<1> HIDE DEF c, d, q, pl
<1>4. Orderly(c) /\ Since(c, cur, clock) /\ c \in Seq(Devices) /\ Len(c) \in Nat /\ DOMAIN c = 1 .. Len(c)
  <2>1. Orderly(c)
    BY <1>1, <1>2, SublistOrderly
  <2>2. Since(c, cur, clock)
    BY <1>1, <1>2, SinceOfSome
  <2> QED BY <2>1, <2>2 DEF Orderly
<1>5. tbl # "nfs" /\ DOMAIN d = 1 .. Len(c)
  BY <1>0, <1>3, <1>4 DEF Diff
<1>6. CASE cur # << >>
  <2>1. q = cur
    BY <1>6, <1>a
  <2>2. Found(pl, c, cur)
    BY <1>0, <1>1, <1>4, <2>1, PlacesFound DEF pl
  <2>3. Attributes(c, cur, Diff(c, cur, pl))
    BY <1>0, <1>1, <1>4, <1>5, <2>2, DiffRight
  <2> QED BY <1>0, <1>2, <1>3, <2>1, <2>3, TookLists
<1>7. CASE cur = << >>
  <2>1. ASSUME NEW i \in 1 .. Len(c)
        PROVE  q[i] \in Devices /\ q[i].id = c[i].id /\ q[i].name = c[i].name /\ q[i].val = 0
               /\ q[i].age = c[i].age /\ c[i] \in Devices
    <3>1. q[i] = [c[i] EXCEPT !.val = 0] /\ c[i] \in Devices
      BY <1>4, <1>7, <1>a
    <3> QED BY <3>1 DEF Devices
  <2>2. q \in Seq(Devices) /\ Len(q) = Len(c)
    <3>1. DOMAIN q = 1 .. Len(c) /\ q = [i \in 1 .. Len(c) |-> q[i]]
      BY <1>4, <1>7, <1>a
    <3> QED BY <1>4, <2>1, <3>1
  <2>3. Orderly(q)
    BY <1>4, <2>1, <2>2 DEF Orderly
  <2>4. Since(c, q, 0)
    <3>1. Since(c, c, 0)
      <4>1. Sublist(c, c)
        <5> DEFINE m == [k \in 1 .. Len(c) |-> k]
        <5>1. m \in [1 .. Len(c) -> 1 .. Len(c)] /\ \A k \in 1 .. Len(c) : m[k] = k
          OBVIOUS
        <5> HIDE DEF m
        <5>2. \A k, l \in 1 .. Len(c) : k < l => m[k] < m[l]
          BY <5>1
        <5> QED BY <1>4, <5>1, <5>2 DEF Sublist
      <4> QED BY <1>4, <4>1, SampledSince
    <3>2. \A i \in 1 .. Len(c) : c[i].val >= 0
      BY <2>1 DEF Devices
    <3> QED BY <2>1, <2>2, <3>1, <3>2 DEF Since
  <2>5. Found(pl, c, q)
    BY <1>0, <1>4, <2>3, <2>4, PlacesFound DEF pl
  <2>6. ASSUME NEW i \in 1 .. Len(c) PROVE d[i].name = c[i].name /\ d[i].val = c[i].val /\ c[i].val \in Nat
    <3> DEFINE a == pl[i]
    <3>1. a \in 0 .. Len(q)
      BY <2>5 DEF Found
    <3>2. /\ d[i].name = c[i].name
          /\ a = 0 => d[i].val = c[i].val
          /\ a # 0 /\ q[a].val <= c[i].val => d[i].val = c[i].val - q[a].val
      BY <1>3, <1>4, <2>2, <3>1, DiffIs
    <3>3. c[i].val \in Nat
      BY <2>1 DEF Devices
    <3> HIDE DEF a
    <3>4. a # 0 => q[a].val = 0
      BY <1>4, <2>1, <2>2, <3>1
    <3> QED BY <3>2, <3>3, <3>4
  <2>7. \A i \in DOMAIN cur : FALSE
    BY <1>7
  <2>8. Attributes(c, cur, d)
    <3> HIDE DEF Attributed
    <3> SUFFICES ASSUME NEW i \in 1 .. Len(c)
                 PROVE  /\ d[i].name = c[i].name /\ d[i].val \in 0 .. c[i].val
                        /\ d[i].val = c[i].val
                        /\ {j \in DOMAIN cur : cur[j].id = c[i].id} = {}
      BY <1>5, Zenon DEF Attributes
    <3>1. {j \in DOMAIN cur : cur[j].id = c[i].id} = {}
      BY <2>7
    <3> QED BY <2>6, <3>1
  <2> QED BY <1>0, <1>2, <1>3, <2>8, TookLists
<1> QED BY <1>6, <1>7

LEMMA ListsStart == DevInit \/ DevOff => ListsInv
<1> SUFFICES ASSUME DevInit \/ DevOff PROVE ListsInv
  OBVIOUS
<1>1. clock = 0 /\ changes = 0 /\ nsample = 0 /\ cur = << >>
  BY DEF DevInit, DevOff
<1>2. tbl \in {"intf", "dsk", "nfs", "cpu", "flow", "off"}
  BY SysDevAssumption DEF DevInit, DevOff
<1>3. Attributed
  BY <1>1 DEF Attributed
<1>4. ASSUME tbl \in DeviceTables PROVE Lists
  <2> DEFINE n == Cardinality(Names)
  <2>1. kern = [i \in 1 .. n |-> Device(Nth(Names, i), i)]
    BY <1>4 DEF DevInit, DevOff, DeviceTables
  <2>2. n \in Nat /\ IsFiniteSet(Names) /\ Names \subseteq Nat
    BY SysDevAssumption, FS_CardinalityType
  <2>3. \A i \in 1 .. n : Nth(Names, i) \in Nat
    BY <2>2, NthIs
  <2>4. \A i, j \in 1 .. n : i < j => Nth(Names, i) < Nth(Names, j)
    BY <2>2, NthGrows
  <2>5. Bound = n
    BY <1>1, <2>2 DEF Bound
  <2> HIDE DEF n
  <2>6. ASSUME NEW i \in 1 .. n
        PROVE  kern[i] \in Devices /\ kern[i].name = Nth(Names, i) /\ kern[i].id = i
               /\ kern[i].name \in Nat
    BY <2>1, <2>3 DEF Device, Devices
  <2>7. kern \in Seq(Devices) /\ Len(kern) = n
    <3>1. kern = [i \in 1 .. n |-> kern[i]]
      BY <2>1
    <3> QED BY <2>2, <2>6, <3>1
  <2>8. Orderly(kern)
    <3>1. ASSUME NEW i \in 1 .. n, NEW j \in 1 .. n, i < j
          PROVE  kern[i].id < kern[j].id /\ kern[i].name # kern[j].name
      <4>1. Nth(Names, i) < Nth(Names, j) /\ Nth(Names, i) \in Nat /\ Nth(Names, j) \in Nat
        BY <2>3, <2>4, <3>1
      <4> QED BY <2>6, <3>1, <4>1
    <3> QED BY <2>6, <2>7, <3>1 DEF Orderly
  <2>9. Given(kern, Bound)
    BY <2>2, <2>5, <2>6, <2>7 DEF Given
  <2>10. Len(cur) = 0 /\ cur \in Seq(Devices)
    BY <1>1
  <2>11. Orderly(cur) /\ Given(cur, Bound) /\ Since(kern, cur, clock)
    BY <2>10 DEF Orderly, Given, Since
  <2> QED BY <2>8, <2>9, <2>11 DEF Lists
<1> QED BY <1>1, <1>2, <1>3, <1>4 DEF ListsInv

LEMMA ListsFixed ==
  ASSUME ListsInv, UNCHANGED <<tbl, nsample, pre, cur, dev>>, clock' \in Nat, changes' \in Nat,
         tbl \in DeviceTables => Lists'
  PROVE  ListsInv'
<1>1. Attributed'
  <2>1. Attributed /\ pre' = pre /\ cur' = cur /\ dev' = dev /\ tbl' = tbl /\ nsample' = nsample
    BY DEF ListsInv
  <2> QED BY <2>1 DEF Attributed
<1>2. tbl' = tbl /\ nsample' = nsample
  OBVIOUS
<1> QED BY <1>1, <1>2 DEF ListsInv

LEMMA ListsNextInv == ListsInv /\ DevNext => ListsInv'
<1> SUFFICES ASSUME ListsInv, DevNext PROVE ListsInv'
  OBVIOUS
<1>0. clock \in Nat /\ changes \in Nat
  BY DEF ListsInv
<1>1. CASE System
  <2>1. UNCHANGED <<tbl, nsample, pre, cur, dev>>
    BY <1>1 DEF System, Plug, Unplug, Hotplug, Work, Tick
  <2>2. clock' \in Nat /\ changes' \in Nat
    BY <1>0, <1>1 DEF System, Plug, Unplug, Hotplug, Work, Tick
  <2>3. ~ Hotplug \/ tbl \notin DeviceTables
    BY DEF Hotplug, DeviceTables
  <2>4. tbl \in DeviceTables => Lists'
    BY <1>1, <2>3, PlugLists, UnplugLists, WorkLists DEF System
  <2> QED BY <2>1, <2>2, <2>4, ListsFixed
<1>2. CASE Sample
  <2>1. CASE \E usable \in BOOLEAN : SampleCpu(usable)
    <3>1. tbl = "cpu" /\ tbl' = "cpu" /\ clock' = 0 /\ changes' = changes
      BY <2>1 DEF SampleCpu, Took
    <3>2. Attributed'
      BY <3>1 DEF Attributed
    <3> QED BY <1>0, <3>1, <3>2 DEF ListsInv, DeviceTables
  <2> QED BY <1>2, <2>1, SampleIntfLists, SampleDskLists, SampleNfsLists DEF Sample
<1>3. CASE UNCHANGED dvars
  <2>1. UNCHANGED <<tbl, nsample, pre, cur, dev>> /\ UNCHANGED <<kern, clock, changes>>
    BY <1>3 DEF dvars
  <2>2. Lists => Lists'
    BY <2>1 DEF Lists, Bound
  <2>3. clock' \in Nat /\ changes' \in Nat /\ (tbl \in DeviceTables => Lists')
    BY <1>0, <2>1, <2>2 DEF ListsInv
  <2> QED BY <2>1, <2>3, ListsFixed
<1> QED BY <1>1, <1>2, <1>3 DEF DevNext
-----------------------------------------------------------------------------
(***************************************************************************)
(* The interfaces that are taken away.                                     *)
(***************************************************************************)
Kinds == {"v", "e", "?", "i"}
Left(t) == {y \in DOMAIN t : t[y] # "i"}
Ethers(t) == {y \in DOMAIN t : t[y] = "e"}

\* One turn of the loop, for the interface x.
PassStep(s, x) ==
  IF s.n < MAXENT THEN s
  ELSE IF s.tab[x] = "e"
  THEN IF s.phys >= MAXENT
       THEN [tab |-> [s.tab EXCEPT ![x] = "i"], n |-> s.n - 1, phys |-> s.phys - 1]
       ELSE s
  ELSE [tab |-> [s.tab EXCEPT ![x] = "i"], n |-> s.n - 1, phys |-> s.phys]

PassState(D) == [tab : [D -> Kinds], n : Int, phys : Int]

\* What is true when the loop has come to the k-th interface: those behind it
\* are what they were; as long as there are too many, nothing but physical
\* ones are left before it, and these fit; n and phys count.
Passed(tab, D, k, s) ==
  /\ s \in PassState(D)
  /\ \A y \in D : s.tab[y] = tab[y] \/ s.tab[y] = "i"
  /\ s.n = Cardinality(Left(s.tab)) /\ Cardinality(Ethers(s.tab)) <= s.phys
  /\ \A y \in D : (\A l \in 1 .. k : Nth(D, l) # y) => s.tab[y] = tab[y]
  /\ s.n >= MAXENT => \A l \in 1 .. k : \/ s.tab[Nth(D, l)] = "i"
                                        \/ s.tab[Nth(D, l)] = "e" /\ s.phys < MAXENT
  /\ Cardinality(Physical(tab)) < MAXENT =>
       s.phys < MAXENT /\ \A y \in D : tab[y] = "e" => s.tab[y] = "e"

LEMMA PassesOn ==
  ASSUME NEW D, IsFiniteSet(D), D \subseteq Nat,
         NEW tab \in [D -> {"v", "e", "?"}],
         NEW k \in 1 .. Cardinality(D), NEW s, Passed(tab, D, k - 1, s)
  PROVE  Passed(tab, D, k, PassStep(s, Nth(D, k)))
<1> DEFINE x == Nth(D, k)
           r == PassStep(s, x)
<1>0. MAXENT \in Nat /\ MAXENT > 1 /\ Cardinality(D) \in Nat
  BY SysDevAssumption, FS_CardinalityType
<1>1. /\ s \in PassState(D)
      /\ \A y \in D : s.tab[y] = tab[y] \/ s.tab[y] = "i"
      /\ s.n = Cardinality(Left(s.tab)) /\ Cardinality(Ethers(s.tab)) <= s.phys
      /\ \A y \in D : (\A l \in 1 .. k - 1 : Nth(D, l) # y) => s.tab[y] = tab[y]
      /\ s.n >= MAXENT => \A l \in 1 .. k - 1 : \/ s.tab[Nth(D, l)] = "i"
                                                \/ s.tab[Nth(D, l)] = "e" /\ s.phys < MAXENT
      /\ Cardinality(Physical(tab)) < MAXENT =>
           s.phys < MAXENT /\ \A y \in D : tab[y] = "e" => s.tab[y] = "e"
  BY DEF Passed
<1>2. x \in D
  BY NthIs
<1>3. \A l \in 1 .. k - 1 : l \in 1 .. Cardinality(D) /\ Nth(D, l) # x
  <2> TAKE l \in 1 .. k - 1
  <2>1. l \in 1 .. Cardinality(D) /\ l < k
    BY <1>0
  <2>2. Nth(D, l) < x
    BY <2>1, NthGrows
  <2>3. Nth(D, l) \in Nat /\ x \in Nat
    BY <1>2, <2>1, NthIs
  <2> QED BY <2>1, <2>2, <2>3
<1>4. x = Nth(D, k) /\ \A l \in 1 .. k : l \in 1 .. k - 1 \/ l = k
  BY <1>0
<1>5. s.tab \in [D -> Kinds] /\ s.n \in Int /\ s.phys \in Int
      /\ s = [tab |-> s.tab, n |-> s.n, phys |-> s.phys]
  BY <1>1 DEF PassState
<1>6. s.tab[x] = tab[x] /\ tab[x] \in {"v", "e", "?"}
  BY <1>1, <1>2, <1>3
<1> HIDE DEF x
<1>a. r = IF s.n < MAXENT THEN s
          ELSE IF s.tab[x] = "e"
          THEN IF s.phys >= MAXENT
               THEN [tab |-> [s.tab EXCEPT ![x] = "i"], n |-> s.n - 1, phys |-> s.phys - 1]
               ELSE s
          ELSE [tab |-> [s.tab EXCEPT ![x] = "i"], n |-> s.n - 1, phys |-> s.phys]
  BY <1>5 DEF PassStep
<1> HIDE DEF r
<1>7. \A y \in D : (\A l \in 1 .. k : Nth(D, l) # y) => (\A l \in 1 .. k - 1 : Nth(D, l) # y) /\ y # x
  BY <1>0, <1>4
<1>8. CASE s.n < MAXENT
  <2>1. r = s /\ ~ (s.n >= MAXENT)
    BY <1>0, <1>5, <1>8, <1>a
  <2>2. Passed(tab, D, k, s)
    BY <1>1, <1>7, <2>1 DEF Passed
  <2> QED BY <2>1, <2>2 DEF r, x
<1>9. CASE ~ (s.n < MAXENT) /\ s.tab[x] = "e" /\ ~ (s.phys >= MAXENT)
  <2>1. r = s /\ s.n >= MAXENT /\ s.phys < MAXENT
    BY <1>0, <1>5, <1>9, <1>a
  <2>2. \A l \in 1 .. k : \/ s.tab[Nth(D, l)] = "i"
                          \/ s.tab[Nth(D, l)] = "e" /\ s.phys < MAXENT
    BY <1>1, <1>4, <1>9, <2>1
  <2>3. Passed(tab, D, k, s)
    BY <1>1, <1>7, <2>2 DEF Passed
  <2> QED BY <2>1, <2>3 DEF r, x
<1>10. ASSUME NEW t, t = [s.tab EXCEPT ![x] = "i"]
       PROVE  /\ t \in [D -> Kinds] /\ t[x] = "i" /\ \A y \in D : y # x => t[y] = s.tab[y]
              /\ Cardinality(Left(t)) = Cardinality(Left(s.tab)) - 1
              /\ Cardinality(Ethers(t)) = IF s.tab[x] = "e" THEN Cardinality(Ethers(s.tab)) - 1
                                         ELSE Cardinality(Ethers(s.tab))
              /\ Cardinality(Ethers(s.tab)) \in Nat
  <2>1. t \in [D -> Kinds] /\ t[x] = "i" /\ (\A y \in D : y # x => t[y] = s.tab[y]) /\ DOMAIN s.tab = D
    BY <1>2, <1>5, <1>10 DEF Kinds
  <2>2. DOMAIN t = D
    BY <2>1
  <2>3. Left(t) = Left(s.tab) \ {x} /\ x \in Left(s.tab)
    BY <1>2, <1>6, <2>1, <2>2 DEF Left
  <2>4. Ethers(t) = Ethers(s.tab) \ {x} /\ (x \in Ethers(s.tab) <=> s.tab[x] = "e")
    BY <1>2, <1>6, <2>1, <2>2 DEF Ethers
  <2>5. Left(s.tab) \in SUBSET D /\ Ethers(s.tab) \in SUBSET D
    BY <2>1 DEF Left, Ethers
  <2>6. IsFiniteSet(Left(s.tab)) /\ IsFiniteSet(Ethers(s.tab))
    BY <2>5, FS_Subset
  <2>7. Cardinality(Ethers(s.tab)) \in Nat
    BY <2>6, FS_CardinalityType
  <2>8. Cardinality(Left(t)) = Cardinality(Left(s.tab)) - 1
    BY <2>3, <2>6, FS_RemoveElement
  <2>9. Cardinality(Ethers(t)) = IF s.tab[x] = "e" THEN Cardinality(Ethers(s.tab)) - 1
                                 ELSE Cardinality(Ethers(s.tab))
    <3>1. CASE s.tab[x] = "e"
      BY <2>4, <2>6, <3>1, FS_RemoveElement
    <3>2. CASE s.tab[x] # "e"
      <4>1. Ethers(t) = Ethers(s.tab)
        BY <2>4, <3>2
      <4> QED BY <3>2, <4>1
    <3> QED BY <3>1, <3>2
  <2> QED BY <2>1, <2>7, <2>8, <2>9
<1>11. CASE ~ (s.n < MAXENT) /\ (s.tab[x] = "e" => s.phys >= MAXENT)
  <2> DEFINE t == [s.tab EXCEPT ![x] = "i"]
             f == IF s.tab[x] = "e" THEN s.phys - 1 ELSE s.phys
  <2>1. r = [tab |-> t, n |-> s.n - 1, phys |-> f] /\ s.n >= MAXENT
    BY <1>0, <1>5, <1>11, <1>a
  <2>2. f \in Int /\ f <= s.phys /\ (s.tab[x] = "e" => f = s.phys - 1) /\ (s.tab[x] # "e" => f = s.phys)
    BY <1>5
  <2>3. /\ t \in [D -> Kinds] /\ t[x] = "i" /\ \A y \in D : y # x => t[y] = s.tab[y]
        /\ Cardinality(Left(t)) = Cardinality(Left(s.tab)) - 1
        /\ Cardinality(Ethers(t)) = IF s.tab[x] = "e" THEN Cardinality(Ethers(s.tab)) - 1
                                   ELSE Cardinality(Ethers(s.tab))
        /\ Cardinality(Ethers(s.tab)) \in Nat
    BY <1>10
  <2> HIDE DEF t, f
  <2>4. r.tab = t /\ r.n = s.n - 1 /\ r.phys = f /\ r \in PassState(D)
    BY <1>5, <2>1, <2>2, <2>3 DEF PassState
  <2>5. \A y \in D : t[y] = tab[y] \/ t[y] = "i"
    BY <1>1, <2>3
  <2>6. r.n = Cardinality(Left(t)) /\ Cardinality(Ethers(t)) <= f
    BY <1>1, <1>5, <2>2, <2>3, <2>4
  <2>7. \A y \in D : (\A l \in 1 .. k : Nth(D, l) # y) => t[y] = tab[y]
    BY <1>1, <1>7, <2>3
  <2>8. ASSUME NEW l \in 1 .. k
        PROVE  t[Nth(D, l)] = "i" \/ (t[Nth(D, l)] = "e" /\ f < MAXENT)
    <3>1. CASE l = k
      BY <1>4, <2>3, <3>1
    <3>2. CASE l \in 1 .. k - 1
      <4> DEFINE z == Nth(D, l)
      <4>1. z \in D /\ z # x
        BY <1>3, <3>2, NthIs
      <4>2. s.tab[z] = "i" \/ (s.tab[z] = "e" /\ s.phys < MAXENT)
        BY <1>1, <2>1, <3>2
      <4> HIDE DEF z
      <4>3. t[z] = "i" \/ (t[z] = "e" /\ f < MAXENT)
        BY <1>0, <1>5, <2>2, <2>3, <4>1, <4>2
      <4> QED BY <4>3 DEF z
    <3> QED BY <1>4, <3>1, <3>2
  <2>9. ASSUME Cardinality(Physical(tab)) < MAXENT
        PROVE  f < MAXENT /\ \A y \in D : tab[y] = "e" => t[y] = "e"
    <3>1. s.phys < MAXENT /\ \A y \in D : tab[y] = "e" => s.tab[y] = "e"
      BY <1>1, <2>9
    <3>2. s.tab[x] # "e"
      BY <1>0, <1>5, <1>11, <3>1
    <3>3. tab[x] # "e"
      BY <1>6, <3>2
    <3> QED BY <2>2, <2>3, <3>1, <3>2, <3>3
  <2>10. Cardinality(Physical(tab)) < MAXENT =>
           r.phys < MAXENT /\ \A y \in D : tab[y] = "e" => r.tab[y] = "e"
    BY <2>4, <2>9
  <2>11. ASSUME NEW l \in 1 .. k
         PROVE  r.tab[Nth(D, l)] = "i" \/ (r.tab[Nth(D, l)] = "e" /\ r.phys < MAXENT)
    <3>1. t[Nth(D, l)] = "i" \/ (t[Nth(D, l)] = "e" /\ f < MAXENT)
      BY <2>8
    <3> HIDE DEF r
    <3> QED BY <2>4, <3>1
  <2>12. /\ \A y \in D : r.tab[y] = tab[y] \/ r.tab[y] = "i"
         /\ \A y \in D : (\A l \in 1 .. k : Nth(D, l) # y) => r.tab[y] = tab[y]
         /\ r.n = Cardinality(Left(r.tab)) /\ Cardinality(Ethers(r.tab)) <= r.phys
    BY <2>4, <2>5, <2>6, <2>7
  <2> HIDE DEF r
  <2>13. Passed(tab, D, k, r)
    BY <2>4, <2>10, <2>11, <2>12 DEF Passed
  <2> QED BY <2>13 DEF r, x
<1> QED BY <1>8, <1>9, <1>11

Passes(w, tab) ==
  w = [k \in 0 .. Cardinality(DOMAIN tab) |->
         IF k = 0 THEN [tab |-> tab, n |-> Cardinality(DOMAIN tab), phys |-> Cardinality(Physical(tab))]
         ELSE PassStep(w[k - 1], Nth(DOMAIN tab, k))]

\* What is left fits in the table, and the physical interfaces are left if they fit.
Fits(t, tab) ==
  /\ DOMAIN t = DOMAIN tab
  /\ \A y \in DOMAIN tab : t[y] = tab[y] \/ t[y] = "i"
  /\ Cardinality(Left(t)) < MAXENT
  /\ Cardinality(Physical(tab)) < MAXENT => \A y \in DOMAIN tab : tab[y] = "e" => t[y] = "e"

LEMMA InvalidateFits ==
  ASSUME NEW D, IsFiniteSet(D), D \subseteq Nat, NEW tab \in [D -> {"v", "e", "?"}]
  PROVE  Fits(Invalidate(tab), tab)
<1> DEFINE n == Cardinality(D)
           e == [tab |-> tab, n |-> Cardinality(D), phys |-> Cardinality(Physical(tab))]
           F == [ks \in (1 .. n) \X PassState(D) |-> PassStep(ks[2], Nth(D, ks[1]))]
           w == CHOOSE v : Passes(v, tab)
<1>0. n \in Nat /\ DOMAIN tab = D /\ MAXENT \in Nat /\ MAXENT > 1
  BY FS_CardinalityType, SysDevAssumption
<1>1. Passed(tab, D, 0, e)
  <2>1. Physical(tab) \in SUBSET D /\ Ethers(tab) \in SUBSET Physical(tab) /\ Left(tab) = D
    BY <1>0 DEF Physical, Ethers, Left
  <2>2. IsFiniteSet(Physical(tab)) /\ Cardinality(Ethers(tab)) <= Cardinality(Physical(tab))
        /\ Cardinality(Physical(tab)) <= n
    BY <2>1, FS_Subset
  <2>3. Cardinality(Physical(tab)) \in Nat /\ tab \in [D -> Kinds]
    BY <2>2, FS_CardinalityType DEF Kinds
  <2>4. e \in PassState(D) /\ e.tab = tab /\ e.n = n /\ e.phys = Cardinality(Physical(tab))
    BY <1>0, <2>3 DEF PassState
  <2> HIDE DEF e
  <2>5. \A l \in 1 .. 0 : FALSE
    OBVIOUS
  <2> QED BY <2>1, <2>2, <2>4, <2>5 DEF Passed
<1>2. e \in PassState(D)
  BY <1>1 DEF Passed
<1>3. ASSUME NEW k \in 1 .. n, NEW s \in PassState(D), Passed(tab, D, k - 1, s)
      PROVE  Passed(tab, D, k, PassStep(s, Nth(D, k)))
  BY <1>3, PassesOn
<1>4. ASSUME NEW k \in 1 .. n, NEW s \in PassState(D)
      PROVE  F[<<k, s>>] = PassStep(s, Nth(D, k)) /\ F[<<k, s>>] \in PassState(D)
  <2>1. F[<<k, s>>] = PassStep(s, Nth(D, k))
    OBVIOUS
  <2> HIDE DEF F
  <2>2. Nth(D, k) \in D
    BY NthIs
  <2> DEFINE x == Nth(D, k)
             r == PassStep(s, x)
  <2>3. x \in D
    BY <2>2
  <2> HIDE DEF x
  <2>4. s.tab \in [D -> Kinds] /\ s.n \in Int /\ s.phys \in Int
    BY DEF PassState
  <2> DEFINE t == [s.tab EXCEPT ![x] = "i"]
  <2>5. t \in [D -> Kinds]
    BY <2>3, <2>4 DEF Kinds
  <2>6. r \in {s, [tab |-> t, n |-> s.n - 1, phys |-> s.phys - 1],
               [tab |-> t, n |-> s.n - 1, phys |-> s.phys]}
    BY DEF PassStep
  <2> HIDE DEF t, r
  <2>7. r \in PassState(D)
    BY <2>4, <2>5, <2>6 DEF PassState
  <2> QED BY <2>1, <2>7 DEF r, x
<1> HIDE DEF F, e, n
<1>5. PICK g : g \in [0 .. n -> PassState(D)] /\ g[0] = e /\ \A k \in 1 .. n : g[k] = F[<<k, g[k - 1]>>]
  <2>1. Stays(F, n, PassState(D))
    BY <1>4 DEF Stays
  <2>2. \E g : Iterates(g, F, n, PassState(D), e)
    BY <1>0, <1>2, <2>1, Iterated
  <2> QED BY <2>2 DEF Iterates
<1>6. \A k \in 1 .. n : g[k - 1] \in PassState(D) /\ g[k] = PassStep(g[k - 1], Nth(D, k))
  <2> TAKE k \in 1 .. n
  <2>1. g[k - 1] \in PassState(D)
    BY <1>0, <1>5
  <2> QED BY <1>4, <1>5, <2>1
<1>7. Passes(g, tab)
  <2>1. \A k \in 0 .. n : g[k] = IF k = 0 THEN e ELSE PassStep(g[k - 1], Nth(D, k))
    <3> TAKE k \in 0 .. n
    <3>1. k # 0 => k \in 1 .. n
      BY <1>0
    <3> QED BY <1>5, <1>6, <3>1
  <2>2. g = [k \in 0 .. n |-> g[k]]
    BY <1>5
  <2>3. g = [k \in 0 .. n |-> IF k = 0 THEN e ELSE PassStep(g[k - 1], Nth(D, k))]
    BY <2>1, <2>2
  <2> QED BY <1>0, <2>3, Zenon DEF Passes, e, n
<1>8. Passes(w, tab)
  BY <1>7
<1>9. Invalidate(tab) = w[n].tab
  BY <1>0, Zenon DEF Invalidate, Passes, PassStep, n
<1> HIDE DEF w
<1>10. w[0] = e /\ \A k \in 1 .. n : w[k] = PassStep(w[k - 1], Nth(D, k))
  <2>1. w = [k \in 0 .. n |-> IF k = 0 THEN e ELSE PassStep(w[k - 1], Nth(D, k))]
    BY <1>0, <1>8, Zenon DEF Passes, e, n
  <2>2. \A k \in 0 .. n : w[k] = IF k = 0 THEN e ELSE PassStep(w[k - 1], Nth(D, k))
    BY <2>1, Zenon
  <2>3. 0 \in 0 .. n /\ \A k \in 1 .. n : k \in 0 .. n /\ k # 0
    BY <1>0
  <2> QED BY <2>2, <2>3
<1>11. Passed(tab, D, n, w[n])
  <2> DEFINE G == {k \in 0 .. n : Passed(tab, D, k, w[k])}
  <2>1. 0 \in G
    BY <1>0, <1>1, <1>10
  <2>2. ASSUME NEW k \in 1 .. n, k - 1 \in G PROVE k \in G
    <3>1. Passed(tab, D, k - 1, w[k - 1]) /\ w[k - 1] \in PassState(D)
      BY <2>2 DEF Passed
    <3>2. Passed(tab, D, k, PassStep(w[k - 1], Nth(D, k)))
      BY <1>3, <3>1
    <3>3. k \in 0 .. n /\ w[k] = PassStep(w[k - 1], Nth(D, k))
      BY <1>0, <1>10
    <3> QED BY <3>2, <3>3
  <2> HIDE DEF G
  <2>3. 0 .. n \subseteq G /\ n \in 0 .. n
    BY <1>0, <2>1, <2>2, Upwards
  <2> QED BY <2>3 DEF G
<1> DEFINE s == w[n]
<1> HIDE DEF s
<1>12. /\ s \in PassState(D)
       /\ \A y \in D : s.tab[y] = tab[y] \/ s.tab[y] = "i"
       /\ s.n = Cardinality(Left(s.tab)) /\ Cardinality(Ethers(s.tab)) <= s.phys
       /\ s.n >= MAXENT => \A l \in 1 .. n : s.tab[Nth(D, l)] = "i" \/ (s.tab[Nth(D, l)] = "e" /\ s.phys < MAXENT)
       /\ Cardinality(Physical(tab)) < MAXENT =>
            s.phys < MAXENT /\ \A y \in D : tab[y] = "e" => s.tab[y] = "e"
  BY <1>11 DEF Passed, s
<1>13. DOMAIN s.tab = D /\ s.n \in Int /\ s.phys \in Int
  BY <1>12 DEF PassState
<1>14. s.n < MAXENT
  <2> SUFFICES ASSUME ~ (s.n < MAXENT) PROVE FALSE
    OBVIOUS
  <2>1. s.n >= MAXENT
    BY <1>0, <1>13
  <2>2. ASSUME NEW y \in D PROVE s.tab[y] = "i" \/ (s.tab[y] = "e" /\ s.phys < MAXENT)
    <3>1. PICK l \in 1 .. n : Nth(D, l) = y
      BY NthAll DEF n
    <3> QED BY <1>12, <2>1, <3>1
  <2>3. Left(s.tab) = Ethers(s.tab)
    BY <1>13, <2>2 DEF Left, Ethers
  <2>4. CASE \E y \in D : s.tab[y] = "e"
    <3>1. s.phys < MAXENT
      BY <2>2, <2>4
    <3> QED BY <1>0, <1>12, <1>13, <2>1, <2>3, <3>1
  <2>5. CASE ~ \E y \in D : s.tab[y] = "e"
    <3>1. Ethers(s.tab) = {}
      BY <1>13, <2>5 DEF Ethers
    <3> QED BY <1>0, <1>12, <2>1, <2>3, <3>1, FS_EmptySet
  <2> QED BY <2>4, <2>5
<1>15. Invalidate(tab) = s.tab
  BY <1>9 DEF s
<1> QED BY <1>0, <1>12, <1>13, <1>14, <1>15 DEF Fits

LEMMA UnplugNames ==
  ASSUME kern \in Seq(Devices), Unplug
  PROVE  \A i \in DOMAIN kern' : \E j \in DOMAIN kern : kern'[i].name = kern[j].name
<1>1. PICK x \in 1 .. Len(kern) : kern' = RemoveAt(kern, x)
  BY DEF Unplug
<1> DEFINE r == kern'
           n == Len(kern)
<1>2. /\ r \in Seq(Devices) /\ Len(r) = n - 1 /\ n \in Nat /\ DOMAIN kern = 1 .. n
      /\ \A k \in 1 .. n - 1 : r[k] = IF k < x THEN kern[k] ELSE kern[k + 1]
  BY <1>1, RemovedIs
<1> HIDE DEF r
<1>3. ASSUME NEW k \in 1 .. n - 1 PROVE \E j \in 1 .. n : r[k].name = kern[j].name
  <2>1. k \in 1 .. n /\ k + 1 \in 1 .. n
    BY <1>2
  <2> QED BY <1>2, <2>1
<1>4. DOMAIN r = 1 .. n - 1
  BY <1>2
<1> QED BY <1>2, <1>3, <1>4 DEF r

\* What is known of the interfaces comes from one pass over those there were.
Known(t) ==
  /\ IsFiniteSet(DOMAIN t)
  /\ \A y \in DOMAIN t : y \in Names /\ (t[y] = ktype[y] \/ t[y] = "i")
  /\ Cardinality(Left(t)) < MAXENT
  /\ Cardinality({y \in DOMAIN t : ktype[y] # "v"}) < MAXENT =>
       \A y \in DOMAIN t : ktype[y] = "e" => t[y] = "e"

PropInv ==
  /\ tbl = "intf" =>
       /\ ktype \in [Names -> {"v", "e", "?"}]
       /\ Known(ifhash)
       /\ \A i \in DOMAIN kern : kern[i].name \in Names
  /\ tbl # "intf" => ifhash = << >>

LEMMA NothingKnown == Known(<< >>)
<1>1. DOMAIN << >> = {}
  OBVIOUS
<1>2. Left(<< >>) = {}
  BY <1>1 DEF Left
<1>3. Cardinality({}) < MAXENT /\ IsFiniteSet({})
  BY SysDevAssumption, FS_EmptySet
<1> QED BY <1>1, <1>2, <1>3 DEF Known

LEMMA InterfacesKnown ==
  ASSUME tbl = "intf", PropInv, NEW due PROVE Known(InitIfprop(due))
<1>1. CASE ~ (due \/ ifhash = << >>)
  BY <1>1 DEF InitIfprop, PropInv
<1>2. CASE due \/ ifhash = << >>
  <2> DEFINE D == {kern[i].name : i \in DOMAIN kern}
             tab == [n \in D |-> ktype[n]]
             t == InitIfprop(due)
  <2>1. t = Invalidate(tab)
    BY <1>2 DEF InitIfprop
  <2>2. D \in SUBSET Names /\ ktype \in [Names -> {"v", "e", "?"}]
    BY DEF PropInv
  <2>3. IsFiniteSet(D) /\ D \subseteq Nat
    BY <2>2, SysDevAssumption, FS_Subset
  <2>4. tab \in [D -> {"v", "e", "?"}] /\ \A y \in D : tab[y] = ktype[y] /\ y \in Names
    BY <2>2
  <2>5. DOMAIN tab = D
    OBVIOUS
  <2> HIDE DEF D, tab, t
  <2>6. Fits(t, tab)
    BY <2>1, <2>3, <2>4, InvalidateFits
  <2>7. DOMAIN t = D /\ \A y \in D : t[y] = ktype[y] \/ t[y] = "i"
    BY <2>4, <2>5, <2>6 DEF Fits
  <2>8. Physical(tab) = {y \in DOMAIN t : ktype[y] # "v"}
    BY <2>4, <2>5, <2>7 DEF Physical
  <2>9. Known(t)
    BY <2>3, <2>4, <2>5, <2>6, <2>7, <2>8 DEF Known, Fits
  <2> QED BY <2>9 DEF t
<1> QED BY <1>1, <1>2

LEMMA PropStarts == DevInit \/ DevOff => PropInv
<1> SUFFICES ASSUME DevInit \/ DevOff PROVE PropInv
  OBVIOUS
<1>1. ifhash = << >>
  BY DEF DevInit, DevOff
<1>2. Known(ifhash)
  BY <1>1, NothingKnown
<1>3. ASSUME tbl = "intf" PROVE ktype \in [Names -> {"v", "e", "?"}]
  <2>1. ktype \in [Names -> Types]
    BY <1>3 DEF DevInit, DevOff
  <2> QED BY <2>1, SysDevAssumption
<1>4. ASSUME tbl = "intf", NEW i \in DOMAIN kern PROVE kern[i].name \in Names
  <2> DEFINE n == Cardinality(Names)
  <2>1. kern = [j \in 1 .. n |-> Device(Nth(Names, j), j)]
    BY <1>4 DEF DevInit, DevOff
  <2>2. IsFiniteSet(Names) /\ Names \subseteq Nat
    BY SysDevAssumption
  <2>3. i \in 1 .. n /\ kern[i] = Device(Nth(Names, i), i)
    BY <1>4, <2>1
  <2>4. Nth(Names, i) \in Names
    BY <2>2, <2>3, NthIs
  <2>5. kern[i].name = Nth(Names, i)
    BY <2>3 DEF Device
  <2> QED BY <2>4, <2>5
<1> QED BY <1>1, <1>2, <1>3, <1>4 DEF PropInv

LEMMA PropNextInv == ListsInv /\ PropInv /\ DevNext => PropInv'
<1> SUFFICES ASSUME ListsInv, PropInv, DevNext PROVE PropInv'
  OBVIOUS
<1>1. CASE tbl # "intf"
  <2>1. tbl' = tbl /\ ifhash' = ifhash
    BY <1>1 DEF DevNext, System, Plug, Unplug, Hotplug, Work, Tick, Sample, SampleIntf, SampleDsk,
                SampleNfs, SampleCpu, Took, dvars
  <2> QED BY <1>1, <2>1 DEF PropInv
<1>2. CASE tbl = "intf"
  <2>0. /\ ktype \in [Names -> {"v", "e", "?"}] /\ Known(ifhash)
        /\ \A i \in DOMAIN kern : kern[i].name \in Names
    BY <1>2 DEF PropInv
  <2>a. Lists /\ kern \in Seq(Devices) /\ DOMAIN kern = 1 .. Len(kern)
    BY <1>2 DEF ListsInv, DeviceTables, Lists, Orderly
  <2>1. ASSUME UNCHANGED <<tbl, ktype>>, Known(ifhash'), NEW k, k = kern',
               \A i \in DOMAIN k : k[i].name \in Names
        PROVE  PropInv'
    <3>1. Known(ifhash)'
      BY <2>1 DEF Known
    <3> QED BY <1>2, <2>0, <2>1, <3>1 DEF PropInv
  <2>2. CASE Plug
    <3>1. PICK n \in Names : kern' = Append(kern, Device(n, Cardinality(Names) + changes + 1))
      BY <2>2 DEF Plug
    <3> DEFINE d == Device(n, Cardinality(Names) + changes + 1)
               k == Append(kern, d)
    <3>2. d.name = n
      BY DEF Device
    <3> HIDE DEF d
    <3>3. \A i \in DOMAIN k : k[i].name \in Names
      <4>1. DOMAIN k = 1 .. Len(kern) + 1 /\ k[Len(kern) + 1] = d /\ Len(kern) \in Nat
            /\ \A i \in 1 .. Len(kern) : k[i] = kern[i]
        BY <2>a
      <4>2. \A i \in 1 .. Len(kern) + 1 : i \in 1 .. Len(kern) \/ i = Len(kern) + 1
        BY <4>1
      <4> HIDE DEF k
      <4> QED BY <2>0, <2>a, <3>2, <4>1, <4>2
    <3>4. k = kern'
      BY <3>1 DEF d
    <3>5. UNCHANGED <<tbl, ktype>> /\ Known(ifhash')
      BY <2>0, <2>2 DEF Plug
    <3> HIDE DEF k
    <3> QED BY <2>1, <3>3, <3>4, <3>5
  <2>3. CASE Unplug \/ Work
    <3> DEFINE k == kern'
    <3>1. Lists' /\ tbl' = tbl /\ tbl \in DeviceTables
      BY <1>2, <2>3, UnplugLists, WorkLists DEF DeviceTables, Unplug, Work
    <3>2. \A i \in DOMAIN k : \E j \in DOMAIN kern : k[i].name = kern[j].name
      <4>1. CASE Unplug
        BY <2>a, <4>1, UnplugNames
      <4>2. CASE Work
        <5>1. PICK x \in DOMAIN kern : kern' = [kern EXCEPT ![x].val = @ + 1]
          BY <4>2 DEF Work
        <5>2. kern[x] \in Devices
          BY <2>a
        <5> DEFINE d == [kern[x] EXCEPT !.val = @ + 1]
        <5>3. kern' = [kern EXCEPT ![x] = d] /\ d.name = kern[x].name
          BY <5>1, <5>2 DEF Devices
        <5> HIDE DEF d
        <5> QED BY <5>3
      <4> QED BY <2>3, <4>1, <4>2
    <3>3. \A i \in DOMAIN k : k[i].name \in Names
      BY <2>0, <3>2
    <3>4. k = kern' /\ UNCHANGED <<tbl, ktype>> /\ Known(ifhash')
      BY <2>0, <2>3 DEF Unplug, Work
    <3> HIDE DEF k
    <3> QED BY <2>1, <3>3, <3>4
  <2>4. CASE UNCHANGED <<tbl, ktype, kern>> /\ Known(ifhash')
    BY <2>0, <2>1, <2>4
  <2>5. ASSUME NEW due \in BOOLEAN, SampleIntf(due) PROVE UNCHANGED <<tbl, ktype, kern>> /\ Known(ifhash')
    <3>1. Known(InitIfprop(due))
      BY <1>2, InterfacesKnown
    <3> QED BY <2>5, <3>1 DEF SampleIntf, Took
  <2>6. CASE UNCHANGED dvars
    <3>1. UNCHANGED <<tbl, ktype, kern, ifhash>>
      BY <2>6 DEF dvars
    <3> QED BY <2>0, <2>4, <3>1
  <2> QED BY <1>2, <2>2, <2>3, <2>4, <2>5, <2>6
      DEF DevNext, System, Sample, Tick, Hotplug, SampleDsk, SampleNfs, SampleCpu
<1> QED BY <1>1, <1>2

\* Different devices have different names.
LEMMA KnownKept ==
  ASSUME ListsInv, PropInv PROVE PhysicalKept
<1>1. CASE tbl # "intf"
  <2>1. DOMAIN ifhash = {}
    BY <1>1 DEF PropInv
  <2>2. ValidIn(ifhash) = {}
    BY <2>1 DEF ValidIn, Valid
  <2>3. Cardinality({}) < MAXENT
    BY SysDevAssumption, FS_EmptySet
  <2> QED BY <2>1, <2>2, <2>3 DEF PhysicalKept
<1>2. CASE tbl = "intf"
  <2>0. Known(ifhash) /\ Orderly(kern) /\ ktype \in [Names -> {"v", "e", "?"}]
    BY <1>2 DEF PropInv, ListsInv, DeviceTables, Lists
  <2>1. kern \in Seq(Devices) /\ DOMAIN kern = 1 .. Len(kern) /\ Len(kern) \in Nat
    BY <2>0 DEF Orderly
  <2> DEFINE S == ValidIn(ifhash)
             T == Left(ifhash)
             f == [i \in S |-> kern[i].name]
  <2>2. IsFiniteSet(T)
    <3>1. T \in SUBSET DOMAIN ifhash
      BY DEF Left
    <3> QED BY <2>0, <3>1, FS_Subset DEF Known
  <2>3. \A i \in S : i \in 1 .. Len(kern) /\ kern[i].name \in T
    BY <2>1 DEF ValidIn, Valid, Left
  <2>4. \A i, j \in S : kern[i].name = kern[j].name => i = j
    <3> SUFFICES ASSUME NEW i \in S, NEW j \in S, kern[i].name = kern[j].name, i # j PROVE FALSE
      OBVIOUS
    <3>1. i \in 1 .. Len(kern) /\ j \in 1 .. Len(kern)
      BY <2>3
    <3>2. i < j \/ j < i
      BY <2>1, <3>1
    <3> QED BY <2>0, <3>1, <3>2 DEF Orderly
  <2> HIDE DEF S, T
  <2>5. f \in [S -> T] /\ \A i, j \in S : f[i] = f[j] => i = j
    BY <2>3, <2>4
  <2>6. f \in Injection(S, T)
    BY <2>5 DEF Injection, IsInjective
  <2> HIDE DEF f
  <2>7. IsFiniteSet(S) /\ Cardinality(S) <= Cardinality(T)
    BY <2>2, <2>6, FS_Injection
  <2>8. Cardinality(T) < MAXENT /\ Cardinality(T) \in Nat /\ Cardinality(S) \in Nat /\ MAXENT \in Nat
    BY <2>0, <2>2, <2>7, FS_CardinalityType, SysDevAssumption DEF Known, T
  <2>9. Physical(ifhash) \ {n \in DOMAIN ifhash : ktype[n] = "v"} = {y \in DOMAIN ifhash : ktype[y] # "v"}
    <3>1. \A y \in DOMAIN ifhash : ktype[y] # "v" => ifhash[y] # "v"
      BY <2>0 DEF Known
    <3> QED BY <3>1 DEF Physical
  <2> QED BY <2>0, <2>7, <2>8, <2>9 DEF PhysicalKept, Known, S
<1> QED BY <1>1, <1>2
-----------------------------------------------------------------------------
(***************************************************************************)
(* CPUs.                                                                   *)
(***************************************************************************)
\* Every CPU has its place in the list of the kernel, and CPU 0 is online.
CpuKern(k) ==
  /\ k \in Seq(Devices) /\ Len(k) = Cardinality(Cpus)
  /\ \A i \in 1 .. Len(k) : k[i].name = Nth(Cpus, i) /\ (k[i].name = 0 => k[i].on)

LEMMA CpuPlace ==
  ASSUME CpuKern(kern), NEW c \in Cpus
  PROVE  \E i \in 1 .. Len(kern) : kern[i].name = c /\ \A j \in 1 .. Len(kern) : kern[j].name = c => j = i
<1>1. IsFiniteSet(Cpus) /\ Cpus \subseteq Nat /\ Len(kern) = Cardinality(Cpus) /\ Len(kern) \in Nat
  BY SysDevAssumption DEF CpuKern
<1>2. PICK i \in 1 .. Len(kern) : Nth(Cpus, i) = c
  BY <1>1, NthAll
<1>3. ASSUME NEW j \in 1 .. Len(kern), Nth(Cpus, j) = c PROVE j = i
  <2>1. ~ (c < c)
    BY <1>1
  <2>2. ~ (j < i) /\ ~ (i < j)
    <3>1. i \in 1 .. Cardinality(Cpus) /\ j \in 1 .. Cardinality(Cpus)
      BY <1>1
    <3> DEFINE a == Nth(Cpus, i)
               b == Nth(Cpus, j)
    <3>2. (j < i <=> b < a) /\ (i < j <=> a < b)
      BY <1>1, <3>1, NthGrows
    <3>3. a = c /\ b = c
      BY <1>2, <1>3
    <3> HIDE DEF a, b
    <3> QED BY <2>1, <3>2, <3>3
  <2> QED BY <1>1, <2>2
<1> QED BY <1>2, <1>3 DEF CpuKern

LEMMA CpuNames ==
  ASSUME CpuKern(kern)
  PROVE  /\ \A i \in 1 .. Len(kern) : kern[i].name \in Cpus /\ kern[i] \in Devices
         /\ DOMAIN kern = 1 .. Len(kern) /\ Len(kern) \in Nat
         /\ Online \subseteq Cpus /\ 0 \in Online /\ IsFiniteSet(Online) /\ IsFiniteSet(Cpus)
<1>1. IsFiniteSet(Cpus) /\ Cpus \subseteq Nat /\ Len(kern) = Cardinality(Cpus) /\ 0 \in Cpus
  BY SysDevAssumption DEF CpuKern
<1>2. ASSUME NEW i \in 1 .. Len(kern) PROVE kern[i].name \in Cpus
  <2>1. kern[i].name = Nth(Cpus, i) /\ i \in 1 .. Cardinality(Cpus)
    BY <1>1 DEF CpuKern
  <2>2. Nth(Cpus, i) \in Cpus
    BY <1>1, <2>1, NthIs
  <2> QED BY <2>1, <2>2
<1>3. kern \in Seq(Devices) /\ DOMAIN kern = 1 .. Len(kern) /\ Len(kern) \in Nat
  BY DEF CpuKern
<1>4. \A i \in 1 .. Len(kern) : kern[i] \in Devices
  BY <1>3
<1>5. Online \in SUBSET Cpus
  BY <1>2, <1>3 DEF Online
<1>6. 0 \in Online
  <2>1. PICK i \in 1 .. Len(kern) : kern[i].name = 0
    BY <1>1, CpuPlace
  <2>2. kern[i].on
    BY <2>1 DEF CpuKern
  <2> QED BY <1>3, <2>1, <2>2 DEF Online
<1>7. IsFiniteSet(Online)
  BY <1>1, <1>5, FS_Subset
<1> QED BY <1>1, <1>2, <1>3, <1>4, <1>5, <1>6, <1>7

LEMMA MaxOfIs ==
  ASSUME NEW S, S \subseteq Nat, IsFiniteSet(S), S # {}
  PROVE  MaxOf(S) \in S /\ \A y \in S : y <= MaxOf(S)
<1> DEFINE n == Cardinality(S)
           m == Nth(S, n)
<1>1. n \in Nat /\ n # 0
  BY FS_CardinalityType, FS_EmptySet
<1>2. n \in 1 .. n
  BY <1>1
<1>3. m \in S
  BY <1>2, NthIs
<1>4. ASSUME NEW y \in S PROVE y <= m
  <2>1. PICK k \in 1 .. n : Nth(S, k) = y
    BY NthAll
  <2>2. k = n \/ k < n
    BY <1>1
  <2>3. k < n => y < m
    BY <1>2, <2>1, NthGrows
  <2>4. y \in Nat /\ m \in Nat
    BY <1>3
  <2> HIDE DEF m, n
  <2>5. k = n => y = m
    BY <2>1 DEF m
  <2> QED BY <2>2, <2>3, <2>4, <2>5
<1> HIDE DEF m
<1>5. \E x \in S : \A y \in S : y <= x
  BY <1>3, <1>4
<1> QED BY <1>5 DEF MaxOf

\* The descriptors that are open are those of the CPUs that the counts have
\* been taken of.
PerfInv ==
  /\ perf = [alloced |-> perf.alloced, onliners |-> perf.onliners, nrcpu |-> perf.nrcpu,
             fds |-> perf.fds, read |-> perf.read]
  /\ \/ perf = NoPerf
     \/ perf.alloced = -1 /\ perf.read = {}
     \/ /\ perf.fds \subseteq Cpus /\ 0 \in perf.fds
        /\ perf.alloced = MaxOf(perf.fds) + 1
        /\ perf.onliners = Squares(perf.fds) /\ perf.nrcpu = Cardinality(perf.fds)
        /\ perf.read \subseteq perf.fds

LEMMA PerfNext ==
  ASSUME SquaresTell, CpuKern(kern), PerfInv, NEW usable \in BOOLEAN, NEW p, p = GetPerfEvents(usable),
         p = perf'
  PROVE  PerfInv'
<1>0. perf = [alloced |-> perf.alloced, onliners |-> perf.onliners, nrcpu |-> perf.nrcpu,
              fds |-> perf.fds, read |-> perf.read]
  BY DEF PerfInv
<1>1. Online \subseteq Cpus /\ 0 \in Online /\ IsFiniteSet(Online)
  BY CpuNames
<1>2. MaxOf(Online) \in Nat
  <2>1. Online \subseteq Nat
    BY <1>1, SysDevAssumption
  <2> QED BY <1>1, <2>1, MaxOfIs
<1>3. CASE perf.alloced = -1
  <2>1. p = perf
    BY <1>3 DEF GetPerfEvents
  <2>2. perf.read = {}
    <3>1. perf = NoPerf => perf.read = {}
      BY DEF NoPerf
    <3>2. ASSUME perf.fds \subseteq Cpus, 0 \in perf.fds, perf.alloced = MaxOf(perf.fds) + 1 PROVE FALSE
      <4>1. IsFiniteSet(perf.fds)
        BY <3>2, SysDevAssumption, FS_Subset
      <4>2. MaxOf(perf.fds) \in Nat
        BY <3>2, <4>1, MaxOfIs, SysDevAssumption
      <4> QED BY <1>3, <3>2, <4>2
    <3> QED BY <3>1, <3>2 DEF PerfInv
  <2> QED BY <1>0, <1>3, <2>1, <2>2 DEF PerfInv
<1>4. CASE perf.alloced # -1 /\ PerfChanged /\ usable
  <2>1. p = [alloced |-> MaxOf(Online) + 1, onliners |-> Onliners,
             nrcpu |-> Cardinality(Online), fds |-> Online, read |-> {}]
    BY <1>4 DEF GetPerfEvents
  <2>2. /\ p.alloced = MaxOf(Online) + 1 /\ p.onliners = Squares(Online)
        /\ p.nrcpu = Cardinality(Online) /\ p.fds = Online /\ p.read = {}
    BY <2>1 DEF Onliners
  <2>3. p.fds \subseteq Cpus /\ 0 \in p.fds /\ p.read \subseteq p.fds
    BY <1>1, <2>2
  <2>4. p = [alloced |-> p.alloced, onliners |-> p.onliners, nrcpu |-> p.nrcpu, fds |-> p.fds, read |-> p.read]
    BY <2>1
  <2> QED BY <2>2, <2>3, <2>4 DEF PerfInv
<1>5. CASE perf.alloced # -1 /\ PerfChanged /\ ~ usable
  <2>1. p = [NoPerf EXCEPT !.alloced = -1]
    BY <1>5 DEF GetPerfEvents
  <2>2. p.alloced = -1 /\ p.read = {}
    BY <2>1 DEF NoPerf
  <2>3. p = [alloced |-> p.alloced, onliners |-> p.onliners, nrcpu |-> p.nrcpu, fds |-> p.fds, read |-> p.read]
    BY <2>1 DEF NoPerf
  <2> QED BY <2>2, <2>3 DEF PerfInv
<1>6. CASE perf.alloced # -1 /\ ~ PerfChanged
  <2>1. p = [perf EXCEPT !.read = Online]
    BY <1>6 DEF GetPerfEvents
  <2>2. perf.alloced = MaxOf(Online) + 1 /\ perf.onliners = Squares(Online) /\ perf.nrcpu = Cardinality(Online)
    BY <1>6 DEF PerfChanged, Onliners
  <2>3. perf # NoPerf
    <3>1. perf = NoPerf => perf.alloced = 0
      BY DEF NoPerf
    <3> QED BY <1>2, <2>2, <3>1
  <2>4. /\ perf.fds \subseteq Cpus /\ 0 \in perf.fds
        /\ perf.alloced = MaxOf(perf.fds) + 1
        /\ perf.onliners = Squares(perf.fds) /\ perf.nrcpu = Cardinality(perf.fds)
    BY <1>6, <2>3 DEF PerfInv
  <2>5. MaxOf(perf.fds) = MaxOf(Online)
    <3>1. IsFiniteSet(perf.fds)
      BY <2>4, SysDevAssumption, FS_Subset
    <3>2. MaxOf(perf.fds) \in Nat
      BY <2>4, <3>1, MaxOfIs, SysDevAssumption
    <3> QED BY <1>2, <2>2, <2>4, <3>2
  <2>6. perf.fds = Online
    BY <1>1, <2>2, <2>4, <2>5 DEF SquaresTell
  <2> DEFINE f == perf.fds
             a == perf.alloced
             o == perf.onliners
             r == perf.nrcpu
  <2>7. p = [alloced |-> a, onliners |-> o, nrcpu |-> r, fds |-> f, read |-> Online]
    BY <1>0, <2>1
  <2>8. /\ f \subseteq Cpus /\ 0 \in f /\ a = MaxOf(f) + 1 /\ o = Squares(f) /\ r = Cardinality(f)
    BY <2>4
  <2>9. Online = f
    BY <2>6
  <2> HIDE DEF f, a, o, r
  <2>10. /\ p.fds = f /\ p.alloced = a /\ p.onliners = o /\ p.nrcpu = r /\ p.read = Online
         /\ p = [alloced |-> p.alloced, onliners |-> p.onliners, nrcpu |-> p.nrcpu, fds |-> p.fds, read |-> p.read]
    BY <2>7
  <2> QED BY <2>8, <2>9, <2>10 DEF PerfInv
<1> QED BY <1>3, <1>4, <1>5, <1>6

\* The sum of the library, once more.
LEMMA SumOverIs == ASSUME NEW S, NEW f PROVE SumOver(S, f) = Total(f, S)
  BY DEF SumOver, FoldSet, MapThenFoldSet, Total, Sums, Some

LEMMA TotalAdds ==
  ASSUME NEW S, IsFiniteSet(S), NEW f, NEW g, NEW h,
         \A x \in S : f[x] \in Nat /\ g[x] \in Nat /\ h[x] = f[x] + g[x]
  PROVE  Total(h, S) = Total(f, S) + Total(g, S)
<1> DEFINE C == {T \in SUBSET S : Total(h, T) # Total(f, T) + Total(g, T)}
<1> SUFFICES ASSUME Total(h, S) # Total(f, S) + Total(g, S) PROVE FALSE
  OBVIOUS
<1>1. PICK T \in C : \A U \in C : U \subseteq T => U = T
  <2>1. C \subseteq SUBSET S /\ C # {}
    OBVIOUS
  <2> HIDE DEF C
  <2> QED BY <2>1, SmallestSet
<1>2. T \subseteq S /\ IsFiniteSet(T) /\ Total(h, T) # Total(f, T) + Total(g, T)
  BY <1>1, FS_Subset
<1> DEFINE p == Some(T)
           U == T \ {p}
<1>3. T # {} => p \in T
  BY SomeIn
<1>4. T # {} => U \subseteq T /\ U # T /\ U \in SUBSET S
  BY <1>2, <1>3
<1>5. T # {} => Total(h, U) = Total(f, U) + Total(g, U)
  BY <1>1, <1>4
<1>6. /\ Total(f, T) = IF T = {} THEN 0 ELSE f[p] + Total(f, U)
      /\ Total(g, T) = IF T = {} THEN 0 ELSE g[p] + Total(g, U)
      /\ Total(h, T) = IF T = {} THEN 0 ELSE h[p] + Total(h, U)
  BY <1>2, TotalSums
<1>7. IsFiniteSet(U)
  BY <1>2, FS_Subset
<1>8. T # {} => /\ f[p] \in Nat /\ g[p] \in Nat /\ h[p] = f[p] + g[p]
               /\ Total(f, U) \in Nat /\ Total(g, U) \in Nat
  BY <1>2, <1>3, <1>4, <1>7, TotalIsNat
<1> HIDE DEF p, U
<1> QED BY <1>2, <1>5, <1>6, <1>8

\* What has been seen of a CPU is what its place in the sample has, and the
\* NUMA node is the sum over the CPUs counted for it in the sample.
OnlineIn(s) == {i - 1 : i \in {k \in DOMAIN s : s[k].on}}
CpuInv ==
  /\ CpuKern(kern)
  /\ seen \in [Cpus -> Nat] /\ \A i \in 1 .. Len(kern) : seen[kern[i].name] <= kern[i].val
  /\ cur \in Seq(Devices)
  /\ \A c \in Cpus : seen[c] = IF c + 1 <= Len(cur) THEN cur[c + 1].val ELSE 0
  /\ OnlineIn(cur) \subseteq Cpus
  /\ numa.cur = Total(seen, Summed(OnlineIn(cur)))

\* The device of a CPU.
DeviceOf(c) == CHOOSE d \in Range(kern) : d.name = c

LEMMA DeviceIs ==
  ASSUME CpuInv, NEW c \in Cpus
  PROVE  /\ DeviceOf(c) \in Devices /\ DeviceOf(c).name = c /\ seen[c] <= DeviceOf(c).val
         /\ kern[CHOOSE i \in DOMAIN kern : kern[i].name = c] = DeviceOf(c)
         /\ \A i \in 1 .. Len(kern) : kern[i].name = c => kern[i] = DeviceOf(c)
         /\ c \in Online <=> DeviceOf(c).on
<1>0. CpuKern(kern) /\ \A j \in 1 .. Len(kern) : seen[kern[j].name] <= kern[j].val
  BY DEF CpuInv
<1>1. PICK i \in 1 .. Len(kern) : kern[i].name = c /\ \A j \in 1 .. Len(kern) : kern[j].name = c => j = i
  BY <1>0, CpuPlace
<1>2. DOMAIN kern = 1 .. Len(kern) /\ \A j \in 1 .. Len(kern) : kern[j] \in Devices
  BY <1>0, CpuNames
<1>3. (CHOOSE j \in DOMAIN kern : kern[j].name = c) = i
  BY <1>1, <1>2
<1>4. DeviceOf(c) = kern[i]
  <2>1. Range(kern) = {kern[j] : j \in 1 .. Len(kern)}
    BY <1>2 DEF Range
  <2>2. \A d \in Range(kern) : d.name = c => d = kern[i]
    BY <1>1, <2>1
  <2>3. kern[i] \in Range(kern)
    BY <2>1
  <2> QED BY <1>1, <2>2, <2>3 DEF DeviceOf
<1>5. c \in Online <=> kern[i].on
  BY <1>1, <1>2 DEF Online
<1> QED BY <1>0, <1>1, <1>2, <1>3, <1>4, <1>5

\* The list of photosyst(), and what deviatsyst() makes of it.
Kept(c, p) ==
  /\ c \in Seq(Devices)
  /\ \A i \in 1 .. Len(c) : c[i].on <=> i - 1 \in Online
  /\ \A n \in Online : n + 1 \in 1 .. Len(c) /\ c[n + 1] = DeviceOf(n)
  /\ \A i \in 1 .. Len(c) : ~ c[i].on => c[i].val = IF i <= Len(p) THEN p[i].val ELSE 0
  /\ Len(p) <= Len(c)

LEMMA KeepCpuIs ==
  ASSUME CpuInv PROVE Kept(KeepCpu(PhotoCpu, cur), cur)
<1>0. CpuKern(kern) /\ cur \in Seq(Devices) /\ Len(cur) \in Nat
  BY DEF CpuInv
<1>1. Online \subseteq Cpus /\ 0 \in Online /\ IsFiniteSet(Online) /\ Cpus \subseteq Nat
  BY <1>0, CpuNames, SysDevAssumption
<1> DEFINE m == MaxOf(Online) + 1
           c == PhotoCpu
           l == IF Len(c) < Len(cur) THEN Len(cur) ELSE Len(c)
           k == KeepCpu(c, cur)
           CpuOff == [NoDevice EXCEPT !.on = FALSE]
<1>2. m \in Nat /\ \A n \in Online : n + 1 \in 1 .. m
  <2> DEFINE o == MaxOf(Online)
  <2>1. o \in Online /\ \A n \in Online : n <= o
    <3>1. Online \subseteq Nat
      BY <1>1
    <3> QED BY <1>1, <3>1, MaxOfIs
  <2>2. o \in Nat /\ m = o + 1
    BY <1>1, <2>1
  <2> HIDE DEF o, m
  <2>3. ASSUME NEW n \in Online PROVE n + 1 \in 1 .. m
    <3>1. n \in Nat /\ n <= o
      BY <1>1, <2>1
    <3> QED BY <2>2, <3>1
  <2> QED BY <2>2, <2>3
<1> HIDE DEF m
<1>3. ASSUME NEW i \in 1 .. m, i - 1 \in Online PROVE DeviceOf(i - 1) \in Devices /\ DeviceOf(i - 1).on
  BY <1>1, <1>3, DeviceIs
<1>4. CpuOff \in Devices /\ ~ CpuOff.on /\ CpuOff.val = 0
  <2>1. NoDevice \in Devices /\ NoDevice.val = 0
    BY DEF NoDevice, Device, Devices
  <2>2. \A r \in Devices : [r EXCEPT !.on = FALSE] \in Devices /\ [r EXCEPT !.on = FALSE].val = r.val
                           /\ ~ [r EXCEPT !.on = FALSE].on
    BY DEF Devices
  <2> QED BY <2>1, <2>2
<1> HIDE DEF CpuOff
<1>5. c = [i \in 1 .. m |-> IF i - 1 \in Online THEN kern[CHOOSE j \in DOMAIN kern : kern[j].name = i - 1] ELSE CpuOff]
  BY Zenon DEF PhotoCpu, m, CpuOff
<1>6. \A i \in 1 .. m : c[i] = (IF i - 1 \in Online THEN DeviceOf(i - 1) ELSE CpuOff) /\ c[i] \in Devices
  <2> TAKE i \in 1 .. m
  <2>1. c[i] = IF i - 1 \in Online THEN kern[CHOOSE j \in DOMAIN kern : kern[j].name = i - 1] ELSE CpuOff
    BY <1>5
  <2>2. i - 1 \in Online => kern[CHOOSE j \in DOMAIN kern : kern[j].name = i - 1] = DeviceOf(i - 1)
    BY <1>1, DeviceIs
  <2> HIDE DEF c
  <2> QED BY <1>3, <1>4, <2>1, <2>2
<1>7. Len(c) = m /\ c \in Seq(Devices)
  <2>1. c = [i \in 1 .. m |-> c[i]]
    BY <1>5
  <2> HIDE DEF c
  <2> QED BY <1>2, <1>6, <2>1
<1> HIDE DEF c
<1>8. l \in Nat /\ m <= l /\ Len(cur) <= l /\ \A i \in 1 .. l : i <= m => i \in 1 .. m
  BY <1>0, <1>2, <1>7
<1>9. k = [i \in 1 .. l |->
             IF i <= m /\ c[i].on THEN c[i]
             ELSE [(IF i <= Len(cur) THEN cur[i] ELSE NoDevice) EXCEPT !.on = FALSE]]
  BY <1>7, Zenon DEF KeepCpu
<1> HIDE DEF l, k
<1>10. ASSUME NEW i \in 1 .. l
       PROVE  /\ k[i] \in Devices /\ (k[i].on <=> i - 1 \in Online)
              /\ i - 1 \in Online => k[i] = DeviceOf(i - 1)
              /\ ~ k[i].on => k[i].val = IF i <= Len(cur) THEN cur[i].val ELSE 0
  <2>1. k[i] = IF i <= m /\ c[i].on THEN c[i]
               ELSE [(IF i <= Len(cur) THEN cur[i] ELSE NoDevice) EXCEPT !.on = FALSE]
    BY <1>9
  <2>2. CASE i - 1 \in Online
    <3>1. i \in 1 .. m /\ i <= m
      BY <1>1, <1>2, <1>8, <2>2
    <3>2. c[i] = DeviceOf(i - 1) /\ c[i].on
      BY <1>3, <1>6, <2>2, <3>1
    <3> QED BY <1>3, <2>1, <2>2, <3>1, <3>2
  <2>3. CASE i - 1 \notin Online
    <3>1. ~ (i <= m /\ c[i].on)
      BY <1>4, <1>6, <1>8, <2>3
    <3> DEFINE x == IF i <= Len(cur) THEN cur[i] ELSE NoDevice
    <3>2. k[i] = [x EXCEPT !.on = FALSE]
      BY <2>1, <3>1
    <3>3. x \in Devices /\ x.val = IF i <= Len(cur) THEN cur[i].val ELSE 0
      <4>1. CASE i <= Len(cur)
        <5>1. i \in 1 .. Len(cur)
          BY <1>0, <1>8, <4>1
        <5> QED BY <1>0, <4>1, <5>1
      <4>2. CASE ~ (i <= Len(cur))
        BY <4>2 DEF NoDevice, Device, Devices
      <4> QED BY <4>1, <4>2
    <3> HIDE DEF x
    <3>4. k[i] \in Devices /\ ~ k[i].on /\ k[i].val = x.val
      BY <3>2, <3>3 DEF Devices
    <3> QED BY <2>3, <3>3, <3>4
  <2> QED BY <2>2, <2>3
<1>11. k \in Seq(Devices) /\ Len(k) = l
  <2>1. k = [i \in 1 .. l |-> k[i]]
    BY <1>9
  <2> QED BY <1>8, <1>10, <2>1
<1>12. ASSUME NEW n \in Online PROVE n + 1 \in 1 .. l /\ k[n + 1] = DeviceOf(n)
  <2>1. n \in Nat /\ n + 1 \in 1 .. l /\ (n + 1) - 1 = n
    BY <1>1, <1>2, <1>8
  <2>2. (n + 1) - 1 \in Online => k[n + 1] = DeviceOf((n + 1) - 1)
    BY <1>10, <2>1
  <2> QED BY <2>1, <2>2
<1>13. DOMAIN k = 1 .. l
  BY <1>9
<1>14. Kept(k, cur)
  <2>1. \A i \in 1 .. Len(k) : ~ k[i].on => k[i].val = IF i <= Len(cur) THEN cur[i].val ELSE 0
    BY <1>10, <1>11
  <2>2. \A n \in Online : n + 1 \in 1 .. Len(k) /\ k[n + 1] = DeviceOf(n)
    BY <1>11, <1>12
  <2>3. \A i \in 1 .. Len(k) : k[i].on <=> i - 1 \in Online
    BY <1>10, <1>11
  <2>4. k \in Seq(Devices) /\ Len(cur) <= Len(k)
    BY <1>8, <1>11
  <2> QED BY <2>1, <2>2, <2>3, <2>4 DEF Kept
<1> QED BY <1>14 DEF k, c

LEMMA CpuStart ==
  ASSUME DevInit, tbl = "cpu" PROVE CpuInv
<1> DEFINE n == Cardinality(Cpus)
<1>1. n \in Nat /\ Cpus \subseteq Nat /\ IsFiniteSet(Cpus)
  BY SysDevAssumption, FS_CardinalityType
<1>2. kern = [i \in 1 .. n |-> Device(Nth(Cpus, i), i)]
  BY DEF DevInit
<1>3. \A i \in 1 .. n : Nth(Cpus, i) \in Cpus
  BY <1>1, NthIs
<1> HIDE DEF n
<1>4. ASSUME NEW i \in 1 .. n
      PROVE  kern[i] \in Devices /\ kern[i].name = Nth(Cpus, i) /\ kern[i].on /\ kern[i].val = 0
  <2> DEFINE x == Nth(Cpus, i)
  <2>1. x \in Int /\ i \in Nat
    <3>1. x \in Cpus
      BY <1>3
    <3>2. i \in Nat
      BY <1>1 DEF n
    <3> HIDE DEF x
    <3> QED BY <1>1, <3>1, <3>2
  <2>2. kern[i] = [name |-> x, id |-> i, val |-> 0, age |-> 0, on |-> TRUE]
    BY <1>2 DEF Device
  <2> HIDE DEF x
  <2>3. kern[i] \in Devices /\ kern[i].name = x /\ kern[i].on /\ kern[i].val = 0
    BY <2>1, <2>2 DEF Devices
  <2> QED BY <2>3 DEF x
<1>5. kern \in Seq(Devices) /\ Len(kern) = n
  <2>1. kern = [i \in 1 .. n |-> kern[i]]
    BY <1>2
  <2> QED BY <1>1, <1>4, <2>1
<1>6. CpuKern(kern)
  BY <1>4, <1>5 DEF CpuKern, n
<1>7. seen = [c \in Cpus |-> 0] /\ cur = << >> /\ numa.cur = 0
  BY DEF DevInit
<1>8. OnlineIn(cur) = {}
  BY <1>7 DEF OnlineIn
<1>9. Total(seen, {}) = 0
  <2>1. IsFiniteSet({})
    BY FS_EmptySet
  <2> QED BY <2>1, TotalSums
<1>10. Summed(OnlineIn(cur)) = {}
  BY <1>8 DEF Summed
<1>11. \A i \in 1 .. Len(kern) : seen[kern[i].name] <= kern[i].val
  <2> TAKE i \in 1 .. Len(kern)
  <2>1. kern[i].name \in Cpus /\ kern[i].val = 0
    BY <1>3, <1>4, <1>5
  <2> QED BY <1>7, <2>1
<1>12. cur \in Seq(Devices) /\ Len(cur) = 0
  BY <1>7
<1>13. \A c \in Cpus : seen[c] = 0 /\ ~ (c + 1 <= Len(cur))
  BY <1>1, <1>7, <1>12
<1>14. seen \in [Cpus -> Nat]
  BY <1>7
<1> QED BY <1>6, <1>7, <1>8, <1>9, <1>10, <1>11, <1>12, <1>13, <1>14 DEF CpuInv

\* What has been seen stays, and no counter goes back.
LEMMA CpuStays ==
  ASSUME CpuInv, CpuKern(kern'), UNCHANGED <<cur, seen, numa>>,
         \A i \in 1 .. Len(kern) : kern[i].val <= kern'[i].val /\ kern[i].name = kern'[i].name
  PROVE  CpuInv'
<1>1. CpuKern(kern) /\ \A i \in 1 .. Len(kern) : seen[kern[i].name] <= kern[i].val
  BY DEF CpuInv
<1>2. Len(kern) = Len(kern')
  BY <1>1 DEF CpuKern
<1>3. \A i \in 1 .. Len(kern') : seen'[kern'[i].name] <= kern'[i].val
  <2> TAKE i \in 1 .. Len(kern')
  <2>1. i \in 1 .. Len(kern)
    BY <1>2
  <2>2. kern[i] \in Devices /\ kern'[i] \in Devices /\ kern[i].name \in Cpus
    BY <1>1, <2>1, CpuNames DEF CpuKern
  <2>3. kern[i].val \in Nat /\ kern'[i].val \in Nat /\ seen[kern[i].name] \in Nat
    BY <2>2 DEF Devices, CpuInv
  <2> DEFINE a == seen[kern[i].name]
             b == kern[i].val
             c == kern'[i].val
  <2>4. a \in Nat /\ b \in Nat /\ c \in Nat /\ a <= b /\ b <= c
    BY <1>1, <2>1, <2>3
  <2>5. seen'[kern'[i].name] = a
    BY <2>1
  <2> HIDE DEF a, b
  <2>6. a <= c
    BY <2>4
  <2> QED BY <2>5, <2>6
<1> QED BY <1>3 DEF CpuInv, OnlineIn

LEMMA CpuWorks ==
  ASSUME CpuInv, tbl = "cpu", System PROVE CpuInv'
<1>1. CpuKern(kern)
  BY DEF CpuInv
<1>2. DOMAIN kern = 1 .. Len(kern) /\ kern \in Seq(Devices) /\ Len(kern) \in Nat
  BY <1>1, CpuNames DEF CpuKern
<1>3. Hotplug \/ Work
  BY DEF System, Plug, Unplug, Tick
<1>4. CASE Hotplug
  <2>1. PICK i \in 1 .. Len(kern) : kern[i].name # 0 /\ kern' = [kern EXCEPT ![i].on = ~ @]
    BY <1>2, <1>4 DEF Hotplug
  <2>2. kern[i] \in Devices
    BY <1>2, <2>1
  <2> DEFINE r == [kern[i] EXCEPT !.on = ~ @]
  <2>3. kern' = [kern EXCEPT ![i] = r]
    BY <2>1
  <2>4. r \in Devices /\ r.name = kern[i].name /\ r.val = kern[i].val
    BY <2>2 DEF Devices
  <2> HIDE DEF r
  <2>5. kern' \in Seq(Devices) /\ Len(kern') = Len(kern)
    BY <1>2, <2>1, <2>3, <2>4
  <2>6. kern'[i] = r /\ \A j \in 1 .. Len(kern) : j # i => kern'[j] = kern[j]
    BY <1>2, <2>1, <2>3
  <2>7. ASSUME NEW j \in 1 .. Len(kern) PROVE kern[j].val <= kern'[j].val /\ kern[j].name = kern'[j].name
    <3>0. kern[j] \in Devices
      BY <1>2
    <3>1. kern[j].val \in Nat
      BY <3>0 DEF Devices
    <3> QED BY <2>4, <2>6, <3>1
  <2>8. CpuKern(kern')
    <3>1. \A j \in 1 .. Len(kern) : kern'[j].name = Nth(Cpus, j) /\ (kern'[j].name = 0 => kern'[j].on)
      BY <1>1, <2>1, <2>4, <2>6 DEF CpuKern
    <3> QED BY <1>1, <2>5, <3>1 DEF CpuKern
  <2>9. UNCHANGED <<cur, seen, numa>>
    BY <1>4 DEF Hotplug
  <2> QED BY <2>7, <2>8, <2>9, CpuStays
<1>5. CASE Work
  <2>1. PICK i \in 1 .. Len(kern) : kern' = [kern EXCEPT ![i].val = @ + 1]
    BY <1>2, <1>5 DEF Work
  <2>2. kern[i] \in Devices
    BY <1>2, <2>1
  <2> DEFINE r == [kern[i] EXCEPT !.val = @ + 1]
  <2>3. kern' = [kern EXCEPT ![i] = r]
    BY <2>1
  <2>4. r \in Devices /\ r.name = kern[i].name /\ r.on = kern[i].on /\ r.val = kern[i].val + 1
    BY <2>2 DEF Devices
  <2> HIDE DEF r
  <2>5. kern' \in Seq(Devices) /\ Len(kern') = Len(kern)
    BY <1>2, <2>1, <2>3, <2>4
  <2>6. kern'[i] = r /\ \A j \in 1 .. Len(kern) : j # i => kern'[j] = kern[j]
    BY <1>2, <2>1, <2>3
  <2>7. ASSUME NEW j \in 1 .. Len(kern) PROVE kern[j].val <= kern'[j].val /\ kern[j].name = kern'[j].name
    <3>0. kern[j] \in Devices
      BY <1>2
    <3>1. kern[j].val \in Nat
      BY <3>0 DEF Devices
    <3> QED BY <2>4, <2>6, <3>1
  <2>8. CpuKern(kern')
    <3>1. \A j \in 1 .. Len(kern) : kern'[j].name = Nth(Cpus, j) /\ (kern'[j].name = 0 => kern'[j].on)
      BY <1>1, <2>4, <2>6 DEF CpuKern
    <3> QED BY <1>1, <2>5, <3>1 DEF CpuKern
  <2>9. UNCHANGED <<cur, seen, numa>>
    BY <1>5 DEF Work
  <2> QED BY <2>7, <2>8, <2>9, CpuStays
<1> QED BY <1>3, <1>4, <1>5

LEMMA CpuSampled ==
  ASSUME CpuInv, NEW usable \in BOOLEAN, SampleCpu(usable)
  PROVE  /\ CpuInv'
         /\ \A i \in DOMAIN dev' : dev'[i].on => dev'[i].val = cur'[i].val - seen[i - 1]
         /\ numa'.same => numa'.dev = numa'.grown
<1> DEFINE k == KeepCpu(PhotoCpu, cur)
           S == Summed(Online)
           F == [c \in Online |-> seen[c] + Grown[c]]
<1>1. Kept(k, cur)
  BY KeepCpuIs
<1>2. /\ cur' = k /\ dev' = DevCpu(k, cur) /\ kern' = kern /\ numa' = NumaCpu
      /\ seen' = [c \in Cpus |-> IF c \in Online THEN DeviceOf(c).val ELSE seen[c]]
  BY Zenon DEF SampleCpu, Took, DeviceOf
<1>3. CpuKern(kern) /\ Cpus \subseteq Nat /\ Online \subseteq Cpus /\ IsFiniteSet(Online)
  BY CpuNames, SysDevAssumption DEF CpuInv
<1> HIDE DEF k
<1>4. k \in Seq(Devices) /\ Len(k) \in Nat /\ Len(cur) <= Len(k) /\ Len(cur) \in Nat /\ DOMAIN k = 1 .. Len(k)
  BY <1>1 DEF Kept, CpuInv
<1>5. \A c \in Online : /\ DeviceOf(c).val \in Nat /\ seen[c] \in Nat /\ seen[c] <= DeviceOf(c).val
                        /\ c + 1 \in 1 .. Len(k) /\ k[c + 1] = DeviceOf(c)
  <2> TAKE c \in Online
  <2>1. DeviceOf(c) \in Devices /\ seen[c] <= DeviceOf(c).val
    BY <1>3, DeviceIs
  <2>2. DeviceOf(c).val \in Nat
    BY <2>1 DEF Devices
  <2>3. seen[c] \in Nat
    BY <1>3 DEF CpuInv
  <2> QED BY <1>1, <2>1, <2>2, <2>3 DEF Kept
<1>6. \A i \in 1 .. Len(kern) : seen'[kern[i].name] <= kern[i].val
  <2> TAKE i \in 1 .. Len(kern)
  <2> DEFINE c == kern[i].name
  <2>1. c \in Cpus /\ kern[i] = DeviceOf(c) /\ seen[c] <= kern[i].val
    BY <1>3, CpuNames, DeviceIs DEF CpuInv
  <2>2. kern[i].val \in Nat
    BY <1>3, CpuNames DEF Devices
  <2> HIDE DEF c
  <2>3. seen'[c] = IF c \in Online THEN DeviceOf(c).val ELSE seen[c]
    BY <1>2, <2>1
  <2>4. seen'[c] <= kern[i].val
    BY <2>1, <2>2, <2>3
  <2> QED BY <2>4 DEF c
<1>7. ASSUME NEW c \in Cpus PROVE seen'[c] = IF c + 1 <= Len(k) THEN k[c + 1].val ELSE 0
  <2>1. c \in Nat /\ seen[c] = IF c + 1 <= Len(cur) THEN cur[c + 1].val ELSE 0
    BY <1>3 DEF CpuInv
  <2>2. CASE c \in Online
    <3>1. c + 1 <= Len(k) /\ k[c + 1] = DeviceOf(c)
      BY <1>4, <1>5, <2>1, <2>2
    <3> QED BY <1>2, <2>2, <3>1
  <2>3. CASE c \notin Online
    <3>1. seen'[c] = seen[c]
      BY <1>2, <2>3
    <3>2. CASE c + 1 <= Len(k)
      <4> DEFINE i == c + 1
      <4>1. i \in 1 .. Len(k) /\ i - 1 = c
        BY <1>4, <2>1, <3>2
      <4> HIDE DEF i
      <4>2. ~ k[i].on
        BY <1>1, <2>3, <4>1 DEF Kept
      <4>3. k[i].val = IF i <= Len(cur) THEN cur[i].val ELSE 0
        BY <1>1, <4>1, <4>2 DEF Kept
      <4>4. k[c + 1].val = IF c + 1 <= Len(cur) THEN cur[c + 1].val ELSE 0
        BY <4>3 DEF i
      <4> QED BY <2>1, <3>1, <3>2, <4>4
    <3>3. CASE ~ (c + 1 <= Len(k))
      <4>1. ~ (c + 1 <= Len(cur))
        BY <1>4, <2>1, <3>3
      <4> QED BY <2>1, <3>1, <3>3, <4>1
    <3> QED BY <3>2, <3>3
  <2> QED BY <2>2, <2>3
<1>8. OnlineIn(k) = Online
  <2>1. \A i \in 1 .. Len(k) : k[i].on <=> i - 1 \in Online
    BY <1>1 DEF Kept
  <2>2. \A c \in Online : c + 1 \in 1 .. Len(k) /\ (c + 1) - 1 = c
    <3> TAKE c \in Online
    <3>1. c \in Nat
      BY <1>3
    <3> QED BY <1>5, <3>1
  <2>3. ASSUME NEW c \in Online PROVE c \in OnlineIn(k)
    <3> DEFINE i == c + 1
    <3>1. i \in 1 .. Len(k) /\ i - 1 = c
      BY <2>2
    <3> HIDE DEF i
    <3>2. i \in DOMAIN k /\ k[i].on
      BY <1>4, <2>1, <3>1
    <3> QED BY <3>1, <3>2 DEF OnlineIn
  <2>4. ASSUME NEW c \in OnlineIn(k) PROVE c \in Online
    <3>1. PICK i \in DOMAIN k : k[i].on /\ c = i - 1
      BY DEF OnlineIn
    <3> QED BY <1>4, <2>1, <3>1
  <2> QED BY <2>3, <2>4
<1>9. \A c \in Online : F[c] = seen[c] + Grown[c] /\ Grown[c] = DeviceOf(c).val - seen[c]
  BY Zenon DEF Grown, DeviceOf
<1>10. \A c \in Online : Grown[c] \in Nat /\ F[c] = DeviceOf(c).val /\ F[c] = seen[c] + Grown[c]
  <2> TAKE c \in Online
  <2> DEFINE g == Grown[c]
             f == F[c]
             v == DeviceOf(c).val
             s == seen[c]
  <2>1. f = s + g /\ g = v - s /\ v \in Nat /\ s \in Nat /\ s <= v
    BY <1>5, <1>9
  <2> HIDE DEF g, f, v, s
  <2>2. g \in Nat /\ f = v /\ f = s + g
    BY <2>1
  <2> QED BY <2>2 DEF g, f, v, s
<1>11. S \subseteq Online /\ IsFiniteSet(S)
  BY <1>3, FS_Subset DEF Summed
<1>12. /\ numa'.cur = SumOver(S, F) /\ numa'.dev = subcount(SumOver(S, F), numa.cur)
       /\ numa'.grown = SumOver(S, Grown) /\ numa'.same = (Online = OnlineIn(cur))
  BY <1>2 DEF NumaCpu, OnlineIn
<1> HIDE DEF F
<1>13. SumOver(S, F) = Total(F, S) /\ SumOver(S, Grown) = Total(Grown, S)
  BY SumOverIs
<1>14. Total(F, S) = Total(seen', S)
  <2> DEFINE h == seen'
  <2>1. \A c \in S : F[c] = h[c]
    BY <1>2, <1>3, <1>10, <1>11
  <2> HIDE DEF h
  <2>2. Total(F, S) = Total(h, S)
    BY <1>11, <2>1, TotalAgrees
  <2> QED BY <2>2 DEF h
<1>15. numa'.same => numa'.dev = numa'.grown
  <2> SUFFICES ASSUME Online = OnlineIn(cur) PROVE subcount(Total(F, S), numa.cur) = Total(Grown, S)
    BY <1>12, <1>13
  <2>1. numa.cur = Total(seen, S)
    BY DEF CpuInv
  <2>2. \A c \in S : seen[c] \in Nat /\ Grown[c] \in Nat /\ F[c] = seen[c] + Grown[c]
    BY <1>5, <1>10, <1>11
  <2>3. Total(F, S) = Total(seen, S) + Total(Grown, S)
    BY <1>11, <2>2, TotalAdds
  <2>4. Total(seen, S) \in Nat /\ Total(Grown, S) \in Nat
    BY <1>11, <2>2, TotalIsNat
  <2> QED BY <2>1, <2>3, <2>4 DEF subcount
<1>16. \A i \in DOMAIN dev' : dev'[i].on => dev'[i].val = cur'[i].val - seen[i - 1]
  <2>1. dev' = [i \in DOMAIN k |->
                  IF k[i].on THEN [k[i] EXCEPT !.val = subcount(@, IF i <= Len(cur) THEN cur[i].val ELSE 0)]
                  ELSE k[i]]
    BY <1>2, Zenon DEF DevCpu
  <2> SUFFICES ASSUME NEW i \in 1 .. Len(k), dev'[i].on PROVE dev'[i].val = k[i].val - seen[i - 1]
    BY <1>2, <1>4, <2>1
  <2>2. k[i] \in Devices
    BY <1>4
  <2>3. k[i].on
    BY <1>4, <2>1
  <2> DEFINE c == i - 1
             b == IF i <= Len(cur) THEN cur[i].val ELSE 0
  <2>4. c \in Online /\ c + 1 = i /\ c \in Cpus
    BY <1>1, <1>3, <1>4, <2>3 DEF Kept
  <2>5. seen[c] = b
    <3>1. seen[c] = IF c + 1 <= Len(cur) THEN cur[c + 1].val ELSE 0
      BY <2>4 DEF CpuInv
    <3> HIDE DEF c
    <3> QED BY <2>4, <3>1
  <2>6. k[i] = DeviceOf(c)
    <3> HIDE DEF c
    <3> QED BY <1>5, <2>4
  <2>7. dev'[i] = [k[i] EXCEPT !.val = subcount(@, b)]
    BY <1>4, <2>1, <2>3
  <2> HIDE DEF c, b
  <2>8. dev'[i].val = subcount(k[i].val, b)
    BY <2>2, <2>7 DEF Devices
  <2>9. b \in Nat /\ k[i].val \in Nat /\ b <= k[i].val
    BY <1>5, <2>4, <2>5, <2>6
  <2>10. subcount(k[i].val, b) = k[i].val - b
    BY <2>9 DEF subcount
  <2> QED BY <2>5, <2>8, <2>10 DEF c
<1>17. seen' \in [Cpus -> Nat]
  <2>1. seen \in [Cpus -> Nat]
    BY DEF CpuInv
  <2> QED BY <1>2, <1>5, <2>1
<1>18. CpuInv'
  <2>1. numa'.cur = Total(seen', Summed(OnlineIn(k)))
    BY <1>8, <1>12, <1>13, <1>14
  <2>2. OnlineIn(cur)' = OnlineIn(k)
    BY <1>2 DEF OnlineIn
  <2>3. /\ CpuKern(kern') /\ cur' \in Seq(Devices)
        /\ \A i \in 1 .. Len(kern') : seen'[kern'[i].name] <= kern'[i].val
        /\ \A c \in Cpus : seen'[c] = IF c + 1 <= Len(cur') THEN cur'[c + 1].val ELSE 0
    BY <1>2, <1>3, <1>4, <1>6, <1>7
  <2>4. OnlineIn(cur)' \subseteq Cpus /\ numa'.cur = Total(seen', Summed(OnlineIn(cur)'))
    BY <1>3, <1>8, <2>1, <2>2
  <2> QED BY <1>17, <2>3, <2>4 DEF CpuInv
<1> QED BY <1>15, <1>16, <1>18

-----------------------------------------------------------------------------
(***************************************************************************)
(* The devices of every behaviour.                                         *)
(***************************************************************************)
LEMMA PerfOwned == PerfInv => PerfOwn
<1>1. ASSUME perf = NoPerf PROVE perf.read = {}
  BY <1>1 DEF NoPerf
<1> QED BY <1>1 DEF PerfInv, PerfOwn

LEMMA ListsKept == ListsInv /\ UNCHANGED devvars => ListsInv'
<1> SUFFICES ASSUME ListsInv, UNCHANGED devvars PROVE ListsInv'
  OBVIOUS
<1>1. UNCHANGED <<tbl, kern, clock, changes, nsample, pre, cur, dev>>
  BY DEF devvars, dvars
<1>2. clock' \in Nat /\ changes' \in Nat
  BY <1>1 DEF ListsInv
<1>3. Lists => Lists'
  <2>1. Orderly(kern)' <=> Orderly(kern)
    BY <1>1 DEF Orderly
  <2>2. Orderly(cur)' <=> Orderly(cur)
    BY <1>1 DEF Orderly
  <2>3. Bound' = Bound
    BY <1>1 DEF Bound
  <2>4. Given(kern, Bound)' <=> Given(kern, Bound)
    BY <1>1, <2>3 DEF Given
  <2>5. Given(cur, Bound)' <=> Given(cur, Bound)
    BY <1>1, <2>3 DEF Given
  <2>6. Since(kern, cur, clock)' <=> Since(kern, cur, clock)
    BY <1>1 DEF Since
  <2> QED BY <2>1, <2>2, <2>4, <2>5, <2>6 DEF Lists
<1>4. tbl \in DeviceTables => Lists'
  BY <1>3 DEF ListsInv
<1> QED BY <1>1, <1>2, <1>4, ListsFixed

LEMMA PropKept == PropInv /\ UNCHANGED devvars => PropInv'
<1> SUFFICES ASSUME PropInv, UNCHANGED devvars PROVE PropInv'
  OBVIOUS
<1>1. UNCHANGED <<tbl, ktype, kern, ifhash>>
  BY DEF devvars, dvars
<1>2. Known(ifhash)' <=> Known(ifhash)
  BY <1>1 DEF Known, Left
<1> QED BY <1>1, <1>2 DEF PropInv

\* CPUs have been counted in order, other tables open no perf counters.
CountInv == /\ tbl = "cpu" => CpuInv
            /\ tbl # "cpu" => perf = NoPerf

LEMMA CountStarts == DevInit \/ DevOff => CountInv /\ PerfInv
<1> SUFFICES ASSUME DevInit \/ DevOff PROVE CountInv /\ PerfInv
  OBVIOUS
<1>1. perf = NoPerf
  BY DEF DevInit, DevOff
<1>2. tbl = "cpu" => CpuInv
  <2>1. tbl = "cpu" => DevInit
    BY DEF DevOff
  <2> QED BY <2>1, CpuStart
<1>3. PerfInv
  <2>1. perf = [alloced |-> perf.alloced, onliners |-> perf.onliners, nrcpu |-> perf.nrcpu,
                fds |-> perf.fds, read |-> perf.read]
    BY <1>1 DEF NoPerf
  <2> QED BY <1>1, <2>1 DEF PerfInv
<1> QED BY <1>1, <1>2, <1>3 DEF CountInv

LEMMA CountKept ==
  ASSUME CountInv, UNCHANGED <<tbl, kern, cur, seen, numa, perf>> PROVE CountInv'
<1>1. CpuInv => CpuInv'
  <2>1. CpuKern(kern)' <=> CpuKern(kern)
    BY DEF CpuKern
  <2> QED BY <2>1 DEF CpuInv, OnlineIn
<1> QED BY <1>1 DEF CountInv

LEMMA CountNextInv == CountInv /\ DevNext => CountInv'
<1> SUFFICES ASSUME CountInv, DevNext PROVE CountInv'
  OBVIOUS
<1>1. CASE UNCHANGED dvars
  BY <1>1, CountKept DEF dvars
<1>2. CASE System
  <2>1. tbl' = tbl /\ perf' = perf
    BY <1>2 DEF System, Plug, Unplug, Hotplug, Work, Tick
  <2>2. tbl = "cpu" => CpuInv'
    BY <1>2, CpuWorks DEF CountInv
  <2> QED BY <2>1, <2>2 DEF CountInv
<1>3. ASSUME NEW usable \in BOOLEAN, SampleCpu(usable) PROVE CountInv'
  <2>1. tbl' = tbl /\ tbl = "cpu"
    BY <1>3 DEF SampleCpu, Took
  <2>2. CpuInv'
    BY <1>3, <2>1, CpuSampled DEF CountInv
  <2> QED BY <2>1, <2>2 DEF CountInv
<1>4. CASE SampleDsk \/ SampleNfs \/ \E due \in BOOLEAN : SampleIntf(due)
  <2>1. tbl' = tbl /\ tbl # "cpu" /\ perf' = perf
    BY <1>4 DEF SampleDsk, SampleNfs, SampleIntf, Took
  <2> QED BY <2>1 DEF CountInv
<1> QED BY <1>1, <1>2, <1>3, <1>4 DEF DevNext, Sample

LEMMA PerfKept == PerfInv /\ perf' = perf => PerfInv'
  BY DEF PerfInv

LEMMA PerfNextInv ==
  ASSUME SquaresTell, CountInv, PerfInv, DevNext PROVE PerfInv'
<1>1. ASSUME NEW usable \in BOOLEAN, SampleCpu(usable) PROVE PerfInv'
  <2>1. CpuKern(kern) /\ perf' = GetPerfEvents(usable)
    BY <1>1 DEF SampleCpu, CountInv, CpuInv
  <2> DEFINE p == GetPerfEvents(usable)
  <2>2. p = GetPerfEvents(usable) /\ p = perf'
    BY <2>1
  <2> HIDE DEF p
  <2> QED BY <2>1, <2>2, PerfNext
<1>2. CASE System \/ SampleDsk \/ SampleNfs \/ (\E due \in BOOLEAN : SampleIntf(due)) \/ UNCHANGED dvars
  <2>1. perf' = perf
    BY <1>2 DEF System, Plug, Unplug, Hotplug, Work, Tick, SampleDsk, SampleNfs, SampleIntf, dvars
  <2> QED BY <2>1, PerfKept
<1> QED BY <1>1, <1>2 DEF DevNext, Sample

DevicesInv == ListsInv /\ PropInv /\ CountInv

LEMMA DevicesStart == Init => DevicesInv /\ PerfInv
<1>1. Init => DevInit \/ DevOff
  BY DEF Init
<1> QED BY <1>1, ListsStart, PropStarts, CountStarts DEF DevicesInv

LEMMA DevicesNext == DevicesInv /\ [Next]_vars => DevicesInv'
<1> SUFFICES ASSUME DevicesInv, [Next]_vars PROVE DevicesInv'
  OBVIOUS
<1>1. DevNext \/ UNCHANGED devvars
  BY DEF Next, vars
<1>2. CASE UNCHANGED devvars
  <2>1. UNCHANGED <<tbl, kern, cur, seen, numa, perf>>
    BY <1>2 DEF devvars, dvars
  <2> QED BY <1>2, <2>1, ListsKept, PropKept, CountKept DEF DevicesInv
<1> QED BY <1>1, <1>2, ListsNextInv, PropNextInv, CountNextInv DEF DevicesInv

\* Every device of every sample has got its own counters: those of the
\* device that had its name and its identity before, wherever it was listed
\* (deviatsyst(), the loops over interfaces, disks and mounts).
THEOREM CountersAreAttributed == Spec => []Attributed
<1>1. DevicesInv => Attributed
  BY DEF DevicesInv, ListsInv
<1> QED BY <1>1, DevicesStart, DevicesNext, PTL DEF Spec

\* The interfaces known fit in the table, and the physical ones are taken away
\* only if they exceed it themselves (initifprop()).
THEOREM InterfacesAreKept == Spec => []PhysicalKept
<1>1. DevicesInv => PhysicalKept
  BY KnownKept DEF DevicesInv
<1> QED BY <1>1, DevicesStart, DevicesNext, PTL DEF Spec

\* As long as the sum of the squares tells the sets of CPUs, no perf counter is
\* read from the descriptor of another CPU (getperfevents()); with it all
\* that the run checks of devices.
THEOREM DevicesAreRight == ASSUME SquaresTell PROVE Spec => []DevicesRight
<1>1. DevicesInv /\ PerfInv /\ [Next]_vars => (DevicesInv /\ PerfInv)'
  <2> SUFFICES ASSUME DevicesInv, PerfInv, [Next]_vars PROVE PerfInv'
    BY DevicesNext
  <2>1. DevNext \/ perf' = perf
    BY DEF Next, vars, devvars, dvars
  <2> QED BY <2>1, PerfKept, PerfNextInv DEF DevicesInv
<1>2. DevicesInv /\ PerfInv => DevicesRight
  BY KnownKept, PerfOwned DEF DevicesRight, DevicesInv, ListsInv
<1> QED BY <1>1, <1>2, DevicesStart, PTL DEF Spec

\* A CPU that comes back continues where it was seen last, and a NUMA node
\* gets what the CPUs summed for it have done as long as the same ones are
\* online (photosyst(); deviatsyst(), the loop over the CPUs).
THEOREM CpusContinue == Spec => CpuContinues
<1> DEFINE A == \A usable \in BOOLEAN : SampleCpu(usable) =>
                  /\ \A i \in DOMAIN dev' : dev'[i].on => dev'[i].val = cur'[i].val - seen[i - 1]
                  /\ numa'.same => numa'.dev = numa'.grown
<1>1. DevicesInv => A
  <2> SUFFICES ASSUME DevicesInv, NEW usable \in BOOLEAN, SampleCpu(usable)
               PROVE  /\ \A i \in DOMAIN dev' : dev'[i].on => dev'[i].val = cur'[i].val - seen[i - 1]
                      /\ numa'.same => numa'.dev = numa'.grown
    OBVIOUS
  <2>1. CpuInv
    BY DEF SampleCpu, DevicesInv, CountInv
  <2> QED BY <2>1, CpuSampled
<1>2. Spec => []DevicesInv
  BY DevicesStart, DevicesNext, PTL DEF Spec
<1>3. CpuContinues <=> [][A]_devvars
  BY DEF CpuContinues
<1> HIDE DEF A
<1> QED BY <1>1, <1>2, <1>3, PTL
-----------------------------------------------------------------------------
(***************************************************************************)
(* GPU statistics.                                                         *)
(***************************************************************************)
GpuEntries == [pid : Nat, gpus : SUBSET Gpus]

\* The keys of the sorted list: the process id decides.
LEMMA KeyOrder ==
  ASSUME NEW n \in Nat, NEW p \in Nat, NEW q \in Nat, NEW i \in 1 .. n, NEW j \in 1 .. n
  PROVE  p * (n + 1) + i \in Nat /\ (p < q => p * (n + 1) + i < q * (n + 1) + j)
<1> DEFINE b == n + 1
           x == p * b
           y == q * b
<1>1. x \in Nat /\ y \in Nat
  OBVIOUS
<1>2. ASSUME p < q PROVE x + b <= y
  <2> DEFINE d == q - p - 1
  <2>1. d \in Nat /\ q = p + 1 + d
    BY <1>2
  <2>2. y = p * b + b + d * b
    BY <2>1
  <2>3. d * b \in Nat
    BY <2>1
  <2> QED BY <1>1, <2>2, <2>3
<1>3. i < b /\ j < b /\ i > 0 /\ j > 0 /\ b \in Nat
  OBVIOUS
<1> HIDE DEF b, x, y
<1>4. x + i \in Nat /\ (p < q => x + i < y + j)
  BY <1>1, <1>2, <1>3
<1> QED BY <1>4 DEF x, y, b

\* t has the entries of s, and no others, by process id.
PidSorted(t, s) ==
  /\ t \in Seq(GpuEntries)
  /\ \A k \in 1 .. Len(t) : \E i \in 1 .. Len(s) : t[k] = s[i]
  /\ \A i \in 1 .. Len(s) : \E k \in 1 .. Len(t) : t[k] = s[i]
  /\ \A k, l \in 1 .. Len(t) : k < l => t[k].pid <= t[l].pid

LEMMA SortPidIs ==
  ASSUME NEW s \in Seq(GpuEntries)
  PROVE  PidSorted(SortPid(s), s)
<1> DEFINE n == Len(s)
           key == [i \in DOMAIN s |-> s[i].pid * (n + 1) + i]
           K == {s[i].pid * (n + 1) + i : i \in DOMAIN s}
           c == Cardinality(K)
           x(k) == CHOOSE i \in DOMAIN s : s[i].pid * (n + 1) + i = Nth(K, k)
           t == SortPid(s)
<1>1. n \in Nat /\ DOMAIN s = 1 .. n /\ \A i \in 1 .. n : s[i] \in GpuEntries /\ s[i].pid \in Nat
  <2>1. n \in Nat /\ DOMAIN s = 1 .. n /\ \A i \in 1 .. n : s[i] \in GpuEntries
    OBVIOUS
  <2> QED BY <2>1 DEF GpuEntries
<1>2. t = [k \in 1 .. c |-> s[x(k)]]
  BY Zenon DEF SortPid
<1> HIDE DEF t
<1>3. (\A i \in 1 .. n : key[i] = s[i].pid * (n + 1) + i) /\ K = {key[i] : i \in 1 .. n}
  BY <1>1
<1>4. \A i, j \in 1 .. n : key[i] \in Nat /\ (s[i].pid < s[j].pid => key[i] < key[j])
                           /\ (key[i] = key[j] => i = j)
  <2> TAKE i, j \in 1 .. n
  <2> DEFINE p == s[i].pid
             q == s[j].pid
             a == key[i]
             b == key[j]
  <2>1. p \in Nat /\ q \in Nat
    BY <1>1
  <2>2. a = p * (n + 1) + i /\ b = q * (n + 1) + j
    BY <1>3
  <2> HIDE DEF p, q, a, b, key, n
  <2>3. a \in Nat /\ b \in Nat /\ (p < q => a < b) /\ (q < p => b < a)
    BY <1>1, <2>1, <2>2, KeyOrder
  <2>4. ASSUME a = b PROVE i = j
    <3>1. p = q
      BY <2>1, <2>3, <2>4
    <3>2. p * (n + 1) \in Nat
      BY <1>1, <2>1
    <3> QED BY <1>1, <2>2, <2>4, <3>1, <3>2
  <2> QED BY <2>3, <2>4 DEF p, q, a, b
<1> HIDE DEF key, K, c
<1>5. K \subseteq Nat /\ IsFiniteSet(K) /\ c \in Nat
  <2>1. K \subseteq Nat
    BY <1>3, <1>4
  <2>2. IsFiniteSet(1 .. n)
    <3>1. 1 \in Int /\ n \in Int
      BY <1>1
    <3> HIDE DEF n
    <3> QED BY <3>1, FS_Interval
  <2> DEFINE f == [i \in 1 .. n |-> key[i]]
  <2>3. f \in Surjection(1 .. n, K)
    BY <1>3 DEF Surjection
  <2>4. IsFiniteSet(K)
    BY <2>2, <2>3, FS_Surjection
  <2> QED BY <2>1, <2>4, FS_CardinalityType DEF c
<1>6. ASSUME NEW k \in 1 .. c PROVE x(k) \in 1 .. n /\ key[x(k)] = Nth(K, k)
  <2>1. Nth(K, k) \in K
    BY <1>5, NthIs DEF c
  <2>2. \E i \in DOMAIN s : s[i].pid * (n + 1) + i = Nth(K, k)
    BY <2>1 DEF K
  <2>3. x(k) \in DOMAIN s /\ s[x(k)].pid * (n + 1) + x(k) = Nth(K, k)
    BY <2>2, Zenon
  <2> HIDE DEF x
  <2> QED BY <1>1, <1>3, <2>3
<1>7. ASSUME NEW k \in 1 .. c, NEW l \in 1 .. c, k < l PROVE s[x(k)].pid <= s[x(l)].pid
  <2>1. Nth(K, k) < Nth(K, l)
    BY <1>5, <1>7, NthGrows DEF c
  <2>2. x(k) \in 1 .. n /\ x(l) \in 1 .. n /\ key[x(k)] < key[x(l)]
    BY <1>6, <2>1
  <2>3. ~ (s[x(l)].pid < s[x(k)].pid)
    <3> HIDE DEF x
    <3>1. key[x(k)] \in Nat /\ key[x(l)] \in Nat /\ (s[x(l)].pid < s[x(k)].pid => key[x(l)] < key[x(k)])
      BY <1>4, <2>2
    <3> QED BY <2>2, <3>1
  <2> HIDE DEF x
  <2> QED BY <1>1, <2>2, <2>3
<1>8. ASSUME NEW i \in 1 .. n PROVE \E k \in 1 .. c : x(k) = i
  <2>1. PICK k \in 1 .. c : Nth(K, k) = key[i]
    <3>1. key[i] \in K
      BY <1>3
    <3> QED BY <1>5, <3>1, NthAll DEF c
  <2>2. x(k) \in 1 .. n /\ key[x(k)] = key[i]
    BY <1>6, <2>1
  <2> HIDE DEF x
  <2> QED BY <1>4, <2>2
<1> HIDE DEF x
<1>9. \A k \in 1 .. c : t[k] = s[x(k)] /\ x(k) \in 1 .. n
  BY <1>2, <1>6
<1>10. t \in Seq(GpuEntries) /\ Len(t) = c
  <2>1. \A k \in 1 .. c : t[k] \in GpuEntries
    BY <1>1, <1>9
  <2>2. t = [k \in 1 .. c |-> t[k]]
    BY <1>2
  <2> QED BY <1>5, <2>1, <2>2
<1>11. \A k \in 1 .. c : \E i \in 1 .. n : t[k] = s[i]
  BY <1>9
<1>12. \A i \in 1 .. n : \E k \in 1 .. c : t[k] = s[i]
  BY <1>8, <1>9
<1>13. \A k, l \in 1 .. c : k < l => t[k].pid <= t[l].pid
  BY <1>7, <1>9
<1>14. PidSorted(t, s)
  BY <1>10, <1>11, <1>12, <1>13 DEF PidSorted
<1> QED BY <1>14 DEF t

-----------------------------------------------------------------------------
\* The list after k entries of t: one entry for each process, with all its GPUs.
UsesOf(t, k, p) == UNION {t[i].gpus : i \in {m \in 1 .. k : t[m].pid = p}}
Accumulated(a, t, k) ==
  /\ a \in Seq(GpuEntries)
  /\ \A x, y \in 1 .. Len(a) : x < y => a[x].pid < a[y].pid
  /\ \A x \in 1 .. Len(a) : a[x].gpus = UsesOf(t, k, a[x].pid)
  /\ \A x \in 1 .. Len(a) : \E i \in 1 .. k : t[i].pid = a[x].pid
  /\ \A i \in 1 .. k : \E x \in 1 .. Len(a) : a[x].pid = t[i].pid
AccStep(a, e) ==
  IF a # << >> /\ a[Len(a)].pid = e.pid
  THEN [a EXCEPT ![Len(a)].gpus = @ \cup e.gpus]
  ELSE Append(a, e)

LEMMA UsesGrow ==
  ASSUME NEW t, NEW k \in Nat \ {0}, NEW p
  PROVE  UsesOf(t, k, p) = UsesOf(t, k - 1, p) \cup (IF t[k].pid = p THEN t[k].gpus ELSE {})
<1>1. 1 .. k = (1 .. k - 1) \cup {k}
  OBVIOUS
<1> DEFINE A == {m \in 1 .. k : t[m].pid = p}
           B == {m \in 1 .. k - 1 : t[m].pid = p}
<1>2. A = B \cup (IF t[k].pid = p THEN {k} ELSE {})
  BY <1>1
<1> HIDE DEF A, B
<1>3. UNION {t[i].gpus : i \in A} = (UNION {t[i].gpus : i \in B}) \cup (IF t[k].pid = p THEN t[k].gpus ELSE {})
  BY <1>2
<1> QED BY <1>3 DEF UsesOf, A, B

LEMMA AccumulatesOn ==
  ASSUME NEW t \in Seq(GpuEntries), NEW k \in 1 .. Len(t), NEW a, Accumulated(a, t, k - 1),
         \A i, j \in 1 .. Len(t) : i < j => t[i].pid <= t[j].pid
  PROVE  Accumulated(AccStep(a, t[k]), t, k)
<1> DEFINE e == t[k]
           n == Len(a)
           r == AccStep(a, e)
<1>0. /\ k \in Nat \ {0} /\ n \in Nat /\ DOMAIN a = 1 .. n /\ a \in Seq(GpuEntries) /\ e \in GpuEntries
      /\ \A x \in 1 .. n : a[x] \in GpuEntries
  BY DEF Accumulated
<1>1. \A x \in 1 .. n : a[x].pid \in Nat /\ a[x].gpus \in SUBSET Gpus
  BY <1>0 DEF GpuEntries
<1>2. e.pid \in Nat /\ e.gpus \in SUBSET Gpus
  BY <1>0 DEF GpuEntries
<1>3. \A x \in 1 .. n : a[x].pid <= e.pid
  <2> TAKE x \in 1 .. n
  <2>1. PICK i \in 1 .. k - 1 : t[i].pid = a[x].pid
    BY DEF Accumulated
  <2>2. i \in 1 .. Len(t) /\ i < k
    BY <2>1
  <2> QED BY <2>1, <2>2
<1>4. \A p : UsesOf(t, k, p) = UsesOf(t, k - 1, p) \cup (IF e.pid = p THEN e.gpus ELSE {})
  BY <1>0, UsesGrow
<1>5. \A i \in 1 .. k : i = k \/ i \in 1 .. k - 1
  BY <1>0
<1>6. CASE a # << >> /\ a[n].pid = e.pid
  <2> DEFINE c == [a[n] EXCEPT !.gpus = @ \cup e.gpus]
  <2>1. n \in 1 .. n
    BY <1>0, <1>6
  <2>2. r = [a EXCEPT ![n] = c]
    BY <1>6 DEF AccStep
  <2>3. c \in GpuEntries /\ c.pid = e.pid /\ c.gpus = a[n].gpus \cup e.gpus
    BY <1>0, <1>1, <1>2, <1>6, <2>1 DEF GpuEntries
  <2> HIDE DEF c
  <2>4. r \in Seq(GpuEntries) /\ Len(r) = n
    BY <1>0, <2>1, <2>2, <2>3
  <2>5. r[n] = c /\ \A x \in 1 .. n : x # n => r[x] = a[x]
    BY <1>0, <2>1, <2>2
  <2> HIDE DEF r, e
  <2>6. \A x \in 1 .. n : r[x].pid = a[x].pid
    BY <1>6, <2>3, <2>5
  <2>7. ASSUME NEW x \in 1 .. n PROVE r[x].gpus = UsesOf(t, k, r[x].pid)
    <3>1. a[x].gpus = UsesOf(t, k - 1, a[x].pid)
      BY DEF Accumulated
    <3>2. CASE x = n
      BY <1>4, <1>6, <2>3, <2>5, <3>1, <3>2
    <3>3. CASE x # n
      <4>1. a[x].pid # e.pid
        <5>1. x < n
          <6>1. n \in Nat
            BY <1>0
          <6> HIDE DEF n
          <6> QED BY <3>3, <6>1
        <5>2. a[x].pid < a[n].pid
          BY <2>1, <5>1 DEF Accumulated
        <5> QED BY <1>1, <1>2, <1>6, <5>2
      <4>2. UsesOf(t, k, a[x].pid) = UsesOf(t, k - 1, a[x].pid)
        BY <1>4, <4>1
      <4> QED BY <2>5, <3>1, <3>3, <4>2
    <3> QED BY <3>2, <3>3
  <2>8. \A x, y \in 1 .. n : x < y => r[x].pid < r[y].pid
    BY <2>6 DEF Accumulated
  <2>9. \A x \in 1 .. n : \E i \in 1 .. k : t[i].pid = r[x].pid
    <3> TAKE x \in 1 .. n
    <3>1. PICK i \in 1 .. k - 1 : t[i].pid = a[x].pid
      BY DEF Accumulated
    <3> QED BY <1>0, <2>6, <3>1
  <2>10. \A i \in 1 .. k : \E x \in 1 .. n : r[x].pid = t[i].pid
    <3> TAKE i \in 1 .. k
    <3>1. CASE i = k
      BY <2>1, <2>3, <2>5, <3>1 DEF e
    <3>2. CASE i \in 1 .. k - 1
      <4>1. PICK x \in 1 .. n : a[x].pid = t[i].pid
        BY <3>2 DEF Accumulated
      <4> QED BY <2>6, <4>1
    <3> QED BY <1>5, <3>1, <3>2
  <2>11. Accumulated(r, t, k)
    BY <2>4, <2>7, <2>8, <2>9, <2>10 DEF Accumulated
  <2> QED BY <2>11 DEF r, e
<1>7. CASE ~ (a # << >> /\ a[n].pid = e.pid)
  <2>1. r = Append(a, e)
    BY <1>7, Zenon DEF AccStep
  <2>2. r \in Seq(GpuEntries) /\ Len(r) = n + 1 /\ r[n + 1] = e /\ \A x \in 1 .. n : r[x] = a[x]
    BY <1>0, <2>1
  <2>3. \A x \in 1 .. n : a[x].pid < e.pid
    <3> TAKE x \in 1 .. n
    <3>1. n \in 1 .. n /\ a # << >>
      BY <1>0
    <3>2. a[n].pid # e.pid /\ a[n].pid <= e.pid
      BY <1>3, <1>7, <3>1
    <3>3. x < n => a[x].pid < a[n].pid
      BY <3>1 DEF Accumulated
    <3>4. x = n \/ x < n
      BY <1>0
    <3> HIDE DEF n, e
    <3> QED BY <1>1, <1>2, <3>1, <3>2, <3>3, <3>4
  <2>4. UsesOf(t, k - 1, e.pid) = {}
    <3>1. ASSUME NEW i \in 1 .. k - 1 PROVE t[i].pid # e.pid
      <4>1. PICK x \in 1 .. n : a[x].pid = t[i].pid
        BY DEF Accumulated
      <4> QED BY <1>1, <1>2, <2>3, <4>1
    <3>2. {m \in 1 .. k - 1 : t[m].pid = e.pid} = {}
      BY <3>1
    <3> HIDE DEF e
    <3> QED BY <3>2 DEF UsesOf
  <2> HIDE DEF r, e
  <2>5. \A x \in 1 .. n + 1 : x \in 1 .. n \/ x = n + 1
    BY <1>0
  <2>6. ASSUME NEW x \in 1 .. n + 1 PROVE r[x].gpus = UsesOf(t, k, r[x].pid)
    <3>1. CASE x \in 1 .. n
      <4>1. a[x].gpus = UsesOf(t, k - 1, a[x].pid)
        BY <3>1 DEF Accumulated
      <4>2. a[x].pid # e.pid
        BY <1>1, <1>2, <2>3, <3>1
      <4>3. UsesOf(t, k, a[x].pid) = UsesOf(t, k - 1, a[x].pid)
        BY <1>4, <4>2
      <4> QED BY <2>2, <3>1, <4>1, <4>3
    <3>2. CASE x = n + 1
      BY <1>4, <2>2, <2>4, <3>2
    <3> QED BY <2>5, <3>1, <3>2
  <2>7. ASSUME NEW x \in 1 .. n + 1, NEW y \in 1 .. n + 1, x < y PROVE r[x].pid < r[y].pid
    <3>1. x \in 1 .. n
      BY <1>0, <2>7
    <3>2. CASE y \in 1 .. n
      <4>1. a[x].pid < a[y].pid
        BY <2>7, <3>1, <3>2 DEF Accumulated
      <4> QED BY <2>2, <3>1, <3>2, <4>1
    <3>3. CASE y = n + 1
      BY <2>2, <2>3, <3>1, <3>3
    <3> QED BY <2>5, <3>2, <3>3
  <2>8. ASSUME NEW x \in 1 .. n + 1 PROVE \E i \in 1 .. k : t[i].pid = r[x].pid
    <3>1. CASE x \in 1 .. n
      <4>1. PICK i \in 1 .. k - 1 : t[i].pid = a[x].pid
        BY <3>1 DEF Accumulated
      <4> QED BY <1>0, <2>2, <3>1, <4>1
    <3>2. CASE x = n + 1
      <4>1. k \in 1 .. k /\ t[k].pid = r[x].pid
        BY <1>0, <2>2, <3>2 DEF e
      <4> QED BY <4>1
    <3> QED BY <2>5, <3>1, <3>2
  <2>9. ASSUME NEW i \in 1 .. k PROVE \E x \in 1 .. n + 1 : r[x].pid = t[i].pid
    <3>1. CASE i = k
      <4>1. n + 1 \in 1 .. n + 1 /\ r[n + 1].pid = t[i].pid
        BY <1>0, <2>2, <3>1 DEF e
      <4> QED BY <4>1
    <3>2. CASE i \in 1 .. k - 1
      <4>1. PICK x \in 1 .. n : a[x].pid = t[i].pid
        BY <3>2 DEF Accumulated
      <4>2. x \in 1 .. n + 1 /\ r[x].pid = t[i].pid
        BY <1>0, <2>2, <4>1
      <4> QED BY <4>2
    <3> QED BY <1>5, <3>1, <3>2
  <2>10. Accumulated(r, t, k)
    BY <2>2, <2>6, <2>7, <2>8, <2>9 DEF Accumulated
  <2> QED BY <2>10 DEF r, e
<1> QED BY <1>6, <1>7

Accumulates(v, t) ==
  v = [k \in 0 .. Len(t) |-> IF k = 0 THEN << >> ELSE AccStep(v[k - 1], t[k])]

LEMMA AccumulateIs ==
  ASSUME NEW t \in Seq(GpuEntries), \A i, j \in 1 .. Len(t) : i < j => t[i].pid <= t[j].pid
  PROVE  Accumulated(Accumulate(t), t, Len(t))
<1> DEFINE n == Len(t)
           T == Seq(GpuEntries)
           F == [ks \in (1 .. n) \X T |-> AccStep(ks[2], t[ks[1]])]
           w == CHOOSE v : Accumulates(v, t)
<1>1. n \in Nat /\ << >> \in T
  OBVIOUS
<1>2. ASSUME NEW k \in 1 .. n, NEW s \in T PROVE F[<<k, s>>] = AccStep(s, t[k]) /\ F[<<k, s>>] \in T
  <2>1. F[<<k, s>>] = AccStep(s, t[k])
    OBVIOUS
  <2> HIDE DEF F
  <2>2. t[k] \in GpuEntries
    OBVIOUS
  <2> DEFINE e == t[k]
             m == Len(s)
             c == [s[m] EXCEPT !.gpus = @ \cup e.gpus]
  <2>3. e \in GpuEntries /\ m \in Nat
    BY <2>2
  <2> HIDE DEF e
  <2>4. ASSUME s # << >> PROVE c \in GpuEntries /\ m \in 1 .. m
    <3>1. m \in 1 .. m
      BY <2>4
    <3>2. s[m] \in GpuEntries
      BY <3>1
    <3> QED BY <2>3, <3>1, <3>2 DEF GpuEntries
  <2> HIDE DEF c
  <2>5. Append(s, e) \in Seq(GpuEntries)
    BY <2>3
  <2>6. s # << >> => [s EXCEPT ![m] = c] \in Seq(GpuEntries)
    BY <2>4
  <2>7. AccStep(s, e) = IF s # << >> /\ s[m].pid = e.pid THEN [s EXCEPT ![m] = c] ELSE Append(s, e)
    BY Zenon DEF AccStep, c
  <2>8. AccStep(s, e) \in Seq(GpuEntries)
    BY <2>5, <2>6, <2>7
  <2> QED BY <2>1, <2>8 DEF e
<1>3. Accumulated(<< >>, t, 0)
  BY DEF Accumulated
<1> HIDE DEF F, n, T
<1>4. PICK g : g \in [0 .. n -> T] /\ g[0] = << >> /\ \A k \in 1 .. n : g[k] = F[<<k, g[k - 1]>>]
  <2>1. Stays(F, n, T)
    BY <1>2 DEF Stays
  <2>2. \E g : Iterates(g, F, n, T, << >>)
    BY <1>1, <2>1, Iterated
  <2> QED BY <2>2 DEF Iterates
<1>5. \A k \in 1 .. n : g[k] = AccStep(g[k - 1], t[k])
  <2> TAKE k \in 1 .. n
  <2>1. g[k - 1] \in T
    BY <1>1, <1>4
  <2> QED BY <1>2, <1>4, <2>1
<1>6. Accumulates(g, t)
  <2>1. \A k \in 0 .. n : g[k] = IF k = 0 THEN << >> ELSE AccStep(g[k - 1], t[k])
    <3> TAKE k \in 0 .. n
    <3>1. k # 0 => k \in 1 .. n
      BY <1>1
    <3> QED BY <1>4, <1>5, <3>1
  <2>2. g = [k \in 0 .. n |-> g[k]]
    BY <1>4
  <2>3. g = [k \in 0 .. n |-> IF k = 0 THEN << >> ELSE AccStep(g[k - 1], t[k])]
    BY <2>1, <2>2
  <2> QED BY <2>3, Zenon DEF Accumulates, n
<1>7. Accumulates(w, t)
  BY <1>6
<1>8. Accumulate(t) = w[n]
  BY Zenon DEF Accumulate, Accumulates, AccStep, n
<1> HIDE DEF w
<1>9. w[0] = << >> /\ \A k \in 1 .. n : w[k] = AccStep(w[k - 1], t[k])
  <2>1. w = [k \in 0 .. n |-> IF k = 0 THEN << >> ELSE AccStep(w[k - 1], t[k])]
    BY <1>7, Zenon DEF Accumulates, n
  <2>2. \A k \in 0 .. n : w[k] = IF k = 0 THEN << >> ELSE AccStep(w[k - 1], t[k])
    BY <2>1, Zenon
  <2>3. 0 \in 0 .. n /\ \A k \in 1 .. n : k \in 0 .. n /\ k # 0
    BY <1>1
  <2> QED BY <2>2, <2>3
<1>10. Accumulated(w[n], t, n)
  <2> DEFINE G == {k \in 0 .. n : Accumulated(w[k], t, k)}
  <2>1. 0 \in G
    BY <1>1, <1>3, <1>9
  <2>2. ASSUME NEW k \in 1 .. n, k - 1 \in G PROVE k \in G
    <3>1. Accumulated(w[k - 1], t, k - 1)
      BY <2>2
    <3>2. Accumulated(AccStep(w[k - 1], t[k]), t, k)
      BY <3>1, AccumulatesOn DEF n
    <3>3. k \in 0 .. n /\ w[k] = AccStep(w[k - 1], t[k])
      BY <1>1, <1>9
    <3> QED BY <3>2, <3>3
  <2> HIDE DEF G
  <2>3. 0 .. n \subseteq G /\ n \in 0 .. n
    BY <1>1, <2>1, <2>2, Upwards
  <2> QED BY <2>3 DEF G
<1> QED BY <1>8, <1>10 DEF n

\* The list has the processes on the GPUs in the order of their ids, each with
\* all it has done.
GpuListed(l) ==
  /\ l \in Seq(GpuEntries)
  /\ \A x, y \in 1 .. Len(l) : x < y => l[x].pid < l[y].pid
  /\ \A x \in 1 .. Len(l) : l[x].pid \in Pids /\ l[x].gpus = Done(l[x].pid) /\ Done(l[x].pid) # {}
  /\ \A p \in Pids : Done(p) # {} => \E x \in 1 .. Len(l) : l[x].pid = p

LEMMA GpuListIs ==
  ASSUME answer \in Seq(Pids \X Gpus) PROVE GpuListed(GpuList(answer))
<1> DEFINE n == Len(answer)
           s == [i \in DOMAIN answer |-> Entry(answer[i])]
           t == SortPid(s)
           l == Accumulate(t)
<1>1. n \in Nat /\ DOMAIN answer = 1 .. n /\ \A i \in 1 .. n : answer[i] \in Pids \X Gpus
  OBVIOUS
<1>2. \A i \in 1 .. n : s[i] \in GpuEntries /\ s[i].pid = answer[i][1] /\ s[i].gpus = {answer[i][2]}
                        /\ answer[i][1] \in Pids
  <2> TAKE i \in 1 .. n
  <2>1. answer[i][1] \in Pids /\ answer[i][1] \in Nat /\ answer[i][2] \in Gpus
    BY <1>1, GpuMergeAssumption
  <2>2. s[i] = [pid |-> answer[i][1], gpus |-> {answer[i][2]}]
    BY <1>1 DEF Entry
  <2> HIDE DEF s
  <2> QED BY <2>1, <2>2 DEF GpuEntries
<1>3. s \in Seq(GpuEntries) /\ Len(s) = n
  <2>1. s = [i \in 1 .. n |-> s[i]]
    BY <1>1
  <2> HIDE DEF s
  <2> QED BY <1>1, <1>2, <2>1
<1> HIDE DEF s
<1>4. /\ t \in Seq(GpuEntries)
      /\ \A k \in 1 .. Len(t) : \E i \in 1 .. n : t[k] = s[i]
      /\ \A i \in 1 .. n : \E k \in 1 .. Len(t) : t[k] = s[i]
      /\ \A k, j \in 1 .. Len(t) : k < j => t[k].pid <= t[j].pid
  <2>1. PidSorted(t, s)
    BY <1>3, SortPidIs
  <2> HIDE DEF t
  <2> QED BY <1>3, <2>1 DEF PidSorted
<1> HIDE DEF t
<1>5. Accumulated(l, t, Len(t))
  BY <1>4, AccumulateIs
<1> HIDE DEF l
<1>6. ASSUME NEW p PROVE UsesOf(t, Len(t), p) = Done(p)
  <2>1. ASSUME NEW g \in UsesOf(t, Len(t), p) PROVE g \in Done(p)
    <3>1. PICK k \in 1 .. Len(t) : t[k].pid = p /\ g \in t[k].gpus
      BY DEF UsesOf
    <3>2. PICK i \in 1 .. n : t[k] = s[i]
      BY <1>4
    <3>3. answer[i][1] = p /\ g = answer[i][2]
      BY <1>2, <3>1, <3>2
    <3> QED BY <1>1, <3>3 DEF Done
  <2>2. ASSUME NEW g \in Done(p) PROVE g \in UsesOf(t, Len(t), p)
    <3>1. PICK i \in 1 .. n : answer[i][1] = p /\ g = answer[i][2]
      BY <1>1 DEF Done
    <3>2. PICK k \in 1 .. Len(t) : t[k] = s[i]
      BY <1>4
    <3>3. t[k].pid = p /\ g \in t[k].gpus
      BY <1>2, <3>1, <3>2
    <3> QED BY <3>3 DEF UsesOf
  <2> QED BY <2>1, <2>2
<1>7. ASSUME NEW x \in 1 .. Len(l)
      PROVE  l[x].pid \in Pids /\ l[x].gpus = Done(l[x].pid) /\ Done(l[x].pid) # {}
  <2>1. PICK k \in 1 .. Len(t) : t[k].pid = l[x].pid
    BY <1>5 DEF Accumulated
  <2>2. PICK i \in 1 .. n : t[k] = s[i]
    BY <1>4
  <2>3. l[x].pid \in Pids
    BY <1>2, <2>1, <2>2
  <2>4. l[x].gpus = UsesOf(t, Len(t), l[x].pid)
    BY <1>5 DEF Accumulated
  <2>5. answer[i][2] \in Done(l[x].pid)
    <3>1. answer[i][1] = l[x].pid
      BY <1>2, <2>1, <2>2
    <3> QED BY <1>1, <3>1 DEF Done
  <2> QED BY <1>6, <2>3, <2>4, <2>5
<1>8. ASSUME NEW p \in Pids, Done(p) # {} PROVE \E x \in 1 .. Len(l) : l[x].pid = p
  <2>1. PICK i \in 1 .. n : answer[i][1] = p
    BY <1>1, <1>8 DEF Done
  <2>2. PICK k \in 1 .. Len(t) : t[k] = s[i]
    BY <1>4
  <2>3. t[k].pid = p
    BY <1>2, <2>1, <2>2
  <2> QED BY <1>5, <2>3 DEF Accumulated
<1>9. l \in Seq(GpuEntries) /\ \A x, y \in 1 .. Len(l) : x < y => l[x].pid < l[y].pid
  BY <1>5 DEF Accumulated
<1>10. GpuListed(l)
  BY <1>7, <1>8, <1>9 DEF GpuListed
<1> QED BY <1>10 DEF GpuList, l, t, s

\* The place to go on from is the first one from g on whose id is not below pid.
LEMMA ResyncIs ==
  ASSUME NEW l \in Seq(GpuEntries), \A x, y \in 1 .. Len(l) : x < y => l[x].pid < l[y].pid,
         NEW g \in 1 .. Len(l) + 1, NEW pid \in Nat
  PROVE  /\ Resync(l, pid, g) \in g .. Len(l) + 1
         /\ \A k \in g .. Len(l) : k < Resync(l, pid, g) <=> l[k].pid < pid
<1> DEFINE n == Len(l)
           A == {k \in g .. n : l[k].pid >= pid}
           r == Resync(l, pid, g)
<1>1. n \in Nat /\ g \in Nat /\ \A k \in g .. n : k \in 1 .. n /\ k \in Nat
  OBVIOUS
<1>2. \A k \in g .. n : l[k].pid \in Nat
  <2> TAKE k \in g .. n
  <2>1. l[k] \in GpuEntries
    BY <1>1
  <2> QED BY <2>1 DEF GpuEntries
<1>3. \A x, y \in g .. n : x < y => l[x].pid < l[y].pid
  BY <1>1
<1>4. CASE A = {}
  <2>1. r = n + 1
    BY <1>4 DEF Resync
  <2>2. \A k \in g .. n : l[k].pid < pid
    BY <1>2, <1>4
  <2> HIDE DEF n, r
  <2> QED BY <1>1, <2>1, <2>2 DEF n, r
<1>5. CASE A # {}
  <2>1. A \subseteq Nat
    BY <1>1
  <2>2. r = Min(A)
    BY <1>5 DEF Resync
  <2> HIDE DEF A
  <2>3. \E x \in A : \A y \in A : x <= y
    BY <1>5, <2>1, LeastNat
  <2>4. r \in A /\ \A y \in A : r <= y
    <3> HIDE DEF r
    <3> QED BY <2>2, <2>3 DEF Min
  <2> HIDE DEF r
  <2>5. r \in g .. n /\ l[r].pid >= pid
    BY <2>4 DEF A
  <2>6. ASSUME NEW k \in g .. n PROVE k < r <=> l[k].pid < pid
    <3>1. k < r => k \notin A
      <4>1. r \in Nat /\ k \in Nat
        BY <1>1, <2>5
      <4> QED BY <2>4, <4>1
    <3>2. k \notin A => l[k].pid < pid
      BY <1>2 DEF A
    <3>3. r < k => l[r].pid < l[k].pid
      BY <1>3, <2>5
    <3>4. k < r \/ r < k \/ k = r
      BY <1>1, <2>5
    <3>5. l[k].pid \in Nat /\ l[r].pid \in Nat
      BY <1>2, <2>5
    <3> QED BY <2>5, <3>1, <3>2, <3>3, <3>4, <3>5
  <2>7. r \in g .. n + 1
    BY <1>1, <2>5
  <2> QED BY <2>6, <2>7 DEF r
<1> QED BY <1>4, <1>5

-----------------------------------------------------------------------------
\* The state of the loop over the present tasks ts, after the first of them:
\* entries taken have been given to the task, and when no process below the
\* last task is missing all those up to it have been taken.
MergeState(l) == [list : [1 .. Len(l) -> GpuEntries], g : 1 .. Len(l) + 1, given : [Pids -> SUBSET Gpus]]
Upto(ts, t) == IF t = 0 THEN 0 ELSE ts[t]
NoneMissing(l, ts, p) == \A k \in 1 .. Len(l) : l[k].pid < p => \E u \in 1 .. Len(ts) : ts[u] = l[k].pid
Merged(s, l, ts, t) ==
  /\ s \in MergeState(l)
  /\ \A k \in 1 .. Len(l) :
       \/ s.list[k] = l[k]
       \/ /\ s.list[k] = NoEntry /\ k < s.g /\ s.given[l[k].pid] = l[k].gpus
          /\ \E u \in 1 .. t : ts[u] = l[k].pid
  /\ \A p \in Pids : s.given[p] = {} \/ \E k \in 1 .. Len(l) : l[k].pid = p /\ s.list[k] = NoEntry
  /\ \A k \in 1 .. Len(l) : s.g <= k => l[k].pid >= Upto(ts, t)
  /\ NoneMissing(l, ts, Upto(ts, t)) =>
       \A k \in 1 .. Len(l) : /\ k < s.g <=> l[k].pid <= Upto(ts, t)
                              /\ k < s.g => s.list[k] = NoEntry
MergeStep(s, l, pid) ==
  LET hit == s.g <= Len(l) /\ s.list[s.g].pid = pid
      g == IF hit THEN s.g + 1 ELSE s.g
  IN IF s.g > Len(l) THEN s
     ELSE [list  |-> IF hit THEN [s.list EXCEPT ![s.g] = NoEntry] ELSE s.list,
           given |-> IF hit THEN [s.given EXCEPT ![pid] = s.list[s.g].gpus] ELSE s.given,
           g     |-> Resync(l, pid, g)]

\* The process ids of tasks that are in order.
Ascending(ts) == /\ ts \in Seq(Pids)
                 /\ \A t, u \in 1 .. Len(ts) : t < u => ts[t] < ts[u]

LEMMA MergesOn ==
  ASSUME NEW l, GpuListed(l), NEW ts, Ascending(ts), NEW t \in 1 .. Len(ts), NEW s, Merged(s, l, ts, t - 1)
  PROVE  Merged(MergeStep(s, l, ts[t]), l, ts, t)
<1> DEFINE n == Len(l)
           pid == ts[t]
           r == MergeStep(s, l, pid)
           g == s.g
           old == Upto(ts, t - 1)
<1>1. /\ n \in Nat /\ g \in 1 .. n + 1 /\ s.list \in [1 .. n -> GpuEntries] /\ s.given \in [Pids -> SUBSET Gpus]
      /\ l \in Seq(GpuEntries) /\ t \in Nat /\ t # 0
  BY DEF Merged, MergeState, GpuListed
<1>2. \A k \in 1 .. n : l[k] \in GpuEntries /\ l[k].pid \in Pids /\ l[k].pid \in Nat /\ l[k].pid # 0
  <2> TAKE k \in 1 .. n
  <2>1. l[k] \in GpuEntries
    BY <1>1
  <2>2. l[k].pid \in Pids
    BY DEF GpuListed
  <2> QED BY <2>1, <2>2, GpuMergeAssumption
<1>3. pid \in Pids /\ pid \in Nat /\ pid # 0 /\ old \in Nat /\ old < pid /\ Upto(ts, t) = pid
  <2>1. ts \in Seq(Pids) /\ pid \in Pids /\ pid \in Nat /\ pid # 0
    <3>1. ts \in Seq(Pids)
      BY DEF Ascending
    <3>2. pid \in Pids
      BY <3>1
    <3> QED BY <3>1, <3>2, GpuMergeAssumption
  <2>2. CASE t = 1
    <3>1. old = 0
      BY <2>2 DEF Upto
    <3>2. Upto(ts, t) = pid
      BY <1>1 DEF Upto
    <3> HIDE DEF pid, old
    <3> QED BY <2>1, <3>1, <3>2
  <2>3. CASE t # 1
    <3>1. t - 1 \in 1 .. Len(ts) /\ t - 1 < t
      BY <2>3
    <3>2. old = ts[t - 1]
      BY <3>1 DEF Upto
    <3>3. ts[t - 1] < ts[t] /\ ts[t - 1] \in Pids
      BY <2>1, <3>1 DEF Ascending
    <3>4. Upto(ts, t) = pid
      BY <1>1 DEF Upto
    <3>5. ts[t - 1] \in Nat
      BY <3>3, GpuMergeAssumption
    <3> HIDE DEF pid, old
    <3> QED BY <2>1, <3>2, <3>3, <3>4, <3>5 DEF pid
  <2> QED BY <2>2, <2>3
<1>4. /\ \A k \in 1 .. n :
           \/ s.list[k] = l[k]
           \/ /\ s.list[k] = NoEntry /\ k < g /\ s.given[l[k].pid] = l[k].gpus
              /\ \E u \in 1 .. t - 1 : ts[u] = l[k].pid
      /\ \A p \in Pids : s.given[p] = {} \/ \E k \in 1 .. n : l[k].pid = p /\ s.list[k] = NoEntry
      /\ \A k \in 1 .. n : g <= k => l[k].pid >= old
      /\ NoneMissing(l, ts, old) =>
           \A k \in 1 .. n : /\ k < g <=> l[k].pid <= old
                             /\ k < g => s.list[k] = NoEntry
  BY DEF Merged
<1>5. \A k, j \in 1 .. n : k < j => l[k].pid < l[j].pid
  BY DEF GpuListed
<1>6. \A u \in 1 .. t - 1 : u \in 1 .. t
  BY <1>1
<1>7. NoneMissing(l, ts, pid) => NoneMissing(l, ts, old)
  <2> HIDE DEF pid, old
  <2>1. ASSUME NEW k \in 1 .. n, l[k].pid < old PROVE l[k].pid < pid
    BY <1>2, <1>3, <2>1
  <2> QED BY <2>1 DEF NoneMissing, n
<1>8. NoneMissing(l, ts, pid) => \A k \in 1 .. n : g <= k => l[k].pid >= pid
  <2> SUFFICES ASSUME NoneMissing(l, ts, pid), NEW k \in 1 .. n, g <= k, l[k].pid < pid PROVE FALSE
    BY <1>2, <1>3
  <2>1. PICK u \in 1 .. Len(ts) : ts[u] = l[k].pid
    BY DEF NoneMissing
  <2>2. ts \in Seq(Pids) /\ Len(ts) \in Nat
    BY DEF Ascending
  <2>3. u < t
    <3>1. t < u => ts[t] < ts[u]
      BY DEF Ascending
    <3>2. ts[u] < ts[t]
      BY <2>1
    <3>3. ts[u] \in Nat /\ ts[t] \in Nat /\ u \in Nat
      BY <1>2, <1>3, <2>1
    <3> HIDE DEF pid
    <3>4. u # t
      BY <3>2, <3>3
    <3> QED BY <1>1, <3>1, <3>2, <3>3, <3>4
  <2>4. l[k].pid <= old
    <3>1. t - 1 \in 1 .. Len(ts) /\ (u = t - 1 \/ u < t - 1) /\ t - 1 # 0
      BY <1>1, <2>2, <2>3
    <3>2. old = ts[t - 1]
      BY <3>1 DEF Upto
    <3>3. u < t - 1 => ts[u] < ts[t - 1]
      BY <3>1 DEF Ascending
    <3> HIDE DEF old
    <3> QED BY <1>2, <1>3, <2>1, <3>1, <3>2, <3>3
  <2>5. k < g
    BY <1>4, <1>7, <2>4
  <2> HIDE DEF g
  <2> QED BY <1>1, <2>5
<1> HIDE DEF pid, old, r, g, n
<1>9. CASE g > n
  <2>1. r = s
    BY <1>1, <1>9 DEF r, g, n, MergeStep
  <2>2. \A k \in 1 .. n : k < g /\ ~ (g <= k)
    BY <1>1, <1>9
  <2>3. ASSUME NoneMissing(l, ts, pid), NEW k \in 1 .. n PROVE l[k].pid <= pid /\ s.list[k] = NoEntry
    BY <1>2, <1>3, <1>4, <1>7, <2>2, <2>3
  <2>4. \A k \in 1 .. n :
           \/ s.list[k] = l[k]
           \/ /\ s.list[k] = NoEntry /\ k < g /\ s.given[l[k].pid] = l[k].gpus
              /\ \E u \in 1 .. t : ts[u] = l[k].pid
    BY <1>4, <1>6
  <2>5. s \in MergeState(l)
    BY DEF Merged
  <2>6. Merged(s, l, ts, t)
    BY <1>3, <1>4, <2>2, <2>3, <2>4, <2>5 DEF Merged, n, g
  <2> QED BY <2>1, <2>6 DEF r, pid
<1>10. CASE g <= n /\ s.list[g].pid = pid
  <2>1. g \in 1 .. n /\ s.list[g] = l[g] /\ l[g].pid = pid
    <3>1. g \in 1 .. n
      BY <1>1, <1>10
    <3>2. s.list[g] # NoEntry
      BY <1>3, <1>10 DEF NoEntry
    <3> QED BY <1>4, <1>10, <3>1, <3>2
  <2> DEFINE h == Resync(l, pid, g + 1)
             li == [s.list EXCEPT ![g] = NoEntry]
             gi == [s.given EXCEPT ![pid] = l[g].gpus]
  <2>2. r = [list |-> li, given |-> gi, g |-> h]
    BY <1>1, <1>10, <2>1 DEF r, g, n, MergeStep
  <2>3. h = g + 1
    <3>1. g + 1 \in 1 .. n + 1 /\ g \in Nat
      BY <1>1, <2>1
    <3>2. h \in g + 1 .. n + 1 /\ \A k \in g + 1 .. n : k < h <=> l[k].pid < pid
      BY <1>1, <1>3, <1>5, <3>1, ResyncIs DEF n
    <3> HIDE DEF h
    <3>3. \A k \in g + 1 .. n : ~ (l[k].pid < pid)
      <4> TAKE k \in g + 1 .. n
      <4>1. k \in 1 .. n /\ g < k
        BY <1>1, <3>1
      <4>2. l[g].pid < l[k].pid
        BY <1>5, <2>1, <4>1
      <4> QED BY <1>2, <1>3, <2>1, <4>1, <4>2
    <3>4. g + 1 \in g + 1 .. n => ~ (g + 1 < h)
      BY <3>2, <3>3
    <3> QED BY <1>1, <3>1, <3>2, <3>4
  <2> HIDE DEF h
  <2>4. /\ li \in [1 .. n -> GpuEntries] /\ li[g] = NoEntry /\ \A k \in 1 .. n : k # g => li[k] = s.list[k]
        /\ gi \in [Pids -> SUBSET Gpus] /\ gi[pid] = l[g].gpus /\ \A p \in Pids : p # pid => gi[p] = s.given[p]
    <3>1. NoEntry \in GpuEntries
      BY DEF NoEntry, GpuEntries
    <3>2. l[g].gpus \in SUBSET Gpus
      BY <1>2, <2>1 DEF GpuEntries
    <3> QED BY <1>1, <1>3, <2>1, <3>1, <3>2
  <2> HIDE DEF li, gi
  <2>5. r.list = li /\ r.given = gi /\ r.g = g + 1 /\ r \in MergeState(l)
    <3>1. h \in 1 .. n + 1
      BY <1>1, <2>1, <2>3
    <3> QED BY <2>2, <2>3, <2>4, <3>1 DEF MergeState, n
  <2>6. \A k \in 1 .. n : (k < g + 1 <=> k < g \/ k = g) /\ (g + 1 <= k <=> g < k)
    BY <1>1, <2>1
  <2>7. ASSUME NEW k \in 1 .. n
        PROVE  \/ r.list[k] = l[k]
               \/ /\ r.list[k] = NoEntry /\ k < r.g /\ r.given[l[k].pid] = l[k].gpus
                  /\ \E u \in 1 .. t : ts[u] = l[k].pid
    <3>1. CASE k = g
      <4>1. t \in 1 .. t /\ ts[t] = l[k].pid
        BY <1>1, <2>1, <3>1 DEF pid
      <4> QED BY <2>1, <2>4, <2>5, <2>6, <3>1, <4>1
    <3>2. CASE k # g
      <4>1. l[k].pid # pid
        <5>1. k < g \/ g < k
          BY <1>1, <3>2
        <5>2. l[k].pid < l[g].pid \/ l[g].pid < l[k].pid
          BY <1>5, <2>1, <5>1
        <5> QED BY <1>2, <2>1, <5>2
      <4>2. r.list[k] = s.list[k] /\ r.given[l[k].pid] = s.given[l[k].pid]
        BY <1>2, <2>4, <2>5, <3>2, <4>1
      <4> QED BY <1>4, <1>6, <2>5, <2>6, <4>2
    <3> QED BY <3>1, <3>2
  <2>8. ASSUME NEW p \in Pids PROVE r.given[p] = {} \/ \E k \in 1 .. n : l[k].pid = p /\ r.list[k] = NoEntry
    <3>1. CASE p = pid
      BY <2>1, <2>4, <2>5, <3>1
    <3>2. CASE p # pid
      <4>1. r.given[p] = s.given[p]
        BY <2>4, <2>5, <3>2
      <4>2. \A k \in 1 .. n : s.list[k] = NoEntry => r.list[k] = NoEntry
        BY <2>4, <2>5
      <4> QED BY <1>4, <4>1, <4>2
    <3> QED BY <3>1, <3>2
  <2>9. \A k \in 1 .. n : r.g <= k => l[k].pid >= pid
    <3> TAKE k \in 1 .. n
    <3>1. g < k => l[g].pid < l[k].pid
      BY <1>5, <2>1
    <3> QED BY <1>2, <1>3, <2>1, <2>5, <2>6, <3>1
  <2>10. ASSUME NoneMissing(l, ts, pid), NEW k \in 1 .. n
         PROVE  (k < r.g <=> l[k].pid <= pid) /\ (k < r.g => r.list[k] = NoEntry)
    <3>1. k < g => l[k].pid <= old /\ s.list[k] = NoEntry
      BY <1>4, <1>7, <2>10
    <3>2. g < k => l[g].pid < l[k].pid
      BY <1>5, <2>1
    <3>3. k < g \/ k = g \/ g < k
      BY <1>1
    <3>4. l[k].pid \in Nat /\ r.g = g + 1
      BY <1>2, <2>5
    <3>5. CASE k < g
      BY <1>3, <2>4, <2>5, <2>6, <3>1, <3>4, <3>5
    <3>6. CASE k = g
      BY <1>3, <2>1, <2>4, <2>5, <2>6, <3>6
    <3>7. CASE g < k
      <4>1. ~ (k < g + 1) /\ ~ (l[k].pid <= pid)
        BY <1>1, <1>3, <2>1, <3>2, <3>4, <3>7
      <4> QED BY <3>4, <4>1
    <3> QED BY <3>3, <3>5, <3>6, <3>7
  <2>11. Merged(r, l, ts, t)
    BY <1>3, <2>5, <2>7, <2>8, <2>9, <2>10 DEF Merged, n
  <2> QED BY <2>11 DEF r, pid
<1>11. CASE g <= n /\ s.list[g].pid # pid
  <2> DEFINE h == Resync(l, pid, g)
  <2>1. r = [list |-> s.list, given |-> s.given, g |-> h]
    BY <1>1, <1>11 DEF r, g, n, MergeStep
  <2>2. h \in g .. n + 1 /\ \A k \in g .. n : k < h <=> l[k].pid < pid
    BY <1>1, <1>3, <1>5, ResyncIs DEF n
  <2> HIDE DEF h
  <2>3. r.list = s.list /\ r.given = s.given /\ r.g = h /\ r \in MergeState(l)
    <3>1. h \in 1 .. n + 1
      BY <1>1, <2>2
    <3> QED BY <1>1, <2>1, <3>1 DEF MergeState, n
  <2>4. g \in 1 .. n /\ h \in Nat /\ g <= h
    BY <1>1, <1>11, <2>2
  <2>5. \A k \in 1 .. n : (k < g => k < h) /\ (h <= k => k \in g .. n) /\ (g <= k => k \in g .. n)
    BY <1>1, <2>4
  <2>6. ASSUME NEW k \in 1 .. n
        PROVE  \/ r.list[k] = l[k]
               \/ /\ r.list[k] = NoEntry /\ k < r.g /\ r.given[l[k].pid] = l[k].gpus
                  /\ \E u \in 1 .. t : ts[u] = l[k].pid
    BY <1>4, <1>6, <2>3, <2>5
  <2>7. ASSUME NEW k \in 1 .. n, r.g <= k PROVE l[k].pid >= pid
    <3>1. k \in g .. n /\ ~ (k < h)
      BY <2>3, <2>4, <2>5, <2>7
    <3> QED BY <1>2, <1>3, <2>2, <3>1
  <2>8. ASSUME NoneMissing(l, ts, pid), NEW k \in 1 .. n
        PROVE  (k < r.g <=> l[k].pid <= pid) /\ (k < r.g => r.list[k] = NoEntry)
    <3>1. h = g
      <4>1. ~ (l[g].pid < pid)
        BY <1>1, <1>2, <1>3, <1>8, <2>4, <2>8
      <4>2. g \in g .. n
        BY <2>4
      <4> QED BY <2>2, <2>4, <4>1, <4>2
    <3>2. l[g].pid # pid
      <4>1. s.list[g] = l[g]
        BY <1>1, <1>4, <2>4
      <4> QED BY <1>11, <4>1
    <3>3. l[g].pid >= pid /\ l[g].pid \in Nat
      BY <1>1, <1>2, <1>8, <2>4, <2>8
    <3>4. k < g => l[k].pid <= old /\ s.list[k] = NoEntry
      BY <1>4, <1>7, <2>8
    <3>5. g < k => l[g].pid < l[k].pid
      BY <1>5, <2>4
    <3>6. l[k].pid \in Nat /\ (k < g \/ k = g \/ g < k)
      BY <1>1, <1>2
    <3>7. CASE k < g
      BY <1>3, <2>3, <3>1, <3>4, <3>6, <3>7
    <3>8. CASE k = g \/ g < k
      <4>1. ~ (k < g) /\ ~ (l[k].pid <= pid)
        BY <1>1, <1>3, <3>2, <3>3, <3>5, <3>6, <3>8
      <4> QED BY <2>3, <3>1, <4>1
    <3> QED BY <3>6, <3>7, <3>8
  <2>9. \A p \in Pids : r.given[p] = {} \/ \E k \in 1 .. n : l[k].pid = p /\ r.list[k] = NoEntry
    BY <1>4, <2>3
  <2>10. Merged(r, l, ts, t)
    BY <1>3, <2>3, <2>6, <2>7, <2>8, <2>9 DEF Merged, n
  <2> QED BY <2>10 DEF r, pid
<1>12. g > n \/ g <= n
  BY <1>1
<1> QED BY <1>9, <1>10, <1>11, <1>12

\* What has been taken stays taken.
LEMMA MergeKeeps ==
  ASSUME NEW l, l \in Seq(GpuEntries), NEW s \in MergeState(l), NEW pid \in Pids
  PROVE  /\ MergeStep(s, l, pid) \in MergeState(l)
         /\ \A k \in 1 .. Len(l) : s.list[k] = NoEntry => MergeStep(s, l, pid).list[k] = NoEntry
<1> DEFINE n == Len(l)
           g == s.g
           hit == g <= n /\ s.list[g].pid = pid
           h == IF hit THEN g + 1 ELSE g
           li == IF hit THEN [s.list EXCEPT ![g] = NoEntry] ELSE s.list
           gi == IF hit THEN [s.given EXCEPT ![pid] = s.list[g].gpus] ELSE s.given
           r == MergeStep(s, l, pid)
<1>1. n \in Nat /\ g \in 1 .. n + 1 /\ s.list \in [1 .. n -> GpuEntries] /\ s.given \in [Pids -> SUBSET Gpus]
  BY DEF MergeState
<1>2. r = IF g > n THEN s ELSE [list |-> li, given |-> gi, g |-> Resync(l, pid, h)]
  BY Zenon DEF MergeStep
<1> HIDE DEF n, g, r
<1>3. CASE g > n
  BY <1>2, <1>3 DEF r
<1>4. CASE ~ (g > n)
  <2>1. g \in 1 .. n
    BY <1>1, <1>4
  <2>2. NoEntry \in GpuEntries /\ s.list[g].gpus \in SUBSET Gpus
    <3>1. s.list[g] \in GpuEntries
      BY <1>1, <2>1
    <3> QED BY <3>1 DEF NoEntry, GpuEntries
  <2>3. li \in [1 .. n -> GpuEntries] /\ \A k \in 1 .. n : s.list[k] = NoEntry => li[k] = NoEntry
    BY <1>1, <2>1, <2>2
  <2>4. gi \in [Pids -> SUBSET Gpus]
    BY <1>1, <2>2
  <2>5. h \in 1 .. n + 1
    BY <1>1, <2>1
  <2>6. Resync(l, pid, h) \in 1 .. n + 1
    <3> DEFINE A == {k \in h .. Len(l) : l[k].pid >= pid}
    <3>1. A \subseteq Nat /\ A \subseteq 1 .. n
      BY <1>1, <2>5 DEF n
    <3>2. A # {} => Min(A) \in A
      <4> HIDE DEF A
      <4>1. A # {} => \E x \in A : \A y \in A : x <= y
        BY <3>1, LeastNat
      <4> QED BY <4>1 DEF Min
    <3>3. Resync(l, pid, h) = IF A = {} THEN Len(l) + 1 ELSE Min(A)
      BY DEF Resync
    <3>4. n + 1 \in 1 .. n + 1 /\ \A x \in 1 .. n : x \in 1 .. n + 1
      BY <1>1
    <3>5. Len(l) = n
      BY DEF n
    <3> HIDE DEF A, h
    <3>6. CASE A = {}
      BY <3>3, <3>4, <3>5, <3>6
    <3>7. CASE A # {}
      BY <3>1, <3>2, <3>3, <3>4, <3>7
    <3> QED BY <3>6, <3>7
  <2> HIDE DEF li, gi, h
  <2>7. r.list = li /\ r \in MergeState(l)
    BY <1>2, <1>4, <2>3, <2>4, <2>6 DEF MergeState, n
  <2> QED BY <2>3, <2>7 DEF r, n
<1> QED BY <1>3, <1>4

\* A task gets what it has done when no process below it is missing.
Taken(s, l, ts, t) ==
  \A u \in 1 .. t : NoneMissing(l, ts, ts[u]) =>
    \A k \in 1 .. Len(l) : l[k].pid = ts[u] => s.list[k] = NoEntry
Merges(v, l, ts) ==
  v = [t \in 0 .. Len(ts) |-> IF t = 0 THEN [list |-> l, g |-> 1, given |-> None]
                              ELSE MergeStep(v[t - 1], l, ts[t])]

LEMMA TakesOn ==
  ASSUME NEW l, GpuListed(l), NEW ts, Ascending(ts), NEW t \in 1 .. Len(ts), NEW s,
         Merged(s, l, ts, t - 1), Taken(s, l, ts, t - 1)
  PROVE  Taken(MergeStep(s, l, ts[t]), l, ts, t)
<1> DEFINE r == MergeStep(s, l, ts[t])
<1>1. Merged(r, l, ts, t) /\ ts[t] \in Pids /\ ts[t] \in Nat /\ t \in Nat /\ t # 0
  <2>1. ts \in Seq(Pids)
    BY DEF Ascending
  <2>2. ts[t] \in Pids /\ t \in Nat /\ t # 0
    BY <2>1
  <2> QED BY <2>2, MergesOn, GpuMergeAssumption
<1>2. \A k \in 1 .. Len(l) : s.list[k] = NoEntry => r.list[k] = NoEntry
  BY <1>1, MergeKeeps DEF Merged, GpuListed
<1> HIDE DEF r
<1>3. Upto(ts, t) = ts[t]
  BY <1>1 DEF Upto
<1>4. ASSUME NoneMissing(l, ts, ts[t]), NEW k \in 1 .. Len(l), l[k].pid = ts[t] PROVE r.list[k] = NoEntry
  BY <1>1, <1>3, <1>4 DEF Merged
<1>5. \A u \in 1 .. t : u = t \/ u \in 1 .. t - 1
  BY <1>1
<1>6. Taken(r, l, ts, t)
  <2> SUFFICES ASSUME NEW u \in 1 .. t, NoneMissing(l, ts, ts[u]), NEW k \in 1 .. Len(l), l[k].pid = ts[u]
               PROVE  r.list[k] = NoEntry
    BY DEF Taken
  <2>1. CASE u = t
    BY <1>4, <2>1
  <2>2. CASE u \in 1 .. t - 1
    <3>1. s.list[k] = NoEntry
      BY <2>2 DEF Taken
    <3> QED BY <1>2, <3>1
  <2> QED BY <1>5, <2>1, <2>2
<1> QED BY <1>6 DEF r

LEMMA MergePresentIs ==
  ASSUME NEW l, GpuListed(l), NEW ts, Ascending(ts)
  PROVE  Merged(MergePresent(l, ts), l, ts, Len(ts)) /\ Taken(MergePresent(l, ts), l, ts, Len(ts))
<1> DEFINE n == Len(ts)
           T == MergeState(l)
           e == [list |-> l, g |-> 1, given |-> None]
           F == [ks \in (1 .. n) \X T |-> MergeStep(ks[2], l, ts[ks[1]])]
           w == CHOOSE v : Merges(v, l, ts)
<1>1. n \in Nat /\ ts \in Seq(Pids) /\ \A k \in 1 .. n : ts[k] \in Pids
  <2>1. ts \in Seq(Pids)
    BY DEF Ascending
  <2> QED BY <2>1
<1>2. e \in T /\ e.list = l /\ e.g = 1 /\ e.given = None
  <2>1. l \in [1 .. Len(l) -> GpuEntries] /\ 1 \in 1 .. Len(l) + 1
    BY DEF GpuListed
  <2>2. None \in [Pids -> SUBSET Gpus]
    BY DEF None
  <2> HIDE DEF None
  <2> QED BY <2>1, <2>2 DEF MergeState
<1>3. Merged(e, l, ts, 0)
  <2>1. \A k \in 1 .. Len(l) : l[k].pid \in Nat /\ l[k].pid # 0 /\ k \in Nat /\ k >= 1
    <3> TAKE k \in 1 .. Len(l)
    <3>1. l[k].pid \in Pids /\ k \in Nat /\ k >= 1
      BY DEF GpuListed
    <3> QED BY <3>1, GpuMergeAssumption
  <2>2. \A p \in Pids : e.given[p] = {}
    BY <1>2 DEF None
  <2>3. Upto(ts, 0) = 0
    BY DEF Upto
  <2> HIDE DEF e
  <2> QED BY <1>2, <2>1, <2>2, <2>3 DEF Merged
<1>4. Taken(e, l, ts, 0)
  BY DEF Taken
<1>5. ASSUME NEW k \in 1 .. n, NEW s \in T
      PROVE  F[<<k, s>>] = MergeStep(s, l, ts[k]) /\ F[<<k, s>>] \in T
  <2>1. F[<<k, s>>] = MergeStep(s, l, ts[k])
    OBVIOUS
  <2> HIDE DEF F, n
  <2>2. MergeStep(s, l, ts[k]) \in T
    BY <1>1, MergeKeeps DEF GpuListed
  <2> QED BY <2>1, <2>2
<1> HIDE DEF F, n, T, e
<1>6. PICK g : g \in [0 .. n -> T] /\ g[0] = e /\ \A k \in 1 .. n : g[k] = F[<<k, g[k - 1]>>]
  <2>1. Stays(F, n, T)
    BY <1>5 DEF Stays
  <2>2. \E g : Iterates(g, F, n, T, e)
    BY <1>1, <1>2, <2>1, Iterated
  <2> QED BY <2>2 DEF Iterates
<1>7. \A k \in 1 .. n : g[k] = MergeStep(g[k - 1], l, ts[k])
  <2> TAKE k \in 1 .. n
  <2>1. g[k - 1] \in T
    BY <1>1, <1>6
  <2> QED BY <1>5, <1>6, <2>1
<1>8. Merges(g, l, ts)
  <2>1. \A k \in 0 .. n : g[k] = IF k = 0 THEN e ELSE MergeStep(g[k - 1], l, ts[k])
    <3> TAKE k \in 0 .. n
    <3>1. k # 0 => k \in 1 .. n
      BY <1>1
    <3> QED BY <1>6, <1>7, <3>1
  <2>2. g = [k \in 0 .. n |-> g[k]]
    BY <1>6
  <2>3. g = [k \in 0 .. n |-> IF k = 0 THEN e ELSE MergeStep(g[k - 1], l, ts[k])]
    BY <2>1, <2>2
  <2> QED BY <2>3, Zenon DEF Merges, n, e
<1>9. Merges(w, l, ts)
  BY <1>8
<1>10. MergePresent(l, ts) = w[n]
  BY Zenon DEF MergePresent, Merges, MergeStep, n
<1> HIDE DEF w
<1>11. w[0] = e /\ \A k \in 1 .. n : w[k] = MergeStep(w[k - 1], l, ts[k])
  <2>1. w = [k \in 0 .. n |-> IF k = 0 THEN e ELSE MergeStep(w[k - 1], l, ts[k])]
    BY <1>9, Zenon DEF Merges, n, e
  <2>2. \A k \in 0 .. n : w[k] = IF k = 0 THEN e ELSE MergeStep(w[k - 1], l, ts[k])
    BY <2>1, Zenon
  <2>3. 0 \in 0 .. n /\ \A k \in 1 .. n : k \in 0 .. n /\ k # 0
    BY <1>1
  <2> QED BY <2>2, <2>3
<1>12. Merged(w[n], l, ts, n) /\ Taken(w[n], l, ts, n)
  <2> DEFINE G == {k \in 0 .. n : Merged(w[k], l, ts, k) /\ Taken(w[k], l, ts, k)}
  <2>1. 0 \in G
    BY <1>1, <1>3, <1>4, <1>11
  <2>2. ASSUME NEW k \in 1 .. n, k - 1 \in G PROVE k \in G
    <3>1. Merged(w[k - 1], l, ts, k - 1) /\ Taken(w[k - 1], l, ts, k - 1)
      BY <2>2
    <3>2. Merged(MergeStep(w[k - 1], l, ts[k]), l, ts, k) /\ Taken(MergeStep(w[k - 1], l, ts[k]), l, ts, k)
      BY <3>1, MergesOn, TakesOn DEF n
    <3>3. k \in 0 .. n /\ w[k] = MergeStep(w[k - 1], l, ts[k])
      BY <1>1, <1>11
    <3> QED BY <3>2, <3>3
  <2> HIDE DEF G
  <2>3. n \in Nat /\ n \in 0 .. n
    BY <1>1
  <2>4. \A k \in 1 .. n : k - 1 \in G => k \in G
    BY <2>2
  <2>5. 0 .. n \subseteq G
    BY <2>1, <2>3, <2>4, Upwards
  <2> QED BY <2>3, <2>5 DEF G
<1> QED BY <1>10, <1>12 DEF n

\* The tasks of the sample in the order of their ids.
LEMMA SortedIs ==
  ASSUME NEW S \in SUBSET Pids
  PROVE  Ascending(Sorted(S)) /\ \A p : p \in S <=> \E u \in 1 .. Len(Sorted(S)) : Sorted(S)[u] = p
<1> DEFINE c == Cardinality(S)
           ts == Sorted(S)
<1>1. S \subseteq Nat /\ IsFiniteSet(S) /\ c \in Nat
  <2>1. IsFiniteSet(S)
    BY GpuMergeAssumption, FS_Subset
  <2> QED BY <2>1, GpuMergeAssumption, FS_CardinalityType
<1>2. ts = [k \in 1 .. c |-> Nth(S, k)]
  BY DEF Sorted
<1> HIDE DEF ts, c
<1>3. \A k \in 1 .. c : Nth(S, k) \in S
  BY <1>1, NthIs DEF c
<1>4. ts \in Seq(Pids) /\ Len(ts) = c /\ \A k \in 1 .. c : ts[k] = Nth(S, k)
  <2>1. \A k \in 1 .. c : Nth(S, k) \in Pids
    BY <1>3
  <2> QED BY <1>1, <1>2, <2>1
<1>5. \A k, j \in 1 .. c : k < j => Nth(S, k) < Nth(S, j)
  BY <1>1, NthGrows DEF c
<1>6. Ascending(ts)
  BY <1>4, <1>5 DEF Ascending
<1>7. \A p \in S : \E k \in 1 .. c : Nth(S, k) = p
  BY <1>1, NthAll DEF c
<1>8. \A p : p \in S <=> \E u \in 1 .. Len(ts) : ts[u] = p
  BY <1>3, <1>4, <1>7
<1> QED BY <1>6, <1>8 DEF ts

\* What is left has the entries that are not empty.
LEMMA CompactIs ==
  ASSUME NEW n \in Nat, NEW li \in [1 .. n -> GpuEntries]
  PROVE  /\ \A g \in DOMAIN Compact(li) : \E k \in 1 .. n : Compact(li)[g] = li[k] /\ li[k].pid # 0
         /\ \A k \in 1 .. n : li[k].pid # 0 => \E g \in DOMAIN Compact(li) : Compact(li)[g] = li[k]
<1> DEFINE S == {g \in DOMAIN li : li[g].pid # 0}
           c == Cardinality(S)
           r == Compact(li)
<1>1. S \subseteq 1 .. n /\ S \in SUBSET (1 .. n) /\ \A g \in 1 .. n : g \in S <=> li[g].pid # 0
  OBVIOUS
<1>2. r = [k \in 1 .. c |-> li[Nth(S, k)]]
  BY Zenon DEF Compact
<1> HIDE DEF r, S
<1>3. S \subseteq Nat /\ IsFiniteSet(S) /\ c \in Nat
  <2>1. 1 \in Int /\ n \in Int
    OBVIOUS
  <2>2. IsFiniteSet(1 .. n)
    BY <2>1, FS_Interval
  <2>3. IsFiniteSet(S)
    BY <1>1, <2>2, FS_Subset
  <2> QED BY <1>1, <2>3, FS_CardinalityType
<1>4. \A k \in 1 .. c : Nth(S, k) \in S
  BY <1>3, NthIs
<1>5. \A g \in S : \E k \in 1 .. c : Nth(S, k) = g
  BY <1>3, NthAll
<1> HIDE DEF c
<1>6. DOMAIN r = 1 .. c /\ \A k \in 1 .. c : r[k] = li[Nth(S, k)]
  BY <1>2
<1>7. ASSUME NEW g \in 1 .. c PROVE \E k \in 1 .. n : r[g] = li[k] /\ li[k].pid # 0
  <2>1. Nth(S, g) \in 1 .. n /\ li[Nth(S, g)].pid # 0
    BY <1>1, <1>4
  <2> QED BY <1>6, <2>1
<1>8. ASSUME NEW k \in 1 .. n, li[k].pid # 0 PROVE \E g \in 1 .. c : r[g] = li[k]
  <2>1. PICK g \in 1 .. c : Nth(S, g) = k
    BY <1>1, <1>5, <1>8
  <2> QED BY <1>6, <2>1
<1> QED BY <1>6, <1>7, <1>8 DEF r

\* What the tasks get of one merge.
GpuInv ==
  /\ answer \in Seq(Pids \X Gpus) /\ present \in SUBSET Pids /\ exited \in SUBSET Pids
  /\ GpuGiven
Asked == {p \in Pids : Done(p) # {}}
PresentRight(gp) ==
  \A p \in Pids :
    /\ gp[p] \in {{}, IF p \in present THEN Done(p) ELSE {}}
    /\ p \in present /\ (\A q \in Asked : q < p => q \in present) => gp[p] = Done(p)
ExitedRight(ge) ==
  \A p \in Pids :
    /\ ge[p] \in {{}, IF p \in exited THEN Done(p) ELSE {}}
    /\ p \in exited \ present => ge[p] = Done(p)

LEMMA GpuPresentRight ==
  ASSUME answer \in Seq(Pids \X Gpus), present \in SUBSET Pids, exited \in SUBSET Pids,
         NEW m, m = MergePresent(GpuList(answer), Sorted(present))
  PROVE  PresentRight(m.given) /\ ExitedRight(MergeExited(Compact(m.list), exited))
<1> DEFINE l == GpuList(answer)
           ts == Sorted(present)
           n == Len(l)
           left == Compact(m.list)
           ge == MergeExited(left, exited)
<1>1. GpuListed(l)
  BY GpuListIs
<1>2. Ascending(ts) /\ \A p : p \in present <=> \E u \in 1 .. Len(ts) : ts[u] = p
  BY SortedIs
<1> HIDE DEF l, ts
<1>3. Merged(m, l, ts, Len(ts)) /\ Taken(m, l, ts, Len(ts))
  BY <1>1, <1>2, MergePresentIs DEF l, ts
<1>4. n \in Nat /\ m.list \in [1 .. n -> GpuEntries]
  BY <1>1, <1>3 DEF GpuListed, Merged, MergeState
<1>5. \A k \in 1 .. n : l[k].pid \in Pids /\ l[k].pid # 0 /\ l[k].gpus = Done(l[k].pid) /\ l[k].pid \in Asked
  BY <1>1, GpuMergeAssumption DEF GpuListed, Asked
<1>6. \A p \in Pids : Done(p) # {} => \E k \in 1 .. n : l[k].pid = p
  BY <1>1 DEF GpuListed
<1>7. ASSUME NEW k \in 1 .. n
      PROVE  \/ m.list[k] = l[k] /\ m.list[k].pid # 0
             \/ /\ m.list[k] = NoEntry /\ m.list[k].pid = 0
                /\ m.given[l[k].pid] = Done(l[k].pid) /\ l[k].pid \in present
  <2>1. \/ m.list[k] = l[k]
        \/ /\ m.list[k] = NoEntry /\ m.given[l[k].pid] = l[k].gpus
           /\ \E u \in 1 .. Len(ts) : ts[u] = l[k].pid
    BY <1>3 DEF Merged
  <2> HIDE DEF n
  <2> QED BY <1>2, <1>5, <2>1 DEF NoEntry
<1>8. \A p \in Pids : m.given[p] = {} \/ \E k \in 1 .. n : l[k].pid = p /\ m.list[k] = NoEntry
  BY <1>3 DEF Merged
<1> HIDE DEF n
<1>9. ASSUME NEW k \in 1 .. n, m.list[k] = NoEntry
      PROVE  m.given[l[k].pid] = Done(l[k].pid) /\ l[k].pid \in present
  <2>1. m.list[k].pid = 0
    BY <1>9 DEF NoEntry
  <2> QED BY <1>7, <2>1
<1>10. ASSUME NEW p \in Pids PROVE m.given[p] = {} \/ (m.given[p] = Done(p) /\ p \in present)
  <2>1. CASE \E k \in 1 .. n : l[k].pid = p /\ m.list[k] = NoEntry
    <3>1. PICK k \in 1 .. n : l[k].pid = p /\ m.list[k] = NoEntry
      BY <2>1
    <3> QED BY <1>9, <3>1
  <2>2. m.given[p] = {} \/ (\E k \in 1 .. n : l[k].pid = p /\ m.list[k] = NoEntry)
    BY <1>8
  <2> QED BY <2>1, <2>2
<1>11. ASSUME NEW p \in present, \A q \in Asked : q < p => q \in present PROVE m.given[p] = Done(p)
  <2>1. CASE Done(p) = {}
    BY <1>10, <2>1
  <2>2. CASE Done(p) # {}
    <3>1. PICK k \in 1 .. n : l[k].pid = p
      BY <1>6, <2>2
    <3>2. NoneMissing(l, ts, p)
      <4>1. ASSUME NEW j \in 1 .. n, l[j].pid < p PROVE \E u \in 1 .. Len(ts) : ts[u] = l[j].pid
        <5>1. l[j].pid \in present
          BY <1>5, <1>11, <4>1
        <5> QED BY <1>2, <5>1
      <4> QED BY <4>1 DEF NoneMissing, n
    <3>3. PICK u \in 1 .. Len(ts) : ts[u] = p
      BY <1>2
    <3>4. m.list[k] = NoEntry
      BY <1>3, <3>1, <3>2, <3>3 DEF Taken, n
    <3> QED BY <1>9, <3>1, <3>4
  <2> QED BY <2>1, <2>2
<1>12. PresentRight(m.given)
  BY <1>10, <1>11 DEF PresentRight
<1>13. /\ \A g \in DOMAIN left : \E k \in 1 .. n : left[g] = m.list[k] /\ m.list[k].pid # 0
       /\ \A k \in 1 .. n : m.list[k].pid # 0 => \E g \in DOMAIN left : left[g] = m.list[k]
  BY <1>4, CompactIs
<1> HIDE DEF left
<1>14. ASSUME NEW g \in DOMAIN left PROVE left[g].gpus = Done(left[g].pid)
  <2>1. PICK k \in 1 .. n : left[g] = m.list[k] /\ m.list[k].pid # 0
    BY <1>13
  <2>2. left[g] = l[k]
    BY <1>7, <2>1
  <2> QED BY <1>5, <2>2
<1>15. ASSUME NEW p \in Pids PROVE ge[p] = UNION {left[g].gpus : g \in {k \in DOMAIN left : left[k].pid = p /\ p \in exited}}
  BY DEF MergeExited
<1> HIDE DEF ge
<1>16. ASSUME NEW p \in Pids
       PROVE  /\ ge[p] = {} \/ (ge[p] = Done(p) /\ p \in exited)
              /\ p \in exited /\ (\E g \in DOMAIN left : left[g].pid = p) => ge[p] = Done(p)
  <2> DEFINE G == {k \in DOMAIN left : left[k].pid = p /\ p \in exited}
  <2>1. \A g \in G : left[g].gpus = Done(p) /\ p \in exited
    BY <1>14
  <2>2. p \in exited /\ (\E g \in DOMAIN left : left[g].pid = p) => G # {}
    OBVIOUS
  <2>3. ge[p] = UNION {left[g].gpus : g \in G}
    BY <1>15
  <2> HIDE DEF G
  <2>4. G = {} => ge[p] = {}
    BY <2>3
  <2>5. G # {} => ge[p] = Done(p)
    BY <2>1, <2>3
  <2>6. CASE G = {}
    BY <2>2, <2>4, <2>6
  <2>7. CASE G # {}
    <3>1. p \in exited
      BY <2>1, <2>7
    <3> QED BY <2>5, <2>7, <3>1
  <2> QED BY <2>6, <2>7
<1>17. ASSUME NEW p \in Pids, p \in exited \ present PROVE ge[p] = Done(p)
  <2>1. CASE Done(p) = {}
    BY <1>16, <2>1
  <2>2. CASE Done(p) # {}
    <3>1. PICK k \in 1 .. n : l[k].pid = p
      BY <1>6, <2>2
    <3>2. m.list[k] = l[k] /\ m.list[k].pid # 0
      BY <1>7, <1>17, <3>1
    <3>3. PICK g \in DOMAIN left : left[g] = m.list[k]
      BY <1>13, <3>2
    <3> QED BY <1>16, <1>17, <3>1, <3>2, <3>3
  <2> QED BY <2>1, <2>2
<1>18. ExitedRight(ge)
  BY <1>16, <1>17 DEF ExitedRight
<1> QED BY <1>12, <1>18 DEF ge, left

\* What the tasks of a sample are given is what their own processes have done
\* on the GPUs, over all of them or nothing: all of it when no process with a
\* smaller id is missing among the present tasks, and for an exited task when
\* its id is not in use again (gpumergeproc()).
THEOREM GpuIsGiven == Spec => []GpuGiven
<1>1. Init => GpuInv
  <2> SUFFICES ASSUME Init PROVE GpuInv
    OBVIOUS
  <2>1. given = [present |-> None, exited |-> None]
    BY DEF Init, GpuInit, GpuOff
  <2>2. CASE GpuInit
    <3>1. answer \in Seq(Pids \X Gpus)
      <4>1. answer \in BoundedSeq(Pids \X Gpus, MaxEntries)
        BY <2>2 DEF GpuInit
      <4> DEFINE P == Pids \X Gpus
      <4>2. PICK m \in 0 .. MaxEntries : answer \in [1 .. m -> P]
        BY <4>1 DEF BoundedSeq, SeqOf
      <4>3. m \in Nat
        BY GpuMergeAssumption
      <4> HIDE DEF P
      <4>4. answer \in Seq(P)
        BY <4>2, <4>3
      <4> QED BY <4>4 DEF P
    <3> QED BY <2>1, <2>2, <3>1 DEF GpuInit, GpuInv, GpuGiven
  <2>3. CASE GpuOff
    <3>1. answer \in Seq(Pids \X Gpus) /\ present \in SUBSET Pids /\ exited \in SUBSET Pids
      BY <2>3 DEF GpuOff
    <3> QED BY <2>1, <3>1 DEF GpuInv, GpuGiven
  <2> QED BY <2>2, <2>3 DEF Init
<1>2. GpuInv /\ [Next]_vars => GpuInv'
  <2> SUFFICES ASSUME GpuInv, [Next]_vars PROVE GpuInv'
    OBVIOUS
  <2>1. CASE UNCHANGED gvars
    BY <2>1 DEF GpuInv, GpuGiven, Done, gvars
  <2>2. CASE GpuMergeProc
    <3>1. PICK m : /\ m = MergePresent(GpuList(answer), Sorted(present))
                   /\ given' = [present |-> m.given, exited |-> MergeExited(Compact(m.list), exited)]
      BY <2>2, Zenon DEF GpuMergeProc
    <3>2. PresentRight(m.given) /\ ExitedRight(MergeExited(Compact(m.list), exited))
      BY <3>1, GpuPresentRight DEF GpuInv
    <3>3. PresentRight(given'.present) /\ ExitedRight(given'.exited)
      BY <3>1, <3>2
    <3>4. answer' = answer /\ present' = present /\ exited' = exited
      BY <2>2 DEF GpuMergeProc
    <3>5. \A p : Done(p)' = Done(p)
      BY <3>4 DEF Done
    <3>6. GpuGiven'
      BY <3>3, <3>4, <3>5 DEF GpuGiven, PresentRight, ExitedRight, Asked
    <3> QED BY <3>4, <3>6 DEF GpuInv
  <2>3. GpuMergeProc \/ UNCHANGED gvars
    BY DEF Next, vars
  <2> QED BY <2>1, <2>2, <2>3
<1>3. GpuInv => GpuGiven
  BY DEF GpuInv
<1> QED BY <1>1, <1>2, <1>3, PTL DEF Spec

-----------------------------------------------------------------------------
(***************************************************************************)
(* EngineInv is an inductive invariant of the loop in engine(), for every  *)
(* number of samples, signals and resets, and what follows from it.        *)
(***************************************************************************)
\* The initial states satisfy the invariant.
LEMMA EngineInitInv == EngineInit => EngineInv
<1> USE EngineAssumption
<1> SUFFICES ASSUME EngineInit PROVE EngineInv
  OBVIOUS
<1> USE DEF EngineInit
<1>1. EngineTypeOK
  <2>1. nsamples \in Nat /\ sampcnt \in -1 .. MaxCnt
    OBVIOUS
  <2>2. final \in [sent : BOOLEAN, shown : 0 .. 2, reset : BOOLEAN]
    OBVIOUS
  <2>3. db \in BOOLEAN /\ pc \in Points /\ cursstat \in {"boot", "last"} /\ nrgpus \in {0, 1}
    BY DEF Points, Waiting
  <2> QED BY <2>1, <2>2, <2>3 DEF EngineTypeOK
<1>2. RoundInv
  BY DEF RoundInv, Waiting, Taking
<1>3. AskInv
  BY DEF AskInv
<1>4. StopInv
  BY DEF StopInv
<1> QED BY <1>1, <1>2, <1>3, <1>4 DEF EngineInv

\* The handlers of signals run between any two steps of the loop: they end a
\* pause, and the last sample that is allowed is the one in progress.
LEMMA SignalInv ==
  ASSUME EngineInv, getalarm \/ getusr1 \/ getusr2
  PROVE  EngineInv'
<1> USE EngineAssumption
<1> USE DEF EngineInv, Handled, gpud, Wake, Points, Waiting, Taking
<1>1. pc' = Wake /\ pc # "end" /\ UNCHANGED <<sampcnt, cursstat, presstat, db, gpud>>
  BY DEF getalarm, getusr1, getusr2
<1>2. /\ nsamples' = nsamples /\ final' = final
      \/ /\ nsamples' = Stop
         /\ final' = IF sampcnt = -1 THEN [sent |-> TRUE, shown |-> final.shown, reset |-> TRUE]
                     ELSE [final EXCEPT !.sent = TRUE]
  BY DEF getalarm, getusr1, getusr2
<1>3. EngineTypeOK'
  <2>1. nsamples' \in Nat
    BY <1>2 DEF EngineTypeOK, Stop
  <2>2. final' \in [sent : BOOLEAN, shown : 0 .. 2, reset : BOOLEAN]
    <3>1. final \in [sent : BOOLEAN, shown : 0 .. 2, reset : BOOLEAN]
      BY DEF EngineTypeOK
    <3>2. CASE final' = final
      BY <3>1, <3>2
    <3>3. CASE final' = [sent |-> TRUE, shown |-> final.shown, reset |-> TRUE]
      BY <3>1, <3>3
    <3>4. CASE final' = [final EXCEPT !.sent = TRUE]
      BY <3>1, <3>4
    <3> QED BY <1>2, <3>2, <3>3, <3>4
  <2> QED BY <1>1, <2>1, <2>2 DEF EngineTypeOK
<1>4. RoundInv'
  BY <1>1 DEF RoundInv, EngineTypeOK
<1>5. AskInv'
  BY <1>1 DEF AskInv, EngineTypeOK
<1>6. StopInv'
  <2>1. CASE nsamples' = nsamples /\ final' = final
    BY <1>1, <2>1 DEF StopInv, EngineTypeOK
  <2>2. CASE ~ (nsamples' = nsamples /\ final' = final)
    <3>0. final'.sent
      BY <1>2, <2>2 DEF EngineTypeOK
    <3> SUFFICES ASSUME ~ final'.reset PROVE StopInv'
      BY <3>0 DEF StopInv
    <3>1. sampcnt # -1 /\ nsamples' = sampcnt
      <4>1. sampcnt # -1
        BY <1>2, <2>2 DEF EngineTypeOK
      <4>2. nsamples' = Stop
        BY <1>2, <2>2
      <4> QED BY <4>1, <4>2 DEF Stop
    <3>2. final'.shown = final.shown /\ ~ final.reset
      BY <1>2, <2>2 DEF EngineTypeOK
    <3>3. /\ final.shown <= 1
          /\ pc \notin {"test", "wipe", "next", "end"} => final.shown = 0
      BY <3>2 DEF StopInv
    <3>4. pc' \notin {"test", "wipe", "next", "end"} => pc \notin {"test", "wipe", "next", "end"}
      BY <1>1
    <3>5. nsamples' <= sampcnt'
      BY <1>1, <3>1 DEF EngineTypeOK
    <3> QED BY <3>0, <3>2, <3>3, <3>4, <3>5 DEF StopInv
  <2> QED BY <2>1, <2>2
<1> QED BY <1>3, <1>4, <1>5, <1>6

\* The round from the test of the number up to the trigger.
LEMMA WaitInv ==
  ASSUME EngineInv, Test \/ Midnight \/ Await \/ Pause
  PROVE  EngineInv'
<1> USE EngineAssumption
<1> USE DEF EngineInv, gpud, hist, Points, Waiting, Taking
<1>1. /\ UNCHANGED <<sampcnt, nsamples, cursstat, presstat, db, gpud, final>>
      /\ pc \in {"test", "await", "pausing"}
      /\ pc' \in {"await", "pausing", "paused", "go", "end"}
      /\ pc = "test" => pc' = "end" \/ sampcnt < nsamples
  BY DEF Test, Midnight, Await, Pause
<1>2. EngineTypeOK'
  BY <1>1 DEF EngineTypeOK
<1>3. RoundInv'
  BY <1>1 DEF RoundInv, EngineTypeOK
<1>4. AskInv'
  BY <1>1 DEF AskInv, EngineTypeOK
<1>5. StopInv'
  BY <1>1 DEF StopInv, EngineTypeOK
<1> QED BY <1>2, <1>3, <1>4, <1>5

\* The GPU daemon is asked, may answer at any time, and is given up.
LEMMA GpuStepInv ==
  ASSUME EngineInv, Go \/ StatRequest \/ StatResponse \/ GpuDaemon
  PROVE  EngineInv'
<1> USE EngineAssumption
<1> USE DEF EngineInv, hist, Points, Waiting, Taking
<1>1. /\ UNCHANGED <<sampcnt, nsamples, cursstat, presstat, db, final>>
      /\ \/ pc = "go" /\ pc' = "request"
         \/ pc = "request" /\ pc' = "photo"
         \/ pc = "response" /\ pc' = "tasks"
         \/ pc' = pc /\ pc # "end"
  BY DEF Go, StatRequest, StatResponse, GpuDaemon
<1>2. AskInv'
  <2>1. CASE Go
    BY <2>1 DEF Go, AskInv, EngineTypeOK
  <2>2. CASE StatRequest
    <3>1. pc = "request" /\ pc' = "photo" /\ wire' = wire /\ gpu' = gpu
      BY <2>2 DEF StatRequest
    <3>2. CASE nrgpus # 0 /\ askq' = Append(askq, "now") /\ nrgpus' = nrgpus
      <4>1. askq = << >> /\ wire = << >>
        BY <3>1, <3>2 DEF AskInv
      <4>2. askq' = <<"now">>
        BY <3>2, <4>1
      <4> QED BY <3>1, <3>2, <4>1, <4>2 DEF AskInv
    <3>3. CASE nrgpus' = 0 /\ askq' = << >>
      BY <3>1, <3>3 DEF AskInv
    <3> QED BY <2>2, <3>2, <3>3 DEF StatRequest
  <2>3. CASE StatResponse
    BY <2>3 DEF StatResponse, GpuTimeout, gpud, AskInv, EngineTypeOK
  <2>4. CASE GpuDaemon
    <3>1. CASE nrgpus = 0
      BY <2>4, <3>1 DEF GpuDaemon, AskInv
    <3>2. CASE nrgpus # 0
      <4>1. pc \in {"photo", "response"} /\ askq = <<"now">> /\ wire = << >>
        BY <2>4, <3>2 DEF GpuDaemon, AskInv
      <4>2. askq' = << >> /\ wire' = <<"now">>
        BY <2>4, <4>1 DEF GpuDaemon
      <4> QED BY <2>4, <3>2, <4>1, <4>2 DEF GpuDaemon, AskInv
    <3> QED BY <3>1, <3>2
  <2> QED BY <2>1, <2>2, <2>3, <2>4
<1>3. EngineTypeOK'
  <2>1. nrgpus' \in {0, 1}
    BY DEF Go, StatRequest, StatResponse, GpuDaemon, GpuTimeout, gpud, EngineTypeOK
  <2> QED BY <1>1, <2>1 DEF EngineTypeOK
<1>4. RoundInv'
  BY <1>1 DEF RoundInv, EngineTypeOK
<1>5. StopInv'
  BY <1>1 DEF StopInv, EngineTypeOK
<1> QED BY <1>2, <1>3, <1>4, <1>5

\* A sample is taken, shown and counted, or everything starts again.
LEMMA SampleInv ==
  ASSUME EngineInv, PhotoSyst \/ Show \/ Wipe \/ NextSample
  PROVE  EngineInv'
<1> USE EngineAssumption
<1> USE DEF EngineInv, gpud, hist, Points, Waiting, Taking, WipeDb
<1>1. EngineTypeOK'
  <2>1. CASE PhotoSyst
    BY <2>1 DEF PhotoSyst, EngineTypeOK
  <2>2. CASE Show
    <3>1. final' \in [sent : BOOLEAN, shown : 0 .. 2, reset : BOOLEAN]
      BY <2>2 DEF Show, EngineTypeOK
    <3> QED BY <2>2, <3>1 DEF Show, EngineTypeOK
  <2>3. CASE Wipe
    <3>1. final' \in [sent : BOOLEAN, shown : 0 .. 2, reset : BOOLEAN] /\ db' \in BOOLEAN
      BY <2>3 DEF Wipe, EngineTypeOK
    <3>2. sampcnt' \in -1 .. MaxCnt
      BY <2>3 DEF Wipe
    <3> QED BY <2>3, <3>1, <3>2 DEF Wipe, EngineTypeOK
  <2>4. CASE NextSample
    BY <2>4 DEF NextSample, EngineTypeOK
  <2> QED BY <2>1, <2>2, <2>3, <2>4
<1>2. RoundInv'
  <2>1. CASE PhotoSyst
    BY <2>1 DEF PhotoSyst, RoundInv, EngineTypeOK
  <2>2. CASE Show
    BY <2>2 DEF Show, RoundInv, EngineTypeOK
  <2>3. CASE Wipe
    BY <2>3 DEF Wipe, RoundInv, EngineTypeOK
  <2>4. CASE NextSample
    BY <2>4 DEF NextSample, RoundInv, EngineTypeOK
  <2> QED BY <2>1, <2>2, <2>3, <2>4
<1>3. AskInv'
  BY DEF PhotoSyst, Show, Wipe, NextSample, AskInv, EngineTypeOK
<1>4. StopInv'
  <2>1. CASE PhotoSyst
    BY <2>1 DEF PhotoSyst, StopInv, EngineTypeOK
  <2>2. CASE Show
    BY <2>2 DEF Show, StopInv, EngineTypeOK
  <2>3. CASE Wipe
    BY <2>3 DEF Wipe, StopInv, EngineTypeOK
  <2>4. CASE NextSample
    BY <2>4 DEF NextSample, StopInv, RoundInv, EngineTypeOK
  <2> QED BY <2>1, <2>2, <2>3, <2>4
<1> QED BY <1>1, <1>2, <1>3, <1>4

\* The invariant of the loop holds in every reachable state.
THEOREM EngineInvariance == EngineSpec => []EngineInv
<1> USE EngineAssumption
<1>1. EngineInv /\ [EngineNext]_evars => EngineInv'
  <2> SUFFICES ASSUME EngineInv, [EngineNext]_evars PROVE EngineInv'
    OBVIOUS
  <2>1. CASE UNCHANGED evars
    BY <2>1 DEF evars, gpud, hist, EngineInv, EngineTypeOK, RoundInv, AskInv, StopInv
  <2>2. CASE EngineNext
    BY <2>2, SignalInv, WaitInv, GpuStepInv, SampleInv DEF EngineNext, EngineStep
  <2> QED BY <2>1, <2>2
<1> QED BY <1>1, EngineInitInv, PTL DEF EngineSpec

\* Counters, tasks and GPU values of a sample are of its own interval.
THEOREM SampleIsOwn == EngineSpec => []OwnInterval
<1>1. EngineInv => OwnInterval
  BY DEF EngineInv, RoundInv, AskInv, OwnInterval, SinceBoot, GpuFresh, Taking
<1> QED BY <1>1, EngineInvariance, PTL

\* After SIGUSR2 one sample is shown at most, unless the user resets.
THEOREM LastIsLast == EngineSpec => []OneMore
<1>1. EngineInv => OneMore
  BY DEF EngineInv, StopInv, OneMore
<1> QED BY <1>1, EngineInvariance, PTL
=============================================================================
