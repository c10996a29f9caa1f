------------------------- MODULE CgroupList_proofs -------------------------
(***************************************************************************)
(* Proofs about the list of cgroups on the screen: the children of a       *)
(* cgroup are sorted, the levels laid one below the other are a tree with  *)
(* the right marks, and what is kept of it keeps right marks.              *)
(***************************************************************************)
EXTENDS Sampler_proofs
-----------------------------------------------------------------------------
\* F is the first k pieces of s one behind the other: place p of it is place
\* loc[p] of piece blk[p].
LaidOut(F, E, s, k, blk, loc) ==
  /\ F \in Seq(E) /\ blk \in [1 .. Len(F) -> 1 .. k] /\ loc \in [1 .. Len(F) -> Nat]
  /\ \A p \in 1 .. Len(F) : loc[p] \in 1 .. Len(s[blk[p]]) /\ F[p] = s[blk[p]][loc[p]]
  /\ \A p, q \in 1 .. Len(F) : p < q => blk[p] < blk[q] \/ (blk[p] = blk[q] /\ loc[p] < loc[q])
  /\ \A b \in 1 .. k : \A x \in 1 .. Len(s[b]) : \E p \in 1 .. Len(F) : blk[p] = b /\ loc[p] = x
Laid(F, E, s, k) == \E blk, loc : LaidOut(F, E, s, k, blk, loc)

LEMMA LaidAppends ==
  ASSUME NEW E, NEW s \in Seq(Seq(E)), NEW k \in 1 .. Len(s), NEW F, Laid(F, E, s, k - 1)
  PROVE  Laid(F \o s[k], E, s, k)
<1> PICK blk, loc : LaidOut(F, E, s, k - 1, blk, loc)
  BY DEF Laid
<1> DEFINE m == Len(F)
           x == s[k]
           r == Len(x)
           G == F \o x
           nb == [p \in 1 .. m + r |-> IF p <= m THEN blk[p] ELSE k]
           nl == [p \in 1 .. m + r |-> IF p <= m THEN loc[p] ELSE p - m]
<1>1. /\ F \in Seq(E) /\ m \in Nat /\ k \in Nat /\ k > 0
      /\ blk \in [1 .. m -> 1 .. k - 1] /\ loc \in [1 .. m -> Nat]
  BY DEF LaidOut
<1>2. x \in Seq(E) /\ r \in Nat
  <2>1. x \in Seq(E)
    OBVIOUS
  <2> QED BY <2>1
<1>3. /\ G \in Seq(E) /\ Len(G) = m + r /\ \A p \in 1 .. m : G[p] = F[p]
      /\ \A p \in m + 1 .. m + r : G[p] = x[p - m]
  <2> HIDE DEF x
  <2> QED BY <1>1, <1>2
<1>4. /\ \A p \in 1 .. m : loc[p] \in 1 .. Len(s[blk[p]]) /\ F[p] = s[blk[p]][loc[p]]
      /\ \A p, q \in 1 .. m : p < q => blk[p] < blk[q] \/ (blk[p] = blk[q] /\ loc[p] < loc[q])
      /\ \A b \in 1 .. k - 1 : \A y \in 1 .. Len(s[b]) : \E p \in 1 .. m : blk[p] = b /\ loc[p] = y
  BY DEF LaidOut
<1>5. x = s[k]
  OBVIOUS
<1> HIDE DEF m, r, x, G
<1>6. \A p \in 1 .. m : blk[p] \in 1 .. k - 1 /\ loc[p] \in Nat
  BY <1>1
<1>7. nb \in [1 .. m + r -> 1 .. k] /\ nl \in [1 .. m + r -> Nat]
  BY <1>1, <1>2, <1>6, SMTT(20)
<1>8. \A p \in 1 .. m + r : (p \in 1 .. m /\ nb[p] = blk[p] /\ nl[p] = loc[p])
                            \/ (p \in m + 1 .. m + r /\ nb[p] = k /\ nl[p] = p - m)
  BY <1>1, <1>2
<1>9. \A p \in 1 .. m : p \in 1 .. m + r /\ nb[p] = blk[p] /\ nl[p] = loc[p]
  BY <1>1, <1>2
<1>10. \A y \in 1 .. r : m + y \in 1 .. m + r /\ nb[m + y] = k /\ nl[m + y] = y
  BY <1>1, <1>2
<1> HIDE DEF nb, nl
<1>11. ASSUME NEW p \in 1 .. m + r PROVE nl[p] \in 1 .. Len(s[nb[p]]) /\ G[p] = s[nb[p]][nl[p]]
  <2>1. CASE p \in 1 .. m /\ nb[p] = blk[p] /\ nl[p] = loc[p]
    BY <1>3, <1>4, <2>1
  <2>2. CASE p \in m + 1 .. m + r /\ nb[p] = k /\ nl[p] = p - m
    <3>1. p - m \in 1 .. r /\ G[p] = x[p - m]
      BY <1>1, <1>2, <1>3, <2>2
    <3> QED BY <1>5, <2>2, <3>1 DEF r
  <2> QED BY <1>8, <2>1, <2>2
<1>12. ASSUME NEW p \in 1 .. m + r, NEW q \in 1 .. m + r, p < q
       PROVE  nb[p] < nb[q] \/ (nb[p] = nb[q] /\ nl[p] < nl[q])
  <2>1. CASE q \in 1 .. m
    <3>1. p \in 1 .. m
      BY <1>1, <1>12, <2>1
    <3> QED BY <1>4, <1>9, <1>12, <2>1, <3>1
  <2>2. CASE q \in m + 1 .. m + r
    <3>1. nb[q] = k /\ nl[q] = q - m
      BY <1>1, <1>8, <2>2
    <3>2. CASE p \in 1 .. m
      <4>1. nb[p] \in 1 .. k - 1
        BY <1>6, <1>9, <3>2
      <4> QED BY <1>1, <3>1, <4>1
    <3>3. CASE p \in m + 1 .. m + r
      <4>1. nb[p] = k /\ nl[p] = p - m
        BY <1>1, <1>8, <3>3
      <4> QED BY <1>1, <1>2, <1>12, <3>1, <4>1
    <3> QED BY <1>8, <3>2, <3>3
  <2> QED BY <1>8, <2>1, <2>2
<1>13. ASSUME NEW b \in 1 .. k, NEW y \in 1 .. Len(s[b]) PROVE \E p \in 1 .. m + r : nb[p] = b /\ nl[p] = y
  <2>1. CASE b = k
    <3>1. y \in 1 .. r
      BY <1>5, <2>1 DEF r
    <3> QED BY <1>10, <2>1, <3>1
  <2>2. CASE b # k
    <3>1. b \in 1 .. k - 1
      BY <1>1, <2>2
    <3>2. PICK p \in 1 .. m : blk[p] = b /\ loc[p] = y
      BY <1>4, <3>1
    <3> QED BY <1>9, <3>2
  <2> QED BY <2>1, <2>2
<1>14. LaidOut(G, E, s, k, nb, nl)
  BY <1>3, <1>7, <1>11, <1>12, <1>13 DEF LaidOut
<1> QED BY <1>14 DEF Laid, G, x

Flats(f, s) == f = [i \in 1 .. Len(s) |-> IF i = 1 THEN s[i] ELSE f[i - 1] \o s[i]]

LEMMA FlattenLays ==
  ASSUME NEW E, NEW s \in Seq(Seq(E))
  PROVE  Laid(FlattenSeq(s), E, s, Len(s))
<1> DEFINE n == Len(s)
           T == Seq(E)
           F == [ks \in (1 .. n) \X T |-> ks[2] \o s[ks[1]]]
           w == CHOOSE f : Flats(f, s)
<1>1. n \in Nat /\ << >> \in T /\ \A k \in 1 .. n : s[k] \in T
  OBVIOUS
<1>2. ASSUME NEW k \in 1 .. n, NEW t \in T PROVE F[<<k, t>>] = t \o s[k] /\ F[<<k, t>>] \in T
  <2>1. s[k] \in Seq(E) /\ t \in Seq(E)
    BY <1>1
  <2>2. t \o s[k] \in Seq(E)
    BY <2>1
  <2> QED BY <2>2
<1>3. Laid(<< >>, E, s, 0)
  <2> DEFINE z == [p \in 1 .. 0 |-> 0]
  <2>1. << >> \in Seq(E) /\ Len(<< >>) = 0 /\ z \in [1 .. 0 -> 1 .. 0] /\ z \in [1 .. 0 -> Nat]
    OBVIOUS
  <2>2. LaidOut(<< >>, E, s, 0, z, z)
    BY <2>1 DEF LaidOut
  <2> QED BY <2>2 DEF Laid
<1> HIDE DEF F, n, T
<1>4. PICK g : g \in [0 .. n -> T] /\ g[0] = << >> /\ \A k \in 1 .. n : g[k] = F[<<k, g[k - 1]>>]
  <2>1. Stays(F, n, T)
    BY <1>2 DEF Stays
  <2>2. \E g : Iterates(g, F, n, T, << >>)
    BY <1>1, <2>1, Iterated
  <2> QED BY <2>2 DEF Iterates
<1>5. \A k \in 1 .. n : g[k] = g[k - 1] \o s[k] /\ g[k - 1] \in T
  <2> TAKE k \in 1 .. n
  <2>1. g[k - 1] \in T
    BY <1>1, <1>4
  <2> QED BY <1>2, <1>4, <2>1
<1>6. \E f : Flats(f, s)
  <2> DEFINE f == [k \in 1 .. n |-> g[k]]
  <2>1. \A k \in 1 .. n : f[k] = IF k = 1 THEN s[k] ELSE f[k - 1] \o s[k]
    <3> TAKE k \in 1 .. n
    <3>1. CASE k = 1
      <4>1. g[k] = << >> \o s[1] /\ s[1] \in Seq(E)
        <5>1. k - 1 = 0 /\ 1 \in 1 .. n
          BY <1>1, <3>1
        <5>2. g[k] = g[0] \o s[1]
          BY <1>5, <3>1, <5>1
        <5> QED BY <1>1, <1>4, <5>1, <5>2 DEF T
      <4>2. << >> \o s[1] = s[1]
        BY <4>1
      <4> QED BY <3>1, <4>1, <4>2
    <3>2. CASE k # 1
      <4>1. k - 1 \in 1 .. n
        BY <1>1, <3>2
      <4> QED BY <1>5, <3>2, <4>1
    <3> QED BY <3>1, <3>2
  <2>2. f = [k \in 1 .. n |-> f[k]]
    OBVIOUS
  <2> HIDE DEF f
  <2>3. f = [k \in 1 .. n |-> IF k = 1 THEN s[k] ELSE f[k - 1] \o s[k]]
    BY <2>1, <2>2
  <2>4. Flats(f, s)
    BY <2>3, Zenon DEF Flats, n
  <2> QED BY <2>4
<1>7. Flats(w, s)
  BY <1>6
<1>8. FlattenSeq(s) = IF n = 0 THEN s ELSE w[n]
  BY Zenon DEF FlattenSeq, Flats, n
<1> HIDE DEF w
<1>9. \A k \in 1 .. n : w[k] = IF k = 1 THEN s[k] ELSE w[k - 1] \o s[k]
  <2>1. w = [k \in 1 .. n |-> IF k = 1 THEN s[k] ELSE w[k - 1] \o s[k]]
    BY <1>7, Zenon DEF Flats, n
  <2> QED BY <2>1, Zenon
<1>10. CASE n = 0
  <2>1. s = << >>
    BY <1>10 DEF n
  <2> QED BY <1>3, <1>8, <1>10, <2>1 DEF n
<1>11. CASE n # 0
  <2> DEFINE G == {0} \cup {k \in 1 .. n : Laid(w[k], E, s, k)}
  <2>1. ASSUME NEW k \in 1 .. n, k - 1 \in G PROVE k \in G
    <3>1. CASE k = 1
      <4>1. Laid(<< >> \o s[k], E, s, k)
        <5>1. k - 1 = 0
          BY <3>1
        <5> QED BY <1>3, <5>1, LaidAppends DEF n
      <4>2. << >> \o s[k] = s[k]
        <5>1. s[k] \in Seq(E)
          BY <1>1 DEF T
        <5> QED BY <5>1
      <4> QED BY <1>9, <3>1, <4>1, <4>2
    <3>2. CASE k # 1
      <4>1. Laid(w[k - 1], E, s, k - 1)
        BY <1>1, <2>1, <3>2
      <4>2. Laid(w[k - 1] \o s[k], E, s, k)
        BY <4>1, LaidAppends DEF n
      <4> QED BY <1>9, <3>2, <4>2
    <3> QED BY <3>1, <3>2
  <2>2. 0 \in G
    OBVIOUS
  <2> HIDE DEF G
  <2>3. 0 .. n \subseteq G
    BY <1>1, <2>1, <2>2, Upwards
  <2>4. n \in 0 .. n /\ n # 0
    BY <1>1, <1>11
  <2>5. Laid(w[n], E, s, n)
    BY <2>3, <2>4 DEF G
  <2> QED BY <1>8, <1>11, <2>5 DEF n
<1> QED BY <1>10, <1>11

-----------------------------------------------------------------------------
\* The chain is a tree: the first one is its root, every other one follows its
\* parent and is one level deeper.
Cgroup == [depth : Nat, sortval : Nat, used : BOOLEAN]
CgTree ==
  /\ chain \in Seq(Cgroup) /\ Len(chain) > 0
  /\ chain[1].depth = 0 /\ chain[1].used
  /\ \A i \in 2 .. Len(chain) :
       Parent(i) \in 1 .. i - 1 /\ chain[i].depth = chain[Parent(i)].depth + 1

LEMMA CgTreeIs ==
  ASSUME CgTree
  PROVE  /\ Len(chain) \in Nat /\ 1 \in 1 .. Len(chain) /\ DOMAIN chain = 1 .. Len(chain)
         /\ chain \in Seq(Cgroup) /\ chain[1].depth = 0 /\ chain[1].used
         /\ \A i \in 1 .. Len(chain) : chain[i] \in Cgroup /\ chain[i].depth \in Nat /\ chain[i].sortval \in Nat
                                       /\ (i # 1 => i \in 2 .. Len(chain))
         /\ \A i \in 2 .. Len(chain) :
              /\ i \in 1 .. Len(chain) /\ i # 1 /\ Parent(i) \in 1 .. Len(chain) /\ Parent(i) < i
              /\ chain[i].depth = chain[Parent(i)].depth + 1 /\ chain[i].depth # 0
<1>1. /\ Len(chain) \in Nat /\ 1 \in 1 .. Len(chain) /\ DOMAIN chain = 1 .. Len(chain)
      /\ chain \in Seq(Cgroup) /\ chain[1].depth = 0 /\ chain[1].used
  BY DEF CgTree
<1>2. ASSUME NEW i \in 1 .. Len(chain)
      PROVE  chain[i] \in Cgroup /\ chain[i].depth \in Nat /\ chain[i].sortval \in Nat
             /\ (i # 1 => i \in 2 .. Len(chain))
  <2>1. chain[i] \in Cgroup
    BY <1>1
  <2>2. i # 1 => i \in 2 .. Len(chain)
    BY <1>1
  <2> QED BY <2>1, <2>2 DEF Cgroup
<1>3. ASSUME NEW i \in 2 .. Len(chain)
      PROVE  /\ i \in 1 .. Len(chain) /\ i # 1 /\ Parent(i) \in 1 .. Len(chain) /\ Parent(i) < i
             /\ chain[i].depth = chain[Parent(i)].depth + 1 /\ chain[i].depth # 0
  <2>1. Parent(i) \in 1 .. i - 1 /\ chain[i].depth = chain[Parent(i)].depth + 1
    BY DEF CgTree
  <2> DEFINE h == Parent(i)
  <2> HIDE DEF h
  <2>2. i \in 1 .. Len(chain) /\ i # 1 /\ h \in 1 .. Len(chain) /\ h < i
    BY <1>1, <2>1 DEF h
  <2>3. chain[h].depth \in Nat
    BY <1>2, <2>2
  <2>4. chain[h].depth + 1 # 0
    BY <2>3
  <2> QED BY <2>1, <2>2, <2>4 DEF h
<1> QED BY <1>1, <1>2, <1>3

\* What holds of the root, and of every other one when it holds of its parent.
LEMMA DownTree ==
  ASSUME CgTree, NEW G, 1 \in G, \A i \in 2 .. Len(chain) : Parent(i) \in G => i \in G
  PROVE  \A i \in 1 .. Len(chain) : i \in G
<1> DEFINE Bad == {i \in 1 .. Len(chain) : i \notin G}
<1> SUFFICES ASSUME Bad # {} PROVE FALSE
  OBVIOUS
<1>1. Bad \subseteq Nat
  OBVIOUS
<1>2. PICK m \in Bad : \A y \in Bad : m <= y
  BY <1>1, LeastNat
<1>3. m \in 2 .. Len(chain)
  BY <1>2, CgTreeIs
<1>4. Parent(m) \in 1 .. Len(chain) /\ Parent(m) < m
  BY <1>3, CgTreeIs
<1> DEFINE h == Parent(m)
<1> HIDE DEF h
<1>5. h \notin Bad
  <2>1. h \in Nat /\ m \in Nat /\ h < m
    BY <1>3, <1>4 DEF h
  <2> QED BY <1>2, <2>1
<1>6. h \in G
  BY <1>4, <1>5 DEF h
<1> QED BY <1>2, <1>3, <1>6 DEF h

\* From the last one upwards: what holds of all that follow.
LEMMA UpTree ==
  ASSUME NEW n \in Nat, NEW G, \A i \in 1 .. n : (\A j \in 1 .. n : i < j => j \in G) => i \in G
  PROVE  \A i \in 1 .. n : i \in G
<1> DEFINE Bad == {i \in 1 .. n : i \notin G}
           R == {n - i : i \in Bad}
<1> SUFFICES ASSUME Bad # {} PROVE FALSE
  OBVIOUS
<1>1. R \subseteq Nat /\ R # {}
  OBVIOUS
<1>2. PICK r \in R : \A y \in R : r <= y
  BY <1>1, LeastNat
<1>3. PICK m \in Bad : r = n - m
  BY <1>2
<1>4. ASSUME NEW j \in 1 .. n, m < j PROVE j \in G
  <2> SUFFICES ASSUME j \notin G PROVE FALSE
    OBVIOUS
  <2>1. n - j \in R
    OBVIOUS
  <2>2. n - m <= n - j
    BY <1>2, <1>3, <2>1
  <2> QED BY <1>4, <2>2
<1> QED BY <1>3, <1>4

\* The cgroups above one.
Aboves(f) == f = [i \in DOMAIN chain |-> IF i = 1 THEN {} ELSE {Parent(i)} \union f[Parent(i)]]

LEMMA AbovesAre ==
  ASSUME CgTree
  PROVE  /\ Above[1] = {}
         /\ \A i \in 2 .. Len(chain) : Above[i] = {Parent(i)} \union Above[Parent(i)]
<1> DEFINE n == Len(chain)
           T == [1 .. n -> SUBSET Nat]
           e == [i \in 1 .. n |-> {}]
           F == [ks \in (1 .. n) \X T |->
                   [ks[2] EXCEPT ![ks[1]] = IF ks[1] = 1 THEN {} ELSE {Parent(ks[1])} \union ks[2][Parent(ks[1])]]]
<1>1. n \in Nat /\ 1 \in 1 .. n /\ DOMAIN chain = 1 .. n /\ e \in T
  BY CgTreeIs
<1>2. \A i \in 2 .. n : i \in 1 .. n /\ i # 1 /\ Parent(i) \in 1 .. n /\ Parent(i) < i /\ Parent(i) \in Nat
  BY CgTreeIs
<1>3. ASSUME NEW k \in 1 .. n, NEW s \in T
      PROVE  LET x == IF k = 1 THEN {} ELSE {Parent(k)} \union s[Parent(k)]
             IN  F[<<k, s>>] = [s EXCEPT ![k] = x] /\ F[<<k, s>>] \in T
  <2> DEFINE x == IF k = 1 THEN {} ELSE {Parent(k)} \union s[Parent(k)]
  <2>1. F[<<k, s>>] = [s EXCEPT ![k] = x]
    OBVIOUS
  <2>2. x \in SUBSET Nat
    <3>1. k # 1 => k \in 2 .. n
      BY <1>1
    <3>2. CASE k # 1
      <4>1. Parent(k) \in 1 .. n /\ Parent(k) \in Nat
        BY <1>2, <3>1, <3>2
      <4> HIDE DEF n
      <4> QED BY <3>2, <4>1
    <3> QED BY <3>2
  <2> HIDE DEF x, F
  <2>3. [s EXCEPT ![k] = x] \in T
    BY <2>2
  <2> QED BY <2>1, <2>3 DEF x
<1> HIDE DEF F, n, T, e
<1>4. PICK g : g \in [0 .. n -> T] /\ g[0] = e /\ \A k \in 1 .. n : g[k] = F[<<k, g[k - 1]>>]
  <2>1. Stays(F, n, T)
    BY <1>3 DEF Stays
  <2>2. \E g : Iterates(g, F, n, T, e)
    BY <1>1, <2>1, Iterated
  <2> QED BY <2>2 DEF Iterates
<1> DEFINE v(k) == IF k = 1 THEN {} ELSE {Parent(k)} \union g[k - 1][Parent(k)]
<1>5. \A k \in 1 .. n : g[k - 1] \in T /\ g[k] \in T /\ g[k] = [g[k - 1] EXCEPT ![k] = v(k)]
  <2> TAKE k \in 1 .. n
  <2>1. g[k - 1] \in T /\ g[k] \in T
    BY <1>1, <1>4
  <2> QED BY <1>3, <1>4, <2>1
<1>6. ASSUME NEW k \in 1 .. n
      PROVE  g[k][k] = v(k) /\ \A j \in 1 .. n : j # k => g[k][j] = g[k - 1][j]
  <2>1. g[k - 1] \in T /\ g[k] = [g[k - 1] EXCEPT ![k] = v(k)]
    BY <1>5
  <2> HIDE DEF v
  <2> QED BY <2>1 DEF T
<1> HIDE DEF v
<1>7. ASSUME NEW j \in 1 .. n PROVE \A k \in 0 .. n : j <= k => g[k][j] = g[j][j]
  <2> DEFINE G == {k \in 0 .. n : j <= k => g[k][j] = g[j][j]}
  <2>1. 0 \in G
    BY <1>1
  <2>2. ASSUME NEW k \in 1 .. n, k - 1 \in G PROVE k \in G
    <3>1. k \in 0 .. n /\ (j <= k => j = k \/ j <= k - 1)
      BY <1>1
    <3>2. j # k => g[k][j] = g[k - 1][j]
      BY <1>6
    <3> QED BY <2>2, <3>1, <3>2
  <2> HIDE DEF G
  <2>3. \A k \in 1 .. n : k - 1 \in G => k \in G
    BY <2>2
  <2>4. 0 .. n \subseteq G
    BY <1>1, <2>1, <2>3, Upwards
  <2> QED BY <2>4 DEF G
<1> DEFINE f == [i \in DOMAIN chain |-> g[i][i]]
<1>8. \A i \in 1 .. n : f[i] = IF i = 1 THEN {} ELSE {Parent(i)} \union f[Parent(i)]
  <2> TAKE i \in 1 .. n
  <2>1. f[i] = v(i)
    BY <1>1, <1>6
  <2>2. CASE i = 1
    BY <2>1, <2>2 DEF v
  <2>3. CASE i # 1
    <3>1. i \in 2 .. n
      BY <1>1, <2>3
    <3> DEFINE h == Parent(i)
    <3>2. h \in 1 .. n /\ h < i
      BY <1>2, <3>1
    <3>3. f[i] = {h} \union g[i - 1][h]
      BY <2>1, <2>3 DEF v
    <3> HIDE DEF h
    <3>4. i - 1 \in 0 .. n /\ h <= i - 1
      BY <1>1, <3>2
    <3>5. g[i - 1][h] = f[h]
      BY <1>1, <1>7, <3>2, <3>4
    <3> QED BY <2>3, <3>3, <3>5 DEF h
  <2> QED BY <2>2, <2>3
<1>9. Aboves(f)
  <2>1. f = [i \in DOMAIN chain |-> f[i]]
    OBVIOUS
  <2> HIDE DEF f
  <2>2. f = [i \in DOMAIN chain |-> IF i = 1 THEN {} ELSE {Parent(i)} \union f[Parent(i)]]
    BY <1>1, <1>8, <2>1
  <2> QED BY <2>2, Zenon DEF Aboves
<1> DEFINE c == CHOOSE z : Aboves(z)
<1>10. Aboves(c)
  BY <1>9
<1>11. Above = c
  BY Zenon DEF Above, Aboves
<1> HIDE DEF c
<1>12. \A i \in DOMAIN chain : c[i] = IF i = 1 THEN {} ELSE {Parent(i)} \union c[Parent(i)]
  <2>1. c = [i \in DOMAIN chain |-> IF i = 1 THEN {} ELSE {Parent(i)} \union c[Parent(i)]]
    BY <1>10, Zenon DEF Aboves
  <2> QED BY <2>1, Zenon
<1> QED BY <1>1, <1>2, <1>11, <1>12 DEF n

Within(i, j) == i = j \/ Under(i, j)
Sib(i, j) == i # 1 /\ j # 1 /\ Parent(i) = Parent(j)

LEMMA UnderIs ==
  ASSUME CgTree, NEW i \in 2 .. Len(chain), NEW j
  PROVE  Under(i, j) <=> Within(Parent(i), j)
<1>1. Above[i] = {Parent(i)} \union Above[Parent(i)]
  BY AbovesAre
<1> QED BY <1>1 DEF Under, Within

LEMMA UnderBefore ==
  ASSUME CgTree, NEW i \in 1 .. Len(chain), NEW j, Under(i, j)
  PROVE  j \in 1 .. Len(chain) /\ j < i /\ chain[j].depth < chain[i].depth /\ i \in 2 .. Len(chain)
<1> DEFINE n == Len(chain)
           Lower(x, y) == y \in 1 .. n /\ y < x /\ chain[y].depth < chain[x].depth
           G == {x \in 1 .. n : \A y \in Above[x] : Lower(x, y)}
<1>1. 1 \in G
  BY CgTreeIs, AbovesAre
<1>2. ASSUME NEW x \in 2 .. n, Parent(x) \in G PROVE x \in G
  <2> DEFINE h == Parent(x)
  <2>1. Above[x] = {h} \union Above[h] /\ x \in 1 .. n /\ h \in 1 .. n /\ h < x /\ chain[x].depth = chain[h].depth + 1
    BY AbovesAre, CgTreeIs
  <2>2. chain[h].depth \in Nat /\ chain[x].depth \in Nat
    BY <2>1, CgTreeIs
  <2>3. \A y \in Above[h] : Lower(h, y)
    BY <1>2
  <2> HIDE DEF h
  <2>4. ASSUME NEW y \in Above[x] PROVE Lower(x, y)
    <3>1. CASE y = h
      BY <2>1, <2>2, <3>1
    <3>2. CASE y \in Above[h]
      <4>1. y \in 1 .. n /\ y < h /\ chain[y].depth < chain[h].depth
        BY <2>3, <3>2
      <4>2. chain[y].depth \in Nat
        BY <4>1, CgTreeIs
      <4> QED BY <2>1, <2>2, <4>1, <4>2
    <3> QED BY <2>1, <2>4, <3>1, <3>2
  <2> QED BY <2>1, <2>4
<1> HIDE DEF G
<1>3. \A x \in 1 .. n : x \in G
  BY <1>1, <1>2, DownTree
<1>4. Lower(i, j)
  BY <1>3 DEF G, Under
<1>5. i # 1
  <2>1. j \in 1 .. n /\ j < i
    BY <1>4
  <2> QED BY <2>1
<1> QED BY <1>4, <1>5, CgTreeIs

LEMMA UnderAgain ==
  ASSUME CgTree, NEW i \in 1 .. Len(chain), NEW j, NEW k, Under(i, j), Under(j, k)
  PROVE  Under(i, k)
<1> DEFINE n == Len(chain)
           G == {x \in 1 .. n : \A y \in Above[x] : Above[y] \subseteq Above[x]}
<1>1. 1 \in G
  BY CgTreeIs, AbovesAre
<1>2. ASSUME NEW x \in 2 .. n, Parent(x) \in G PROVE x \in G
  <2>1. Above[x] = {Parent(x)} \union Above[Parent(x)] /\ x \in 1 .. n
    BY AbovesAre, CgTreeIs
  <2> QED BY <1>2, <2>1
<1> HIDE DEF G
<1>3. \A x \in 1 .. n : x \in G
  BY <1>1, <1>2, DownTree
<1> QED BY <1>3 DEF G, Under

LEMMA UnderBoth ==
  ASSUME CgTree, NEW i \in 1 .. Len(chain), NEW j, NEW k, Under(i, j), Under(i, k)
  PROVE  Within(j, k) \/ Within(k, j)
<1> DEFINE n == Len(chain)
           Comp(y, z) == y = z \/ z \in Above[y] \/ y \in Above[z]
           G == {x \in 1 .. n : \A y, z \in Above[x] : Comp(y, z)}
<1>1. 1 \in G
  BY CgTreeIs, AbovesAre
<1>2. ASSUME NEW x \in 2 .. n, Parent(x) \in G PROVE x \in G
  <2>1. Above[x] = {Parent(x)} \union Above[Parent(x)] /\ x \in 1 .. n
    BY AbovesAre, CgTreeIs
  <2> QED BY <1>2, <2>1
<1> HIDE DEF G
<1>3. \A x \in 1 .. n : x \in G
  BY <1>1, <1>2, DownTree
<1> QED BY <1>3 DEF G, Under, Within

LEMMA UnderRoot ==
  ASSUME CgTree, NEW i \in 2 .. Len(chain)
  PROVE  Under(i, 1)
<1> DEFINE n == Len(chain)
           G == {x \in 1 .. n : x = 1 \/ 1 \in Above[x]}
<1>1. 1 \in G
  BY CgTreeIs
<1>2. ASSUME NEW x \in 2 .. n, Parent(x) \in G PROVE x \in G
  <2>1. Above[x] = {Parent(x)} \union Above[Parent(x)] /\ x \in 1 .. n
    BY AbovesAre, CgTreeIs
  <2> QED BY <1>2, <2>1
<1> HIDE DEF G
<1>3. \A x \in 1 .. n : x \in G
  BY <1>1, <1>2, DownTree
<1>4. i \in 1 .. n /\ i # 1
  BY CgTreeIs
<1> QED BY <1>3, <1>4 DEF G, Under

LEMMA WithinSame ==
  ASSUME CgTree, NEW i \in 1 .. Len(chain), NEW j \in 1 .. Len(chain), NEW k \in 1 .. Len(chain),
         Within(i, j), Within(i, k), chain[j].depth = chain[k].depth
  PROVE  j = k
<1>1. ASSUME Under(j, k) PROVE FALSE
  <2>1. chain[k].depth < chain[j].depth /\ chain[k].depth \in Nat /\ chain[j].depth \in Nat
    BY <1>1, UnderBefore, CgTreeIs
  <2> QED BY <2>1
<1>2. ASSUME Under(k, j) PROVE FALSE
  <2>1. chain[j].depth < chain[k].depth /\ chain[k].depth \in Nat /\ chain[j].depth \in Nat
    BY <1>2, UnderBefore, CgTreeIs
  <2> QED BY <2>1
<1>3. Within(j, k) \/ Within(k, j)
  BY UnderBoth DEF Within
<1> QED BY <1>1, <1>2, <1>3 DEF Within

\* What is below a cgroup is within one of its children.
LEMMA ChildAbove ==
  ASSUME CgTree, NEW i, NEW x \in 1 .. Len(chain), Under(x, i)
  PROVE  \E k \in 2 .. Len(chain) : Parent(k) = i /\ Within(x, k)
<1> DEFINE n == Len(chain)
           Has(y) == \E k \in 2 .. n : Parent(k) = i /\ Within(y, k)
           G == {y \in 1 .. n : Under(y, i) => Has(y)}
<1>1. 1 \in G
  BY CgTreeIs, AbovesAre DEF Under
<1>2. ASSUME NEW y \in 2 .. n, Parent(y) \in G PROVE y \in G
  <2>1. y \in 1 .. n
    BY CgTreeIs
  <2>2. ASSUME Under(y, i) PROVE Has(y)
    <3>1. CASE Parent(y) = i
      BY <3>1 DEF Within
    <3>2. CASE Under(Parent(y), i)
      <4>1. PICK k \in 2 .. n : Parent(k) = i /\ Within(Parent(y), k)
        BY <1>2, <3>2
      <4>2. Under(y, k)
        BY <4>1, UnderIs
      <4> QED BY <4>1, <4>2 DEF Within
    <3>3. Within(Parent(y), i)
      BY <2>2, UnderIs
    <3> QED BY <3>1, <3>2, <3>3 DEF Within
  <2> QED BY <2>1, <2>2
<1> HIDE DEF G
<1>3. \A y \in 1 .. n : y \in G
  BY <1>1, <1>2, DownTree
<1> QED BY <1>3 DEF G

\* Two children of a cgroup have nothing in common, and no siblings but themselves.
LEMMA Apart ==
  ASSUME CgTree, NEW k \in 2 .. Len(chain), NEW l \in 2 .. Len(chain), Parent(k) = Parent(l), k # l,
         NEW x \in 1 .. Len(chain), NEW y \in 1 .. Len(chain), Within(x, k), Within(y, l)
  PROVE  x # y /\ ~ Under(x, y) /\ (Sib(x, y) => x = k /\ y = l)
<1>1. k \in 1 .. Len(chain) /\ l \in 1 .. Len(chain) /\ chain[k].depth = chain[l].depth
  BY CgTreeIs
<1>2. ASSUME NEW z \in 1 .. Len(chain), Within(z, k), Within(z, l) PROVE FALSE
  BY <1>1, <1>2, WithinSame
<1>3. \A z, a \in 1 .. Len(chain) : \A b : Within(z, a) /\ Within(a, b) => Within(z, b)
  BY UnderAgain DEF Within
<1>4. ASSUME Within(x, y) PROVE FALSE
  BY <1>2, <1>3, <1>4
<1>5. ASSUME Sib(x, y) PROVE x = k /\ y = l
  <2>1. x \in 2 .. Len(chain) /\ y \in 2 .. Len(chain) /\ Parent(x) = Parent(y)
        /\ Parent(x) \in 1 .. Len(chain)
    BY <1>5, CgTreeIs DEF Sib
  <2> DEFINE h == Parent(x)
  <2>2. Under(x, h) /\ Under(y, h)
    BY <2>1, UnderIs DEF Within
  <2>3. (x # k => Within(h, k)) /\ (y # l => Within(h, l))
    BY <2>1, UnderIs DEF Within
  <2> HIDE DEF h
  <2>4. Within(x, h) /\ Within(y, h) /\ h \in 1 .. Len(chain)
    BY <2>1, <2>2 DEF Within, h
  <2>5. ASSUME x # k PROVE FALSE
    <3>1. Within(y, k)
      BY <1>3, <2>3, <2>4, <2>5
    <3> QED BY <1>2, <3>1
  <2>6. ASSUME y # l PROVE FALSE
    <3>1. Within(x, l)
      BY <1>3, <2>3, <2>4, <2>6
    <3> QED BY <1>2, <3>1
  <2> QED BY <2>5, <2>6
<1> QED BY <1>4, <1>5 DEF Within

-----------------------------------------------------------------------------
\* The children of a cgroup, each of them once, the larger consumer first.
SortListed(t, i) ==
  /\ t \in Seq(2 .. Len(chain)) /\ \A k \in 1 .. Len(t) : Parent(t[k]) = i
  /\ \A j \in 2 .. Len(chain) : Parent(j) = i => \E k \in 1 .. Len(t) : t[k] = j
  /\ \A k, l \in 1 .. Len(t) :
       k < l => t[k] # t[l] /\ chain[t[k]].sortval >= chain[t[l]].sortval

LEMMA SortListIs ==
  ASSUME CgTree, NEW i
  PROVE  SortListed(createsortlist(i), i)
<1> DEFINE n == Len(chain)
           key == [j \in 1 .. n |-> chain[j].sortval * (n + 1) + j]
           C == {j \in 2 .. n : Parent(j) = i}
           K == {chain[j].sortval * (n + 1) + j : j \in Children(i)}
           c == Cardinality(K)
           x(k) == CHOOSE j \in Children(i) : chain[j].sortval * (n + 1) + j = Nth(K, c + 1 - k)
           t == createsortlist(i)
<1>1. /\ n \in Nat /\ DOMAIN chain = 1 .. n /\ \A j \in 1 .. n : chain[j].sortval \in Nat
      /\ Children(i) = C
  BY CgTreeIs DEF Children
<1>2. t = [k \in 1 .. c |-> x(k)]
  BY Zenon DEF createsortlist
<1> HIDE DEF t
<1>3. (\A j \in 1 .. n : key[j] = chain[j].sortval * (n + 1) + j) /\ K = {key[j] : j \in C}
  <2> HIDE DEF n
  <2>1. \A j \in 1 .. n : key[j] = chain[j].sortval * (n + 1) + j
    OBVIOUS
  <2>2. \A j \in C : j \in 1 .. n
    BY <1>1
  <2> HIDE DEF C, key
  <2> QED BY <1>1, <2>1, <2>2
<1>4. \A h, j \in 1 .. n : key[h] \in Nat /\ (chain[h].sortval < chain[j].sortval => key[h] < key[j])
                           /\ (key[h] = key[j] => h = j)
  <2> TAKE h, j \in 1 .. n
  <2> DEFINE p == chain[h].sortval
             q == chain[j].sortval
             a == key[h]
             b == key[j]
  <2>1. p \in Nat /\ q \in Nat
    BY <1>1
  <2>2. a = p * (n + 1) + h /\ b = q * (n + 1) + j
    BY <1>3
  <2> HIDE DEF p, q, a, b, key, n
  <2>3. a \in Nat /\ b \in Nat /\ (p < q => a < b) /\ (q < p => b < a)
    BY <1>1, <2>1, <2>2, KeyOrder
  <2>4. ASSUME a = b PROVE h = j
    <3>1. p = q
      BY <2>1, <2>3, <2>4
    <3>2. p * (n + 1) \in Nat
      BY <1>1, <2>1
    <3> QED BY <1>1, <2>2, <2>4, <3>1, <3>2
  <2> QED BY <2>3, <2>4 DEF p, q, a, b
<1>5. \A j \in C : j \in 1 .. n
  <2> TAKE j \in C
  <2>1. j \in 2 .. n /\ n \in Nat
    BY <1>1
  <2> HIDE DEF n
  <2> QED BY <2>1
<1> HIDE DEF key, K, c
<1>6. K \subseteq Nat /\ IsFiniteSet(K) /\ c \in Nat
  <2>1. K \subseteq Nat
    BY <1>3, <1>4, <1>5
  <2>2. IsFiniteSet(C)
    <3>1. 1 \in Int /\ n \in Int
      BY <1>1
    <3>2. C \in SUBSET (1 .. n)
      BY <1>5
    <3> HIDE DEF n, C
    <3>3. IsFiniteSet(1 .. n)
      BY <3>1, FS_Interval
    <3> QED BY <3>2, <3>3, FS_Subset
  <2> DEFINE f == [j \in C |-> key[j]]
  <2>3. f \in Surjection(C, K)
    BY <1>3 DEF Surjection
  <2>4. IsFiniteSet(K)
    BY <2>2, <2>3, FS_Surjection
  <2> QED BY <2>1, <2>4, FS_CardinalityType DEF c
<1>7. ASSUME NEW k \in 1 .. c PROVE x(k) \in C /\ key[x(k)] = Nth(K, c + 1 - k) /\ c + 1 - k \in 1 .. c
  <2> DEFINE m == c + 1 - k
  <2>1. m \in 1 .. c
    BY <1>6
  <2>2. Nth(K, m) \in K
    BY <1>6, <2>1, NthIs DEF c
  <2>3. \E j \in Children(i) : chain[j].sortval * (n + 1) + j = Nth(K, m)
    BY <2>2 DEF K
  <2>4. x(k) \in Children(i) /\ chain[x(k)].sortval * (n + 1) + x(k) = Nth(K, m)
    BY <2>3, Zenon
  <2> HIDE DEF x
  <2>5. x(k) \in C /\ x(k) \in 1 .. n
    BY <1>1, <1>5, <2>4
  <2> QED BY <1>3, <2>1, <2>4, <2>5
<1> HIDE DEF x
<1>8. ASSUME NEW k \in 1 .. c, NEW l \in 1 .. c, k < l
      PROVE  x(k) # x(l) /\ chain[x(k)].sortval >= chain[x(l)].sortval
  <2> DEFINE a == x(k)
             b == x(l)
  <2>1. Nth(K, c + 1 - l) < Nth(K, c + 1 - k)
    <3>1. c + 1 - l < c + 1 - k /\ c + 1 - l \in 1 .. c /\ c + 1 - k \in 1 .. c
      BY <1>6, <1>8
    <3> QED BY <1>6, <3>1, NthGrows DEF c
  <2>2. a \in 1 .. n /\ b \in 1 .. n /\ key[b] < key[a]
    BY <1>5, <1>7, <2>1
  <2> HIDE DEF a, b
  <2>3. key[a] \in Nat /\ key[b] \in Nat /\ (chain[a].sortval < chain[b].sortval => key[a] < key[b])
    BY <1>4, <2>2
  <2>4. chain[a].sortval \in Nat /\ chain[b].sortval \in Nat
    BY <1>1, <2>2
  <2>5. a # b
    BY <2>2, <2>3
  <2>6. ~ (chain[a].sortval < chain[b].sortval)
    BY <2>2, <2>3
  <2> QED BY <2>4, <2>5, <2>6 DEF a, b
<1>9. ASSUME NEW j \in C PROVE \E k \in 1 .. c : x(k) = j
  <2>1. PICK m \in 1 .. c : Nth(K, m) = key[j]
    <3>1. key[j] \in K
      BY <1>3
    <3> QED BY <1>6, <3>1, NthAll DEF c
  <2>2. c + 1 - m \in 1 .. c /\ c + 1 - (c + 1 - m) = m
    BY <1>6
  <2>3. x(c + 1 - m) \in C /\ key[x(c + 1 - m)] = key[j]
    BY <1>7, <2>1, <2>2
  <2> QED BY <1>4, <1>5, <2>2, <2>3
<1>10. \A k \in 1 .. c : t[k] = x(k) /\ t[k] \in C
  BY <1>2, <1>7
<1>11. t \in Seq(2 .. n) /\ Len(t) = c
  <2>1. t = [k \in 1 .. c |-> t[k]]
    BY <1>2
  <2> QED BY <1>6, <1>10, <2>1
<1>12. \A k \in 1 .. c : Parent(t[k]) = i
  BY <1>10
<1>13. \A j \in 2 .. n : Parent(j) = i => \E k \in 1 .. c : t[k] = j
  BY <1>9, <1>10
<1>14. \A k, l \in 1 .. c : k < l => t[k] # t[l] /\ chain[t[k]].sortval >= chain[t[l]].sortval
  BY <1>8, <1>10
<1>15. SortListed(t, i)
  BY <1>11, <1>12, <1>13, <1>14 DEF SortListed
<1> QED BY <1>15 DEF t

-----------------------------------------------------------------------------
\* A sorted list L of the cgroups A: what is below a cgroup follows it, siblings fall, and the
\* marks are right, but for the stub and the line of the level of e, which A lacks siblings of.
\* The lines of the levels above dep are those of v.
ListEntry == [cg : 1 .. Len(chain), stub : BOOLEAN, vlines : SUBSET (0 .. Len(chain))]
CgBelow(i) == {x \in 1 .. Len(chain) : Under(x, i)}
CgUpto(i) == {x \in 1 .. Len(chain) : Within(x, i)}
Later(L, p) == \E r \in 1 .. Len(L) : p < r /\ Sib(L[r].cg, L[p].cg)

Covers(L, A) ==
  /\ \A p \in 1 .. Len(L) : L[p].cg \in A
  /\ \A x \in A : \E p \in 1 .. Len(L) : L[p].cg = x
  /\ \A p, q \in 1 .. Len(L) : p < q => L[p].cg # L[q].cg
Nests(L) ==
  \A p, q \in 1 .. Len(L) :
    Under(L[q].cg, L[p].cg) => p < q /\ \A r \in 1 .. Len(L) : p < r /\ r <= q => Under(L[r].cg, L[p].cg)
Falls(L) ==
  \A p, q \in 1 .. Len(L) :
    p < q /\ Sib(L[p].cg, L[q].cg) => chain[L[p].cg].sortval >= chain[L[q].cg].sortval
StubMarks(L, e) == \A p \in 1 .. Len(L) : L[p].cg # e => (L[p].stub <=> ~ Later(L, p))
LineMarks(L, e) ==
  \A p, q \in 1 .. Len(L) :
    L[q].cg # e /\ Under(L[p].cg, L[q].cg) =>
      (chain[L[q].cg].depth - 1 \in L[p].vlines <=> Later(L, q))
LinesAbove(L, dep, v) == \A p \in 1 .. Len(L) : \A d \in 0 .. dep - 1 : d \in L[p].vlines <=> d \in v
Forest(L, A, dep, v, e) ==
  /\ L \in Seq(ListEntry) /\ Covers(L, A) /\ Nests(L) /\ Falls(L)
  /\ StubMarks(L, e) /\ LineMarks(L, e) /\ LinesAbove(L, dep, v)

LEMMA SibIs ==
  ASSUME CgTree, NEW x \in 1 .. Len(chain), NEW c \in 1 .. Len(chain), Under(x, c)
  PROVE  ~ Sib(x, c) /\ ~ Under(c, x) /\ ~ Under(c, c) /\ x # c /\ ~ Sib(c, x)
<1>1. x \in 2 .. Len(chain) /\ c < x /\ Parent(x) \in 1 .. Len(chain)
  BY UnderBefore, CgTreeIs
<1>2. ~ Under(c, x) /\ ~ Under(c, c)
  <2>1. Under(c, x) => x < c
    BY UnderBefore
  <2>2. Under(c, c) => c < c
    BY UnderBefore
  <2> QED BY <1>1, <2>1, <2>2
<1>3. ASSUME Sib(x, c) \/ Sib(c, x) PROVE FALSE
  <2>1. c \in 2 .. Len(chain) /\ Parent(c) = Parent(x)
    BY <1>3, CgTreeIs DEF Sib
  <2>2. Parent(c) < c /\ Within(Parent(c), c)
    <3>1. Within(Parent(x), c)
      BY <1>1, UnderIs
    <3> QED BY <2>1, <3>1, CgTreeIs
  <2> DEFINE h == Parent(c)
  <2>3. h \in 1 .. Len(chain) /\ (Under(h, c) => c < h)
    BY <1>1, <2>1, UnderBefore
  <2> HIDE DEF h
  <2>4. h < c /\ (h = c \/ Under(h, c))
    BY <2>2 DEF h, Within
  <2> QED BY <2>3, <2>4
<1> QED BY <1>1, <1>2, <1>3

\* A cgroup before the list of all below it.
Headed(B, h, M, c, v) == h \in ListEntry /\ h.cg = c /\ h.vlines = v /\ B = <<h>> \o M

LEMMA HeadAdded ==
  ASSUME CgTree, NEW c \in 1 .. Len(chain), NEW v, NEW M, Forest(M, CgBelow(c), chain[c].depth, v, c),
         NEW h, NEW B, Headed(B, h, M, c, v)
  PROVE  Forest(B, CgUpto(c), chain[c].depth, v, c) /\ Len(B) > 0 /\ B[1] = h
<1> DEFINE m == Len(M)
           C(p) == B[p].cg
           n == Len(chain)
<1>0. M \in Seq(ListEntry) /\ m \in Nat
  BY DEF Forest
<1>a. h \in ListEntry /\ h.cg = c /\ h.vlines = v /\ B = <<h>> \o M
  BY DEF Headed
<1>1. /\ B \in Seq(ListEntry) /\ Len(B) = m + 1 /\ B[1] = h
      /\ \A p \in 2 .. m + 1 : B[p] = M[p - 1] /\ p - 1 \in 1 .. m
      /\ \A x \in 1 .. m : x + 1 \in 2 .. m + 1 /\ B[x + 1] = M[x]
  BY <1>0, <1>a
<1>2. \A p \in 1 .. m + 1 : p = 1 \/ p \in 2 .. m + 1
  BY <1>0
<1> HIDE DEF m
<1>3. /\ C(1) = c
      /\ \A p \in 2 .. m + 1 : /\ C(p) = M[p - 1].cg /\ C(p) \in 1 .. n /\ Under(C(p), c)
                               /\ ~ Sib(C(p), c) /\ ~ Under(c, C(p)) /\ C(p) # c /\ ~ Sib(c, C(p))
  <2>1. C(1) = c
    BY <1>1, <1>a
  <2>2. ASSUME NEW p \in 2 .. m + 1
        PROVE  C(p) = M[p - 1].cg /\ C(p) \in 1 .. n /\ Under(C(p), c)
    BY <1>1 DEF Forest, Covers, CgBelow, m
  <2> HIDE DEF C
  <2> QED BY <2>1, <2>2, SibIs
<1>4. Covers(B, CgUpto(c))
  <2>1. ASSUME NEW p \in 1 .. m + 1 PROVE C(p) \in CgUpto(c)
    BY <1>2, <1>3 DEF CgUpto, Within
  <2>2. ASSUME NEW x \in CgUpto(c) PROVE \E p \in 1 .. m + 1 : C(p) = x
    <3>1. CASE x = c
      <4>1. 1 \in 1 .. m + 1
        BY <1>0
      <4> QED BY <1>3, <3>1, <4>1
    <3>2. CASE x # c
      <4>1. x \in CgBelow(c)
        BY <3>2 DEF CgUpto, CgBelow, Within
      <4>2. PICK q \in 1 .. m : M[q].cg = x
        BY <4>1 DEF Forest, Covers, m
      <4>3. q + 1 \in 1 .. m + 1 /\ C(q + 1) = x
        BY <1>0, <1>1, <4>2
      <4> QED BY <4>3
    <3> QED BY <3>1, <3>2
  <2>3. ASSUME NEW p \in 1 .. m + 1, NEW q \in 1 .. m + 1, p < q PROVE C(p) # C(q)
    <3>1. q \in 2 .. m + 1
      BY <1>0, <2>3
    <3>2. CASE p = 1
      BY <1>3, <3>1, <3>2
    <3>3. CASE p \in 2 .. m + 1
      <4>1. p - 1 < q - 1 /\ p - 1 \in 1 .. m /\ q - 1 \in 1 .. m
        BY <1>0, <2>3, <3>1, <3>3
      <4>2. M[p - 1].cg # M[q - 1].cg
        BY <4>1 DEF Forest, Covers, m
      <4> QED BY <1>3, <3>1, <3>3, <4>2
    <3> QED BY <1>2, <3>2, <3>3
  <2> QED BY <1>1, <2>1, <2>2, <2>3 DEF Covers
<1>5. Nests(B)
  <2> SUFFICES ASSUME NEW p \in 1 .. m + 1, NEW q \in 1 .. m + 1, Under(C(q), C(p))
               PROVE  p < q /\ \A r \in 1 .. m + 1 : p < r /\ r <= q => Under(C(r), C(p))
    BY <1>1 DEF Nests
  <2>1. q \in 2 .. m + 1
    <3>1. ASSUME q = 1 PROVE FALSE
      <4>1. Under(c, C(p))
        BY <1>3, <3>1
      <4>2. c < c \/ p \in 2 .. m + 1
        BY <1>2, <1>3, <4>1, UnderBefore
      <4>3. c \in Nat /\ ~ (c < c)
        OBVIOUS
      <4> QED BY <1>3, <4>1, <4>2, <4>3
    <3> QED BY <1>2, <3>1
  <2>2. CASE p = 1
    <3>1. p < q /\ \A r \in 1 .. m + 1 : p < r => r \in 2 .. m + 1
      BY <1>0, <2>1, <2>2
    <3> HIDE DEF C
    <3> QED BY <1>3, <2>2, <3>1
  <2>3. CASE p \in 2 .. m + 1
    <3>1. Under(M[q - 1].cg, M[p - 1].cg) /\ p - 1 \in 1 .. m /\ q - 1 \in 1 .. m
      BY <1>1, <1>3, <2>1, <2>3
    <3>2. p - 1 < q - 1 /\ \A r \in 1 .. m : p - 1 < r /\ r <= q - 1 => Under(M[r].cg, M[p - 1].cg)
      BY <3>1 DEF Forest, Nests, m
    <3>3. p < q
      BY <3>2
    <3>4. ASSUME NEW r \in 1 .. m + 1, p < r, r <= q PROVE Under(C(r), C(p))
      <4>1. r \in 2 .. m + 1 /\ r - 1 \in 1 .. m /\ p - 1 < r - 1 /\ r - 1 <= q - 1
        BY <1>0, <2>3, <3>4
      <4>2. Under(M[r - 1].cg, M[p - 1].cg)
        BY <3>2, <4>1
      <4> HIDE DEF C
      <4> QED BY <1>3, <2>3, <4>1, <4>2
    <3> QED BY <3>3, <3>4
  <2> QED BY <1>2, <2>2, <2>3
<1>6. Falls(B)
  <2> SUFFICES ASSUME NEW p \in 1 .. m + 1, NEW q \in 1 .. m + 1, p < q, Sib(C(p), C(q))
               PROVE  chain[C(p)].sortval >= chain[C(q)].sortval
    BY <1>1 DEF Falls
  <2>1. q \in 2 .. m + 1
    BY <1>0
  <2>2. p \in 2 .. m + 1
    <3> HIDE DEF C
    <3> QED BY <1>2, <1>3, <2>1
  <2>3. p - 1 \in 1 .. m /\ q - 1 \in 1 .. m /\ p - 1 < q - 1
    BY <1>0, <2>1, <2>2
  <2>4. Sib(M[p - 1].cg, M[q - 1].cg)
    BY <1>3, <2>1, <2>2
  <2>5. chain[M[p - 1].cg].sortval >= chain[M[q - 1].cg].sortval
    BY <2>3, <2>4 DEF Forest, Falls, m
  <2> QED BY <1>3, <2>1, <2>2, <2>5
<1>7. ASSUME NEW p \in 2 .. m + 1 PROVE Later(B, p) <=> Later(M, p - 1)
  <2>1. ASSUME NEW r \in 1 .. m + 1, p < r, Sib(C(r), C(p)) PROVE Later(M, p - 1)
    <3>1. r \in 2 .. m + 1 /\ r - 1 \in 1 .. m /\ p - 1 < r - 1
      BY <1>0, <2>1
    <3>2. Sib(M[r - 1].cg, M[p - 1].cg)
      BY <1>3, <2>1, <3>1
    <3> QED BY <3>1, <3>2 DEF Later, m
  <2>2. ASSUME NEW r \in 1 .. m, p - 1 < r, Sib(M[r].cg, M[p - 1].cg) PROVE Later(B, p)
    <3>1. r + 1 \in 1 .. m + 1 /\ p < r + 1
      BY <1>0, <2>2
    <3>2. Sib(C(r + 1), C(p))
      BY <1>1, <1>3, <2>2
    <3> QED BY <1>1, <3>1, <3>2 DEF Later
  <2> QED BY <1>1, <2>1, <2>2 DEF Later, m
<1>8. StubMarks(B, c)
  <2> SUFFICES ASSUME NEW p \in 1 .. m + 1, C(p) # c PROVE B[p].stub <=> ~ Later(B, p)
    BY <1>1 DEF StubMarks
  <2>1. p \in 2 .. m + 1
    BY <1>2, <1>3
  <2>2. p - 1 \in 1 .. m /\ B[p] = M[p - 1] /\ M[p - 1].cg # c
    BY <1>1, <2>1
  <2>3. M[p - 1].stub <=> ~ Later(M, p - 1)
    BY <2>2 DEF Forest, StubMarks, m
  <2> QED BY <1>7, <2>1, <2>2, <2>3
<1>9. LineMarks(B, c)
  <2> SUFFICES ASSUME NEW p \in 1 .. m + 1, NEW q \in 1 .. m + 1, C(q) # c, Under(C(p), C(q))
               PROVE  chain[C(q)].depth - 1 \in B[p].vlines <=> Later(B, q)
    BY <1>1 DEF LineMarks
  <2>1. q \in 2 .. m + 1
    BY <1>2, <1>3
  <2>2. p \in 2 .. m + 1
    <3> HIDE DEF C
    <3> QED BY <1>2, <1>3, <2>1
  <2>3. /\ p - 1 \in 1 .. m /\ B[p] = M[p - 1] /\ q - 1 \in 1 .. m
        /\ M[q - 1].cg = C(q) /\ Under(M[p - 1].cg, M[q - 1].cg)
    BY <1>1, <2>1, <2>2
  <2>4. chain[M[q - 1].cg].depth - 1 \in M[p - 1].vlines <=> Later(M, q - 1)
    BY <2>3 DEF Forest, LineMarks, m
  <2> HIDE DEF C
  <2> QED BY <1>7, <2>1, <2>3, <2>4
<1>10. LinesAbove(B, chain[c].depth, v)
  <2> SUFFICES ASSUME NEW p \in 1 .. m + 1, NEW d \in 0 .. chain[c].depth - 1
               PROVE  d \in B[p].vlines <=> d \in v
    BY <1>1 DEF LinesAbove
  <2>1. CASE p = 1
    BY <1>1, <1>a, <2>1
  <2>2. CASE p \in 2 .. m + 1
    BY <1>1, <2>2 DEF Forest, LinesAbove, m
  <2> QED BY <1>2, <2>1, <2>2
<1>11. Forest(B, CgUpto(c), chain[c].depth, v, c)
  BY <1>1, <1>4, <1>5, <1>6, <1>8, <1>9, <1>10 DEF Forest
<1>12. Len(B) > 0
  BY <1>0, <1>1
<1> QED BY <1>1, <1>11, <1>12

\* The lists of the children of i and of what is below them, one behind the other.
LineIn(kids, b, v, d) == IF b = Len(kids) THEN v \ {d} ELSE v \union {d}
Block(B, c, last, v, d) ==
  /\ Len(B) > 0 /\ B[1].cg = c /\ B[1].stub = last
  /\ Forest(B, CgUpto(c), d + 1, v, c)

LEMMA Joined ==
  ASSUME CgTree, NEW i \in 1 .. Len(chain), NEW v, NEW d, d = chain[i].depth,
         NEW kids, SortListed(kids, i), NEW s, Len(s) = Len(kids),
         \A b \in 1 .. Len(kids) : Block(s[b], kids[b], b = Len(kids), LineIn(kids, b, v, d), d),
         NEW L, Laid(L, ListEntry, s, Len(s))
  PROVE  Forest(L, CgBelow(i), d, v, i)
<1> DEFINE n == Len(chain)
           m == Len(L)
           k == Len(kids)
           C(p) == L[p].cg
<1> PICK blk, loc : LaidOut(L, ListEntry, s, Len(s), blk, loc)
  BY DEF Laid
<1>0. /\ L \in Seq(ListEntry) /\ m \in Nat /\ k \in Nat /\ d \in Nat
      /\ blk \in [1 .. m -> 1 .. k] /\ loc \in [1 .. m -> Nat]
      /\ \A p \in 1 .. m : L[p] \in ListEntry /\ C(p) \in 1 .. n
  <2>1. L \in Seq(ListEntry) /\ m \in Nat /\ k \in Nat /\ blk \in [1 .. m -> 1 .. k] /\ loc \in [1 .. m -> Nat]
    BY DEF LaidOut, SortListed
  <2>2. \A p \in 1 .. m : L[p] \in ListEntry
    BY <2>1
  <2>3. d \in Nat
    BY CgTreeIs
  <2> QED BY <2>1, <2>2, <2>3 DEF ListEntry
<1>1. /\ \A p \in 1 .. m : loc[p] \in 1 .. Len(s[blk[p]]) /\ L[p] = s[blk[p]][loc[p]]
      /\ \A p, q \in 1 .. m : p < q => blk[p] < blk[q] \/ (blk[p] = blk[q] /\ loc[p] < loc[q])
      /\ \A b \in 1 .. k : \A x \in 1 .. Len(s[b]) : \E p \in 1 .. m : blk[p] = b /\ loc[p] = x
  BY DEF LaidOut
<1>2. /\ \A b \in 1 .. k : kids[b] \in 2 .. n /\ kids[b] \in 1 .. n /\ Parent(kids[b]) = i
                           /\ chain[kids[b]].depth = d + 1
      /\ \A a, b \in 1 .. k : a < b => kids[a] # kids[b] /\ chain[kids[a]].sortval >= chain[kids[b]].sortval
  <2>1. \A b \in 1 .. k : kids[b] \in 2 .. n /\ Parent(kids[b]) = i
    BY <1>0 DEF SortListed
  <2> HIDE DEF k
  <2>2. \A b \in 1 .. k : kids[b] \in 1 .. n /\ chain[kids[b]].depth = d + 1
    BY <2>1, CgTreeIs
  <2> QED BY <2>1, <2>2 DEF SortListed, k
<1>3. ASSUME NEW b \in 1 .. k
      PROVE  /\ Len(s[b]) > 0 /\ Len(s[b]) \in Nat /\ s[b][1].cg = kids[b] /\ (s[b][1].stub <=> b = k)
             /\ Covers(s[b], CgUpto(kids[b])) /\ Nests(s[b]) /\ Falls(s[b])
             /\ StubMarks(s[b], kids[b]) /\ LineMarks(s[b], kids[b]) /\ LinesAbove(s[b], d + 1, LineIn(kids, b, v, d))
  <2>1. Block(s[b], kids[b], b = k, LineIn(kids, b, v, d), d)
    OBVIOUS
  <2>2. s[b] \in Seq(ListEntry)
    BY <2>1 DEF Block, Forest
  <2>3. Len(s[b]) \in Nat
    BY <2>2
  <2> QED BY <2>1, <2>3, Zenon DEF Block, Forest
<1> HIDE DEF m, k
<1>4. ASSUME NEW p \in 1 .. m
      PROVE  /\ blk[p] \in 1 .. k /\ blk[p] \in Nat /\ loc[p] \in Nat /\ loc[p] \in 1 .. Len(s[blk[p]])
             /\ Within(C(p), kids[blk[p]]) /\ (C(p) = kids[blk[p]] <=> loc[p] = 1)
  <2> DEFINE b == blk[p]
             x == loc[p]
  <2>0. b \in 1 .. k /\ x \in Nat /\ x \in 1 .. Len(s[b]) /\ L[p] = s[b][x]
    BY <1>0, <1>1
  <2>1. b \in 1 .. k /\ b \in Nat /\ x \in Nat /\ x \in 1 .. Len(s[b]) /\ L[p] = s[b][x]
    <3> HIDE DEF b
    <3> QED BY <1>0, <2>0
  <2> HIDE DEF b, x
  <2>2. Covers(s[b], CgUpto(kids[b])) /\ s[b][1].cg = kids[b] /\ Len(s[b]) > 0 /\ Len(s[b]) \in Nat
    BY <1>3, <2>1
  <2>3. Within(C(p), kids[b])
    BY <2>1, <2>2 DEF Covers, CgUpto
  <2>4. x # 1 => s[b][1].cg # s[b][x].cg
    <3>1. 1 \in 1 .. Len(s[b]) /\ (x # 1 => 1 < x)
      BY <2>1, <2>2
    <3> QED BY <2>1, <2>2, <3>1 DEF Covers
  <2> QED BY <2>1, <2>2, <2>3, <2>4 DEF b, x
<1>5. ASSUME NEW p \in 1 .. m, NEW q \in 1 .. m
      PROVE  (p < q => blk[p] < blk[q] \/ (blk[p] = blk[q] /\ loc[p] < loc[q]))
             /\ (blk[p] < blk[q] \/ (blk[p] = blk[q] /\ loc[p] < loc[q]) => p < q)
  <2>1. /\ p < q => blk[p] < blk[q] \/ (blk[p] = blk[q] /\ loc[p] < loc[q])
        /\ q < p => blk[q] < blk[p] \/ (blk[p] = blk[q] /\ loc[q] < loc[p])
    BY <1>1
  <2>2. blk[p] \in Nat /\ blk[q] \in Nat /\ loc[p] \in Nat /\ loc[q] \in Nat /\ p \in Nat /\ q \in Nat
    <3>1. \A b \in 1 .. k : b \in Nat
      BY <1>0
    <3> QED BY <1>4, <3>1
  <2> QED BY <2>1, <2>2
<1>6. ASSUME NEW p \in 1 .. m, NEW q \in 1 .. m, blk[p] # blk[q]
      PROVE  C(p) # C(q) /\ ~ Under(C(p), C(q)) /\ (Sib(C(p), C(q)) => loc[p] = 1 /\ loc[q] = 1)
  <2> DEFINE a == kids[blk[p]]
             b == kids[blk[q]]
  <2>1. blk[p] \in 1 .. k /\ blk[q] \in 1 .. k
    BY <1>4
  <2>2. blk[p] < blk[q] \/ blk[q] < blk[p]
    <3>1. \A c, e \in 1 .. k : c < e \/ e < c \/ c = e
      BY <1>0
    <3> QED BY <1>6, <2>1, <3>1
  <2>3. a \in 2 .. n /\ b \in 2 .. n /\ a # b /\ Parent(a) = Parent(b)
    BY <1>2, <2>1, <2>2
  <2>4. C(p) \in 1 .. n /\ C(q) \in 1 .. n /\ Within(C(p), a) /\ Within(C(q), b)
    BY <1>0, <1>4
  <2> HIDE DEF a, b
  <2>5. C(p) # C(q) /\ ~ Under(C(p), C(q)) /\ (Sib(C(p), C(q)) => C(p) = a /\ C(q) = b)
    <3> HIDE DEF C
    <3> QED BY <2>3, <2>4, Apart
  <2> QED BY <1>4, <2>5 DEF a, b
<1>7. \A p, q \in 1 .. m : Sib(C(p), C(q)) <=> Sib(C(q), C(p))
  BY DEF Sib
<1>8. \A b \in 1 .. k : \E p \in 1 .. m : blk[p] = b /\ loc[p] = 1 /\ C(p) = kids[b]
  <2> TAKE b \in 1 .. k
  <2>1. 1 \in 1 .. Len(s[b])
    BY <1>3
  <2>2. PICK p \in 1 .. m : blk[p] = b /\ loc[p] = 1
    BY <1>1, <2>1
  <2> QED BY <1>4, <2>2
<1>9. \A p, q \in 1 .. m : loc[p] = 1 /\ loc[q] = 1 => Sib(C(p), C(q))
  <2> TAKE p, q \in 1 .. m
  <2>1. loc[p] = 1 => C(p) # 1 /\ Parent(C(p)) = i
    <3>1. \A b \in 1 .. k : kids[b] # 1
      BY <1>2, CgTreeIs
    <3> QED BY <1>2, <1>4, <3>1
  <2>2. loc[q] = 1 => C(q) # 1 /\ Parent(C(q)) = i
    <3>1. \A b \in 1 .. k : kids[b] # 1
      BY <1>2, CgTreeIs
    <3> QED BY <1>2, <1>4, <3>1
  <2> QED BY <2>1, <2>2 DEF Sib
\* Who has a later sibling: the first of a block when it is not the last block.
<1>10. ASSUME NEW p \in 1 .. m, loc[p] = 1 PROVE Later(L, p) <=> blk[p] # k
  <2>1. ASSUME NEW r \in 1 .. m, p < r, Sib(C(r), C(p)) PROVE blk[p] # k
    <3>1. blk[p] # blk[r]
      <4>1. ASSUME blk[p] = blk[r] PROVE FALSE
        <5> DEFINE c == kids[blk[p]]
        <5>1. C(p) = c /\ Within(C(r), c) /\ C(r) # c /\ c \in 1 .. n
          <6>1. loc[r] # 1
            BY <1>5, <1>10, <2>1, <4>1
          <6>2. blk[p] \in 1 .. k
            BY <1>4
          <6> QED BY <1>2, <1>4, <1>10, <4>1, <6>1, <6>2
        <5>2. C(r) \in 1 .. n
          BY <1>0
        <5> HIDE DEF c, C
        <5>3. Under(C(r), c)
          BY <5>1 DEF Within
        <5> QED BY <2>1, <5>1, <5>2, <5>3, SibIs
      <4> QED BY <4>1
    <3>2. blk[p] < blk[r]
      BY <1>5, <2>1, <3>1
    <3> QED BY <1>0, <1>4, <3>2
  <2>2. ASSUME blk[p] # k PROVE Later(L, p)
    <3>1. blk[p] + 1 \in 1 .. k /\ blk[p] < blk[p] + 1
      BY <1>0, <1>4, <2>2
    <3>2. PICK r \in 1 .. m : blk[r] = blk[p] + 1 /\ loc[r] = 1
      BY <1>8, <3>1
    <3>3. p < r
      BY <1>5, <3>1, <3>2
    <3> QED BY <1>9, <1>10, <3>2, <3>3 DEF Later, m
  <2> QED BY <2>1, <2>2 DEF Later, m
\* Another one when it has one in its block.
<1>11. ASSUME NEW p \in 1 .. m, loc[p] # 1 PROVE Later(L, p) <=> Later(s[blk[p]], loc[p])
  <2> DEFINE b == blk[p]
  <2>0. b \in 1 .. k /\ L[p] = s[b][loc[p]]
    BY <1>1, <1>4
  <2>1. ASSUME NEW r \in 1 .. m, p < r, Sib(C(r), C(p)) PROVE Later(s[b], loc[p])
    <3>1. blk[r] = b
      BY <1>6, <1>11, <2>1
    <3>2. loc[p] < loc[r] /\ loc[r] \in 1 .. Len(s[b]) /\ L[r] = s[b][loc[r]]
      <4>1. ~ (blk[p] < blk[r])
        BY <1>0, <1>4, <3>1
      <4> QED BY <1>1, <1>5, <2>1, <3>1, <4>1
    <3> QED BY <2>0, <2>1, <3>2 DEF Later
  <2>2. ASSUME NEW x \in 1 .. Len(s[b]), loc[p] < x, Sib(s[b][x].cg, s[b][loc[p]].cg) PROVE Later(L, p)
    <3>1. PICK r \in 1 .. m : blk[r] = b /\ loc[r] = x
      BY <1>1, <2>0
    <3>2. p < r /\ L[r] = s[b][x]
      BY <1>1, <1>5, <2>2, <3>1
    <3> QED BY <2>0, <2>2, <3>2 DEF Later, m
  <2> QED BY <2>1, <2>2 DEF Later, m
<1>12. Covers(L, CgBelow(i))
  <2>1. ASSUME NEW p \in 1 .. m PROVE C(p) \in CgBelow(i)
    <3> DEFINE c == kids[blk[p]]
    <3>1. c \in 2 .. n /\ Parent(c) = i /\ Within(C(p), c) /\ C(p) \in 1 .. n
      BY <1>0, <1>2, <1>4
    <3> HIDE DEF c, C
    <3>2. Under(c, i)
      BY <3>1, UnderIs DEF Within
    <3>3. Under(C(p), i)
      BY <3>1, <3>2, UnderAgain DEF Within
    <3> QED BY <3>1, <3>3 DEF CgBelow
  <2>2. ASSUME NEW x \in CgBelow(i) PROVE \E p \in 1 .. m : C(p) = x
    <3>1. x \in 1 .. n /\ Under(x, i)
      BY DEF CgBelow
    <3>2. PICK c \in 2 .. n : Parent(c) = i /\ Within(x, c)
      BY <3>1, ChildAbove
    <3>3. PICK b \in 1 .. k : kids[b] = c
      BY <3>2 DEF SortListed, k
    <3>4. x \in CgUpto(kids[b])
      BY <3>1, <3>2, <3>3 DEF CgUpto
    <3>5. Covers(s[b], CgUpto(kids[b]))
      BY <1>3
    <3>6. PICK y \in 1 .. Len(s[b]) : s[b][y].cg = x
      BY <3>4, <3>5 DEF Covers
    <3>7. PICK p \in 1 .. m : blk[p] = b /\ loc[p] = y
      BY <1>1
    <3> QED BY <1>1, <3>6, <3>7
  <2>3. ASSUME NEW p \in 1 .. m, NEW q \in 1 .. m, p < q PROVE C(p) # C(q)
    <3>1. CASE blk[p] = blk[q]
      <4>1. loc[p] < loc[q] /\ blk[p] \in 1 .. k
        <5>1. ~ (blk[p] < blk[q])
          BY <1>0, <1>4, <3>1
        <5> QED BY <1>4, <1>5, <2>3, <5>1
      <4> DEFINE B == s[blk[p]]
      <4>2. Covers(B, CgUpto(kids[blk[p]]))
        BY <1>3, <4>1
      <4>3. /\ loc[p] \in 1 .. Len(B) /\ loc[q] \in 1 .. Len(B)
            /\ L[p] = B[loc[p]] /\ L[q] = B[loc[q]]
        BY <1>1, <3>1
      <4> HIDE DEF B
      <4>4. B[loc[p]].cg # B[loc[q]].cg
        BY <4>1, <4>2, <4>3 DEF Covers
      <4> QED BY <4>3, <4>4
    <3> QED BY <1>6, <3>1
  <2> QED BY <2>1, <2>2, <2>3 DEF Covers, m
\* The places of one block.
<1>13. ASSUME NEW p \in 1 .. m, NEW q \in 1 .. m, blk[p] = blk[q]
       PROVE  LET B == s[blk[p]]
              IN  /\ loc[p] \in 1 .. Len(B) /\ L[p] = B[loc[p]]
                  /\ loc[q] \in 1 .. Len(B) /\ L[q] = B[loc[q]]
                  /\ (p < q <=> loc[p] < loc[q]) /\ (p <= q <=> loc[p] <= loc[q])
  <2>1. ~ (blk[p] < blk[q]) /\ ~ (blk[q] < blk[p])
    BY <1>0, <1>4, <1>13
  <2>2. (p < q <=> loc[p] < loc[q]) /\ (q < p <=> loc[q] < loc[p])
    BY <1>5, <1>13, <2>1
  <2>3. loc[p] \in Nat /\ loc[q] \in Nat /\ p \in Nat /\ q \in Nat
    BY <1>4
  <2>4. p <= q <=> loc[p] <= loc[q]
    <3> DEFINE x == loc[p]
               y == loc[q]
    <3> HIDE DEF x, y
    <3>1. (q < p <=> y < x) /\ x \in Nat /\ y \in Nat
      BY <2>2, <2>3 DEF x, y
    <3>2. p <= q <=> x <= y
      BY <2>3, <3>1
    <3> QED BY <3>2 DEF x, y
  <2> QED BY <1>1, <1>13, <2>2, <2>4
<1>14. Nests(L)
  <2> SUFFICES ASSUME NEW p \in 1 .. m, NEW q \in 1 .. m, Under(C(q), C(p))
               PROVE  p < q /\ \A r \in 1 .. m : p < r /\ r <= q => Under(C(r), C(p))
    BY DEF Nests, m
  <2> DEFINE B == s[blk[p]]
  <2>1. blk[p] = blk[q] /\ blk[p] \in 1 .. k
    BY <1>4, <1>6
  <2>2. Nests(B)
    BY <1>3, <2>1
  <2>3. /\ loc[p] \in 1 .. Len(B) /\ L[p] = B[loc[p]] /\ loc[q] \in 1 .. Len(B) /\ L[q] = B[loc[q]]
        /\ (p < q <=> loc[p] < loc[q])
    BY <1>13, <2>1
  <2>4. /\ loc[p] < loc[q]
        /\ \A r \in 1 .. Len(B) : loc[p] < r /\ r <= loc[q] => Under(B[r].cg, B[loc[p]].cg)
    BY <2>2, <2>3 DEF Nests
  <2>5. ASSUME NEW r \in 1 .. m, p < r, r <= q PROVE Under(C(r), C(p))
    <3>1. blk[r] = blk[p]
      <4>1. blk[p] <= blk[r] /\ blk[r] <= blk[q]
        <5>1. blk[p] < blk[r] \/ blk[p] = blk[r]
          BY <1>5, <2>5
        <5>2. r < q \/ r = q
          BY <2>5
        <5>3. blk[r] < blk[q] \/ blk[r] = blk[q]
          BY <1>5, <5>2
        <5>4. blk[p] \in Nat /\ blk[q] \in Nat /\ blk[r] \in Nat
          BY <1>4
        <5> QED BY <5>1, <5>3, <5>4
      <4> QED BY <1>0, <1>4, <2>1, <4>1
    <3>2. loc[r] \in 1 .. Len(B) /\ L[r] = B[loc[r]] /\ loc[p] < loc[r]
      BY <1>13, <2>5, <3>1
    <3>3. loc[r] <= loc[q]
      <4>1. blk[r] = blk[q]
        BY <2>1, <3>1
      <4> QED BY <1>13, <2>5, <4>1
    <3> QED BY <2>3, <2>4, <3>2, <3>3
  <2> QED BY <2>3, <2>4, <2>5
<1>15. Falls(L)
  <2> SUFFICES ASSUME NEW p \in 1 .. m, NEW q \in 1 .. m, p < q, Sib(C(p), C(q))
               PROVE  chain[C(p)].sortval >= chain[C(q)].sortval
    BY DEF Falls, m
  <2>1. CASE blk[p] = blk[q]
    <3> DEFINE B == s[blk[p]]
    <3>1. Falls(B)
      BY <1>3, <1>4
    <3>2. /\ loc[p] \in 1 .. Len(B) /\ L[p] = B[loc[p]] /\ loc[q] \in 1 .. Len(B) /\ L[q] = B[loc[q]]
          /\ loc[p] < loc[q]
      BY <1>13, <2>1
    <3> QED BY <3>1, <3>2 DEF Falls
  <2>2. CASE blk[p] # blk[q]
    <3>1. loc[p] = 1 /\ loc[q] = 1 /\ blk[p] < blk[q]
      BY <1>5, <1>6, <2>2
    <3> QED BY <1>2, <1>4, <3>1, ZenonT(30)
  <2> QED BY <2>1, <2>2
<1>16. StubMarks(L, i)
  <2> SUFFICES ASSUME NEW p \in 1 .. m PROVE L[p].stub <=> ~ Later(L, p)
    BY DEF StubMarks, m
  <2> DEFINE B == s[blk[p]]
  <2>1. blk[p] \in 1 .. k /\ loc[p] \in 1 .. Len(B) /\ L[p] = B[loc[p]]
    BY <1>1, <1>4
  <2>2. CASE loc[p] = 1
    <3>1. L[p].stub <=> blk[p] = k
      BY <1>3, <2>1, <2>2
    <3> QED BY <1>10, <2>2, <3>1
  <2>3. CASE loc[p] # 1
    <3>1. StubMarks(B, kids[blk[p]]) /\ B[loc[p]].cg # kids[blk[p]]
      BY <1>3, <1>4, <2>1, <2>3
    <3> QED BY <1>11, <2>1, <2>3, <3>1 DEF StubMarks
  <2> QED BY <2>2, <2>3
<1>17. LineMarks(L, i)
  <2> SUFFICES ASSUME NEW p \in 1 .. m, NEW q \in 1 .. m, Under(C(p), C(q))
               PROVE  chain[C(q)].depth - 1 \in L[p].vlines <=> Later(L, q)
    BY DEF LineMarks, m
  <2> DEFINE B == s[blk[q]]
  <2>1. blk[p] = blk[q] /\ blk[q] \in 1 .. k
    BY <1>4, <1>6
  <2>2. /\ loc[q] \in 1 .. Len(B) /\ L[q] = B[loc[q]]
        /\ loc[p] \in 1 .. Len(B) /\ L[p] = B[loc[p]]
    BY <1>13, <2>1
  <2>3. CASE loc[q] = 1
    <3>1. chain[C(q)].depth - 1 = d /\ d \in 0 .. (d + 1) - 1
      <4> DEFINE x == chain[C(q)].depth
      <4>1. x = d + 1
        BY <1>2, <1>4, <2>1, <2>3
      <4> HIDE DEF x
      <4>2. d \in Nat
        BY <1>0
      <4>3. x - 1 = d /\ d \in 0 .. (d + 1) - 1
        BY ONLY <4>1, <4>2
      <4> QED BY <4>3 DEF x
    <3> DEFINE w == LineIn(kids, blk[q], v, d)
    <3>2. LinesAbove(B, d + 1, w)
      BY <1>3, <2>1
    <3> HIDE DEF B, w
    <3>5. d \in B[loc[p]].vlines <=> d \in w
      BY <2>2, <3>1, <3>2 DEF LinesAbove
    <3>3. d \in L[p].vlines <=> d \in LineIn(kids, blk[q], v, d)
      BY <2>2, <3>5 DEF w
    <3>4. d \in LineIn(kids, blk[q], v, d) <=> blk[q] # k
      BY DEF LineIn, k
    <3> QED BY <1>10, <2>3, <3>1, <3>3, <3>4
  <2>4. CASE loc[q] # 1
    <3>1. LineMarks(B, kids[blk[q]]) /\ B[loc[q]].cg # kids[blk[q]]
      BY <1>3, <1>4, <2>1, <2>2, <2>4
    <3> QED BY <1>11, <2>2, <2>4, <3>1 DEF LineMarks
  <2> QED BY <2>3, <2>4
<1>18. LinesAbove(L, d, v)
  <2> SUFFICES ASSUME NEW p \in 1 .. m, NEW l \in 0 .. d - 1 PROVE l \in L[p].vlines <=> l \in v
    BY DEF LinesAbove, m
  <2> DEFINE B == s[blk[p]]
  <2>1. blk[p] \in 1 .. k /\ loc[p] \in 1 .. Len(B) /\ L[p] = B[loc[p]]
    BY <1>1, <1>4
  <2> DEFINE w == LineIn(kids, blk[p], v, d)
  <2>2. LinesAbove(B, d + 1, w)
    BY <1>3, <2>1
  <2>3. l \in 0 .. (d + 1) - 1 /\ l # d
    BY <1>0
  <2>4. l \in w <=> l \in v
    BY <2>3 DEF LineIn
  <2> HIDE DEF B, w
  <2>5. l \in B[loc[p]].vlines <=> l \in w
    BY <2>1, <2>2, <2>3, Zenon DEF LinesAbove
  <2> QED BY <2>1, <2>4, <2>5
<1> QED BY <1>0, <1>12, <1>14, <1>15, <1>16, <1>17, <1>18 DEF Forest

-----------------------------------------------------------------------------
\* mergelevel(): level after level, from the last cgroup of the chain to the root.
LevelArgs == (DOMAIN chain) \X SUBSET (0 .. Len(chain))
HeadEntry(kids, k, lines) == [cg |-> kids[k], stub |-> k = Len(kids), vlines |-> lines]
Piece(f, kids, k, v, d) ==
  <<HeadEntry(kids, k, LineIn(kids, k, v, d))>> \o f[<<kids[k], LineIn(kids, k, v, d)>>]
Pieces(f, m) ==
  [k \in DOMAIN createsortlist(m[1]) |-> Piece(f, createsortlist(m[1]), k, m[2], chain[m[1]].depth)]
Levels(f) == f = [m \in LevelArgs |-> FlattenSeq(Pieces(f, m))]

LEMMA DepthIs == ASSUME CgTree, NEW i \in 1 .. Len(chain) PROVE chain[i].depth \in 0 .. i - 1
<1> DEFINE n == Len(chain)
           G == {x \in 1 .. n : chain[x].depth \in 0 .. x - 1}
<1>1. 1 \in G
  BY CgTreeIs
<1>2. ASSUME NEW x \in 2 .. n, Parent(x) \in G PROVE x \in G
  <2> DEFINE h == Parent(x)
             a == chain[h].depth
             b == chain[x].depth
  <2>1. h \in 1 .. n /\ h < x /\ x \in 1 .. n /\ b = a + 1 /\ a \in 0 .. h - 1
    BY <1>2, CgTreeIs
  <2> HIDE DEF h, a, b, n
  <2>2. b \in 0 .. x - 1
    BY <2>1
  <2> QED BY <2>1, <2>2 DEF b
<1> HIDE DEF G
<1>3. \A x \in 1 .. n : x \in G
  BY <1>1, <1>2, DownTree
<1> QED BY <1>3 DEF G

LEMMA PiecesAre ==
  ASSUME CgTree, NEW i \in 1 .. Len(chain), NEW v \in SUBSET (0 .. Len(chain)), NEW f,
         \A z \in LevelArgs : z[1] > i => f[z] \in Seq(ListEntry)
  PROVE  LET kids == createsortlist(i)
             d == chain[i].depth
             s == Pieces(f, <<i, v>>)
         IN  /\ s \in Seq(Seq(ListEntry)) /\ Len(s) = Len(kids) /\ Len(kids) \in Nat /\ DOMAIN kids = 1 .. Len(kids)
             /\ \A b \in 1 .. Len(kids) :
                  /\ kids[b] \in 1 .. Len(chain) /\ kids[b] > i /\ <<kids[b], LineIn(kids, b, v, d)>> \in LevelArgs
                  /\ HeadEntry(kids, b, LineIn(kids, b, v, d)) \in ListEntry
                  /\ s[b] = Piece(f, kids, b, v, d)
<1> DEFINE n == Len(chain)
           kids == createsortlist(i)
           d == chain[i].depth
           s == Pieces(f, <<i, v>>)
           k == Len(kids)
           w(b) == LineIn(kids, b, v, d)
<1>1. SortListed(kids, i) /\ n \in Nat /\ DOMAIN chain = 1 .. n
  BY SortListIs, CgTreeIs
<1>2. d \in 0 .. n
  <2>1. d \in 0 .. i - 1
    BY DepthIs
  <2> HIDE DEF d
  <2> QED BY <1>1, <2>1
<1>3. s = [b \in DOMAIN kids |-> Piece(f, kids, b, v, d)]
  BY DEF Pieces
<1> HIDE DEF kids, d, s
<1>4. k \in Nat /\ DOMAIN kids = 1 .. k /\ \A b \in 1 .. k : kids[b] \in 2 .. n /\ Parent(kids[b]) = i
  BY <1>1 DEF SortListed
<1>5. ASSUME NEW b \in 1 .. k
      PROVE  /\ kids[b] \in 1 .. n /\ kids[b] > i /\ <<kids[b], w(b)>> \in LevelArgs
             /\ HeadEntry(kids, b, w(b)) \in ListEntry /\ Piece(f, kids, b, v, d) \in Seq(ListEntry)
  <2> DEFINE x == kids[b]
             l == w(b)
  <2>1. x \in 2 .. n /\ Parent(x) = i
    BY <1>4
  <2>2. x \in 1 .. n /\ i < x
    BY <2>1, CgTreeIs
  <2>3. l \in SUBSET (0 .. n)
    BY <1>2 DEF LineIn
  <2>4. x > i
    BY <1>1, <2>2
  <2>5. HeadEntry(kids, b, l) = [cg |-> x, stub |-> b = k, vlines |-> l]
    BY DEF HeadEntry
  <2>6. Piece(f, kids, b, v, d) = <<HeadEntry(kids, b, l)>> \o f[<<x, l>>]
    BY DEF Piece
  <2> HIDE DEF x, l
  <2>7. <<x, l>> \in LevelArgs /\ <<x, l>>[1] = x
    BY <1>1, <2>2, <2>3 DEF LevelArgs
  <2>8. HeadEntry(kids, b, l) \in ListEntry
    BY <2>2, <2>3, <2>5 DEF ListEntry
  <2>9. f[<<x, l>>] \in Seq(ListEntry)
    BY <2>4, <2>7
  <2>10. Piece(f, kids, b, v, d) \in Seq(ListEntry)
    BY <2>6, <2>8, <2>9
  <2> QED BY <2>2, <2>4, <2>7, <2>8, <2>10 DEF x, l
<1>6. \A b \in 1 .. k : s[b] = Piece(f, kids, b, v, d)
  BY <1>3, <1>4
<1>7. s \in Seq(Seq(ListEntry)) /\ Len(s) = k
  <2> DEFINE P(b) == Piece(f, kids, b, v, d)
  <2>1. s = [b \in 1 .. k |-> P(b)] /\ \A b \in 1 .. k : P(b) \in Seq(ListEntry)
    BY <1>3, <1>4, <1>5
  <2> HIDE DEF P
  <2> QED BY <1>4, <2>1
<1> QED BY <1>4, <1>5, <1>6, <1>7 DEF kids, d, s

\* What the lists of a level are made of: lists of cgroups further on.
LEMMA PiecesSame ==
  ASSUME CgTree, NEW i \in 1 .. Len(chain), NEW v \in SUBSET (0 .. Len(chain)), NEW f, NEW g,
         \A z \in LevelArgs : z[1] > i => f[z] = g[z] /\ f[z] \in Seq(ListEntry)
  PROVE  Pieces(f, <<i, v>>) = Pieces(g, <<i, v>>) /\ FlattenSeq(Pieces(f, <<i, v>>)) \in Seq(ListEntry)
<1> DEFINE kids == createsortlist(i)
           d == chain[i].depth
           w(b) == LineIn(kids, b, v, d)
<1>1. /\ Pieces(f, <<i, v>>) \in Seq(Seq(ListEntry)) /\ DOMAIN kids = 1 .. Len(kids)
      /\ \A b \in 1 .. Len(kids) : kids[b] > i /\ <<kids[b], w(b)>> \in LevelArgs
  BY PiecesAre
<1>2. ASSUME NEW b \in DOMAIN kids PROVE Piece(f, kids, b, v, d) = Piece(g, kids, b, v, d)
  <2>1. kids[b] > i /\ <<kids[b], w(b)>> \in LevelArgs /\ <<kids[b], w(b)>>[1] = kids[b]
    BY <1>1
  <2> DEFINE z == <<kids[b], w(b)>>
  <2> HIDE DEF z
  <2>2. f[z] = g[z]
    BY <2>1 DEF z
  <2> QED BY <2>2 DEF Piece, z
<1>3. /\ Pieces(f, <<i, v>>) = [b \in DOMAIN kids |-> Piece(f, kids, b, v, d)]
      /\ Pieces(g, <<i, v>>) = [b \in DOMAIN kids |-> Piece(g, kids, b, v, d)]
  BY DEF Pieces
<1>4. Laid(FlattenSeq(Pieces(f, <<i, v>>)), ListEntry, Pieces(f, <<i, v>>), Len(Pieces(f, <<i, v>>)))
  BY <1>1, FlattenLays
<1>5. FlattenSeq(Pieces(f, <<i, v>>)) \in Seq(ListEntry)
  BY <1>4 DEF Laid, LaidOut
<1> HIDE DEF kids, d
<1>6. Pieces(f, <<i, v>>) = Pieces(g, <<i, v>>)
  BY <1>2, <1>3
<1> QED BY <1>5, <1>6

LEMMA LevelIs ==
  ASSUME CgTree
  PROVE  \E f : /\ \A m \in LevelArgs : f[m] = FlattenSeq(Pieces(f, m))
                /\ \A i, v : mergelevel(i, v) = f[<<i, v>>]
<1> DEFINE n == Len(chain)
           E == Seq(ListEntry)
           T == [LevelArgs -> E]
           e == [m \in LevelArgs |-> << >>]
           x(k) == n + 1 - k
           F == [ks \in (1 .. n) \X T |->
                   [m \in LevelArgs |-> IF m[1] = x(ks[1]) THEN FlattenSeq(Pieces(ks[2], m)) ELSE ks[2][m]]]
<1>1. n \in Nat /\ DOMAIN chain = 1 .. n /\ e \in T
  BY CgTreeIs
<1>2. \A m \in LevelArgs : m = <<m[1], m[2]>> /\ m[1] \in 1 .. n /\ m[2] \in SUBSET (0 .. n)
  BY <1>1 DEF LevelArgs
<1> DEFINE val(k, s, m) == IF m[1] = x(k) THEN FlattenSeq(Pieces(s, m)) ELSE s[m]
<1>3. ASSUME NEW k \in 1 .. n, NEW s \in T
      PROVE  F[<<k, s>>] = [m \in LevelArgs |-> val(k, s, m)] /\ F[<<k, s>>] \in T
  <2>1. F[<<k, s>>] = [m \in LevelArgs |-> val(k, s, m)]
    OBVIOUS
  <2>2. ASSUME NEW m \in LevelArgs PROVE val(k, s, m) \in E
    <3>1. FlattenSeq(Pieces(s, <<m[1], m[2]>>)) \in E
      <4>1. \A z \in LevelArgs : z[1] > m[1] => s[z] = s[z] /\ s[z] \in Seq(ListEntry)
        OBVIOUS
      <4> QED BY <1>2, <4>1, PiecesSame
    <3>2. m = <<m[1], m[2]>>
      BY <1>2
    <3> HIDE DEF x, E
    <3>3. s[m] \in E
      OBVIOUS
    <3> QED BY <3>1, <3>2, <3>3
  <2> HIDE DEF val, F, E
  <2>3. [m \in LevelArgs |-> val(k, s, m)] \in T
    BY <2>2
  <2> QED BY <2>1, <2>3
<1> HIDE DEF F, n, T, e, E
<1>4. PICK g : g \in [0 .. n -> T] /\ g[0] = e /\ \A k \in 1 .. n : g[k] = F[<<k, g[k - 1]>>]
  <2>1. Stays(F, n, T)
    BY <1>3 DEF Stays
  <2>2. \E g : Iterates(g, F, n, T, e)
    BY <1>1, <2>1, Iterated
  <2> QED BY <2>2 DEF Iterates
<1>5. \A k \in 1 .. n : /\ g[k - 1] \in T /\ g[k] \in T
                        /\ \A m \in LevelArgs : g[k][m] = val(k, g[k - 1], m)
  <2> TAKE k \in 1 .. n
  <2>1. g[k - 1] \in T /\ g[k] \in T
    BY <1>1, <1>4
  <2>2. g[k] = [m \in LevelArgs |-> val(k, g[k - 1], m)]
    BY <1>3, <1>4, <2>1
  <2> HIDE DEF val
  <2> QED BY <2>1, <2>2
\* The lists of a cgroup are made at its turn, and stay.
<1> DEFINE turn(i) == n + 1 - i
<1>6. ASSUME NEW m \in LevelArgs PROVE \A k \in 0 .. n : turn(m[1]) <= k => g[k][m] = g[turn(m[1])][m]
  <2> DEFINE a == turn(m[1])
             G == {k \in 0 .. n : a <= k => g[k][m] = g[a][m]}
  <2>0. a \in 1 .. n /\ \A k \in 1 .. n : k # a => m[1] # x(k)
    BY <1>1, <1>2
  <2> HIDE DEF a
  <2>1. 0 \in G
    BY <1>1, <2>0
  <2>2. ASSUME NEW k \in 1 .. n, k - 1 \in G PROVE k \in G
    <3>1. k \in 0 .. n /\ (a <= k => k = a \/ a <= k - 1)
      BY <1>1, <2>0
    <3>2. k # a => g[k][m] = g[k - 1][m]
      BY <1>5, <2>0
    <3> QED BY <2>2, <3>1, <3>2
  <2> HIDE DEF G
  <2>3. \A k \in 1 .. n : k - 1 \in G => k \in G
    BY <2>2
  <2>4. 0 .. n \subseteq G
    BY <1>1, <2>1, <2>3, Upwards
  <2> QED BY <2>4 DEF G, a
<1> DEFINE f == [m \in LevelArgs |-> g[turn(m[1])][m]]
<1>7. ASSUME NEW m \in LevelArgs PROVE f[m] = FlattenSeq(Pieces(f, m))
  <2> DEFINE i == m[1]
             a == turn(i)
  <2>1. a \in 1 .. n /\ x(a) = i /\ i \in 1 .. n /\ m = <<i, m[2]>> /\ m[2] \in SUBSET (0 .. n)
    BY <1>1, <1>2
  <2>2. g[a][m] = FlattenSeq(Pieces(g[a - 1], m))
    BY <1>5, <2>1
  <2> HIDE DEF i, a
  <2>3. ASSUME NEW z \in LevelArgs, z[1] > i
        PROVE  f[z] = g[a - 1][z] /\ f[z] \in Seq(ListEntry)
    <3>1. z[1] \in 1 .. n /\ turn(z[1]) \in 1 .. n /\ a - 1 \in 0 .. n /\ turn(z[1]) <= a - 1
      BY <1>1, <1>2, <2>1, <2>3 DEF a
    <3>2. g[a - 1][z] = g[turn(z[1])][z]
      BY <1>6, <3>1
    <3>3. g[turn(z[1])] \in T
      BY <1>5, <3>1
    <3>4. g[turn(z[1])][z] \in Seq(ListEntry)
      BY <3>3 DEF T, E
    <3> HIDE DEF turn
    <3> QED BY <3>2, <3>4
  <2>4. f[m] = g[a][m]
    BY DEF a, i
  <2> HIDE DEF f
  <2> DEFINE u == m[2]
             h == g[a - 1]
  <2> HIDE DEF u, h
  <2>5. i \in 1 .. Len(chain) /\ u \in SUBSET (0 .. Len(chain)) /\ m = <<i, u>>
    BY <2>1 DEF n, u
  <2>6. \A z \in LevelArgs : z[1] > i => f[z] = h[z] /\ f[z] \in Seq(ListEntry)
    BY <2>3 DEF h
  <2>7. Pieces(f, <<i, u>>) = Pieces(h, <<i, u>>)
    BY <2>5, <2>6, PiecesSame
  <2> QED BY <2>2, <2>4, <2>5, <2>7 DEF h
<1>8. Levels(f)
  <2>1. f = [m \in LevelArgs |-> f[m]]
    OBVIOUS
  <2> HIDE DEF f
  <2>2. f = [m \in LevelArgs |-> FlattenSeq(Pieces(f, m))]
    BY <1>7, <2>1
  <2> QED BY <2>2, Zenon DEF Levels
<1> DEFINE c == CHOOSE z : Levels(z)
<1>9. Levels(c)
  BY <1>8
<1>10. \A i, v : mergelevel(i, v) = c[<<i, v>>]
  BY Zenon DEF mergelevel, Levels, LevelArgs, Pieces, Piece, HeadEntry, LineIn
<1> HIDE DEF c
<1>11. \A m \in LevelArgs : c[m] = FlattenSeq(Pieces(c, m))
  <2>1. c = [m \in LevelArgs |-> FlattenSeq(Pieces(c, m))]
    BY <1>9, Zenon DEF Levels
  <2> QED BY <2>1, Zenon
<1> QED BY <1>10, <1>11

LEMMA LevelForest ==
  ASSUME CgTree, NEW i \in 1 .. Len(chain), NEW v \in SUBSET (0 .. Len(chain))
  PROVE  Forest(mergelevel(i, v), CgBelow(i), chain[i].depth, v, i)
<1> DEFINE n == Len(chain)
           V == SUBSET (0 .. n)
<1> PICK f : /\ \A m \in LevelArgs : f[m] = FlattenSeq(Pieces(f, m))
             /\ \A x, l : mergelevel(x, l) = f[<<x, l>>]
  BY LevelIs
<1> DEFINE Fine(x, l) == Forest(f[<<x, l>>], CgBelow(x), chain[x].depth, l, x)
           G == {x \in 1 .. n : \A l \in V : Fine(x, l)}
<1>1. n \in Nat /\ DOMAIN chain = 1 .. n /\ LevelArgs = (1 .. n) \X V
  BY CgTreeIs DEF LevelArgs
<1> HIDE DEF n, V
<1>2. ASSUME NEW x \in 1 .. n, \A j \in 1 .. n : x < j => j \in G, NEW l \in V PROVE Fine(x, l)
  <2> DEFINE kids == createsortlist(x)
             d == chain[x].depth
             s == Pieces(f, <<x, l>>)
             w(b) == LineIn(kids, b, l, d)
             m == <<x, l>>
  <2>1. \A z \in LevelArgs : z[1] > x => Fine(z[1], z[2]) /\ z = <<z[1], z[2]>>
    BY <1>1, <1>2
  <2>2. \A z \in LevelArgs : z[1] > x => f[z] \in Seq(ListEntry)
    BY <2>1 DEF Forest
  <2> HIDE DEF Fine
  <2>3. /\ s \in Seq(Seq(ListEntry)) /\ Len(s) = Len(kids) /\ Len(kids) \in Nat
        /\ \A b \in 1 .. Len(kids) :
             /\ kids[b] \in 1 .. n /\ kids[b] > x /\ <<kids[b], w(b)>> \in LevelArgs
             /\ HeadEntry(kids, b, w(b)) \in ListEntry /\ s[b] = Piece(f, kids, b, l, d)
    BY <1>2, <2>2, PiecesAre DEF n, V
  <2>4. SortListed(kids, x)
    BY SortListIs
  <2>5. d \in Nat
    BY CgTreeIs DEF n
  <2> HIDE DEF s, kids, d
  <2>6. ASSUME NEW b \in 1 .. Len(kids) PROVE Block(s[b], kids[b], b = Len(kids), w(b), d)
    <3> DEFINE c == kids[b]
               u == w(b)
               h == HeadEntry(kids, b, u)
               M == f[<<c, u>>]
    <3>1. c \in 1 .. n /\ c > x /\ <<c, u>> \in LevelArgs /\ h \in ListEntry /\ s[b] = <<h>> \o M
      BY <2>3 DEF Piece
    <3>2. h.cg = c /\ h.vlines = u /\ h.stub = (b = Len(kids))
      BY DEF HeadEntry
    <3>3. chain[c].depth = d + 1
      <4>1. c \in 2 .. n /\ Parent(c) = x
        BY <2>4 DEF SortListed, n
      <4> HIDE DEF c
      <4> QED BY <4>1, CgTreeIs DEF n, d
    <3> HIDE DEF c, u, h
    <3>4. <<c, u>>[1] = c /\ <<c, u>>[2] = u
      OBVIOUS
    <3>5. Forest(M, CgBelow(c), chain[c].depth, u, c)
      <4>1. Fine(c, u)
        BY <2>1, <3>1, <3>4
      <4> QED BY <4>1 DEF Fine
    <3> HIDE DEF M
    <3> DEFINE B == s[b]
    <3> HIDE DEF B
    <3>8. Headed(B, h, M, c, u)
      BY <3>1, <3>2 DEF B, Headed
    <3>6. Forest(B, CgUpto(c), chain[c].depth, u, c) /\ Len(B) > 0 /\ B[1] = h
      BY <3>1, <3>5, <3>8, HeadAdded DEF n
    <3>7. /\ Forest(s[b], CgUpto(c), d + 1, u, c)
          /\ Len(s[b]) > 0 /\ s[b][1].cg = c /\ s[b][1].stub = (b = Len(kids))
      BY <3>2, <3>3, <3>6 DEF B
    <3> QED BY <3>7 DEF Block, c, u
  <2>7. Laid(FlattenSeq(s), ListEntry, s, Len(s))
    BY <2>3, FlattenLays
  <2>8. Forest(FlattenSeq(s), CgBelow(x), d, l, x)
    BY <1>2, <2>3, <2>4, <2>6, <2>7, Joined DEF n, d
  <2>9. f[m] = FlattenSeq(s)
    <3>1. m \in LevelArgs
      BY <1>1, <1>2
    <3> QED BY <3>1 DEF s
  <2> QED BY <2>8, <2>9 DEF Fine, d
<1> HIDE DEF Fine
<1>3. \A x \in 1 .. n : (\A j \in 1 .. n : x < j => j \in G) => x \in G
  BY <1>2
<1> HIDE DEF G
<1>4. \A x \in 1 .. n : x \in G
  BY <1>1, <1>3, UpTree
<1>5. Fine(i, v)
  BY <1>4 DEF G, n, V
<1> QED BY <1>5 DEF Fine

\* The whole list: the root, and what is below it.
ListSorted == Forest(cgsorted, 1 .. Len(chain), 0, {}, 1) /\ Len(cgsorted) > 0 /\ cgsorted[1].cg = 1

LEMMA RootAdded ==
  ASSUME CgTree
  PROVE  LET L == <<[cg |-> 1, stub |-> TRUE, vlines |-> {}]>> \o mergelevel(1, {})
         IN  Forest(L, 1 .. Len(chain), 0, {}, 1) /\ Len(L) > 0 /\ L[1].cg = 1
<1> DEFINE h == [cg |-> 1, stub |-> TRUE, vlines |-> {}]
           M == mergelevel(1, {})
           L == <<h>> \o M
<1>1. 1 \in 1 .. Len(chain) /\ chain[1].depth = 0
  BY CgTreeIs
<1>2. Forest(M, CgBelow(1), chain[1].depth, {}, 1)
  BY <1>1, LevelForest
<1>3. h \in ListEntry /\ h.cg = 1 /\ h.vlines = {}
  BY <1>1 DEF ListEntry
<1>7. Headed(L, h, M, 1, {})
  BY <1>3 DEF Headed
<1> HIDE DEF h, M, L
<1>4. Forest(L, CgUpto(1), chain[1].depth, {}, 1) /\ Len(L) > 0 /\ L[1] = h
  BY <1>1, <1>2, <1>7, HeadAdded
<1>5. CgUpto(1) = 1 .. Len(chain)
  <2>1. \A x \in 1 .. Len(chain) : Within(x, 1)
    BY CgTreeIs, UnderRoot DEF Within
  <2> QED BY <2>1 DEF CgUpto
<1>6. Forest(L, 1 .. Len(chain), 0, {}, 1) /\ Len(L) > 0 /\ L[1].cg = 1
  BY <1>1, <1>3, <1>4, <1>5
<1> QED BY <1>6 DEF L, h, M

LEMMA ListPlaces ==
  ASSUME CgTree, ListSorted
  PROVE  /\ Len(cgsorted) = Len(chain) /\ cgsorted \in Seq(ListEntry)
         /\ \A p \in 1 .. Len(chain) :
              /\ cgsorted[p] \in ListEntry /\ cgsorted[p].cg \in 1 .. Len(chain)
              /\ (p = 1 <=> cgsorted[p].cg = 1)
         /\ \A i \in 1 .. Len(chain) : \E p \in 1 .. Len(chain) : cgsorted[p].cg = i
         /\ \A p, q \in 1 .. Len(chain) : cgsorted[p].cg = cgsorted[q].cg => p = q
<1> DEFINE n == Len(chain)
           L == cgsorted
           m == Len(L)
<1>1. L \in Seq(ListEntry) /\ m \in Nat /\ n \in Nat /\ m > 0 /\ L[1].cg = 1 /\ Covers(L, 1 .. n)
  <2>1. L \in Seq(ListEntry) /\ m > 0 /\ L[1].cg = 1 /\ Covers(L, 1 .. n)
    BY DEF ListSorted, Forest
  <2> HIDE DEF L
  <2>2. m \in Nat
    BY <2>1
  <2> QED BY <2>1, <2>2, CgTreeIs
<1>2. /\ \A p \in 1 .. m : L[p] \in ListEntry /\ L[p].cg \in 1 .. n
      /\ \A x \in 1 .. n : \E p \in 1 .. m : L[p].cg = x
      /\ \A p, q \in 1 .. m : p < q => L[p].cg # L[q].cg
  BY <1>1 DEF Covers
<1> HIDE DEF n, m
<1>3. \A p, q \in 1 .. m : L[p].cg = L[q].cg => p = q
  <2> TAKE p, q \in 1 .. m
  <2>1. p < q \/ q < p \/ p = q
    OBVIOUS
  <2> QED BY <1>2, <2>1
<1>4. m = n
  <2> DEFINE f == [p \in 1 .. m |-> L[p].cg]
  <2>1. f \in Bijection(1 .. m, 1 .. n)
    <3>1. f \in [1 .. m -> 1 .. n]
      BY <1>2
    <3>2. \A p, q \in 1 .. m : f[p] = f[q] => p = q
      BY <1>3
    <3>3. \A x \in 1 .. n : \E p \in 1 .. m : f[p] = x
      BY <1>2
    <3> HIDE DEF f
    <3> QED BY <3>1, <3>2, <3>3 DEF Bijection, Injection, Surjection, IsInjective
  <2>2. ExistsBijection(1 .. m, 1 .. n)
    BY <2>1 DEF ExistsBijection
  <2>3. /\ IsFiniteSet(1 .. m) /\ Cardinality(1 .. m) = IF 1 > m THEN 0 ELSE m - 1 + 1
        /\ IsFiniteSet(1 .. n) /\ Cardinality(1 .. n) = IF 1 > n THEN 0 ELSE n - 1 + 1
    <3>1. 1 \in Int /\ m \in Int /\ n \in Int
      BY <1>1
    <3> QED BY <3>1, FS_Interval
  <2>4. Cardinality(1 .. n) = Cardinality(1 .. m)
    BY <2>2, <2>3, FS_Bijection
  <2> QED BY <1>1, <2>3, <2>4
<1>5. 1 \in 1 .. m
  BY <1>1
<1>6. \A p \in 1 .. m : p = 1 <=> L[p].cg = 1
  BY <1>1, <1>3, <1>5
<1> QED BY <1>1, <1>2, <1>3, <1>4, <1>6 DEF n, m

LEMMA TreeIsSorted == ASSUME CgTree, ListSorted PROVE SortedTree
<1> DEFINE n == Len(chain)
           S == cgsorted
           pos == [i \in DOMAIN chain |-> CHOOSE k \in DOMAIN S : S[k].cg = i]
<1>1. /\ Len(S) = n /\ DOMAIN S = 1 .. n /\ DOMAIN chain = 1 .. n /\ n \in Nat
      /\ \A p \in 1 .. n : S[p].cg \in 1 .. n /\ (p = 1 <=> S[p].cg = 1)
      /\ \A i \in 1 .. n : \E p \in 1 .. n : S[p].cg = i
      /\ \A p, q \in 1 .. n : S[p].cg = S[q].cg => p = q
  BY ListPlaces, CgTreeIs
<1>2. Nests(S) /\ Falls(S)
  BY DEF ListSorted, Forest
<1> HIDE DEF n, S
<1>3. \A i \in 1 .. n : pos[i] \in 1 .. n /\ S[pos[i]].cg = i
  BY <1>1
<1>4. {c.cg : c \in Range(S)} = 1 .. n
  <2>1. Range(S) = {S[p] : p \in 1 .. n}
    BY <1>1 DEF Range
  <2> DEFINE R == Range(S)
  <2> HIDE DEF R
  <2>2. \A c \in R : c.cg \in 1 .. n
    BY <1>1, <2>1 DEF R
  <2>3. \A i \in 1 .. n : \E c \in R : c.cg = i
    BY <1>1, <2>1, SMTT(20) DEF R
  <2>4. {c.cg : c \in R} = 1 .. n
    BY <2>2, <2>3
  <2> QED BY <2>4 DEF R
<1> HIDE DEF pos
<1>5. ASSUME NEW i \in 1 .. n, NEW j \in 1 .. n, Under(i, j)
      PROVE  pos[i] > pos[j] /\ \A k \in pos[j] .. pos[i] : S[k].cg = j \/ Under(S[k].cg, j)
  <2> DEFINE a == pos[i]
             b == pos[j]
  <2>1. a \in 1 .. n /\ b \in 1 .. n /\ S[a].cg = i /\ S[b].cg = j
    BY <1>3
  <2> HIDE DEF a, b
  <2>2. b < a /\ \A r \in 1 .. n : b < r /\ r <= a => Under(S[r].cg, j)
    BY <1>1, <1>2, <1>5, <2>1 DEF Nests
  <2>3. \A k \in b .. a : k \in 1 .. n /\ (k # b => b < k /\ k <= a)
    BY <1>1, <2>1
  <2>4. a > b
    BY <2>1, <2>2
  <2> QED BY <2>1, <2>2, <2>3, <2>4 DEF a, b
<1>6. ASSUME NEW i \in 1 .. n \ {1}, NEW j \in 1 .. n \ {1}, Parent(i) = Parent(j), pos[i] < pos[j]
      PROVE  chain[i].sortval >= chain[j].sortval
  <2>1. i \in 1 .. n /\ j \in 1 .. n /\ Sib(i, j)
    BY <1>6 DEF Sib
  <2> DEFINE a == pos[i]
             b == pos[j]
  <2>2. a \in 1 .. n /\ b \in 1 .. n /\ S[a].cg = i /\ S[b].cg = j /\ a < b
    BY <1>3, <1>6, <2>1
  <2> HIDE DEF a, b
  <2> QED BY <1>1, <1>2, <2>1, <2>2 DEF Falls
<1> QED BY <1>1, <1>4, <1>5, <1>6 DEF SortedTree, pos, S, n

-----------------------------------------------------------------------------
\* mergecgrouplist(): K are the cgroups that are wanted, the root among them; s is what is kept
\* of the first m of the sorted list, place k of it comes from src[k].  A level goes on after p
\* when another of it follows that is kept or still to come.
At(p) == cgsorted[p].cg
Wanted(K) == 1 \in K
Goes(p, m, K) == \E l \in 1 .. Len(chain) : p < l /\ Sib(At(l), At(p)) /\ (m < l \/ At(l) \in K)
Selects(s, src, m, K) ==
  /\ s \in Seq(ListEntry) /\ src \in [1 .. Len(s) -> 1 .. m]
  /\ \A k \in 1 .. Len(s) : s[k].cg = At(src[k]) /\ s[k].cg \in K
  /\ \A k, l \in 1 .. Len(s) : k < l => src[k] < src[l]
  /\ \A p \in 1 .. m : At(p) \in K => \E k \in 1 .. Len(s) : src[k] = p
Marked(s, src, m, K) ==
  /\ \A k \in 1 .. Len(s) : s[k].cg # 1 => (s[k].stub <=> ~ Goes(src[k], m, K))
  /\ \A k \in 1 .. Len(s), p \in 1 .. m :
       At(p) # 1 /\ Under(s[k].cg, At(p)) =>
         (chain[At(p)].depth - 1 \in s[k].vlines <=> Goes(p, m, K))

LEMMA SortedFacts ==
  ASSUME CgTree, ListSorted
  PROVE  /\ \A p \in 1 .. Len(chain) : At(p) \in 1 .. Len(chain) /\ (p = 1 <=> At(p) = 1) /\ cgsorted[p] \in ListEntry
         /\ \A i \in 1 .. Len(chain) : \E p \in 1 .. Len(chain) : At(p) = i
         /\ \A p, q \in 1 .. Len(chain) : At(p) = At(q) => p = q
         /\ \A p, q \in 1 .. Len(chain) : Under(At(q), At(p)) =>
              p < q /\ \A r \in 1 .. Len(chain) : p < r /\ r <= q => Under(At(r), At(p))
         /\ \A p \in 1 .. Len(chain) :
              At(p) # 1 => (cgsorted[p].stub <=> ~ \E r \in 1 .. Len(chain) : p < r /\ Sib(At(r), At(p)))
         /\ \A p, q \in 1 .. Len(chain) : At(q) # 1 /\ Under(At(p), At(q)) =>
              (chain[At(q)].depth - 1 \in cgsorted[p].vlines <=>
                 \E r \in 1 .. Len(chain) : q < r /\ Sib(At(r), At(q)))
<1> DEFINE n == Len(chain)
<1>1. /\ Len(cgsorted) = n
      /\ \A p \in 1 .. n : cgsorted[p] \in ListEntry /\ At(p) \in 1 .. n /\ (p = 1 <=> At(p) = 1)
      /\ \A i \in 1 .. n : \E p \in 1 .. n : At(p) = i
      /\ \A p, q \in 1 .. n : At(p) = At(q) => p = q
  BY ListPlaces DEF At
<1>2. Nests(cgsorted) /\ StubMarks(cgsorted, 1) /\ LineMarks(cgsorted, 1)
  BY DEF ListSorted, Forest
<1> HIDE DEF n
<1>3. \A p, q \in 1 .. n : Under(At(q), At(p)) =>
        p < q /\ \A r \in 1 .. n : p < r /\ r <= q => Under(At(r), At(p))
  BY <1>1, <1>2 DEF Nests, At
<1>4. \A p \in 1 .. n : Later(cgsorted, p) <=> \E r \in 1 .. n : p < r /\ Sib(At(r), At(p))
  BY <1>1 DEF Later, At
<1>5. \A p \in 1 .. n : At(p) # 1 => (cgsorted[p].stub <=> ~ Later(cgsorted, p))
  BY <1>1, <1>2 DEF StubMarks, At
<1>6. \A p, q \in 1 .. n : At(q) # 1 /\ Under(At(p), At(q)) =>
        (chain[At(q)].depth - 1 \in cgsorted[p].vlines <=> Later(cgsorted, q))
  BY <1>1, <1>2 DEF LineMarks, At
<1>7. \A p \in 1 .. n :
        At(p) # 1 => (cgsorted[p].stub <=> ~ \E r \in 1 .. n : p < r /\ Sib(At(r), At(p)))
  BY <1>4, <1>5
<1>8. \A p, q \in 1 .. n : At(q) # 1 /\ Under(At(p), At(q)) =>
        (chain[At(q)].depth - 1 \in cgsorted[p].vlines <=> \E r \in 1 .. n : q < r /\ Sib(At(r), At(q)))
  BY <1>4, <1>6
<1> QED BY <1>1, <1>3, <1>7, <1>8 DEF n

\* One more that is wanted is added as it is.
LEMMA WantedAdded ==
  ASSUME CgTree, ListSorted, NEW K, Wanted(K), NEW m \in 1 .. Len(chain), At(m) \in K,
         NEW s, NEW src, Selects(s, src, m - 1, K), Marked(s, src, m - 1, K)
  PROVE  \E to : /\ Selects(Append(s, cgsorted[m]), to, m, K)
                 /\ Marked(Append(s, cgsorted[m]), to, m, K)
<1> DEFINE n == Len(chain)
           c == cgsorted[m]
           t == Append(s, c)
           k0 == Len(s)
           to == [k \in 1 .. k0 + 1 |-> IF k <= k0 THEN src[k] ELSE m]
<1>1. n \in Nat /\ m \in Nat /\ m - 1 \in Nat /\ c \in ListEntry /\ c.cg = At(m)
  <2>1. n \in Nat /\ c \in ListEntry /\ c.cg = At(m)
    BY CgTreeIs, SortedFacts DEF At
  <2> HIDE DEF n, c
  <2> QED BY <2>1
<1>2. s \in Seq(ListEntry) /\ k0 \in Nat /\ src \in [1 .. k0 -> 1 .. m - 1]
  BY DEF Selects
<1>3. /\ t \in Seq(ListEntry) /\ Len(t) = k0 + 1 /\ t[k0 + 1] = c /\ \A k \in 1 .. k0 : t[k] = s[k]
  <2> HIDE DEF c
  <2> QED BY <1>1, <1>2
<1> HIDE DEF c, t, k0
<1>4. /\ \A k \in 1 .. k0 : to[k] = src[k] /\ to[k] \in 1 .. m - 1 /\ k \in 1 .. k0 + 1
      /\ to[k0 + 1] = m /\ k0 + 1 \in 1 .. k0 + 1
      /\ \A k \in 1 .. k0 + 1 : k \in 1 .. k0 \/ k = k0 + 1
      /\ to \in [1 .. k0 + 1 -> 1 .. m]
  <2>1. \A k \in 1 .. k0 : src[k] \in 1 .. m - 1 /\ src[k] \in 1 .. m
    BY <1>1, <1>2
  <2>2. \A k \in 1 .. k0 + 1 : k \in 1 .. k0 \/ k = k0 + 1
    BY <1>2
  <2>3. \A k \in 1 .. k0 : k \in 1 .. k0 + 1 /\ k <= k0
    BY <1>2
  <2>4. k0 + 1 \in 1 .. k0 + 1 /\ ~ (k0 + 1 <= k0) /\ m \in 1 .. m
    BY <1>1, <1>2
  <2> QED BY <2>1, <2>2, <2>3, <2>4
<1> HIDE DEF to, n
<1>5. Selects(t, to, m, K)
  <2>1. \A k \in 1 .. k0 + 1 : t[k].cg = At(to[k]) /\ t[k].cg \in K
    <3> TAKE k \in 1 .. k0 + 1
    <3>1. CASE k \in 1 .. k0
      BY <1>3, <1>4, <3>1 DEF Selects, k0
    <3>2. CASE k = k0 + 1
      BY <1>1, <1>3, <1>4, <3>2
    <3> QED BY <1>4, <3>1, <3>2
  <2>2. ASSUME NEW k \in 1 .. k0 + 1, NEW l \in 1 .. k0 + 1, k < l PROVE to[k] < to[l]
    <3>1. k \in 1 .. k0
      BY <1>2, <2>2
    <3>2. CASE l \in 1 .. k0
      <4>1. src[k] < src[l]
        BY <2>2, <3>1, <3>2 DEF Selects, k0
      <4> QED BY <1>4, <3>1, <3>2, <4>1
    <3>3. CASE l = k0 + 1
      <4>1. to[k] \in 1 .. m - 1 /\ to[l] = m
        BY <1>4, <3>1, <3>3
      <4> QED BY <1>1, <4>1
    <3> QED BY <1>4, <3>2, <3>3
  <2>3. ASSUME NEW p \in 1 .. m, At(p) \in K PROVE \E k \in 1 .. k0 + 1 : to[k] = p
    <3>1. CASE p = m
      BY <1>4, <3>1
    <3>2. CASE p # m
      <4>1. p \in 1 .. m - 1
        BY <1>1, <3>2
      <4>2. PICK k \in 1 .. k0 : src[k] = p
        BY <2>3, <4>1 DEF Selects, k0
      <4> QED BY <1>4, <4>2
    <3> QED BY <3>1, <3>2
  <2> QED BY <1>3, <1>4, <2>1, <2>2, <2>3 DEF Selects
<1>6. \A p \in 1 .. m : Goes(p, m, K) <=> Goes(p, m - 1, K)
  <2>1. \A l \in 1 .. n : (m < l \/ At(l) \in K) <=> (m - 1 < l \/ At(l) \in K)
    <3> TAKE l \in 1 .. n
    <3>1. m - 1 < l <=> m < l \/ l = m
      BY <1>1
    <3> QED BY <3>1
  <2> QED BY <2>1 DEF Goes, n
<1>7. /\ At(m) # 1 => (c.stub <=> ~ \E r \in 1 .. n : m < r /\ Sib(At(r), At(m)))
      /\ \A q \in 1 .. n : At(q) # 1 /\ Under(At(m), At(q)) =>
              (chain[At(q)].depth - 1 \in c.vlines <=> \E r \in 1 .. n : q < r /\ Sib(At(r), At(q)))
  BY SortedFacts DEF n, c
<1>8. ASSUME NEW k \in 1 .. k0 + 1, t[k].cg # 1 PROVE t[k].stub <=> ~ Goes(to[k], m, K)
  <2>1. CASE k \in 1 .. k0
    <3>1. s[k].stub <=> ~ Goes(src[k], m - 1, K)
      BY <1>3, <1>8, <2>1 DEF Marked, k0
    <3>2. to[k] = src[k] /\ src[k] \in 1 .. m
      BY <1>1, <1>4, <2>1
    <3> QED BY <1>3, <1>6, <2>1, <3>1, <3>2
  <2>2. CASE k = k0 + 1
    <3>1. Goes(m, m, K) <=> \E r \in 1 .. n : m < r /\ Sib(At(r), At(m))
      BY DEF Goes, n
    <3> QED BY <1>1, <1>3, <1>4, <1>7, <1>8, <2>2, <3>1
  <2> QED BY <1>4, <2>1, <2>2
<1>9. ASSUME NEW k \in 1 .. k0 + 1, NEW p \in 1 .. m, At(p) # 1, Under(t[k].cg, At(p))
      PROVE  chain[At(p)].depth - 1 \in t[k].vlines <=> Goes(p, m, K)
  <2>0. p \in 1 .. n /\ m \in 1 .. n
    BY <1>1 DEF n
  <2>1. CASE k \in 1 .. k0
    <3>1. p \in 1 .. m - 1
      <4>1. Under(At(to[k]), At(p)) /\ to[k] \in 1 .. m - 1
        BY <1>3, <1>4, <1>5, <1>9, <2>1 DEF Selects
      <4>2. to[k] \in 1 .. n
        BY <1>1, <2>0, <4>1
      <4>3. p < to[k]
        BY <2>0, <4>1, <4>2, SortedFacts DEF n
      <4> QED BY <1>1, <4>1, <4>3
    <3>2. chain[At(p)].depth - 1 \in s[k].vlines <=> Goes(p, m - 1, K)
      BY <1>3, <1>9, <2>1, <3>1 DEF Marked, k0
    <3> QED BY <1>3, <1>6, <2>1, <3>2
  <2>2. CASE k = k0 + 1
    <3>1. Under(At(m), At(p)) /\ t[k] = c
      BY <1>1, <1>3, <1>9, <2>2
    <3>2. chain[At(p)].depth - 1 \in c.vlines <=> \E r \in 1 .. n : p < r /\ Sib(At(r), At(p))
      BY <1>7, <1>9, <2>0, <3>1
    <3>3. ASSUME NEW r \in 1 .. n, p < r, Sib(At(r), At(p)) PROVE m < r
      <4>1. ASSUME r <= m PROVE FALSE
        <5>1. Under(At(r), At(p))
          BY <2>0, <3>1, <3>3, <4>1, SortedFacts DEF n
        <5>2. At(r) \in 1 .. n /\ At(p) \in 1 .. n
          BY <2>0, SortedFacts DEF n
        <5> QED BY <3>3, <5>1, <5>2, SibIs DEF n
      <4> QED BY <1>1, <4>1
    <3>4. Goes(p, m, K) <=> \E r \in 1 .. n : p < r /\ Sib(At(r), At(p))
      BY <3>3 DEF Goes, n
    <3> QED BY <3>1, <3>2, <3>4
  <2> QED BY <1>4, <2>1, <2>2
<1>10. Marked(t, to, m, K)
  BY <1>3, <1>8, <1>9 DEF Marked
<1> QED BY <1>5, <1>10 DEF t, c

\* What a list is after another cgroup that is not wanted: it comes from the same places.
LEMMA SelectsOn ==
  ASSUME NEW K, NEW m \in 1 .. Len(chain), At(m) \notin K, NEW s, NEW src, Selects(s, src, m - 1, K),
         NEW t \in Seq(ListEntry), Len(t) = Len(s), \A k \in 1 .. Len(s) : t[k].cg = s[k].cg
  PROVE  Selects(t, src, m, K)
<1> DEFINE k0 == Len(s)
<1>1. /\ s \in Seq(ListEntry) /\ src \in [1 .. k0 -> 1 .. m - 1]
      /\ \A k \in 1 .. k0 : s[k].cg = At(src[k]) /\ s[k].cg \in K
      /\ \A k, l \in 1 .. k0 : k < l => src[k] < src[l]
      /\ \A p \in 1 .. m - 1 : At(p) \in K => \E k \in 1 .. k0 : src[k] = p
  BY DEF Selects
<1>2. k0 = Len(t)
  OBVIOUS
<1> HIDE DEF k0
<1>3. src \in [1 .. k0 -> 1 .. m]
  BY <1>1
<1>4. \A p \in 1 .. m : At(p) \in K => p \in 1 .. m - 1
  OBVIOUS
<1> QED BY <1>1, <1>2, <1>3, <1>4 DEF Selects, k0

LEMMA Skipped ==
  ASSUME CgTree, ListSorted, NEW K, Wanted(K), NEW m \in 1 .. Len(chain), At(m) \notin K, ~ cgsorted[m].stub,
         NEW s, NEW src, Selects(s, src, m - 1, K), Marked(s, src, m - 1, K)
  PROVE  Selects(s, src, m, K) /\ Marked(s, src, m, K)
<1> DEFINE n == Len(chain)
           k0 == Len(s)
<1>1. n \in Nat /\ m \in Nat /\ m \in 1 .. n /\ At(m) # 1 /\ s \in Seq(ListEntry)
  BY CgTreeIs DEF Wanted, Selects
<1>2. PICK r \in 1 .. n : m < r /\ Sib(At(r), At(m))
  BY <1>1, SortedFacts
<1> HIDE DEF n
<1>3. \A p \in 1 .. m : Goes(p, m, K) <=> Goes(p, m - 1, K)
  <2> TAKE p \in 1 .. m
  <2>1. ASSUME NEW l \in 1 .. n, p < l, Sib(At(l), At(p)), m - 1 < l PROVE Goes(p, m, K)
    <3>1. CASE l = m
      <4>1. Sib(At(r), At(p)) /\ p < r
        BY <1>1, <1>2, <2>1, <3>1 DEF Sib
      <4> QED BY <1>2, <4>1 DEF Goes, n
    <3>2. CASE l # m
      <4>1. m < l
        BY <1>1, <2>1, <3>2
      <4> QED BY <2>1, <4>1 DEF Goes, n
    <3> QED BY <3>1, <3>2
  <2>2. \A l \in 1 .. n : m < l => m - 1 < l
    BY <1>1
  <2> QED BY <2>1, <2>2 DEF Goes, n
<1>4. Selects(s, src, m, K)
  BY <1>1, SelectsOn DEF n
<1>5. ASSUME NEW k \in 1 .. k0
      PROVE  src[k] \in 1 .. m - 1 /\ src[k] \in 1 .. m /\ s[k].cg = At(src[k]) /\ s[k].cg \in K
             /\ s[k].cg \in 1 .. n
  <2>1. src[k] \in 1 .. m - 1 /\ s[k].cg = At(src[k]) /\ s[k].cg \in K
    BY DEF Selects
  <2>2. src[k] \in 1 .. m /\ src[k] \in 1 .. n
    BY <1>1, <2>1
  <2> QED BY <2>1, <2>2, SortedFacts, ZenonT(30) DEF n
<1>6. \A k \in 1 .. k0 : s[k].cg # 1 => (s[k].stub <=> ~ Goes(src[k], m, K))
  BY <1>3, <1>5 DEF Marked
<1>7. ASSUME NEW k \in 1 .. k0, NEW p \in 1 .. m, At(p) # 1, Under(s[k].cg, At(p))
      PROVE  chain[At(p)].depth - 1 \in s[k].vlines <=> Goes(p, m, K)
  <2>1. p \in 1 .. n /\ src[k] \in 1 .. n /\ src[k] \in 1 .. m - 1 /\ Under(At(src[k]), At(p))
    BY <1>1, <1>5, <1>7
  <2>2. p \in 1 .. m - 1
    <3>1. p < src[k]
      BY <2>1, SortedFacts DEF n
    <3> QED BY <1>1, <2>1, <3>1
  <2> QED BY <1>3, <1>7, <2>2 DEF Marked
<1> QED BY <1>4, <1>6, <1>7 DEF Marked

\* PassStub(): the last of a list that is not deeper.
StubPassed(s, t, d, last) ==
  /\ t \in Seq(ListEntry) /\ Len(t) = Len(s) /\ last \in Nat /\ last >= 1
  /\ \A j \in 2 .. Len(s) : chain[s[j].cg].depth <= d => j <= last
  /\ last > 1 => last \in 2 .. Len(s) /\ chain[s[last].cg].depth <= d
  /\ \A j \in 1 .. Len(s) :
       /\ t[j].cg = s[j].cg
       /\ t[j].vlines = IF j > last THEN s[j].vlines \ {d - 1} ELSE s[j].vlines
       /\ t[j].stub = IF j = last /\ last > 1 /\ chain[s[j].cg].depth = d THEN TRUE ELSE s[j].stub

LEMMA PassStubIs ==
  ASSUME CgTree, NEW s \in Seq(ListEntry), NEW d \in Nat
  PROVE  \E last : StubPassed(s, PassStub(s, d), d, last)
<1> DEFINE n == Len(s)
           same == {j \in 2 .. n : chain[s[j].cg].depth <= d}
           U == {1} \union same
           last == Max(U)
           t == PassStub(s, d)
           E(j) == IF j > last THEN [s[j] EXCEPT !.vlines = s[j].vlines \ {d - 1}]
                   ELSE IF j = last /\ last > 1 /\ chain[s[j].cg].depth = d THEN [s[j] EXCEPT !.stub = TRUE]
                   ELSE s[j]
<1>1. n \in Nat /\ DOMAIN s = 1 .. n /\ \A j \in 1 .. n : s[j] \in ListEntry
  OBVIOUS
<1>2. t = [j \in DOMAIN s |-> E(j)]
  BY Zenon DEF PassStub
<1> HIDE DEF t, n
<1>3. last \in U /\ (\A j \in U : last >= j) /\ last \in Nat /\ last >= 1
  <2>1. n + 1 \in Nat /\ U \subseteq 0 .. n + 1 /\ U # {}
    BY <1>1
  <2> HIDE DEF U
  <2>2. Max(U) \in U /\ \A j \in U : Max(U) >= j
    BY <2>1, MaxBounded
  <2>3. last \in U /\ \A j \in U : last >= j
    BY <2>2
  <2>4. 1 \in U
    BY DEF U
  <2> HIDE DEF last
  <2> QED BY <2>1, <2>3, <2>4
<1> HIDE DEF last
<1>4. \A j \in 2 .. n : chain[s[j].cg].depth <= d => j <= last
  <2>1. \A j \in same : j \in U
    OBVIOUS
  <2> HIDE DEF U
  <2>2. \A j \in same : last >= j /\ j \in 2 .. n
    BY <1>3, <2>1
  <2>3. \A j \in same : j <= last
    BY <1>1, <1>3, <2>2
  <2> QED BY <2>3
<1>5. last > 1 => last \in 2 .. n /\ chain[s[last].cg].depth <= d
  BY <1>3
<1> HIDE DEF E, U, same
<1>6. ASSUME NEW j \in 1 .. n
      PROVE  /\ E(j) \in ListEntry /\ E(j).cg = s[j].cg
             /\ E(j).vlines = IF j > last THEN s[j].vlines \ {d - 1} ELSE s[j].vlines
             /\ E(j).stub = IF j = last /\ last > 1 /\ chain[s[j].cg].depth = d THEN TRUE ELSE s[j].stub
  <2> DEFINE e == s[j]
  <2>1. e \in ListEntry
    BY <1>1
  <2> HIDE DEF e
  <2>2. /\ e.vlines \in SUBSET (0 .. Len(chain))
        /\ [e EXCEPT !.vlines = e.vlines \ {d - 1}] \in ListEntry
        /\ [e EXCEPT !.vlines = e.vlines \ {d - 1}].cg = e.cg
        /\ [e EXCEPT !.vlines = e.vlines \ {d - 1}].stub = e.stub
        /\ [e EXCEPT !.vlines = e.vlines \ {d - 1}].vlines = e.vlines \ {d - 1}
    BY <2>1 DEF ListEntry
  <2>3. /\ [e EXCEPT !.stub = TRUE] \in ListEntry /\ [e EXCEPT !.stub = TRUE].cg = e.cg
        /\ [e EXCEPT !.stub = TRUE].stub = TRUE /\ [e EXCEPT !.stub = TRUE].vlines = e.vlines
    BY <2>1 DEF ListEntry
  <2>4. j > last => j # last
    BY <1>1, <1>3
  <2>5. CASE j > last
    <3>1. E(j) = [e EXCEPT !.vlines = e.vlines \ {d - 1}]
      BY <2>5 DEF E, e
    <3> QED BY <2>2, <2>4, <2>5, <3>1 DEF e
  <2>6. CASE ~ (j > last) /\ j = last /\ last > 1 /\ chain[s[j].cg].depth = d
    <3>1. E(j) = [e EXCEPT !.stub = TRUE]
      BY <2>6 DEF E, e
    <3> QED BY <2>3, <2>6, <3>1 DEF e
  <2>7. CASE ~ (j > last) /\ ~ (j = last /\ last > 1 /\ chain[s[j].cg].depth = d)
    <3>1. E(j) = e
      BY <2>7 DEF E, e
    <3> QED BY <2>1, <2>7, <3>1 DEF e
  <2> QED BY <2>5, <2>6, <2>7
<1>7. \A j \in 1 .. n : t[j] = E(j)
  BY <1>1, <1>2
<1>8. t \in Seq(ListEntry) /\ Len(t) = n
  <2>1. t = [j \in 1 .. n |-> E(j)] /\ \A j \in 1 .. n : E(j) \in ListEntry
    BY <1>1, <1>2, <1>6
  <2> QED BY <1>1, <2>1
<1>9. StubPassed(s, t, d, last)
  BY <1>3, <1>4, <1>5, <1>6, <1>7, <1>8 DEF StubPassed, n
<1> QED BY <1>9 DEF t

\* Siblings.
LEMMA SibsAre ==
  ASSUME CgTree, NEW x \in 1 .. Len(chain), NEW y \in 1 .. Len(chain), Sib(x, y)
  PROVE  /\ Sib(y, x) /\ chain[x].depth = chain[y].depth /\ x # 1 /\ y # 1
         /\ Parent(x) \in 1 .. Len(chain) /\ Under(x, Parent(x)) /\ Under(y, Parent(x))
         /\ chain[x].depth = chain[Parent(x)].depth + 1 /\ \A z : Sib(z, x) <=> Sib(z, y)
<1>1. x # 1 /\ y # 1 /\ Parent(x) = Parent(y)
  BY DEF Sib
<1>2. x \in 2 .. Len(chain) /\ y \in 2 .. Len(chain)
  BY <1>1, CgTreeIs
<1>3. Under(x, Parent(x)) /\ Under(y, Parent(y))
  BY <1>2, UnderIs DEF Within
<1> QED BY <1>1, <1>2, <1>3, CgTreeIs DEF Sib

\* Between two of a level, what is not deeper is of that level.
LEMMA BetweenSibs ==
  ASSUME CgTree, ListSorted, NEW p \in 1 .. Len(chain), NEW q \in 1 .. Len(chain), NEW r \in 1 .. Len(chain),
         Sib(At(p), At(r)), p <= q, q <= r, chain[At(q)].depth <= chain[At(p)].depth
  PROVE  Sib(At(q), At(p))
<1> DEFINE h == Parent(At(p))
           x == At(p)
           y == At(q)
           z == At(r)
           D(i) == chain[i].depth
<1>1. x \in 1 .. Len(chain) /\ y \in 1 .. Len(chain) /\ z \in 1 .. Len(chain)
  BY SortedFacts
<1>2. /\ h \in 1 .. Len(chain) /\ Under(x, h) /\ Under(z, h) /\ D(x) = D(h) + 1 /\ x # 1
  <2> HIDE DEF x, z
  <2>1. Sib(x, z)
    BY DEF x, z
  <2> QED BY <1>1, <2>1, SibsAre DEF x
<1>3. PICK b \in 1 .. Len(chain) : At(b) = h
  BY <1>2, SortedFacts
<1>4. b < p
  BY <1>2, <1>3, SortedFacts
<1>5. \A k \in 1 .. Len(chain) : b < k /\ k <= r => Under(At(k), h)
  BY <1>2, <1>3, SortedFacts
<1>6. b < q
  BY <1>4
<1>7. Under(y, h)
  BY <1>5, <1>6
<1> HIDE DEF h, x, y, z
<1>8. y \in 2 .. Len(chain)
  BY <1>1, <1>7, UnderBefore
<1> DEFINE g == Parent(y)
<1>9. g \in 1 .. Len(chain) /\ D(y) = D(g) + 1 /\ Within(g, h)
  BY <1>7, <1>8, UnderIs, CgTreeIs
<1> HIDE DEF g
<1>10. ASSUME Under(g, h) PROVE FALSE
  <2>1. D(h) < D(g)
    BY <1>9, <1>10, UnderBefore
  <2>2. D(h) \in Nat /\ D(g) \in Nat /\ D(x) \in Nat /\ D(y) \in Nat
    BY <1>1, <1>2, <1>9, CgTreeIs
  <2>3. D(y) <= D(x)
    BY DEF x, y
  <2> HIDE DEF D
  <2> QED BY <1>2, <1>9, <2>1, <2>2, <2>3
<1>11. g = h
  BY <1>9, <1>10 DEF Within
<1>12. y # 1
  BY <1>8
<1> QED BY <1>2, <1>11, <1>12 DEF Sib, g, h, x, y

LEMMA StubGiven ==
  ASSUME CgTree, ListSorted, NEW K, Wanted(K), NEW m \in 1 .. Len(chain), At(m) \notin K, cgsorted[m].stub,
         NEW s, NEW src, Selects(s, src, m - 1, K), Marked(s, src, m - 1, K),
         NEW t, NEW last, StubPassed(s, t, chain[At(m)].depth, last)
  PROVE  Selects(t, src, m, K) /\ Marked(t, src, m, K)
<1> DEFINE n == Len(chain)
           k0 == Len(s)
           x == At(m)
           D(i) == chain[i].depth
           d == D(x)
           S(k) == s[k].cg
<1>1. n \in Nat /\ m \in Nat /\ m \in 1 .. n /\ x # 1 /\ x \in 1 .. n /\ k0 \in Nat /\ x \in 2 .. n
  <2>1. n \in Nat /\ m \in Nat /\ m \in 1 .. n /\ x # 1 /\ x \in 1 .. n
    BY CgTreeIs, SortedFacts DEF Wanted
  <2>2. s \in Seq(ListEntry)
    BY DEF Selects
  <2>3. k0 \in Nat
    BY <2>2
  <2> QED BY <2>1, <2>3, CgTreeIs
<1>2. \A r \in 1 .. n : m < r => ~ Sib(At(r), x)
  BY <1>1, SortedFacts
<1>3. /\ t \in Seq(ListEntry) /\ Len(t) = k0 /\ last \in Nat /\ last >= 1
      /\ \A j \in 2 .. k0 : D(S(j)) <= d => j <= last
      /\ last > 1 => last \in 2 .. k0 /\ D(S(last)) <= d
      /\ \A j \in 1 .. k0 :
           /\ t[j].cg = S(j)
           /\ t[j].vlines = IF j > last THEN s[j].vlines \ {d - 1} ELSE s[j].vlines
           /\ t[j].stub = IF j = last /\ last > 1 /\ D(S(j)) = d THEN TRUE ELSE s[j].stub
  BY DEF StubPassed
<1>4. Selects(t, src, m, K)
  BY <1>1, <1>3, SelectsOn DEF n
<1> HIDE DEF n, k0, d
<1>5. ASSUME NEW k \in 1 .. k0
      PROVE  /\ src[k] \in 1 .. m - 1 /\ src[k] \in 1 .. m /\ src[k] \in 1 .. n /\ src[k] < m
             /\ S(k) = At(src[k]) /\ S(k) \in K /\ S(k) \in 1 .. n
  <2>1. src[k] \in 1 .. m - 1 /\ S(k) = At(src[k]) /\ S(k) \in K
    BY DEF Selects, k0
  <2>2. src[k] \in 1 .. m /\ src[k] \in 1 .. n /\ src[k] < m
    BY <1>1, <2>1
  <2> QED BY <2>1, <2>2, SortedFacts, SMTT(20) DEF n
<1>6. ASSUME NEW k \in 1 .. k0, NEW l \in 1 .. k0
      PROVE  (k < l <=> src[k] < src[l]) /\ (k <= l <=> src[k] <= src[l]) /\ (src[k] = src[l] => k = l)
  <2>1. (k < l => src[k] < src[l]) /\ (l < k => src[l] < src[k])
    BY DEF Selects, k0
  <2> DEFINE a == src[k]
             b == src[l]
  <2>2. a \in Nat /\ b \in Nat
    <3>1. \A i \in 1 .. m : i \in Nat
      BY <1>1
    <3> QED BY <1>5, <3>1
  <2>3. (k < l => a < b) /\ (l < k => b < a) /\ (k = l => a = b)
    BY <2>1
  <2> HIDE DEF a, b
  <2>4. (k < l <=> a < b) /\ (k <= l <=> a <= b) /\ (a = b => k = l)
    BY <1>1, <2>2, <2>3
  <2> QED BY <2>4 DEF a, b
<1>7. \A p \in 1 .. m - 1 : At(p) \in K => \E k \in 1 .. k0 : src[k] = p /\ S(k) = At(p)
  <2>1. \A p \in 1 .. m - 1 : At(p) \in K => \E k \in 1 .. k0 : src[k] = p
    BY DEF Selects, k0
  <2> QED BY <1>5, <2>1
<1>8. \A p \in 1 .. n : At(p) \in 1 .. n /\ D(At(p)) \in Nat /\ (p = 1 <=> At(p) = 1)
  BY SortedFacts, CgTreeIs DEF n
<1>9. d \in Nat
  BY <1>1, <1>8 DEF d
\* One that is kept, but the root, is at the second place of the list or further on.
<1>10. ASSUME NEW p \in 1 .. m - 1, At(p) \in K, At(p) # 1 PROVE \E k \in 2 .. k0 : src[k] = p /\ S(k) = At(p)
  <2>1. p \in 1 .. n /\ p # 1 /\ 1 \in 1 .. m - 1 /\ 1 \in 1 .. n
    BY <1>1, <1>8, <1>10
  <2>2. At(1) = 1 /\ 1 \in K
    BY <1>8, <2>1 DEF Wanted
  <2>3. PICK k \in 1 .. k0 : src[k] = p /\ S(k) = At(p)
    BY <1>7, <1>10
  <2>4. PICK l \in 1 .. k0 : src[l] = 1
    BY <1>7, <2>1, <2>2
  <2>5. l < k
    BY <1>6, <2>1, <2>3, <2>4
  <2>6. k \in 2 .. k0
    BY <1>1, <2>5
  <2> QED BY <2>3, <2>6
\* The last one that is not deeper, if of the level of the corner or of another one, ends its level.
<1>11. ASSUME last > 1, D(S(last)) = d PROVE last \in 1 .. k0 /\ ~ Goes(src[last], m, K)
  <2> DEFINE a == src[last]
  <2>1. last \in 1 .. k0 /\ last \in 2 .. k0
    BY <1>1, <1>3, <1>11
  <2>2. a \in 1 .. n /\ a < m /\ S(last) = At(a) /\ a \in 1 .. m - 1
    BY <1>5, <2>1
  <2> HIDE DEF a
  <2>3. ASSUME NEW l \in 1 .. n, a < l, Sib(At(l), At(a)), m < l \/ At(l) \in K PROVE FALSE
    <3>1. Sib(At(a), At(l)) /\ D(At(l)) = D(At(a)) /\ At(l) # 1
      BY <1>8, <2>2, <2>3, SibsAre DEF n
    <3>2. CASE m < l
      <4>1. a <= m /\ m <= l /\ D(At(m)) <= D(At(a))
        BY <1>1, <1>9, <1>11, <2>2, <3>2 DEF d
      <4>2. Sib(At(m), At(a))
        BY <1>1, <2>2, <3>1, <4>1, BetweenSibs DEF n
      <4>3. Sib(At(l), At(m))
        BY <2>3, <4>2 DEF Sib
      <4> QED BY <1>2, <3>2, <4>3
    <3>3. CASE ~ (m < l) /\ At(l) \in K
      <4>1. l # m
        BY <3>3
      <4>2. l \in 1 .. m - 1
        BY <1>1, <3>3, <4>1
      <4>3. PICK k \in 2 .. k0 : src[k] = l /\ S(k) = At(l)
        BY <1>10, <3>1, <3>3, <4>2
      <4>4. k \in 1 .. k0 /\ k <= last
        <5>1. D(S(k)) <= d
          BY <1>9, <1>11, <2>2, <3>1, <4>3
        <5> QED BY <1>1, <1>3, <5>1
      <4>5. src[k] <= a
        BY <1>6, <2>1, <4>4 DEF a
      <4> QED BY <2>2, <2>3, <4>3, <4>5
    <3> QED BY <2>3, <3>2, <3>3
  <2>4. ~ Goes(a, m, K)
    BY <2>3 DEF Goes, n
  <2> QED BY <2>1, <2>4 DEF a
\* A level that ends here does so at the last one that is not deeper, or above what is behind it.
<1>12. ASSUME NEW k \in 1 .. k0, NEW p \in 1 .. m - 1, Within(S(k), At(p)), At(p) # 1,
              ~ (Goes(p, m, K) <=> Goes(p, m - 1, K))
       PROVE  /\ D(At(p)) = d
              /\ S(k) = At(p) => k = last /\ last > 1
              /\ Under(S(k), At(p)) => k > last
  <2>1. p \in 1 .. n /\ p < m
    BY <1>1
  <2>2. Sib(x, At(p)) /\ ~ Goes(p, m, K)
    <3>1. \A l \in 1 .. n : (m < l => m - 1 < l) /\ (m - 1 < l => l = m \/ m < l)
      BY <1>1
    <3>2. Goes(p, m, K) => Goes(p, m - 1, K)
      BY <3>1 DEF Goes, n
    <3>3. PICK l \in 1 .. n : p < l /\ Sib(At(l), At(p)) /\ (m - 1 < l \/ At(l) \in K)
      BY <1>12, <3>2 DEF Goes, n
    <3>4. ~ (m < l \/ At(l) \in K)
      BY <1>12, <3>2, <3>3 DEF Goes, n
    <3>5. l = m
      BY <3>1, <3>3, <3>4
    <3> QED BY <1>12, <3>2, <3>3, <3>5
  <2>3. D(At(p)) = d /\ Sib(At(p), x)
    BY <1>1, <1>8, <2>1, <2>2, SibsAre DEF n, d
  <2> DEFINE b == src[k]
  <2>4. b \in 1 .. n /\ b < m /\ b \in 1 .. m - 1 /\ S(k) = At(b) /\ At(b) \in K
    BY <1>5
  <2>5. S(k) # 1 /\ p <= b /\ (Under(S(k), At(p)) => p < b)
    <3> HIDE DEF b
    <3>1. CASE S(k) = At(p)
      <4>1. b = p
        BY <2>1, <2>4, <3>1, SortedFacts, ZenonT(30) DEF n
      <4>2. ~ Under(S(k), At(p))
        BY <1>8, <2>1, <3>1, UnderBefore DEF n
      <4> QED BY <1>1, <1>12, <2>1, <3>1, <4>1, <4>2
    <3>2. CASE Under(S(k), At(p))
      <4>1. p < b
        BY <2>1, <2>4, <3>2, SortedFacts DEF n
      <4>2. b # 1
        BY <1>1, <2>1, <4>1
      <4> QED BY <1>1, <1>8, <2>1, <2>4, <4>1, <4>2
    <3> QED BY <1>12, <3>1, <3>2 DEF Within
  <2>6. k \in 2 .. k0
    <3>1. PICK i \in 2 .. k0 : src[i] = src[k]
      BY <1>10, <2>4, <2>5
    <3>2. i \in 1 .. k0
      BY <1>1, <3>1
    <3>3. i = k
      BY <1>6, <3>1, <3>2
    <3> QED BY <3>3
\* What is not deeper and comes after it would be another one of its level.
  <2>7. ASSUME last \in 1 .. k0, last > 1, p < src[last] PROVE FALSE
    <3> DEFINE a == src[last]
    <3>1. a \in 1 .. n /\ a < m /\ S(last) = At(a) /\ At(a) \in K /\ p < a
      BY <1>5, <2>7
    <3>2. D(At(a)) <= d
      BY <1>3, <2>7, <3>1
    <3> HIDE DEF a
    <3>3. Sib(At(a), At(p))
      <4>1. p <= a /\ a <= m /\ D(At(a)) <= D(At(p))
        BY <1>1, <2>1, <2>3, <3>1, <3>2
      <4>2. Sib(At(p), At(m))
        BY <2>3
      <4> QED BY <1>1, <2>1, <3>1, <4>1, <4>2, BetweenSibs DEF n
    <3>4. Goes(p, m, K)
      BY <3>1, <3>3 DEF Goes, n
    <3> QED BY <2>2, <3>4
  <2>8. ASSUME k <= last PROVE last \in 1 .. k0 /\ last > 1 /\ b <= src[last] /\ (k # last => b < src[last])
    <3>1. last > 1 /\ k \in 1 .. k0
      BY <1>1, <1>3, <2>6, <2>8
    <3>2. last \in 1 .. k0
      BY <1>1, <1>3, <3>1
    <3>3. k # last => k < last
      BY <1>1, <1>3, <2>8
    <3> QED BY <1>6, <2>8, <3>1, <3>2, <3>3
  <2>9. last \in 1 .. k0 => src[last] \in 1 .. n
    BY <1>5
  <2> HIDE DEF b
  <2>10. ASSUME S(k) = At(p) PROVE k = last /\ last > 1
    <3>1. k <= last
      BY <1>3, <1>9, <2>3, <2>6, <2>10
    <3>2. last \in 1 .. k0 /\ last > 1 /\ (k # last => b < src[last])
      BY <2>8, <3>1
    <3>3. k # last => p < src[last]
      BY <1>1, <2>1, <2>4, <2>5, <2>9, <3>2
    <3> QED BY <2>7, <3>2, <3>3
  <2>11. ASSUME Under(S(k), At(p)) PROVE k > last
    <3> SUFFICES ASSUME ~ (k > last) PROVE FALSE
      OBVIOUS
    <3>1. k <= last
      BY <1>1, <1>3
    <3>2. last \in 1 .. k0 /\ last > 1 /\ b <= src[last]
      BY <2>8, <3>1
    <3>3. p < src[last]
      BY <1>1, <2>1, <2>4, <2>5, <2>9, <2>11, <3>2
    <3> QED BY <2>7, <3>2, <3>3
  <2> QED BY <2>3, <2>10, <2>11
\* Behind the last one that is not deeper every level of the corner has ended.
<1>13. ASSUME NEW k \in 1 .. k0, k > last, NEW p \in 1 .. m - 1, Under(S(k), At(p)), At(p) # 1, D(At(p)) = d
       PROVE  ~ Goes(p, m, K)
  <2>1. p \in 1 .. n /\ p < m
    BY <1>1
  <2> DEFINE b == src[k]
  <2>2. b \in 1 .. n /\ S(k) = At(b)
    BY <1>5
  <2>3. ASSUME NEW l \in 1 .. n, p < l, Sib(At(l), At(p)), m < l \/ At(l) \in K PROVE FALSE
    <3>1. Sib(At(p), At(l)) /\ D(At(l)) = D(At(p)) /\ At(l) # 1
      BY <1>8, <2>1, <2>3, SibsAre DEF n
    <3>2. CASE m < l
      <4>1. p <= m /\ m <= l /\ D(At(m)) <= D(At(p))
        BY <1>1, <1>9, <1>13, <2>1, <3>2 DEF d
      <4>2. Sib(At(m), At(p))
        BY <1>1, <2>1, <3>1, <4>1, BetweenSibs DEF n
      <4>3. Sib(At(l), At(m))
        BY <2>3, <4>2 DEF Sib
      <4> QED BY <1>2, <3>2, <4>3
    <3>3. CASE ~ (m < l) /\ At(l) \in K
      <4>1. l # m
        BY <3>3
      <4>2. l \in 1 .. m - 1
        BY <1>1, <3>3, <4>1
      <4>3. PICK i \in 2 .. k0 : src[i] = l /\ S(i) = At(l)
        BY <1>10, <3>1, <3>3, <4>2
      <4>4. i <= last
        BY <1>3, <1>9, <1>13, <3>1, <4>3
      <4>5. i \in 1 .. k0 /\ i < k
        BY <1>1, <1>3, <1>13, <4>4
      <4>6. l < b
        BY <1>6, <4>3, <4>5
      <4> HIDE DEF b
      <4>7. Under(At(l), At(p))
        <5>1. p < b /\ Under(At(b), At(p)) /\ l <= b
          BY <1>1, <1>13, <2>1, <2>2, <2>3, <4>6
        <5> QED BY <2>1, <2>2, <2>3, <5>1, SortedFacts DEF n
      <4>8. D(At(p)) < D(At(l)) /\ D(At(l)) \in Nat
        BY <1>8, <4>7, UnderBefore DEF n
      <4> QED BY <3>1, <4>8
    <3> QED BY <2>3, <3>2, <3>3
  <2> QED BY <2>3 DEF Goes, n
<1>14. ASSUME NEW k \in 1 .. k0, S(k) # 1 PROVE t[k].stub <=> ~ Goes(src[k], m, K)
  <2>1. CASE k = last /\ last > 1 /\ D(S(k)) = d
    <3>1. t[k].stub
      BY <1>3, <2>1
    <3>2. ~ Goes(src[k], m, K)
      BY <1>11, <2>1
    <3> QED BY <3>1, <3>2
  <2>2. CASE ~ (k = last /\ last > 1 /\ D(S(k)) = d)
    <3>1. t[k].stub = s[k].stub
      BY <1>3, <2>2
    <3>2. s[k].stub <=> ~ Goes(src[k], m - 1, K)
      BY <1>14 DEF Marked, k0
    <3>3. Goes(src[k], m, K) <=> Goes(src[k], m - 1, K)
      <4> DEFINE p == src[k]
      <4>1. p \in 1 .. m - 1 /\ Within(S(k), At(p)) /\ At(p) # 1 /\ S(k) = At(p)
        BY <1>5, <1>14 DEF Within
      <4> HIDE DEF p
      <4>2. ~ (Goes(p, m, K) <=> Goes(p, m - 1, K)) => k = last /\ last > 1 /\ D(At(p)) = d
        BY <1>12, <4>1
      <4>4. Goes(p, m, K) <=> Goes(p, m - 1, K)
        BY <2>2, <4>1, <4>2
      <4> QED BY <4>4 DEF p
    <3> QED BY <3>1, <3>2, <3>3
  <2> QED BY <2>1, <2>2
<1>15. ASSUME NEW k \in 1 .. k0, NEW p \in 1 .. m, At(p) # 1, Under(S(k), At(p))
       PROVE  D(At(p)) - 1 \in t[k].vlines <=> Goes(p, m, K)
  <2>1. p \in 1 .. n /\ src[k] \in 1 .. n /\ src[k] < m /\ Under(At(src[k]), At(p))
    BY <1>1, <1>5, <1>15
  <2>2. p \in 1 .. m - 1 /\ p \in 1 .. n
    <3>1. p < src[k]
      BY <2>1, SortedFacts DEF n
    <3> QED BY <1>1, <2>1, <3>1
  <2>3. D(At(p)) - 1 \in s[k].vlines <=> Goes(p, m - 1, K)
    BY <1>15, <2>2 DEF Marked, k0
  <2>4. Within(S(k), At(p))
    BY <1>15 DEF Within
  <2>5. CASE k > last
    <3>1. t[k].vlines = s[k].vlines \ {d - 1}
      BY <1>3, <2>5
    <3>2. CASE D(At(p)) = d
      <4>1. ~ Goes(p, m, K)
        BY <1>13, <1>15, <2>2, <2>5, <3>2
      <4>2. D(At(p)) - 1 \notin t[k].vlines
        BY <3>1, <3>2
      <4> QED BY <4>1, <4>2
    <3>3. CASE D(At(p)) # d
      <4>1. Goes(p, m, K) <=> Goes(p, m - 1, K)
        BY <1>12, <1>15, <2>2, <2>4, <3>3
      <4> DEFINE e == D(At(p))
      <4>2. e \in Nat /\ e # d
        BY <1>8, <2>2, <3>3
      <4> HIDE DEF e
      <4>3. e - 1 # d - 1
        BY <1>9, <4>2
      <4>4. e - 1 \in t[k].vlines <=> e - 1 \in s[k].vlines
        BY <3>1, <4>3
      <4> QED BY <2>3, <4>1, <4>4 DEF e
    <3> QED BY <3>2, <3>3
  <2>6. CASE ~ (k > last)
    <3>1. t[k].vlines = s[k].vlines
      BY <1>3, <2>6
    <3>2. Goes(p, m, K) <=> Goes(p, m - 1, K)
      BY <1>12, <1>15, <2>2, <2>4, <2>6
    <3> QED BY <2>3, <3>1, <3>2
  <2> QED BY <2>5, <2>6
<1>16. Marked(t, src, m, K)
  BY <1>3, <1>14, <1>15 DEF Marked
<1> QED BY <1>4, <1>16

\* The list is gone through from its first to its last.
KeepStep(newdepth, deviatonly, s, c) ==
  IF cgroupfilter(c.cg, newdepth, deviatonly) THEN Append(s, c)
  ELSE IF c.stub THEN PassStub(s, chain[c.cg].depth)
  ELSE s
Leaves(f, newdepth, deviatonly) ==
  f = [m \in 0 .. Len(cgsorted) |->
         IF m = 0 THEN << >> ELSE KeepStep(newdepth, deviatonly, f[m - 1], cgsorted[m])]

LEMMA MergeIs ==
  ASSUME CgTree, ListSorted, NEW nd, NEW only
  PROVE  \E f : /\ f[0] = << >> /\ Merge(nd, only) = f[Len(chain)]
                /\ \A m \in 1 .. Len(chain) : f[m] = KeepStep(nd, only, f[m - 1], cgsorted[m])
<1> DEFINE n == Len(chain)
           T == Seq(ListEntry)
           F == [ks \in (1 .. n) \X T |-> KeepStep(nd, only, ks[2], cgsorted[ks[1]])]
<1>1. n \in Nat /\ Len(cgsorted) = n /\ << >> \in T /\ \A m \in 1 .. n : cgsorted[m] \in ListEntry
  <2>1. << >> \in T
    OBVIOUS
  <2> QED BY <2>1, ListPlaces, CgTreeIs
<1>2. ASSUME NEW k \in 1 .. n, NEW t \in T
      PROVE  F[<<k, t>>] = KeepStep(nd, only, t, cgsorted[k]) /\ F[<<k, t>>] \in T
  <2> DEFINE c == cgsorted[k]
  <2>1. F[<<k, t>>] = KeepStep(nd, only, t, c)
    OBVIOUS
  <2>2. c \in ListEntry /\ c.cg \in 1 .. n
    BY <1>1 DEF ListEntry
  <2> HIDE DEF c, F
  <2>3. Append(t, c) \in Seq(ListEntry)
    BY <2>2
  <2>4. chain[c.cg].depth \in Nat
    BY <2>2, CgTreeIs
  <2>5. PassStub(t, chain[c.cg].depth) \in Seq(ListEntry)
    BY <2>4, PassStubIs DEF StubPassed
  <2>6. KeepStep(nd, only, t, c) \in Seq(ListEntry)
    BY <2>3, <2>5 DEF KeepStep
  <2> QED BY <2>1, <2>6 DEF c
<1> HIDE DEF F, n, T
<1>3. PICK g : g \in [0 .. n -> T] /\ g[0] = << >> /\ \A k \in 1 .. n : g[k] = F[<<k, g[k - 1]>>]
  <2>1. Stays(F, n, T)
    BY <1>2 DEF Stays
  <2>2. \E g : Iterates(g, F, n, T, << >>)
    BY <1>1, <2>1, Iterated
  <2> QED BY <2>2 DEF Iterates
<1>4. \A k \in 1 .. n : g[k] = KeepStep(nd, only, g[k - 1], cgsorted[k])
  <2> TAKE k \in 1 .. n
  <2>1. g[k - 1] \in T
    BY <1>1, <1>3
  <2> QED BY <1>2, <1>3, <2>1
<1>5. \E f : Leaves(f, nd, only)
  <2> DEFINE f == [m \in 0 .. Len(cgsorted) |-> g[m]]
  <2>1. \A m \in 0 .. Len(cgsorted) :
          f[m] = IF m = 0 THEN << >> ELSE KeepStep(nd, only, f[m - 1], cgsorted[m])
    <3> TAKE m \in 0 .. Len(cgsorted)
    <3>1. CASE m = 0
      BY <1>3, <3>1
    <3>2. CASE m # 0
      <4>1. m \in 1 .. n /\ m - 1 \in 0 .. Len(cgsorted) /\ m \in 0 .. Len(cgsorted)
        BY <1>1, <3>2
      <4>2. f[m] = g[m] /\ f[m - 1] = g[m - 1]
        BY <4>1
      <4> HIDE DEF f
      <4> QED BY <1>4, <3>2, <4>1, <4>2
    <3> QED BY <3>1, <3>2
  <2>2. f = [m \in 0 .. Len(cgsorted) |-> f[m]]
    OBVIOUS
  <2> HIDE DEF f
  <2>3. f = [m \in 0 .. Len(cgsorted) |->
               IF m = 0 THEN << >> ELSE KeepStep(nd, only, f[m - 1], cgsorted[m])]
    BY <2>1, <2>2
  <2>4. Leaves(f, nd, only)
    BY <2>3, Zenon DEF Leaves
  <2> QED BY <2>4
<1> DEFINE c == CHOOSE f : Leaves(f, nd, only)
<1>6. Leaves(c, nd, only)
  BY <1>5
<1>7. Merge(nd, only) = c[Len(cgsorted)]
  BY Zenon DEF Merge, Leaves, KeepStep
<1> HIDE DEF c
<1>8. \A m \in 0 .. Len(cgsorted) :
        c[m] = IF m = 0 THEN << >> ELSE KeepStep(nd, only, c[m - 1], cgsorted[m])
  <2>1. c = [m \in 0 .. Len(cgsorted) |->
               IF m = 0 THEN << >> ELSE KeepStep(nd, only, c[m - 1], cgsorted[m])]
    BY <1>6, Zenon DEF Leaves
  <2> QED BY <2>1, Zenon
<1>9. c[0] = << >> /\ \A m \in 1 .. n : c[m] = KeepStep(nd, only, c[m - 1], cgsorted[m])
  <2>1. 0 \in 0 .. Len(cgsorted) /\ \A m \in 1 .. n : m \in 0 .. Len(cgsorted) /\ m # 0
    BY <1>1
  <2> QED BY <1>8, <2>1
<1> QED BY <1>1, <1>7, <1>9 DEF n

\* What mergecgrouplist() keeps is right, whichever cgroups are wanted.
ShownRight(s) == \E K, src : Wanted(K) /\ Selects(s, src, Len(chain), K) /\ Marked(s, src, Len(chain), K)

LEMMA MergedRight ==
  ASSUME CgTree, ListSorted, NEW nd \in 2 .. 9, NEW only \in BOOLEAN
  PROVE  ShownRight(Merge(nd, only))
<1> DEFINE n == Len(chain)
           K == {i \in 1 .. n : cgroupfilter(i, nd, only)}
<1>1. Wanted(K) /\ n \in Nat
  BY CgTreeIs DEF cgroupfilter, Wanted
<1>2. PICK f : /\ f[0] = << >> /\ Merge(nd, only) = f[n]
               /\ \A m \in 1 .. n : f[m] = KeepStep(nd, only, f[m - 1], cgsorted[m])
  BY MergeIs
<1>3. \A i \in 1 .. n : i \in K <=> cgroupfilter(i, nd, only)
  OBVIOUS
<1> DEFINE Right(m) == \E src : Selects(f[m], src, m, K) /\ Marked(f[m], src, m, K)
           G == {m \in 0 .. n : Right(m)}
<1> HIDE DEF K, n
<1>4. 0 \in G
  <2> DEFINE z == [p \in 1 .. 0 |-> 0]
  <2>1. << >> \in Seq(ListEntry) /\ Len(<< >>) = 0 /\ z \in [1 .. 0 -> 1 .. 0]
    OBVIOUS
  <2>2. Selects(<< >>, z, 0, K) /\ Marked(<< >>, z, 0, K)
    BY <2>1 DEF Selects, Marked
  <2> QED BY <1>1, <1>2, <2>2
<1>5. ASSUME NEW m \in 1 .. n, m - 1 \in G PROVE m \in G
  <2> DEFINE s == f[m - 1]
             c == cgsorted[m]
  <2>1. m \in 1 .. Len(chain) /\ m \in 0 .. n
    BY <1>1 DEF n
  <2>2. PICK src : Selects(s, src, m - 1, K) /\ Marked(s, src, m - 1, K)
    BY <1>5
  <2>3. f[m] = KeepStep(nd, only, s, c) /\ c.cg = At(m) /\ At(m) \in 1 .. n
    BY <1>2, <2>1, SortedFacts DEF At, n
  <2>4. s \in Seq(ListEntry)
    BY <2>2 DEF Selects
  <2> HIDE DEF s
  <2>5. Right(m)
    <3>1. CASE At(m) \in K
      <4>1. f[m] = Append(s, c)
        BY <1>3, <2>3, <3>1 DEF KeepStep
      <4> QED BY <1>1, <2>1, <2>2, <3>1, <4>1, WantedAdded
    <3>2. CASE At(m) \notin K /\ c.stub
      <4>1. f[m] = PassStub(s, chain[At(m)].depth)
        BY <1>3, <2>3, <3>2 DEF KeepStep
      <4>2. chain[At(m)].depth \in Nat
        BY <2>3, CgTreeIs DEF n
      <4>3. PICK last : StubPassed(s, PassStub(s, chain[At(m)].depth), chain[At(m)].depth, last)
        BY <2>4, <4>2, PassStubIs
      <4>4. StubPassed(s, f[m], chain[At(m)].depth, last)
        BY <4>1, <4>3
      <4> QED BY <1>1, <2>1, <2>2, <3>2, <4>4, StubGiven
    <3>3. CASE At(m) \notin K /\ ~ c.stub
      <4>1. f[m] = s
        BY <1>3, <2>3, <3>3 DEF KeepStep
      <4> QED BY <1>1, <2>1, <2>2, <3>3, <4>1, Skipped
    <3> QED BY <3>1, <3>2, <3>3
  <2> QED BY <2>1, <2>5
<1> HIDE DEF G
<1>6. 0 .. n \subseteq G
  BY <1>1, <1>4, <1>5, Upwards
<1>7. Right(n)
  BY <1>1, <1>6 DEF G
<1> QED BY <1>1, <1>2, <1>7 DEF ShownRight, n

LEMMA LinesDo == ASSUME CgTree, ListSorted, ShownRight(shown) PROVE LinesFit
<1> DEFINE n == Len(chain)
           k0 == Len(shown)
           S(k) == shown[k].cg
<1> PICK K, src : Wanted(K) /\ Selects(shown, src, n, K) /\ Marked(shown, src, n, K)
  BY DEF ShownRight
<1>1. n \in Nat /\ DOMAIN chain = 1 .. n /\ k0 \in Nat /\ DOMAIN shown = 1 .. k0
  <2>1. shown \in Seq(ListEntry)
    BY DEF Selects
  <2> QED BY <2>1, CgTreeIs
<1> HIDE DEF n, k0
<1>2. ASSUME NEW k \in 1 .. k0
      PROVE  src[k] \in 1 .. n /\ S(k) = At(src[k]) /\ S(k) \in K /\ S(k) \in 1 .. n
  <2>1. src[k] \in 1 .. n /\ S(k) = At(src[k]) /\ S(k) \in K
    BY DEF Selects, k0
  <2> QED BY <2>1, SortedFacts DEF n
<1>3. ASSUME NEW k \in 1 .. k0, NEW l \in 1 .. k0 PROVE k < l <=> src[k] < src[l]
  <2>1. (k < l => src[k] < src[l]) /\ (l < k => src[l] < src[k])
    BY DEF Selects, k0
  <2> DEFINE a == src[k]
             b == src[l]
  <2>2. a \in 1 .. n /\ b \in 1 .. n
    BY <1>2
  <2>3. (k < l => a < b) /\ (l < k => b < a) /\ (k = l => a = b)
    BY <2>1
  <2> HIDE DEF a, b
  <2>4. k < l <=> a < b
    BY <1>1, <2>2, <2>3
  <2> QED BY <2>4 DEF a, b
<1>4. \A l \in 1 .. n : At(l) \in K => \E k \in 1 .. k0 : src[k] = l
  BY DEF Selects, k0
\* A level goes on in the list that is shown when it goes on behind the one at place p.
<1>5. ASSUME NEW k \in 1 .. k0, NEW p \in 1 .. n, At(p) # 1, Within(S(k), At(p))
      PROVE  Goes(p, n, K) <=> Follows(k, At(p))
  <2> DEFINE a == src[k]
  <2>1. a \in 1 .. n /\ S(k) = At(a) /\ At(p) \in 1 .. n
    BY <1>2, SortedFacts DEF n
  <2>2. p <= a
    <3>1. CASE S(k) = At(p)
      <4>1. a = p
        BY <2>1, <3>1, SortedFacts DEF n
      <4> QED BY <1>1, <4>1
    <3>2. CASE Under(S(k), At(p))
      BY <1>1, <2>1, <3>2, SortedFacts, SMTT(20) DEF n
    <3> QED BY <1>5, <3>1, <3>2 DEF Within
  <2> HIDE DEF a
  <2>3. ASSUME NEW l \in 1 .. n, p < l, Sib(At(l), At(p)) PROVE a < l
    <3> SUFFICES ASSUME ~ (a < l) PROVE FALSE
      OBVIOUS
    <3>1. l <= a /\ At(l) \in 1 .. n
      BY <1>1, <2>1, SortedFacts DEF n
    <3>2. CASE S(k) = At(p)
      <4>1. a = p
        BY <2>1, <3>2, SortedFacts DEF n
      <4> QED BY <1>1, <2>3, <3>1, <4>1
    <3>3. CASE Under(S(k), At(p))
      <4>1. Under(At(l), At(p))
        BY <2>1, <2>3, <3>1, <3>3, SortedFacts DEF n
      <4> QED BY <2>1, <2>3, <3>1, <4>1, SibIs DEF n
    <3> QED BY <1>5, <3>2, <3>3 DEF Within
  <2>4. ASSUME Goes(p, n, K) PROVE Follows(k, At(p))
    <3>1. PICK l \in 1 .. n : p < l /\ Sib(At(l), At(p)) /\ (n < l \/ At(l) \in K)
      BY <2>4 DEF Goes, n
    <3>2. At(l) \in K /\ a < l
      BY <1>1, <2>3, <3>1
    <3>3. PICK q \in 1 .. k0 : src[q] = l
      BY <1>4, <3>2
    <3>4. k < q
      BY <1>3, <3>2, <3>3 DEF a
    <3>5. q \in k + 1 .. k0 /\ S(q) = At(l)
      <4>1. q \in k + 1 .. k0
        BY <1>1, <3>4
      <4> QED BY <1>2, <3>3, <4>1
    <3> QED BY <3>1, <3>5 DEF Follows, Sib, k0
  <2>5. ASSUME Follows(k, At(p)) PROVE Goes(p, n, K)
    <3>1. PICK q \in k + 1 .. k0 : S(q) # 1 /\ Parent(S(q)) = Parent(At(p))
      BY <2>5 DEF Follows, k0
    <3>2. q \in 1 .. k0 /\ k < q
      BY <1>1
    <3> DEFINE l == src[q]
    <3>3. l \in 1 .. n /\ S(q) = At(l) /\ At(l) \in K /\ a < l
      BY <1>2, <1>3, <3>2 DEF a
    <3> HIDE DEF l
    <3>4. p < l /\ Sib(At(l), At(p))
      <4>1. p < l
        BY <1>1, <2>1, <2>2, <3>3
      <4> QED BY <1>5, <3>1, <3>3, <4>1 DEF Sib
    <3> QED BY <3>3, <3>4 DEF Goes, n
  <2> QED BY <2>4, <2>5
<1>6. ASSUME NEW k \in 1 .. k0, S(k) # 1 PROVE shown[k].stub <=> ~ Follows(k, S(k))
  <2>1. src[k] \in 1 .. n /\ S(k) = At(src[k]) /\ Within(S(k), At(src[k]))
    BY <1>2 DEF Within
  <2>2. shown[k].stub <=> ~ Goes(src[k], n, K)
    BY <1>6 DEF Marked, k0
  <2>3. Goes(src[k], n, K) <=> Follows(k, At(src[k]))
    BY <1>5, <1>6, <2>1
  <2> QED BY <2>1, <2>2, <2>3
<1>7. ASSUME NEW k \in 1 .. k0, NEW j \in DOMAIN chain \ {1}, Under(S(k), j)
      PROVE  chain[j].depth - 1 \in shown[k].vlines <=> Follows(k, j)
  <2>1. PICK p \in 1 .. n : At(p) = j
    BY <1>1, SortedFacts DEF n
  <2>2. chain[At(p)].depth - 1 \in shown[k].vlines <=> Goes(p, n, K)
    BY <1>7, <2>1 DEF Marked, k0
  <2>3. Goes(p, n, K) <=> Follows(k, At(p))
    BY <1>5, <1>7, <2>1 DEF Within
  <2> QED BY <2>1, <2>2, <2>3
<1> QED BY <1>1, <1>6, <1>7 DEF LinesFit

LEMMA InitTree ==
  ASSUME NEW d \in Depths, NEW v \in [DOMAIN d -> SortVals], NEW u \in Usages(d),
         chain = [i \in DOMAIN d |-> [depth |-> d[i], sortval |-> v[i], used |-> u[i]]]
  PROVE  CgTree
<1>1. PICK n \in 1 .. MaxCgroups : /\ d \in [1 .. n -> 0 .. n - 1] /\ d[1] = 0
                                   /\ \A i \in 2 .. n : d[i] \in 1 .. d[i - 1] + 1
  BY DEF Depths
<1>2. n \in Nat /\ 1 \in 1 .. n /\ DOMAIN d = 1 .. n
  BY <1>1, CgroupListAssumption
<1>3. \A i \in 1 .. n : d[i] \in Nat /\ v[i] \in Nat /\ u[i] \in BOOLEAN
  <2>1. v \in [1 .. n -> SortVals] /\ u \in [1 .. n -> BOOLEAN]
    BY <1>2 DEF Usages
  <2>2. \A i \in 1 .. n : v[i] \in SortVals /\ u[i] \in BOOLEAN
    BY <2>1
  <2>3. \A i \in 1 .. n : d[i] \in 0 .. n - 1
    BY <1>1
  <2>4. \A i \in 1 .. n : v[i] \in Nat
    BY <2>2, CgroupListAssumption
  <2>5. \A x \in 0 .. n - 1 : x \in Nat
    BY <1>2
  <2>6. \A i \in 1 .. n : d[i] \in Nat
    BY <2>3, <2>5
  <2> QED BY <2>2, <2>4, <2>6
<1>4. /\ chain \in Seq(Cgroup) /\ Len(chain) = n
      /\ \A i \in 1 .. n : chain[i].depth = d[i] /\ chain[i].used = u[i]
  <2>1. chain = [i \in 1 .. n |-> [depth |-> d[i], sortval |-> v[i], used |-> u[i]]]
    BY <1>2
  <2>2. \A i \in 1 .. n : [depth |-> d[i], sortval |-> v[i], used |-> u[i]] \in Cgroup
    BY <1>3 DEF Cgroup
  <2>3. chain \in Seq(Cgroup) /\ Len(chain) = n
    BY <1>2, <2>1, <2>2
  <2> QED BY <2>1, <2>3
<1>5. u[1]
  BY DEF Usages
<1>6. ASSUME NEW i \in 2 .. n
      PROVE  Parent(i) \in 1 .. i - 1 /\ chain[i].depth = chain[Parent(i)].depth + 1
  <2> DEFINE T == {j \in 1 .. i - 1 : d[j] < d[i]}
             h == Max(T)
  <2>1. i \in Nat /\ i \in 1 .. n /\ 1 \in 1 .. i - 1 /\ \A j \in 1 .. i - 1 : j \in 1 .. n /\ j + 1 \in 2 .. n
    BY <1>2
  <2>2. T = {j \in 1 .. i - 1 : chain[j].depth < chain[i].depth}
    BY <1>4, <2>1
  <2>3. Parent(i) = h
    BY <2>2, Zenon DEF Parent
  <2>4. h \in T /\ \A j \in T : h >= j
    <3>1. 1 \in T
      BY <1>1, <2>1
    <3>2. T \subseteq 0 .. i /\ T # {}
      BY <2>1, <3>1
    <3> HIDE DEF T
    <3> QED BY <2>1, <3>2, MaxBounded
  <2> HIDE DEF h
  <2>6. h \in 1 .. i - 1 /\ d[h] < d[i] /\ h + 1 \in 2 .. n /\ h \in 1 .. n
    BY <2>1, <2>4
  <2>7. d[h + 1] \in 1 .. d[h] + 1
    <3>1. d[h + 1] \in 1 .. d[(h + 1) - 1] + 1
      BY <1>1, <2>6
    <3>2. (h + 1) - 1 = h
      BY <2>6
    <3> QED BY <3>1, <3>2
  <2>8. h + 1 # i => h + 1 \in 1 .. i - 1 /\ ~ (h + 1 \in T)
    <3>1. h + 1 \in Nat /\ ~ (h >= h + 1)
      BY <2>1, <2>6
    <3>2. h + 1 # i => h + 1 \in 1 .. i - 1
      BY <2>1, <2>6
    <3> HIDE DEF T
    <3> QED BY <2>4, <3>1, <3>2
  <2>9. d[h + 1] >= d[i]
    <3> DEFINE a == d[h + 1]
               b == d[i]
    <3>1. a \in Nat /\ b \in Nat
      BY <1>3, <2>1, <2>6
    <3>2. h + 1 = i => a = b
      OBVIOUS
    <3>3. h + 1 # i => ~ (a < b)
      BY <2>8
    <3> HIDE DEF a, b
    <3>4. a >= b
      BY <3>1, <3>2, <3>3
    <3> QED BY <3>4 DEF a, b
  <2>10. d[i] = d[h] + 1
    <3> DEFINE a == d[h + 1]
               b == d[i]
               c == d[h]
    <3>1. b \in Nat /\ c \in Nat /\ a \in 1 .. c + 1 /\ a >= b /\ c < b
      BY <1>3, <2>1, <2>6, <2>7, <2>9
    <3> HIDE DEF a, b, c
    <3>2. b = c + 1
      BY <3>1
    <3> QED BY <3>2 DEF b, c
  <2> QED BY <1>4, <2>1, <2>3, <2>6, <2>10
<1>7. chain[1].depth = 0 /\ chain[1].used
  BY <1>1, <1>2, <1>4, <1>5
<1>8. Len(chain) > 0
  BY <1>2, <1>4
<1> QED BY <1>4, <1>6, <1>7, <1>8 DEF CgTree

-----------------------------------------------------------------------------
\* The inductive invariant: a chain that is a tree, its list once it is sorted, and what is shown.
ListInv ==
  \/ chain = << >> /\ cgsorted = << >> /\ shown = << >>
  \/ CgTree /\ cgsorted = << >> /\ shown = << >>
  \/ CgTree /\ ListSorted /\ (shown = << >> \/ ShownRight(shown))

LEMMA ListInvFits == ASSUME ListInv PROVE ListRight
<1>1. shown = << >> => LinesFit
  BY DEF LinesFit
<1>2. cgsorted = << >> => SortedTree
  BY DEF SortedTree
<1>3. CASE CgTree /\ ListSorted
  BY <1>1, <1>3, TreeIsSorted, LinesDo DEF ListInv, ListRight, ListSorted
<1> QED BY <1>1, <1>2, <1>3 DEF ListInv, ListRight

\* What is said of the chain is said of it after a step that leaves it.
LEMMA ChainStays ==
  ASSUME chain' = chain
  PROVE  /\ CgTree' = CgTree /\ ListEntry' = ListEntry /\ Above' = Above
         /\ \A i : Parent(i)' = Parent(i)
<1>1. \A i : Parent(i)' = Parent(i)
  BY DEF Parent
<1>2. Above' = Above
  BY DEF Above, Parent
<1>3. CgTree' = CgTree
  BY <1>1 DEF CgTree
<1>4. ListEntry' = ListEntry
  BY DEF ListEntry
<1> QED BY <1>1, <1>2, <1>3, <1>4

LEMMA ForestStays ==
  ASSUME chain' = chain, NEW L, Forest(L, 1 .. Len(chain), 0, {}, 1), cgsorted' = L,
         Len(L) > 0, L[1].cg = 1
  PROVE  ListSorted'
<1>1. ListEntry' = ListEntry /\ Above' = Above /\ \A i : Parent(i)' = Parent(i)
  BY ChainStays
<1>2. Covers(L, 1 .. Len(chain)) /\ LinesAbove(L, 0, {}) /\ L \in Seq(ListEntry) /\ Nests(L) /\ Falls(L)
      /\ StubMarks(L, 1) /\ LineMarks(L, 1)
  BY DEF Forest
<1>3. Nests(cgsorted)'
  BY <1>1, <1>2 DEF Nests, Under
<1>4. \A x, y : Sib(x, y)' <=> Sib(x, y)
  BY <1>1 DEF Sib
<1>5. Falls(cgsorted)'
  BY <1>2, <1>4 DEF Falls
<1>6. \A p : Later(cgsorted, p)' <=> Later(L, p)
  BY <1>4 DEF Later
<1>7. StubMarks(cgsorted, 1)'
  BY <1>2, <1>6 DEF StubMarks
<1>8. LineMarks(cgsorted, 1)'
  BY <1>1, <1>2, <1>6 DEF LineMarks, Under
<1>9. (Covers(cgsorted, 1 .. Len(chain)) /\ LinesAbove(cgsorted, 0, {}) /\ cgsorted \in Seq(ListEntry))'
  BY <1>1, <1>2 DEF Covers, LinesAbove
<1> QED BY <1>3, <1>5, <1>7, <1>8, <1>9 DEF ListSorted, Forest

LEMMA ShownStays ==
  ASSUME chain' = chain, cgsorted' = cgsorted, NEW s, ShownRight(s), shown' = s
  PROVE  ShownRight(shown)'
<1>1. ListEntry' = ListEntry /\ Above' = Above /\ \A i : Parent(i)' = Parent(i)
  BY ChainStays
<1> PICK K, src : Wanted(K) /\ Selects(s, src, Len(chain), K) /\ Marked(s, src, Len(chain), K)
  BY DEF ShownRight
<1>2. \A p : At(p)' = At(p)
  BY DEF At
<1>3. \A x, y : (Sib(x, y)' <=> Sib(x, y)) /\ (Under(x, y)' <=> Under(x, y))
  BY <1>1 DEF Sib, Under
<1>4. Wanted(K)'
  BY <1>1 DEF Wanted
<1>5. \A p, m : Goes(p, m, K)' <=> Goes(p, m, K)
  BY <1>2, <1>3 DEF Goes
<1>6. Selects(shown, src, Len(chain), K)'
  BY <1>1, <1>2 DEF Selects
<1>7. Marked(shown, src, Len(chain), K)'
  BY <1>2, <1>3, <1>5 DEF Marked
<1> QED BY <1>4, <1>6, <1>7 DEF ShownRight

\* The list of cgroups has every cgroup once, each below its parent with all
\* below it and the larger consumer of a level first; and the lines drawn fit
\* what is shown of it, whichever cgroups are left out (cgsort(),
\* mergecgrouplist()).
THEOREM ListIsRight == Spec => []ListRight
<1>1. Init => ListInv
  <2>1. ListInit => ListInv
    <3> SUFFICES ASSUME ListInit PROVE ListInv
      OBVIOUS
    <3>1. CgTree
      BY InitTree DEF ListInit
    <3> QED BY <3>1 DEF ListInit, ListInv
  <2>2. ListOff => ListInv
    BY DEF ListOff, ListInv
  <2> QED BY <2>1, <2>2 DEF Init
<1>2. ListInv /\ [Next]_vars => ListInv'
  <2> SUFFICES ASSUME ListInv, [Next]_vars PROVE ListInv'
    OBVIOUS
  <2>1. CASE cgsort
    <3> DEFINE L == <<[cg |-> 1, stub |-> TRUE, vlines |-> {}]>> \o mergelevel(1, {})
    <3>1. cgsorted = << >> /\ chain # << >> /\ cgsorted' = L /\ chain' = chain /\ shown' = shown
      BY <2>1 DEF cgsort
    <3>2. CgTree /\ shown = << >>
      BY <3>1 DEF ListInv, ListSorted
    <3>3. Forest(L, 1 .. Len(chain), 0, {}, 1) /\ Len(L) > 0 /\ L[1].cg = 1
      BY <3>2, RootAdded
    <3> HIDE DEF L
    <3>4. ListSorted'
      BY <3>1, <3>3, ForestStays
    <3>5. CgTree' /\ shown' = << >>
      BY <3>1, <3>2, ChainStays
    <3> QED BY <3>4, <3>5 DEF ListInv
  <2>2. CASE mergecgrouplist
    <3>1. cgsorted # << >> /\ shown = << >> /\ chain' = chain /\ cgsorted' = cgsorted
      BY <2>2 DEF mergecgrouplist
    <3>2. PICK nd \in 2 .. 9, only \in BOOLEAN : shown' = Merge(nd, only)
      BY <2>2 DEF mergecgrouplist
    <3>3. CgTree /\ ListSorted
      BY <3>1 DEF ListInv
    <3>4. ShownRight(shown)'
      <4>1. ShownRight(Merge(nd, only))
        BY <3>3, MergedRight
      <4> QED BY <3>1, <3>2, <4>1, ShownStays
    <3>5. CgTree' /\ ListSorted'
      BY <3>1, <3>3, ChainStays, ForestStays DEF ListSorted
    <3> QED BY <3>4, <3>5 DEF ListInv
  <2>3. CASE UNCHANGED lvars
    <3>1. chain' = chain /\ cgsorted' = cgsorted /\ shown' = shown
      BY <2>3 DEF lvars
    <3>2. CgTree => CgTree'
      BY <3>1, ChainStays
    <3>3. ListSorted => ListSorted'
      BY <3>1, ForestStays DEF ListSorted
    <3>4. ShownRight(shown) => ShownRight(shown)'
      BY <3>1, ShownStays
    <3> QED BY <3>1, <3>2, <3>3, <3>4 DEF ListInv
  <2> QED BY <2>1, <2>2, <2>3 DEF Next, ListNext, vars
<1>3. ListInv => ListRight
  BY ListInvFits
<1> QED BY <1>1, <1>2, <1>3, PTL DEF Spec
=============================================================================
