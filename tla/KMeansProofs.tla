---------------------------- MODULE KMeansProofs ----------------------------
(***************************************************************************)
(* Theorems about KMeans and BisectionKMeans for any data, number of       *)
(* clusters, limits and calls.                                             *)
(*                                                                         *)
(* KInv is what every step keeps.  AssignedIs says what a turn does to the *)
(* points of a cluster: those come that it is nearest to and has not, and  *)
(* those stay that it is nearest to and has, so that a partition stays one *)
(* and no points at all become one.  SettledWhenStill is what a zero       *)
(* residual means: no centroid has moved, so that all points are where the *)
(* assignment put them.                                                    *)
(*                                                                         *)
(* That the cost falls has two halves.  An assignment gives every row the  *)
(* nearest centroid: the cost is the number of pairs of a row and a number *)
(* up to its square (Stacks), and the pairs of the new clusters are among  *)
(* those of the old ones row by row.  A new centroid is the mean, exactly  *)
(* (ExactAssumption): SquaresDiffer shows what the squares about another   *)
(* number have more, which is not negative and zero only for the mean.     *)
(***************************************************************************)
EXTENDS KMeans, FiniteSetTheorems, SequenceTheorems, WellFoundedInduction, TLAPS

-----------------------------------------------------------------------------
(* Induction along a loop, and the loops of the model.                      *)

Smaller == {p \in Nat \X Nat : p[1] < p[2]}

LEMMA LeastExists == ASSUME NEW S, S \subseteq Nat, S # {}
                     PROVE  \E x \in S : \A y \in S : x <= y
<1>1. IsWellFoundedOn(Smaller, Nat)
  <2>1. OpToRel(<, Nat) = Smaller
    BY DEF OpToRel, Smaller
  <2> QED BY <2>1, NatLessThanWellFounded
<1>2. PICK x \in S : \A y \in S : ~(<<y, x>> \in Smaller)
  BY <1>1, WFMin
<1>3. \A y \in S : x \in Nat /\ y \in Nat /\ ~(y < x)
  BY <1>2 DEF Smaller
<1>4. \A y \in S : x <= y
  BY <1>3
<1> QED BY <1>4

\* What is good at first and is kept by every turn is good throughout.
LEMMA Throughout ==
    ASSUME NEW n \in Nat, NEW good, 0 \in good, \A i \in 1 .. n : i - 1 \in good => i \in good
    PROVE  \A i \in 0 .. n : i \in good
<1> DEFINE bad == {i \in 0 .. n : i \notin good}
<1>1. SUFFICES ASSUME bad # {} PROVE FALSE
  OBVIOUS
<1>2. bad \subseteq Nat
  OBVIOUS
<1>3. PICK b \in bad : \A y \in bad : b <= y
  <2> HIDE DEF bad
  <2> QED BY <1>1, <1>2, LeastExists
<1>4. b \in 1 .. n /\ b - 1 \in 0 .. n /\ ~(b <= b - 1)
  BY <1>3
<1>5. b - 1 \in good
  BY <1>3, <1>4
<1> QED BY <1>3, <1>4, <1>5

\* The function of which Total is the last value.
Sums(s) == CHOOSE sum : sum = [i \in 0 .. Len(s) |-> IF i = 0 THEN 0 ELSE sum[i - 1] + s[i]]

LEMMA SumsAre ==
    ASSUME NEW s, Len(s) \in Nat
    PROVE  /\ Sums(s)[0] = 0
           /\ \A i \in 1 .. Len(s) : Sums(s)[i] = Sums(s)[i - 1] + s[i]
           /\ Total(s) = Sums(s)[Len(s)]
<1> DEFINE law(sum, m) == sum = [i \in 0 .. m |-> IF i = 0 THEN 0 ELSE sum[i - 1] + s[i]]
           good == {m \in 0 .. Len(s) : \E sum : law(sum, m)}
<1>1. 0 \in good
  <2>1. PICK h : h = [i \in 0 .. 0 |-> 0]
    OBVIOUS
  <2>2. law(h, 0)
    BY <2>1
  <2> HIDE DEF law
  <2>3. 0 \in 0 .. Len(s)
    OBVIOUS
  <2> QED BY <2>2, <2>3
<1>2. ASSUME NEW m \in 1 .. Len(s), m - 1 \in good PROVE m \in good
  <2>1. PICK g : law(g, m - 1)
    BY <1>2
  <2>w. PICK h : h = [i \in 0 .. m |-> IF i = m THEN g[m - 1] + s[m] ELSE g[i]]
    OBVIOUS
  <2>2. \A i \in 0 .. m : h[i] = IF i = 0 THEN 0 ELSE h[i - 1] + s[i]
    <3> SUFFICES ASSUME NEW i \in 0 .. m PROVE h[i] = IF i = 0 THEN 0 ELSE h[i - 1] + s[i]
      OBVIOUS
    <3>1. CASE i = m
      BY <2>w, <3>1
    <3>2. CASE i # m
      <4>1. i \in 0 .. m - 1 /\ h[i] = g[i] /\ (i # 0 => i - 1 \in 0 .. m /\ i - 1 # m)
        BY <2>w, <3>2
      <4>2. i # 0 => h[i - 1] = g[i - 1]
        BY <2>w, <4>1
      <4>3. g[i] = IF i = 0 THEN 0 ELSE g[i - 1] + s[i]
        BY <2>1, <4>1
      <4> QED BY <4>1, <4>2, <4>3
    <3> QED BY <3>1, <3>2
  <2>3. law(h, m)
    BY <2>w, <2>2
  <2> HIDE DEF law
  <2> QED BY <2>3
<1>3. Len(s) \in good
  <2> HIDE DEF good
  <2>1. \A i \in 1 .. Len(s) : i - 1 \in good => i \in good
    BY <1>2
  <2>2. \A i \in 0 .. Len(s) : i \in good
    BY <1>1, <2>1, Throughout
  <2> QED BY <2>2
<1>4. \E sum : law(sum, Len(s))
  BY <1>3
<1>5. Sums(s) = [i \in 0 .. Len(s) |-> IF i = 0 THEN 0 ELSE Sums(s)[i - 1] + s[i]]
  BY <1>4 DEF Sums
<1>6. Total(s) = Sums(s)[Len(s)]
  BY DEF Total, Sums
<1>7. 0 \in 0 .. Len(s) /\ \A i \in 1 .. Len(s) : i \in 0 .. Len(s) /\ i # 0
  OBVIOUS
<1>8. Sums(s)[0] = 0
  BY <1>5, <1>7
<1>9. \A i \in 1 .. Len(s) : Sums(s)[i] = Sums(s)[i - 1] + s[i]
  BY <1>5, <1>7
<1> QED BY <1>6, <1>8, <1>9

\* The function of which Among is the last value.
Keeps(s, f, v) ==
    CHOOSE kept : kept = [i \in 0 .. Len(s) |->
                             IF i = 0 THEN <<>>
                             ELSE IF f[s[i]] = v THEN Append(kept[i - 1], s[i]) ELSE kept[i - 1]]

LEMMA KeepsAre ==
    ASSUME NEW s, Len(s) \in Nat, NEW f, NEW v
    PROVE  /\ Keeps(s, f, v)[0] = <<>>
           /\ \A i \in 1 .. Len(s) :
                  Keeps(s, f, v)[i] = IF f[s[i]] = v THEN Append(Keeps(s, f, v)[i - 1], s[i])
                                      ELSE Keeps(s, f, v)[i - 1]
           /\ Among(s, f, v) = Keeps(s, f, v)[Len(s)]
<1> DEFINE law(kept, m) ==
               kept = [i \in 0 .. m |->
                          IF i = 0 THEN <<>>
                          ELSE IF f[s[i]] = v THEN Append(kept[i - 1], s[i]) ELSE kept[i - 1]]
           good == {m \in 0 .. Len(s) : \E kept : law(kept, m)}
<1>1. 0 \in good
  <2>1. PICK h : h = [i \in 0 .. 0 |-> <<>>]
    OBVIOUS
  <2>2. law(h, 0)
    BY <2>1
  <2> HIDE DEF law
  <2>3. 0 \in 0 .. Len(s)
    OBVIOUS
  <2> QED BY <2>2, <2>3
<1>2. ASSUME NEW m \in 1 .. Len(s), m - 1 \in good PROVE m \in good
  <2>1. PICK g : law(g, m - 1)
    BY <1>2
  <2>2. PICK h : h = [i \in 0 .. m |->
                         IF i # m THEN g[i]
                         ELSE IF f[s[m]] = v THEN Append(g[m - 1], s[m]) ELSE g[m - 1]]
    OBVIOUS
  <2>3. \A i \in 0 .. m :
            h[i] = IF i = 0 THEN <<>>
                   ELSE IF f[s[i]] = v THEN Append(h[i - 1], s[i]) ELSE h[i - 1]
    <3> SUFFICES ASSUME NEW i \in 0 .. m
                 PROVE  h[i] = IF i = 0 THEN <<>>
                               ELSE IF f[s[i]] = v THEN Append(h[i - 1], s[i]) ELSE h[i - 1]
      OBVIOUS
    <3>1. CASE i = m
      BY <2>2, <3>1
    <3>2. CASE i # m
      <4>1. i \in 0 .. m - 1 /\ h[i] = g[i] /\ (i # 0 => i - 1 \in 0 .. m /\ i - 1 # m)
        BY <2>2, <3>2
      <4>2. i # 0 => h[i - 1] = g[i - 1]
        BY <2>2, <4>1
      <4>3. g[i] = IF i = 0 THEN <<>>
                   ELSE IF f[s[i]] = v THEN Append(g[i - 1], s[i]) ELSE g[i - 1]
        BY <2>1, <4>1
      <4> QED BY <4>1, <4>2, <4>3
    <3> QED BY <3>1, <3>2
  <2>4. law(h, m)
    BY <2>2, <2>3
  <2> HIDE DEF law
  <2> QED BY <2>4
<1>3. Len(s) \in good
  <2> HIDE DEF good
  <2>1. \A i \in 1 .. Len(s) : i - 1 \in good => i \in good
    BY <1>2
  <2>2. \A i \in 0 .. Len(s) : i \in good
    BY <1>1, <2>1, Throughout
  <2> QED BY <2>2
<1>4. \E kept : law(kept, Len(s))
  BY <1>3
<1>5. PICK g : g = Keeps(s, f, v)
  OBVIOUS
<1>6. g = [i \in 0 .. Len(s) |->
              IF i = 0 THEN <<>>
              ELSE IF f[s[i]] = v THEN Append(g[i - 1], s[i]) ELSE g[i - 1]]
  BY <1>4, <1>5 DEF Keeps
<1>7. Among(s, f, v) = g[Len(s)]
  BY <1>5 DEF Among, Keeps
<1>8. g[0] = <<>>
  BY <1>6
<1>9. \A i \in 1 .. Len(s) :
          g[i] = IF f[s[i]] = v THEN Append(g[i - 1], s[i]) ELSE g[i - 1]
  <2>1. \A i \in 1 .. Len(s) : i \in 0 .. Len(s) /\ i # 0
    OBVIOUS
  <2> QED BY <1>6, <2>1
<1> QED BY <1>5, <1>7, <1>8, <1>9

\* A loop that skips keeps the others, once each if they were.
LEMMA AmongIs ==
    ASSUME NEW S, NEW s \in Seq(S), NEW f, NEW v
    PROVE  /\ Among(s, f, v) \in Seq(S)
           /\ Range(Among(s, f, v)) = {x \in Range(s) : f[x] = v}
           /\ IsInjective(s) => IsInjective(Among(s, f, v))
<1>1. Len(s) \in Nat /\ DOMAIN s = 1 .. Len(s) /\ \A i \in 1 .. Len(s) : s[i] \in S
  BY LenProperties
<1>2. PICK g : g = Keeps(s, f, v)
  OBVIOUS
<1>3. /\ g[0] = <<>> /\ Among(s, f, v) = g[Len(s)]
      /\ \A i \in 1 .. Len(s) :
             g[i] = IF f[s[i]] = v THEN Append(g[i - 1], s[i]) ELSE g[i - 1]
  BY <1>1, <1>2, KeepsAre
<1> DEFINE kept(i) == {s[j] : j \in {j \in 1 .. i : f[s[j]] = v}}
           good == {i \in 0 .. Len(s) : /\ g[i] \in Seq(S) /\ Range(g[i]) = kept(i)
                                        /\ IsInjective(s) => IsInjective(g[i])}
<1>4. 0 \in good
  <2>1. g[0] \in Seq(S)
    BY <1>3, EmptySeq
  <2>2. Range(g[0]) = kept(0)
    BY <1>3 DEF Range
  <2>3. IsInjective(g[0])
    BY <1>3 DEF IsInjective
  <2> QED BY <1>1, <2>1, <2>2, <2>3
<1>5. ASSUME NEW i \in 1 .. Len(s), i - 1 \in good PROVE i \in good
  <2>1. /\ g[i - 1] \in Seq(S) /\ Range(g[i - 1]) = kept(i - 1)
        /\ IsInjective(s) => IsInjective(g[i - 1])
    BY <1>5
  <2>2. CASE f[s[i]] # v
    <3>1. g[i] = g[i - 1]
      BY <1>3, <2>2
    <3>2. kept(i) = kept(i - 1)
      BY <2>2
    <3> HIDE DEF kept
    <3> QED BY <2>1, <3>1, <3>2
  <2>3. CASE f[s[i]] = v
    <3>1. g[i] = Append(g[i - 1], s[i])
      BY <1>3, <2>3
    <3>2. /\ g[i] \in Seq(S) /\ Len(g[i]) = Len(g[i - 1]) + 1 /\ Len(g[i - 1]) \in Nat
          /\ DOMAIN g[i] = 1 .. Len(g[i]) /\ DOMAIN g[i - 1] = 1 .. Len(g[i - 1])
          /\ g[i][Len(g[i - 1]) + 1] = s[i]
          /\ \A j \in 1 .. Len(g[i - 1]) : g[i][j] = g[i - 1][j]
      BY <1>1, <2>1, <3>1, AppendProperties, LenProperties
    <3>3. kept(i) = kept(i - 1) \union {s[i]}
      BY <2>3
    <3>d. PICK n \in Nat : n = Len(g[i - 1])
      BY <3>2
    <3>e. /\ DOMAIN g[i - 1] = 1 .. n /\ DOMAIN g[i] = (1 .. n) \union {n + 1}
          /\ n + 1 \notin 1 .. n
      BY <3>2, <3>d
    <3>4. Range(g[i]) = Range(g[i - 1]) \union {s[i]}
      <4>1. \A j \in 1 .. n : g[i][j] = g[i - 1][j]
        BY <3>2, <3>d
      <4>2. g[i][n + 1] = s[i]
        BY <3>2, <3>d
      <4>3. Range(g[i]) = {g[i][j] : j \in 1 .. n} \union {g[i][n + 1]}
        BY <3>e DEF Range
      <4> QED BY <3>e, <4>1, <4>2, <4>3 DEF Range
    <3>5. ASSUME IsInjective(s) PROVE IsInjective(g[i])
      <4>1. s[i] \notin kept(i - 1)
        BY <1>1, <3>5 DEF IsInjective
      <4>2. \A j \in DOMAIN g[i - 1] : g[i - 1][j] # s[i]
        BY <2>1, <4>1 DEF Range
      <4>3. IsInjective(g[i - 1])
        BY <2>1, <3>5
      <4> SUFFICES ASSUME NEW a \in DOMAIN g[i], NEW b \in DOMAIN g[i], g[i][a] = g[i][b]
                   PROVE  a = b
        BY DEF IsInjective
      <4>4. CASE a \in 1 .. n /\ b \in 1 .. n
        <5>1. g[i - 1][a] = g[i - 1][b]
          BY <3>2, <3>d, <4>4
        <5> QED BY <3>e, <4>3, <4>4, <5>1 DEF IsInjective
      <4>5. ASSUME NEW j \in 1 .. n PROVE g[i][j] # g[i][n + 1]
        BY <3>2, <3>d, <3>e, <4>2
      <4> QED BY <3>e, <4>4, <4>5
    <3>6. i \in 0 .. Len(s)
      OBVIOUS
    <3>7. Range(g[i]) = kept(i)
      BY <2>1, <3>3, <3>4
    <3>8. IsInjective(s) => IsInjective(g[i])
      BY <3>5
    <3> HIDE DEF kept
    <3> QED BY <3>2, <3>6, <3>7, <3>8
  <2> QED BY <2>2, <2>3
<1>6. Len(s) \in good
  <2> HIDE DEF good
  <2>1. \A i \in 0 .. Len(s) : i \in good
    BY <1>1, <1>4, <1>5, Throughout
  <2> QED BY <1>1, <2>1
<1>7. kept(Len(s)) = {x \in Range(s) : f[x] = v}
  BY <1>1 DEF Range
<1> QED BY <1>3, <1>6, <1>7

-----------------------------------------------------------------------------
(* The nearest centroid.                                                    *)

\* A set of indices has a last one.
LEMMA LastExists == ASSUME NEW n \in Nat, NEW S, S \subseteq 1 .. n, S # {}
                    PROVE  \E x \in S : \A y \in S : x >= y
<1> DEFINE from == {n - x : x \in S}
<1>1. from \subseteq Nat /\ from # {}
  <2>1. \A x \in S : x \in 1 .. n
    OBVIOUS
  <2>2. \A x \in S : n - x \in Nat
    BY <2>1
  <2> QED BY <2>2
<1>2. PICK d \in from : \A e \in from : d <= e
  <2> HIDE DEF from
  <2> QED BY <1>1, LeastExists
<1>3. PICK x \in S : d = n - x
  BY <1>2
<1>4. ASSUME NEW y \in S PROVE x >= y
  <2>1. n - y \in from
    OBVIOUS
  <2>2. n - x <= n - y
    BY <1>2, <1>3, <2>1
  <2>3. x \in Int /\ y \in Int
    OBVIOUS
  <2> QED BY <2>2, <2>3
<1> QED BY <1>4

LEMMA DistanceIs == ASSUME NEW x \in Int, NEW y \in Int
                    PROVE  Distance(x, y) \in Nat
  BY DEF Distance

LEMMA NearestIs ==
    ASSUME NEW cs, NEW n \in Nat \ {0}, DOMAIN cs = 1 .. n,
           \A c \in 1 .. n : cs[c].centroid \in Int,
           NEW r, set[r] \in Int
    PROVE  /\ Nearest(cs, r) \in 1 .. n
           /\ \A d \in 1 .. n : Distance(set[r], cs[Nearest(cs, r)].centroid)
                                   <= Distance(set[r], cs[d].centroid)
<1>1. PICK D \in [1 .. n -> Nat] : \A c \in 1 .. n : D[c] = Distance(set[r], cs[c].centroid)
  <2>1. \A c \in 1 .. n : Distance(set[r], cs[c].centroid) \in Nat
    BY DistanceIs
  <2>2. [c \in 1 .. n |-> Distance(set[r], cs[c].centroid)] \in [1 .. n -> Nat]
    BY <2>1
  <2> QED BY <2>2
<1> DEFINE near == {c \in 1 .. n : \A d \in 1 .. n : D[c] <= D[d]}
<1>2. Nearest(cs, r) = Max(near)
  BY <1>1 DEF Nearest
<1>3. near # {}
  <2> DEFINE far == {D[c] : c \in 1 .. n}
  <2>1. far \subseteq Nat /\ far # {}
    OBVIOUS
  <2>2. PICK x \in far : \A y \in far : x <= y
    <3> HIDE DEF far
    <3> QED BY <2>1, LeastExists
  <2>3. PICK c \in 1 .. n : x = D[c]
    BY <2>2
  <2> QED BY <2>2, <2>3
<1>4. near \subseteq 1 .. n
  OBVIOUS
<1>5. \E x \in near : \A y \in near : x >= y
  <2> HIDE DEF near
  <2> QED BY <1>3, <1>4, LastExists
<1>6. Nearest(cs, r) \in near
  <2> HIDE DEF near
  <2> QED BY <1>2, <1>5 DEF Max
<1> QED BY <1>1, <1>6

\* It depends on the centroids alone.
LEMMA NearestSame ==
    ASSUME NEW cs, NEW ds, DOMAIN cs = DOMAIN ds,
           \A c \in DOMAIN cs : cs[c].centroid = ds[c].centroid, NEW r
    PROVE  Nearest(cs, r) = Nearest(ds, r)
<1> DEFINE of(es) == {c \in DOMAIN es : \A d \in DOMAIN es :
                         Distance(set[r], es[c].centroid) <= Distance(set[r], es[d].centroid)}
<1>1. Nearest(cs, r) = Max(of(cs)) /\ Nearest(ds, r) = Max(of(ds))
  BY DEF Nearest
<1>2. of(cs) = of(ds)
  OBVIOUS
<1> QED BY <1>1, <1>2

-----------------------------------------------------------------------------
(* One turn of the loop over the rows, and the new centroids.               *)

ClusterOf(s) == [centroid : Int, points : Seq(DOMAIN s)]

LEMMA RowsAre == ASSUME NEW s, Len(s) \in Nat, DOMAIN s = 1 .. Len(s)
                 PROVE  /\ Rows(s) \in Seq(DOMAIN s) /\ Len(Rows(s)) = Len(s)
                        /\ Range(Rows(s)) = DOMAIN s /\ IsInjective(Rows(s))
                        /\ DOMAIN Rows(s) = 1 .. Len(s) /\ \A i \in 1 .. Len(s) : Rows(s)[i] = i
<1>1. Rows(s) \in [1 .. Len(s) -> DOMAIN s] /\ \A i \in 1 .. Len(s) : Rows(s)[i] = i
  BY DEF Rows
<1>2. Rows(s) \in Seq(DOMAIN s)
  BY <1>1
<1>3. DOMAIN Rows(s) = 1 .. Len(s) /\ Len(Rows(s)) = Len(s)
  BY <1>1, <1>2, LenProperties
<1>4. Range(Rows(s)) = DOMAIN s
  BY <1>1, <1>3 DEF Range
<1>5. IsInjective(Rows(s))
  BY <1>1, <1>3 DEF IsInjective
<1> QED BY <1>1, <1>2, <1>3, <1>4, <1>5

\* One sequence after another.
LEMMA ConcatOf ==
    ASSUME NEW S, NEW a \in Seq(S), NEW b \in Seq(S)
    PROVE  /\ a \o b \in Seq(S) /\ Range(a \o b) = Range(a) \union Range(b)
           /\ IsInjective(a) /\ IsInjective(b) /\ Range(a) \cap Range(b) = {} => IsInjective(a \o b)
<1>1. PICK m \in Nat : m = Len(a) /\ DOMAIN a = 1 .. m
  BY LenProperties
<1>2. PICK n \in Nat : n = Len(b) /\ DOMAIN b = 1 .. n
  BY LenProperties
<1>3. PICK e : e = a \o b
  OBVIOUS
<1>4. /\ e \in Seq(S) /\ DOMAIN e = 1 .. (m + n)
      /\ \A i \in 1 .. m : e[i] = a[i]
      /\ \A i \in 1 .. n : e[m + i] = b[i]
  <2>1. /\ e \in Seq(S) /\ Len(e) = m + n
        /\ \A i \in 1 .. (m + n) : e[i] = IF i <= m THEN a[i] ELSE b[i - m]
    BY <1>1, <1>2, <1>3, ConcatProperties
  <2>2. DOMAIN e = 1 .. (m + n)
    BY <2>1, LenProperties
  <2>3. \A i \in 1 .. n : m + i \in 1 .. (m + n) /\ ~(m + i <= m) /\ m + i - m = i
    OBVIOUS
  <2> QED BY <2>1, <2>2, <2>3
<1>5. \A i \in 1 .. (m + n) : i \in 1 .. m \/ \E j \in 1 .. n : i = m + j
  <2> SUFFICES ASSUME NEW i \in 1 .. (m + n), i \notin 1 .. m PROVE \E j \in 1 .. n : i = m + j
    OBVIOUS
  <2>1. i - m \in 1 .. n /\ i = m + (i - m)
    OBVIOUS
  <2> QED BY <2>1
<1>6. \A i \in 1 .. m : i \in 1 .. (m + n)
  OBVIOUS
<1>7. \A i \in 1 .. n : m + i \in 1 .. (m + n)
  OBVIOUS
<1>8. Range(e) = Range(a) \union Range(b)
  <2>1. \A x \in Range(e) : x \in Range(a) \/ x \in Range(b)
    <3> SUFFICES ASSUME NEW i \in 1 .. (m + n) PROVE e[i] \in Range(a) \/ e[i] \in Range(b)
      BY <1>4 DEF Range
    <3>1. CASE i \in 1 .. m
      BY <1>1, <1>4, <3>1 DEF Range
    <3>2. ASSUME NEW j \in 1 .. n, i = m + j PROVE e[i] \in Range(b)
      BY <1>2, <1>4, <3>2 DEF Range
    <3> QED BY <1>5, <3>1, <3>2
  <2>2. \A x \in Range(a) : x \in Range(e)
    BY <1>1, <1>4, <1>6 DEF Range
  <2>3. \A x \in Range(b) : x \in Range(e)
    BY <1>2, <1>4, <1>7 DEF Range
  <2> QED BY <2>1, <2>2, <2>3
<1>9. ASSUME IsInjective(a), IsInjective(b), Range(a) \cap Range(b) = {},
             NEW i \in 1 .. (m + n), NEW j \in 1 .. (m + n), e[i] = e[j]
      PROVE  i = j
  <2>1. \A h \in 1 .. m, l \in 1 .. n : a[h] # b[l]
    BY <1>1, <1>2, <1>9 DEF Range
  <2>2. CASE i \in 1 .. m /\ j \in 1 .. m
    BY <1>1, <1>4, <1>9, <2>2 DEF IsInjective
  <2>3. ASSUME NEW h \in 1 .. n, NEW l \in 1 .. n, i = m + h, j = m + l PROVE i = j
    BY <1>2, <1>4, <1>9, <2>3 DEF IsInjective
  <2>4. ASSUME NEW l \in 1 .. n, i \in 1 .. m, j = m + l PROVE FALSE
    BY <1>4, <1>9, <2>1, <2>4
  <2>5. ASSUME NEW l \in 1 .. n, j \in 1 .. m, i = m + l PROVE FALSE
    BY <1>4, <1>9, <2>1, <2>5
  <2> QED BY <1>5, <2>2, <2>3, <2>4, <2>5
<1>10. ASSUME IsInjective(a), IsInjective(b), Range(a) \cap Range(b) = {} PROVE IsInjective(e)
  BY <1>4, <1>9, <1>10 DEF IsInjective
<1> QED BY <1>3, <1>4, <1>8, <1>10

\* Wherever the rows have been, each is then in the cluster that is nearest.
LEMMA ClusterPointsAre ==
    ASSUME set \in Seq(Int), NEW cs \in Seq(ClusterOf(set)), cs # <<>>,
           \A c \in DOMAIN cs : IsInjective(cs[c].points)
    PROVE  LET new == ClusterPoints(cs)
           IN  /\ new \in Seq(ClusterOf(set)) /\ Len(new) = Len(cs) /\ DOMAIN new = DOMAIN cs
               /\ \A c \in DOMAIN cs :
                     /\ new[c].centroid = cs[c].centroid
                     /\ Range(new[c].points) = {r \in DOMAIN set : Nearest(cs, r) = c}
                     /\ IsInjective(new[c].points)
<1>1. /\ Len(cs) \in Nat \ {0} /\ DOMAIN cs = 1 .. Len(cs) /\ \A c \in DOMAIN cs : cs[c] \in ClusterOf(set)
      /\ Len(set) \in Nat /\ DOMAIN set = 1 .. Len(set) /\ \A r \in DOMAIN set : set[r] \in Int
  BY LenProperties, EmptySeq
<1>2. PICK new : new = ClusterPoints(cs)
  OBVIOUS
<1>3. ASSUME NEW c \in DOMAIN cs
      PROVE  /\ new[c] \in ClusterOf(set) /\ new[c].centroid = cs[c].centroid
             /\ Range(new[c].points) = {r \in DOMAIN set : Nearest(cs, r) = c}
             /\ IsInjective(new[c].points)
  <2>1. PICK p \in Seq(DOMAIN set) : p = cs[c].points
    BY <1>1 DEF ClusterOf
  <2>2. PICK f : f = Nearests(cs)
    OBVIOUS
  <2>3. PICK g : g = [r \in DOMAIN set |-> IF r \in Range(p) THEN 0 ELSE Nearest(cs, r)]
    OBVIOUS
  <2>4. PICK a : a = Among(p, f, c)
    OBVIOUS
  <2>5. PICK b : b = Among(Rows(set), g, c)
    OBVIOUS
  <2>6. Range(p) \subseteq DOMAIN set
    <3>1. DOMAIN p = 1 .. Len(p) /\ \A i \in 1 .. Len(p) : p[i] \in DOMAIN set
      BY LenProperties
    <3> QED BY <3>1 DEF Range
  <2>7. \A r \in DOMAIN set : f[r] = Nearest(cs, r)
    BY <2>2 DEF Nearests
  <2>8. a \in Seq(DOMAIN set) /\ Range(a) = {r \in Range(p) : f[r] = c} /\ IsInjective(a)
    BY <2>1, <2>4, AmongIs
  <2>9. b \in Seq(DOMAIN set) /\ Range(b) = {r \in DOMAIN set : g[r] = c} /\ IsInjective(b)
    <3>1. /\ Rows(set) \in Seq(DOMAIN set) /\ Range(Rows(set)) = DOMAIN set
          /\ IsInjective(Rows(set))
      BY <1>1, RowsAre
    <3>2. /\ b \in Seq(DOMAIN set) /\ Range(b) = {r \in Range(Rows(set)) : g[r] = c}
          /\ IsInjective(b)
      BY <2>5, <3>1, AmongIs
    <3> QED BY <3>1, <3>2
  <2>10. Range(b) = {r \in DOMAIN set : r \notin Range(p) /\ Nearest(cs, r) = c}
    <3>1. c # 0
      BY <1>1
    <3> QED BY <2>3, <2>9, <3>1
  <2>11. Range(a) \cap Range(b) = {}
    BY <2>8, <2>10
  <2>12. Range(a) \union Range(b) = {r \in DOMAIN set : Nearest(cs, r) = c}
    BY <2>6, <2>7, <2>8, <2>10
  <2>13. /\ a \o b \in Seq(DOMAIN set) /\ Range(a \o b) = Range(a) \union Range(b)
         /\ IsInjective(a \o b)
    BY <2>8, <2>9, <2>11, ConcatOf
  <2>14. Comes(cs, c) = b
    BY <2>1, <2>3, <2>5 DEF Comes
  <2>15. new[c] = [cs[c] EXCEPT !.points = a \o b]
    BY <1>2, <2>1, <2>2, <2>4, <2>14 DEF ClusterPoints
  <2>16. new[c] \in ClusterOf(set) /\ new[c].centroid = cs[c].centroid /\ new[c].points = a \o b
    BY <1>1, <2>13, <2>15 DEF ClusterOf
  <2> QED BY <2>12, <2>13, <2>16
<1>4. DOMAIN new = 1 .. Len(cs) /\ new \in [1 .. Len(cs) -> ClusterOf(set)]
  <2>1. DOMAIN new = 1 .. Len(cs) /\ new = [c \in 1 .. Len(cs) |-> new[c]]
    BY <1>1, <1>2 DEF ClusterPoints
  <2> QED BY <1>1, <1>3, <2>1
<1>5. new \in Seq(ClusterOf(set))
  BY <1>1, <1>4
<1>6. Len(new) = Len(cs)
  BY <1>1, <1>4, <1>5, LenProperties
<1> QED BY <1>1, <1>2, <1>3, <1>4, <1>5, <1>6

LEMMA IsSeq == ASSUME NEW S, NEW n \in Nat, NEW x \in [1 .. n -> S]
               PROVE  x \in Seq(S) /\ Len(x) = n /\ DOMAIN x = 1 .. n
<1>1. x \in Seq(S)
  OBVIOUS
<1> QED BY <1>1, LenProperties

LEMMA TotalIsInt == ASSUME NEW s \in Seq(Int) PROVE Total(s) \in Int
<1>1. Len(s) \in Nat /\ \A i \in 1 .. Len(s) : s[i] \in Int
  BY LenProperties
<1>2. PICK g : g = Sums(s)
  OBVIOUS
<1>3. g[0] = 0 /\ Total(s) = g[Len(s)] /\ \A i \in 1 .. Len(s) : g[i] = g[i - 1] + s[i]
  BY <1>1, <1>2, SumsAre
<1> DEFINE good == {i \in 0 .. Len(s) : g[i] \in Int}
<1>4. 0 \in good /\ \A i \in 1 .. Len(s) : i - 1 \in good => i \in good
  BY <1>1, <1>3
<1>5. \A i \in 0 .. Len(s) : i \in good
  <2> HIDE DEF good
  <2> QED BY <1>1, <1>4, Throughout
<1> QED BY <1>1, <1>3, <1>5

LEMMA MeanIsInt ==
    ASSUME set \in Seq(Int), NEW p \in Seq(DOMAIN set), p # <<>>
    PROVE  Mean(p) \in Int
<1>1. Len(p) \in Nat \ {0} /\ DOMAIN p = 1 .. Len(p) /\ \A i \in 1 .. Len(p) : p[i] \in DOMAIN set
  BY LenProperties, EmptySeq
<1>2. \A r \in DOMAIN set : set[r] \in Int
  BY LenProperties
<1>3. PICK x : x = [i \in DOMAIN p |-> set[p[i]]]
  OBVIOUS
<1>4. x \in [1 .. Len(p) -> Int]
  BY <1>1, <1>2, <1>3
<1>5. x \in Seq(Int)
  BY <1>1, <1>4, IsSeq
<1>6. Total(x) \in Int
  BY <1>5, TotalIsInt
<1>7. Mean(p) = Total(x) \div Len(p)
  BY <1>3 DEF Mean
<1> QED BY <1>1, <1>6, <1>7

\* New centroids, as far as the first cluster without points.
LEMMA RecalculatedAre ==
    ASSUME set \in Seq(Int), NEW cs \in Seq(ClusterOf(set))
    PROVE  LET new == Recalculated(cs)
           IN  /\ new \in Seq(ClusterOf(set)) /\ Len(new) = Len(cs) /\ DOMAIN new = DOMAIN cs
               /\ \A c \in DOMAIN cs :
                     /\ new[c].points = cs[c].points
                     /\ ~HasEmpty(cs) => new[c].centroid = Mean(cs[c].points)
<1>1. /\ Len(cs) \in Nat /\ DOMAIN cs = 1 .. Len(cs) /\ \A c \in DOMAIN cs : cs[c] \in ClusterOf(set)
  BY LenProperties
<1>2. PICK new : new = Recalculated(cs)
  OBVIOUS
<1>3. ASSUME NEW c \in DOMAIN cs
      PROVE  /\ new[c] \in ClusterOf(set) /\ new[c].points = cs[c].points
             /\ ~HasEmpty(cs) => new[c].centroid = Mean(cs[c].points)
  <2>1. cs[c] \in ClusterOf(set) /\ cs[c].points \in Seq(DOMAIN set)
    BY <1>1 DEF ClusterOf
  <2>2. c \in 1 .. c /\ \A d \in 1 .. c : d \in DOMAIN cs
    BY <1>1
  <2>3. CASE \A d \in 1 .. c : cs[d].points # <<>>
    <3>1. new[c] = [cs[c] EXCEPT !.centroid = Mean(cs[c].points)]
      BY <1>2, <2>3 DEF Recalculated
    <3>2. Mean(cs[c].points) \in Int
      BY <2>1, <2>2, <2>3, MeanIsInt
    <3> QED BY <2>1, <3>1, <3>2 DEF ClusterOf
  <2>4. CASE ~\A d \in 1 .. c : cs[d].points # <<>>
    <3>1. new[c] = cs[c]
      BY <1>2, <2>4 DEF Recalculated
    <3>2. HasEmpty(cs)
      BY <2>2, <2>4 DEF HasEmpty
    <3> QED BY <2>1, <3>1, <3>2
  <2> QED BY <2>3, <2>4
<1>4. DOMAIN new = 1 .. Len(cs) /\ new \in [1 .. Len(cs) -> ClusterOf(set)]
  <2>1. DOMAIN new = 1 .. Len(cs) /\ new = [c \in 1 .. Len(cs) |-> new[c]]
    BY <1>1, <1>2 DEF Recalculated
  <2> QED BY <1>1, <1>3, <2>1
<1>5. new \in Seq(ClusterOf(set))
  BY <1>1, <1>4
<1>6. Len(new) = Len(cs)
  BY <1>1, <1>4, <1>5, LenProperties
<1> QED BY <1>1, <1>2, <1>3, <1>4, <1>5, <1>6

-----------------------------------------------------------------------------
(* Sums that count, and sums that change.                                   *)

UnionOf(F, n) == UNION {F[i] : i \in 1 .. n}

\* The sizes of sets that have nothing in common add up to that of their union.
LEMMA DisjointSizes ==
    ASSUME NEW s \in Seq(Int), NEW F, \A i \in 1 .. Len(s) : IsFiniteSet(F[i]),
           \A i, j \in 1 .. Len(s) : i # j => F[i] \cap F[j] = {},
           \A i \in 1 .. Len(s) : s[i] = Cardinality(F[i])
    PROVE  IsFiniteSet(UnionOf(F, Len(s))) /\ Total(s) = Cardinality(UnionOf(F, Len(s)))
<1>1. Len(s) \in Nat
  BY LenProperties
<1>2. PICK g : g = Sums(s)
  OBVIOUS
<1>3. g[0] = 0 /\ Total(s) = g[Len(s)] /\ \A i \in 1 .. Len(s) : g[i] = g[i - 1] + s[i]
  BY <1>1, <1>2, SumsAre
<1> DEFINE U(i) == UNION {F[j] : j \in 1 .. i}
           good == {i \in 0 .. Len(s) : IsFiniteSet(U(i)) /\ g[i] = Cardinality(U(i))}
<1>4. 0 \in good
  <2>1. U(0) = {} /\ 0 \in 0 .. Len(s)
    BY <1>1
  <2> HIDE DEF U
  <2>2. IsFiniteSet(U(0)) /\ g[0] = Cardinality(U(0))
    BY <1>3, <2>1, FS_EmptySet
  <2> QED BY <2>1, <2>2
<1>5. ASSUME NEW i \in 1 .. Len(s), i - 1 \in good PROVE i \in good
  <2>1. IsFiniteSet(U(i - 1)) /\ g[i - 1] = Cardinality(U(i - 1))
    BY <1>5
  <2>2. U(i) = U(i - 1) \union F[i]
    <3>1. 1 .. i = (1 .. (i - 1)) \union {i}
      OBVIOUS
    <3> QED BY <3>1
  <2>3. U(i - 1) \cap F[i] = {}
    <3>1. \A j \in 1 .. (i - 1) : j \in 1 .. Len(s) /\ j # i
      OBVIOUS
    <3> QED BY <3>1
  <2>4. IsFiniteSet(F[i]) /\ g[i] = g[i - 1] + Cardinality(F[i]) /\ i \in 0 .. Len(s)
    BY <1>3
  <2>5. PICK A : A = U(i - 1)
    OBVIOUS
  <2>6. PICK B : B = U(i)
    OBVIOUS
  <2>7. /\ IsFiniteSet(A) /\ IsFiniteSet(F[i]) /\ B = A \union F[i] /\ A \cap F[i] = {}
        /\ g[i] = Cardinality(A) + Cardinality(F[i])
    BY <2>1, <2>2, <2>3, <2>4, <2>5, <2>6
  <2>8. /\ IsFiniteSet(B)
        /\ Cardinality(B) = Cardinality(A) + Cardinality(F[i]) - Cardinality({})
    <3>1. /\ IsFiniteSet(A \union F[i])
          /\ Cardinality(A \union F[i])
                = Cardinality(A) + Cardinality(F[i]) - Cardinality(A \cap F[i])
      BY <2>7, FS_Union
    <3> QED BY <2>7, <3>1
  <2>9. Cardinality({}) = 0
    BY FS_EmptySet
  <2>10. Cardinality(A) \in Nat /\ Cardinality(F[i]) \in Nat
    BY <2>7, FS_CardinalityType
  <2>11. g[i] = Cardinality(B)
    BY <2>7, <2>8, <2>9, <2>10
  <2>12. IsFiniteSet(U(i)) /\ g[i] = Cardinality(U(i))
    BY <2>6, <2>8, <2>11
  <2> HIDE DEF U
  <2> QED BY <2>4, <2>12
<1>6. Len(s) \in good
  <2> HIDE DEF good
  <2>1. \A i \in 0 .. Len(s) : i \in good
    BY <1>1, <1>4, <1>5, Throughout
  <2> QED BY <1>1, <2>1
<1> QED BY <1>3, <1>6 DEF UnionOf

\* A sequence without repetitions is as long as its range is large.
LEMMA LenIsSize ==
    ASSUME NEW S, NEW p \in Seq(S), IsInjective(p)
    PROVE  IsFiniteSet(Range(p)) /\ Cardinality(Range(p)) = Len(p)
<1>1. Len(p) \in Nat /\ DOMAIN p = 1 .. Len(p)
  BY LenProperties
<1>2. IsFiniteSet(1 .. Len(p)) /\ Cardinality(1 .. Len(p)) = Len(p)
  <2>1. 1 \in Int /\ Len(p) \in Int
    BY <1>1
  <2>2. /\ IsFiniteSet(1 .. Len(p))
        /\ Cardinality(1 .. Len(p)) = IF 1 > Len(p) THEN 0 ELSE Len(p) - 1 + 1
    BY <2>1, FS_Interval
  <2> QED BY <1>1, <2>2
<1>3. p \in Bijection(1 .. Len(p), Range(p))
  BY <1>1 DEF Bijection, Injection, Surjection, IsInjective, Range
<1> QED BY <1>2, <1>3, FS_Bijection DEF ExistsBijection

\* The clusters of a partition have as many points as there are rows.
LEMMA PartitionSize ==
    ASSUME NEW S, NEW s \in Seq(S), NEW cs, NEW n \in Nat, DOMAIN cs = 1 .. n,
           \A c \in 1 .. n : cs[c].points \in Seq(Nat), IsPartition(cs, s)
    PROVE  Total([c \in DOMAIN cs |-> Len(cs[c].points)]) = Len(s)
<1>1. Len(s) \in Nat /\ DOMAIN s = 1 .. Len(s)
  BY LenProperties
<1>2. PICK ls : ls = [c \in 1 .. n |-> Len(cs[c].points)]
  OBVIOUS
<1>3. ls \in Seq(Int) /\ Len(ls) = n
  <2>1. \A c \in 1 .. n : Len(cs[c].points) \in Int
    BY LenProperties
  <2>2. ls \in [1 .. n -> Int]
    BY <1>2, <2>1
  <2> QED BY <2>2, IsSeq
<1>4. PICK F : F = [c \in 1 .. n |-> Range(cs[c].points)]
  OBVIOUS
<1>5. \A c \in 1 .. n : F[c] = Range(cs[c].points)
  BY <1>4
<1>6. \A c \in 1 .. n : IsFiniteSet(F[c]) /\ ls[c] = Cardinality(F[c])
  <2> SUFFICES ASSUME NEW c \in 1 .. n PROVE IsFiniteSet(F[c]) /\ ls[c] = Cardinality(F[c])
    OBVIOUS
  <2>1. cs[c].points \in Seq(Nat) /\ IsInjective(cs[c].points)
    BY DEF IsPartition
  <2> QED BY <1>2, <1>5, <2>1, LenIsSize
<1>7. \A c, d \in 1 .. n : c # d => F[c] \cap F[d] = {}
  BY <1>5 DEF IsPartition
<1>8. UnionOf(F, n) = 1 .. Len(s)
  <2>1. {F[c] : c \in 1 .. n} = {Range(cs[c].points) : c \in DOMAIN cs}
    BY <1>5
  <2> QED BY <1>1, <2>1 DEF IsPartition, UnionOf
<1>9. Total(ls) = Cardinality(UnionOf(F, n))
  <2>1. ls \in Seq(Int) /\ \A c \in 1 .. Len(ls) : IsFiniteSet(F[c])
    BY <1>3, <1>6
  <2>2. \A c, d \in 1 .. Len(ls) : c # d => F[c] \cap F[d] = {}
    BY <1>3, <1>7
  <2>e. \A c \in 1 .. Len(ls) : ls[c] = Cardinality(F[c])
    BY <1>3, <1>6
  <2>3. Total(ls) = Cardinality(UnionOf(F, Len(ls)))
    BY <2>1, <2>2, <2>e, DisjointSizes
  <2> QED BY <1>3, <2>3
<1>10. Cardinality(1 .. Len(s)) = Len(s)
  <2>1. 1 \in Int /\ Len(s) \in Int
    BY <1>1
  <2>2. Cardinality(1 .. Len(s)) = IF 1 > Len(s) THEN 0 ELSE Len(s) - 1 + 1
    BY <2>1, FS_Interval
  <2> QED BY <1>1, <2>2
<1> QED BY <1>2, <1>8, <1>9, <1>10

\* One of the summands is another, and there is one more.
LEMMA TotalSplits ==
    ASSUME NEW s \in Seq(Int), NEW t \in Seq(Int), NEW h \in 1 .. Len(s), Len(t) = Len(s) + 1,
           \A i \in 1 .. Len(s) : i # h => t[i] = s[i]
    PROVE  Total(t) = Total(s) - s[h] + t[h] + t[Len(s) + 1]
<1>1. /\ Len(s) \in Nat /\ \A i \in 1 .. Len(s) : s[i] \in Int /\ t[i] \in Int
      /\ \A i \in 1 .. (Len(s) + 1) : t[i] \in Int
  <2>1. Len(s) \in Nat /\ \A i \in 1 .. Len(s) : s[i] \in Int
    BY LenProperties
  <2>2. \A i \in 1 .. (Len(s) + 1) : t[i] \in Int
    BY LenProperties
  <2> QED BY <2>1, <2>2
<1>2. PICK g : g = Sums(s)
  OBVIOUS
<1>3. g[0] = 0 /\ Total(s) = g[Len(s)] /\ \A i \in 1 .. Len(s) : g[i] = g[i - 1] + s[i]
  BY <1>1, <1>2, SumsAre
<1>4. PICK e : e = Sums(t)
  OBVIOUS
<1>5. /\ e[0] = 0 /\ Total(t) = e[Len(s) + 1]
      /\ \A i \in 1 .. (Len(s) + 1) : e[i] = e[i - 1] + t[i]
      /\ \A i \in 1 .. Len(s) : e[i] = e[i - 1] + t[i]
  <2>1. Len(t) \in Nat
    BY <1>1
  <2>2. /\ e[0] = 0 /\ Total(t) = e[Len(s) + 1]
        /\ \A i \in 1 .. (Len(s) + 1) : e[i] = e[i - 1] + t[i]
    BY <1>4, <2>1, SumsAre
  <2>3. \A i \in 1 .. Len(s) : i \in 1 .. (Len(s) + 1)
    BY <1>1
  <2> QED BY <2>2, <2>3
<1> DEFINE good == {i \in 0 .. Len(s) : /\ g[i] \in Int
                                        /\ e[i] = g[i] + IF i < h THEN 0 ELSE t[h] - s[h]}
<1>6. 0 \in good
  BY <1>1, <1>3, <1>5
<1>7. ASSUME NEW i \in 1 .. Len(s), i - 1 \in good PROVE i \in good
  <2>1. g[i - 1] \in Int /\ e[i - 1] = g[i - 1] + (IF i - 1 < h THEN 0 ELSE t[h] - s[h])
    BY <1>7
  <2>2. g[i] = g[i - 1] + s[i] /\ e[i] = e[i - 1] + t[i]
    BY <1>3, <1>5
  <2>3. s[i] \in Int /\ t[i] \in Int /\ s[h] \in Int /\ t[h] \in Int /\ i \in Int /\ h \in Int
    BY <1>1
  <2>4. g[i] \in Int /\ i \in 0 .. Len(s)
    <3>1. PICK x \in Int : x = g[i - 1]
      BY <2>1
    <3>2. g[i] = x + s[i]
      BY <2>2, <3>1
    <3>3. g[i] \in Int
      BY <2>3, <3>2
    <3> QED BY <1>1, <3>3
  <2>5. e[i] = g[i] + (IF i < h THEN 0 ELSE t[h] - s[h])
    <3>1. CASE i < h
      <4>1. i - 1 < h /\ t[i] = s[i]
        BY <2>3, <3>1
      <4>2. e[i - 1] = g[i - 1]
        BY <2>1, <4>1
      <4>3. e[i] = g[i]
        BY <2>1, <2>2, <4>1, <4>2
      <4> QED BY <2>4, <3>1, <4>3
    <3>2. CASE i = h
      BY <2>1, <2>2, <2>3, <3>2
    <3>3. CASE i > h
      <4>1. ~(i - 1 < h) /\ t[i] = s[i]
        BY <2>3, <3>3
      <4>2. e[i - 1] = g[i - 1] + (t[h] - s[h])
        BY <2>1, <4>1
      <4>3. PICK x \in Int : x = g[i - 1]
        BY <2>1
      <4>4. PICK w \in Int : w = t[h] - s[h]
        BY <2>3
      <4>6. PICK z \in Int : z = s[i]
        BY <2>3
      <4>7. e[i] = x + w + z /\ g[i] = x + z
        BY <2>2, <4>1, <4>2, <4>3, <4>4, <4>6
      <4>8. x + w + z = x + z + w
        OBVIOUS
      <4>5. e[i] = g[i] + (t[h] - s[h])
        BY <4>4, <4>7, <4>8
      <4> QED BY <2>3, <3>3, <4>5
    <3> QED BY <2>3, <3>1, <3>2, <3>3
  <2> QED BY <2>4, <2>5
<1>8. Len(s) \in good
  <2> HIDE DEF good
  <2>1. \A i \in 0 .. Len(s) : i \in good
    BY <1>1, <1>6, <1>7, Throughout
  <2> QED BY <1>1, <2>1
<1>9. e[Len(s) + 1] = e[Len(s)] + t[Len(s) + 1]
  <2>1. Len(s) + 1 \in 1 .. (Len(s) + 1) /\ Len(s) + 1 - 1 = Len(s)
    BY <1>1
  <2> QED BY <1>5, <2>1
<1>10. t[Len(s) + 1] \in Int /\ t[h] \in Int /\ s[h] \in Int
  BY <1>1
<1> QED BY <1>3, <1>5, <1>8, <1>9, <1>10

-----------------------------------------------------------------------------
(* The inductive invariant.                                                 *)

PartOf == [centroid : Int, points : Seq(DOMAIN data), valid : BOOLEAN]

\* A KMeans works on rows of the data set, its clusters on rows of its own.
Types == /\ algo \in {"kmeans", "bisection"} /\ data \in DataSets /\ k \in 1 .. Len(data)
         /\ TypeOK /\ calls \in Nat
         /\ set \in Seq(Int) /\ Len(set) \in 1 .. Len(data)
         /\ \A r \in DOMAIN set : \E q \in DOMAIN data : set[r] = data[q]
         /\ clusters \in Seq(ClusterOf(set))
         /\ parts \in Seq(PartOf)
         /\ \A c \in DOMAIN parts : Len(parts[c].points) <= Len(data)

\* A KMeans is at work: one of its own or that of a bisection.
Inner == pc \in {"start", "loop", "split"}

Phases ==
    /\ calls = 0 => pc = "idle" /\ ~still /\ parts = <<>>
    /\ algo = "kmeans" => pc \notin {"select", "split"} /\ parts = <<>> /\ set = data
    /\ pc = "loop" => clusters # <<>>
    /\ algo = "bisection" /\ pc \in {"loop", "split"} => Len(clusters) = 2
    /\ algo = "bisection" /\ Inner => /\ split \in 1 .. Len(parts)
                                      /\ Len(set) = Len(parts[split].points)

\* Mean and Nearest, of any data set.
MeanOf(s, p) == Total([i \in DOMAIN p |-> s[p[i]]]) \div Len(p)
NearestOf(s, cs, r) ==
    Max({c \in DOMAIN cs : \A d \in DOMAIN cs : Distance(s[r], cs[c].centroid)
                                                 <= Distance(s[r], cs[d].centroid)})

Settled(s, cs) == /\ ~HasEmpty(cs)
                  /\ \A c \in DOMAIN cs :
                        /\ cs[c].centroid = MeanOf(s, cs[c].points)
                        /\ \A r \in Range(cs[c].points) : NearestOf(s, cs, r) = c

\* The residual is zero only where the clusters are what one more turn makes
\* of them; a restart comes with a turn that leaves no such residual.
SettledWhenStill ==
    still /\ (algo = "kmeans" => calls = 1) => pc # "start" /\ Settled(set, clusters)

\* The first call of a bisection.
FirstCall ==
    algo = "bisection" /\ calls = 1 =>
        /\ parts # <<>>
        /\ Inner => ~HasEmpty(parts)
        /\ Len(parts) = 1 => parts[1].points = Rows(data)
        /\ Len(parts) = 1 /\ Inner => set = data

KInv == Types /\ Phases /\ EachInOneCluster /\ SettledWhenStill /\ FirstCall /\ SizesAddUp

LEMMA OfTheSet == /\ \A p : Mean(p) = MeanOf(set, p)
                  /\ \A cs, r : Nearest(cs, r) = NearestOf(set, cs, r)
  BY DEF Mean, MeanOf, Nearest, NearestOf

\* Which points the clusters have is all that a partition depends on.
LEMMA PartitionSame ==
    ASSUME NEW s, NEW cs, NEW ds, DOMAIN cs = DOMAIN ds,
           \A c \in DOMAIN cs : cs[c].points = ds[c].points, IsPartition(cs, s)
    PROVE  IsPartition(ds, s)
<1>1. {Range(cs[c].points) : c \in DOMAIN cs} = {Range(ds[c].points) : c \in DOMAIN ds}
  OBVIOUS
<1> QED BY <1>1 DEF IsPartition

\* No cluster ever holds a row twice.
LEMMA PointsInjective ==
    ASSUME EachInOneCluster, NEW c \in DOMAIN clusters
    PROVE  IsInjective(clusters[c].points)
<1>1. CASE clusters[c].points = <<>>
  BY <1>1 DEF IsInjective
<1>2. CASE IsPartition(clusters, set)
  BY <1>2 DEF IsPartition
<1> QED BY <1>1, <1>2 DEF EachInOneCluster

LEMMA AssignedIs ==
    ASSUME KInv, pc = "loop"
    PROVE  /\ Assigned \in Seq(ClusterOf(set)) /\ Len(Assigned) = Len(clusters)
           /\ DOMAIN Assigned = DOMAIN clusters /\ DOMAIN clusters = 1 .. Len(clusters)
           /\ Len(clusters) \in Nat \ {0}
           /\ IsPartition(Assigned, set)
           /\ \A c \in DOMAIN clusters :
                 /\ Assigned[c].centroid = clusters[c].centroid
                 /\ \A r \in Range(Assigned[c].points) : r \in DOMAIN set /\ Nearest(clusters, r) = c
<1>1. /\ set \in Seq(Int) /\ clusters \in Seq(ClusterOf(set)) /\ clusters # <<>>
      /\ \A c \in DOMAIN clusters : IsInjective(clusters[c].points)
  BY PointsInjective DEF KInv, Types, Phases
<1>2. /\ Len(clusters) \in Nat \ {0} /\ DOMAIN clusters = 1 .. Len(clusters)
      /\ \A r \in DOMAIN set : set[r] \in Int
      /\ \A c \in DOMAIN clusters : clusters[c].centroid \in Int
  <2>1. /\ Len(clusters) \in Nat \ {0} /\ DOMAIN clusters = 1 .. Len(clusters)
        /\ \A c \in DOMAIN clusters : clusters[c] \in ClusterOf(set)
    BY <1>1, LenProperties, EmptySeq
  <2>2. \A r \in DOMAIN set : set[r] \in Int
    BY <1>1, LenProperties
  <2> QED BY <2>1, <2>2 DEF ClusterOf
<1>3. PICK new : new = Assigned
  OBVIOUS
<1>4. /\ new \in Seq(ClusterOf(set)) /\ Len(new) = Len(clusters) /\ DOMAIN new = DOMAIN clusters
      /\ \A c \in DOMAIN clusters :
            /\ new[c].centroid = clusters[c].centroid
            /\ Range(new[c].points) = {r \in DOMAIN set : Nearest(clusters, r) = c}
            /\ IsInjective(new[c].points)
  BY <1>1, <1>3, ClusterPointsAre DEF Assigned
<1>5. \A r \in DOMAIN set : Nearest(clusters, r) \in DOMAIN clusters
  BY <1>2, NearestIs
<1>6. UNION {Range(new[c].points) : c \in DOMAIN new} = DOMAIN set
  <2>1. ASSUME NEW r \in DOMAIN set PROVE \E c \in DOMAIN new : r \in Range(new[c].points)
    BY <1>4, <1>5
  <2>2. ASSUME NEW c \in DOMAIN new, NEW r \in Range(new[c].points) PROVE r \in DOMAIN set
    BY <1>4
  <2> QED BY <2>1, <2>2
<1>7. \A c, d \in DOMAIN new : c # d => Range(new[c].points) \cap Range(new[d].points) = {}
  <2> SUFFICES ASSUME NEW c \in DOMAIN new, NEW d \in DOMAIN new,
                      NEW r \in Range(new[c].points), r \in Range(new[d].points)
               PROVE  c = d
    OBVIOUS
  <2>1. Nearest(clusters, r) = c /\ Nearest(clusters, r) = d
    BY <1>4
  <2> QED BY <2>1
<1>8. IsPartition(new, set)
  BY <1>4, <1>6, <1>7 DEF IsPartition
<1> QED BY <1>2, <1>3, <1>4, <1>8


LEMMA InitKInv == Init => KInv
<1> SUFFICES ASSUME Init PROVE KInv
  OBVIOUS
<1>1. /\ data \in DataSets /\ data \in Seq(Int) /\ data # <<>> /\ k \in 1 .. Len(data) /\ set = data
      /\ algo \in {"kmeans", "bisection"} /\ pc = "idle" /\ clusters = <<>> /\ parts = <<>>
      /\ itr = 0 /\ splits = 0 /\ split = 0 /\ still = FALSE /\ calls = 0
  BY DataSetsAssumption DEF Init
<1>2. Len(data) \in Nat \ {0} /\ Len(parts) = 0 /\ Len(clusters) = 0
      /\ clusters \in Seq(ClusterOf(set)) /\ parts \in Seq(PartOf)
  BY <1>1, EmptySeq
<1>3. TypeOK
  <2>1. still \in BOOLEAN
    BY <1>1
  <2>2. itr \in 0 .. MaxItrs /\ splits \in 0 .. MaxItrs
    BY <1>1, LimitsAssumption
  <2>3. split \in 0 .. Len(parts)
    BY <1>1, <1>2
  <2> QED BY <1>1, <2>1, <2>2, <2>3 DEF TypeOK
<1>4. Types
  <2>1. \A c \in DOMAIN parts : Len(parts[c].points) <= Len(data)
    BY <1>1
  <2>2. \A r \in DOMAIN set : \E q \in DOMAIN data : set[r] = data[q]
    BY <1>1
  <2>3. Len(set) \in 1 .. Len(data)
    BY <1>1, <1>2
  <2> QED BY <1>1, <1>2, <1>3, <2>1, <2>2, <2>3 DEF Types
<1>5. Phases
  BY <1>1 DEF Phases, Inner
<1>6. EachInOneCluster
  BY <1>1 DEF EachInOneCluster
<1>7. SettledWhenStill
  BY <1>1 DEF SettledWhenStill
<1>8. FirstCall /\ SizesAddUp
  BY <1>1 DEF FirstCall, SizesAddUp
<1> QED BY <1>4, <1>5, <1>6, <1>7, <1>8 DEF KInv

-----------------------------------------------------------------------------
(* The steps of a KMeans.                                                   *)

\* What the steps of a KMeans leave alone.
LEMMA InnerKeeps ==
    ASSUME KInv, pc \in {"start", "loop"}, UNCHANGED <<given, set, bisection, calls>>,
           pc' \in {"start", "loop", "split", "done", "failed"},
           itr' \in 0 .. MaxItrs, still' \in BOOLEAN, clusters' \in Seq(ClusterOf(set)),
           algo = "kmeans" => pc' # "split",
           pc' = "loop" => clusters' # <<>>,
           algo = "bisection" /\ pc' \in {"loop", "split"} => Len(clusters') = 2
    PROVE  Types' /\ Phases' /\ FirstCall' /\ SizesAddUp'
<1>1. /\ UNCHANGED <<algo, data, k, restarts, continues, set, parts, splits, split, calls>>
      /\ Types /\ Phases /\ FirstCall /\ SizesAddUp
  BY DEF given, bisection, KInv
<1>2. TypeOK'
  BY <1>1 DEF TypeOK, Types
<1>3. clusters' \in Seq(ClusterOf(set'))
  BY <1>1
<1>4. Types'
  BY <1>1, <1>2, <1>3 DEF Types, PartOf
<1>5. Phases'
  BY <1>1 DEF Phases, Inner
<1>6. FirstCall'
  BY <1>1 DEF FirstCall, Inner
<1>7. SizesAddUp'
  BY <1>1 DEF SizesAddUp
<1> QED BY <1>4, <1>5, <1>6, <1>7

LEMMA StartKeeps == KInv /\ Start => KInv'
<1> SUFFICES ASSUME KInv, Start PROVE KInv'
  OBVIOUS
<1>1. PICK n \in {k, 2} : n = IF algo = "kmeans" THEN k ELSE 2
  OBVIOUS
<1>2. PICK at \in [1 .. n -> DOMAIN set] :
          clusters' = [c \in DOMAIN at |-> [centroid |-> set[at[c]], points |-> <<>>]]
  BY <1>1 DEF Start
<1>3. /\ pc = "start" /\ pc' = "loop" /\ UNCHANGED <<given, set, itr, still, bisection, calls>>
      /\ Types /\ Phases /\ SettledWhenStill
  BY DEF Start, KInv
<1>4. n \in Nat \ {0} /\ DOMAIN at = 1 .. n
  BY <1>1, <1>3 DEF Types
<1>5. \A c \in 1 .. n : clusters'[c] \in ClusterOf(set) /\ clusters'[c].points = <<>>
  <2> SUFFICES ASSUME NEW c \in 1 .. n
               PROVE  clusters'[c] \in ClusterOf(set) /\ clusters'[c].points = <<>>
    OBVIOUS
  <2>1. set[at[c]] \in Int
    BY <1>3, LenProperties DEF Types
  <2>2. <<>> \in Seq(DOMAIN set)
    BY EmptySeq
  <2> QED BY <1>2, <1>4, <2>1, <2>2 DEF ClusterOf
<1>6. clusters' \in Seq(ClusterOf(set)) /\ Len(clusters') = n /\ DOMAIN clusters' = 1 .. n
  <2>1. clusters' \in [1 .. n -> ClusterOf(set)]
    BY <1>2, <1>4, <1>5
  <2> QED BY <1>4, <2>1, IsSeq
<1>7. Types' /\ Phases' /\ FirstCall' /\ SizesAddUp'
  <2>1. itr' \in 0 .. MaxItrs /\ still' \in BOOLEAN
    BY <1>3 DEF Types, TypeOK
  <2>2. clusters' # <<>>
    BY <1>4, <1>6, EmptySeq
  <2>3. algo = "bisection" => Len(clusters') = 2
    BY <1>1, <1>6
  <2> QED BY <1>3, <1>6, <2>1, <2>2, <2>3, InnerKeeps
<1>8. EachInOneCluster'
  BY <1>5, <1>6 DEF EachInOneCluster
<1>9. SettledWhenStill'
  BY <1>3 DEF SettledWhenStill, given
<1> QED BY <1>7, <1>8, <1>9 DEF KInv

\* The turn of which the residual is zero leads to what is settled.
LEMMA StillIsSettled ==
    ASSUME KInv, pc = "loop", ~HasEmpty(Assigned), NEW new, new = Recalculated(Assigned),
           ~Moved(clusters, new)
    PROVE  Settled(set, new)
<1>1. PICK cs : cs = Assigned
  OBVIOUS
<1>2. /\ cs \in Seq(ClusterOf(set)) /\ DOMAIN cs = DOMAIN clusters
      /\ \A c \in DOMAIN clusters :
            \A r \in Range(cs[c].points) : Nearest(clusters, r) = c
  BY <1>1, AssignedIs
<1>3. /\ DOMAIN new = DOMAIN cs /\ ~HasEmpty(cs)
      /\ \A c \in DOMAIN cs : /\ new[c].points = cs[c].points
                              /\ new[c].centroid = Mean(cs[c].points)
  <2>1. set \in Seq(Int)
    BY DEF KInv, Types
  <2> QED BY <1>1, <1>2, <2>1, RecalculatedAre
<1>4. \A c \in DOMAIN clusters : new[c].centroid = clusters[c].centroid
  BY DEF Moved
<1>5. \A r : Nearest(new, r) = Nearest(clusters, r)
  BY <1>2, <1>3, <1>4, NearestSame
<1>6. ~HasEmpty(new)
  BY <1>3 DEF HasEmpty
<1>7. \A c \in DOMAIN new : /\ new[c].centroid = MeanOf(set, new[c].points)
                            /\ \A r \in Range(new[c].points) : NearestOf(set, new, r) = c
  BY <1>2, <1>3, <1>5, OfTheSet
<1> QED BY <1>6, <1>7 DEF Settled

LEMMA ImproveKeeps == KInv /\ Improve => KInv'
<1> SUFFICES ASSUME KInv, Improve PROVE KInv'
  OBVIOUS
<1>1. /\ pc = "loop" /\ Goes /\ itr' = itr + 1 /\ pc' = pc /\ ~HasEmpty(Assigned)
      /\ UNCHANGED <<given, set, bisection, calls>>
      /\ still' = ~Moved(clusters, clusters')
  BY DEF Improve, Pass
<1>2. PICK cs : cs = Assigned
  OBVIOUS
<1>3. PICK new : new = Recalculated(cs)
  OBVIOUS
<1>4. clusters' = new
  BY <1>2, <1>3 DEF Improve
<1>5. Types /\ Phases
  BY DEF KInv
<1>6. /\ cs \in Seq(ClusterOf(set)) /\ Len(cs) = Len(clusters) /\ Len(clusters) \in Nat \ {0}
      /\ IsPartition(cs, set)
  BY <1>1, <1>2, AssignedIs
<1>7. /\ new \in Seq(ClusterOf(set)) /\ Len(new) = Len(cs) /\ DOMAIN new = DOMAIN cs
      /\ \A c \in DOMAIN cs : new[c].points = cs[c].points
  <2>1. set \in Seq(Int)
    BY <1>5 DEF Types
  <2> QED BY <1>3, <1>6, <2>1, RecalculatedAre
<1>8. Types' /\ Phases' /\ FirstCall' /\ SizesAddUp'
  <2>1. itr' \in 0 .. MaxItrs
    <3>1. itr \in 0 .. MaxItrs /\ itr < MaxItrs
      BY <1>1, <1>5 DEF Types, TypeOK, Goes
    <3> QED BY <1>1, <3>1, LimitsAssumption
  <2>2. still' \in BOOLEAN
    BY <1>1
  <2>3. clusters' # <<>>
    BY <1>4, <1>6, <1>7, EmptySeq
  <2>4. algo = "bisection" => Len(clusters') = 2
    BY <1>1, <1>4, <1>5, <1>6, <1>7 DEF Phases
  <2> QED BY <1>1, <1>4, <1>7, <2>1, <2>2, <2>3, <2>4, InnerKeeps
<1>9. EachInOneCluster'
  <2>1. IsPartition(new, set)
    BY <1>6, <1>7, PartitionSame
  <2> QED BY <1>1, <1>4, <2>1 DEF EachInOneCluster
<1>10. SettledWhenStill'
  <2>1. still' => Settled(set, new)
    BY <1>1, <1>2, <1>3, <1>4, StillIsSettled
  <2>2. pc' # "start" /\ set' = set
    BY <1>1
  <2> QED BY <1>4, <2>1, <2>2 DEF SettledWhenStill
<1> QED BY <1>8, <1>9, <1>10 DEF KInv

\* A turn after which a cluster is empty.
LEMMA EmptyTurnKeeps == KInv /\ (Restart \/ Break \/ Continue) => KInv'
<1> SUFFICES ASSUME KInv, Restart \/ Break \/ Continue PROVE KInv'
  OBVIOUS
<1>1. PICK cs : cs = Assigned
  OBVIOUS
<1>2. /\ pc = "loop" /\ Goes /\ itr' = itr + 1 /\ still' = still
      /\ UNCHANGED <<given, set, bisection, calls>>
      /\ \/ pc' = "start" /\ clusters' = cs
         \/ pc' = Leave /\ clusters' = cs
         \/ pc' = "failed" /\ clusters' = Recalculated(cs)
  BY <1>1 DEF Restart, Break, Continue, Pass
<1>3. Types /\ Phases
  BY DEF KInv
<1>4. /\ cs \in Seq(ClusterOf(set)) /\ Len(cs) = Len(clusters) /\ IsPartition(cs, set)
  BY <1>1, <1>2, AssignedIs
<1>5. /\ clusters' \in Seq(ClusterOf(set)) /\ Len(clusters') = Len(clusters)
      /\ IsPartition(clusters', set)
  <2>1. CASE clusters' = cs
    BY <1>4, <2>1
  <2>2. CASE clusters' = Recalculated(cs)
    <3>1. PICK new : new = Recalculated(cs)
      OBVIOUS
    <3>2. /\ new \in Seq(ClusterOf(set)) /\ Len(new) = Len(cs) /\ DOMAIN new = DOMAIN cs
          /\ \A c \in DOMAIN cs : new[c].points = cs[c].points
      <4>1. set \in Seq(Int)
        BY <1>3 DEF Types
      <4> QED BY <1>4, <3>1, <4>1, RecalculatedAre
    <3>3. IsPartition(new, set)
      BY <1>4, <3>2, PartitionSame
    <3> QED BY <1>4, <2>2, <3>1, <3>2, <3>3
  <2> QED BY <1>2, <2>1, <2>2
<1>6. ~still
  BY <1>2 DEF Goes
<1>7. pc' \in {"start", "split", "done", "failed"} /\ (algo = "kmeans" => pc' # "split")
  BY <1>2 DEF Leave
<1>8. Types' /\ Phases' /\ FirstCall' /\ SizesAddUp'
  <2>1. itr' \in 0 .. MaxItrs
    <3>1. itr \in 0 .. MaxItrs /\ itr < MaxItrs
      BY <1>2, <1>3 DEF Types, TypeOK, Goes
    <3> QED BY <1>2, <3>1, LimitsAssumption
  <2>2. still' \in BOOLEAN
    BY <1>2, <1>3 DEF Types, TypeOK
  <2>3. algo = "bisection" => Len(clusters') = 2
    BY <1>2, <1>3, <1>5 DEF Phases
  <2> QED BY <1>2, <1>5, <1>7, <2>1, <2>2, <2>3, InnerKeeps
<1>9. EachInOneCluster'
  BY <1>2, <1>5 DEF EachInOneCluster
<1>10. SettledWhenStill'
  BY <1>2, <1>6 DEF SettledWhenStill
<1> QED BY <1>8, <1>9, <1>10 DEF KInv

LEMMA FinishKeeps == KInv /\ Finish => KInv'
<1> SUFFICES ASSUME KInv, Finish PROVE KInv'
  OBVIOUS
<1>1. /\ pc = "loop" /\ pc' = Leave /\ itr' = IF itr < MaxItrs THEN itr + 1 ELSE itr
      /\ UNCHANGED <<given, set, clusters, still, bisection, calls>>
  BY DEF Finish
<1>2. Types /\ Phases /\ EachInOneCluster /\ SettledWhenStill
  BY DEF KInv
<1>3. pc' \in {"split", "done"} /\ (algo = "kmeans" => pc' # "split")
  BY <1>1 DEF Leave
<1>4. Types' /\ Phases' /\ FirstCall' /\ SizesAddUp'
  <2>1. itr' \in 0 .. MaxItrs
    <3>1. itr \in 0 .. MaxItrs
      BY <1>2 DEF Types, TypeOK
    <3> QED BY <1>1, <3>1, LimitsAssumption
  <2>2. still' \in BOOLEAN /\ clusters' \in Seq(ClusterOf(set))
    BY <1>1, <1>2 DEF Types, TypeOK
  <2>3. algo = "bisection" => Len(clusters') = 2
    BY <1>1, <1>2 DEF Phases
  <2> QED BY <1>1, <1>3, <2>1, <2>2, <2>3, InnerKeeps
<1>5. EachInOneCluster'
  BY <1>1, <1>2 DEF EachInOneCluster
<1>6. SettledWhenStill'
  BY <1>1, <1>2, <1>3 DEF SettledWhenStill, given
<1> QED BY <1>4, <1>5, <1>6 DEF KInv

-----------------------------------------------------------------------------
(* The steps of a bisection, and the calls.                                 *)

LEMMA PartsAre ==
    ASSUME Types
    PROVE  /\ Len(parts) \in Nat /\ DOMAIN parts = 1 .. Len(parts)
           /\ data \in Seq(Int) /\ Len(data) \in Nat \ {0} /\ DOMAIN data = 1 .. Len(data)
           /\ \A c \in 1 .. Len(parts) :
                 /\ parts[c] \in PartOf /\ parts[c].points \in Seq(DOMAIN data)
                 /\ parts[c].points \in Seq(Nat) /\ Len(parts[c].points) \in 0 .. Len(data)
<1>1. /\ Len(parts) \in Nat /\ DOMAIN parts = 1 .. Len(parts)
      /\ \A c \in 1 .. Len(parts) : parts[c] \in PartOf
  BY LenProperties DEF Types
<1>2. data \in Seq(Int) /\ data # <<>>
  BY DataSetsAssumption DEF Types
<1>3. Len(data) \in Nat \ {0} /\ DOMAIN data = 1 .. Len(data)
  BY <1>2, EmptySeq, LenProperties
<1>4. ASSUME NEW c \in 1 .. Len(parts)
      PROVE  /\ parts[c].points \in Seq(DOMAIN data) /\ parts[c].points \in Seq(Nat)
             /\ Len(parts[c].points) \in 0 .. Len(data)
  <2>1. parts[c].points \in Seq(DOMAIN data)
    BY <1>1 DEF PartOf
  <2>2. DOMAIN data \subseteq Nat
    BY <1>3
  <2>3. parts[c].points \in Seq(Nat)
    BY <2>1, <2>2, SeqMonotonic
  <2>4. Len(parts[c].points) \in Nat /\ Len(parts[c].points) <= Len(data)
    BY <1>1, <2>3, LenProperties DEF Types
  <2> QED BY <1>3, <2>1, <2>3, <2>4
<1> QED BY <1>1, <1>2, <1>3, <1>4

LEMMA SelectedIs ==
    ASSUME Types
    PROVE  /\ Selected \in 0 .. Len(parts)
           /\ Selected # 0 /\ Len(parts) # 1 => ~HasEmpty(parts)
<1>1. Len(parts) \in Nat /\ DOMAIN parts = 1 .. Len(parts)
  BY PartsAre
<1>2. CASE Len(parts) = 1
  <2>1. Selected = 1
    BY <1>2 DEF Selected
  <2> QED BY <1>2, <2>1
<1>3. CASE /\ Len(parts) # 1
           /\ \E c \in DOMAIN parts : parts[c].points = <<>> \/ ~parts[c].valid
  <2>1. Selected = 0
    BY <1>3 DEF Selected
  <2> QED BY <1>1, <2>1
<1>4. CASE /\ Len(parts) # 1
           /\ ~\E c \in DOMAIN parts : parts[c].points = <<>> \/ ~parts[c].valid
  <2> DEFINE best == {c \in DOMAIN parts : /\ Scatter(parts[c]) > 0
                                           /\ \A d \in DOMAIN parts : ~Exceeds(parts[d], parts[c])}
  <2>1. Selected = IF best = {} THEN 0 ELSE Min(best)
    BY <1>4 DEF Selected
  <2>2. best \subseteq 1 .. Len(parts)
    BY <1>1
  <2> HIDE DEF best
  <2>3. ~HasEmpty(parts)
    BY <1>4 DEF HasEmpty
  <2>4. CASE best = {}
    BY <1>1, <2>1, <2>3, <2>4
  <2>5. CASE best # {}
    <3>1. \E x \in best : \A y \in best : x <= y
      <4>1. 1 .. Len(parts) \subseteq Nat
        BY <1>1
      <4> QED BY <2>2, <2>5, <4>1, LeastExists
    <3>2. Min(best) \in best
      BY <3>1 DEF Min
    <3> QED BY <2>1, <2>2, <2>3, <2>5, <3>2
  <2> QED BY <2>4, <2>5
<1> QED BY <1>2, <1>3, <1>4

LEMMA SelectKeeps == KInv /\ Select => KInv'
<1> SUFFICES ASSUME KInv, Select PROVE KInv'
  OBVIOUS
<1>1. /\ pc = "select" /\ splits < MaxItrs /\ splits' = splits + 1 /\ split' = Selected
      /\ UNCHANGED <<algo, data, k, restarts, continues, parts, calls>>
  BY DEF Select, given
<1>2. Types /\ Phases /\ EachInOneCluster /\ SettledWhenStill /\ FirstCall /\ SizesAddUp
  BY DEF KInv
<1>3. algo = "bisection"
  BY <1>1, <1>2 DEF Phases, Types
<1>4. /\ Len(parts) \in Nat /\ DOMAIN parts = 1 .. Len(parts)
      /\ Len(data) \in Nat \ {0} /\ DOMAIN data = 1 .. Len(data)
      /\ \A r \in DOMAIN data : data[r] \in Int
      /\ \A c \in 1 .. Len(parts) :
            /\ parts[c].points \in Seq(DOMAIN data) /\ Len(parts[c].points) \in 0 .. Len(data)
  <2>1. data \in Seq(Int)
    BY <1>2, PartsAre
  <2>2. \A r \in DOMAIN data : data[r] \in Int
    BY <2>1, LenProperties
  <2> QED BY <1>2, <2>2, PartsAre
<1>5. split' \in 0 .. Len(parts) /\ (split' # 0 /\ Len(parts) # 1 => ~HasEmpty(parts))
  BY <1>1, <1>2, SelectedIs
<1>6. splits' \in 0 .. MaxItrs
  <2>1. splits \in 0 .. MaxItrs
    BY <1>2 DEF Types, TypeOK
  <2> QED BY <1>1, <2>1, LimitsAssumption
<1>7. SizesAddUp'
  BY <1>1, <1>2 DEF SizesAddUp
<1>8. CASE split' = 0 \/ Len(parts[split'].points) < 2
  <2>1. pc' = "failed" /\ UNCHANGED <<set, clusters, itr, still>>
    BY <1>8 DEF Select, kmeans
  <2>2. TypeOK'
    BY <1>1, <1>2, <1>5, <1>6, <2>1 DEF Types, TypeOK
  <2>3. Types'
    BY <1>1, <1>2, <2>1, <2>2 DEF Types, PartOf
  <2>4. Phases' /\ EachInOneCluster' /\ FirstCall'
    BY <1>1, <1>2, <1>3, <2>1 DEF Phases, EachInOneCluster, FirstCall, Inner
  <2>5. SettledWhenStill'
    BY <1>1, <1>2, <2>1 DEF SettledWhenStill
  <2> QED BY <1>7, <2>3, <2>4, <2>5 DEF KInv
<1>9. CASE ~(split' = 0 \/ Len(parts[split'].points) < 2)
  <2>1. /\ pc' = "start" /\ clusters' = <<>> /\ itr' = 0 /\ still' = FALSE
        /\ set' = [i \in DOMAIN parts[split'].points |-> data[parts[split'].points[i]]]
    BY <1>9 DEF Select
  <2>2. PICK c \in 1 .. Len(parts) : c = split'
    BY <1>4, <1>5, <1>9
  <2>3. PICK p \in Seq(DOMAIN data) : p = parts[c].points
    BY <1>4
  <2>4. PICK n \in 2 .. Len(data) : n = Len(p)
    <3>1. Len(p) \in 0 .. Len(data) /\ ~(Len(p) < 2)
      BY <1>4, <1>9, <2>2, <2>3
    <3> QED BY <1>4, <3>1
  <2>5. DOMAIN p = 1 .. n /\ \A i \in 1 .. n : p[i] \in DOMAIN data
    BY <2>4, LenProperties
  <2>6. set' = [i \in 1 .. n |-> data[p[i]]]
    BY <2>1, <2>2, <2>3, <2>5
  <2>7. set' \in Seq(Int) /\ Len(set') = n /\ DOMAIN set' = 1 .. n
    <3>1. set' \in [1 .. n -> Int]
      BY <1>4, <2>5, <2>6
    <3>2. n \in Nat
      BY <1>4
    <3> QED BY <3>1, <3>2, IsSeq
  <2>8. \A r \in 1 .. n : \E q \in DOMAIN data : set'[r] = data[q]
    BY <2>5, <2>6
  <2>9. TypeOK'
    <3>1. itr' \in 0 .. MaxItrs
      BY <2>1, LimitsAssumption
    <3>2. still' \in BOOLEAN
      BY <2>1
    <3> QED BY <1>1, <1>5, <1>6, <2>1, <3>1, <3>2 DEF TypeOK
  <2>10. Types'
    <3>1. clusters' \in Seq(ClusterOf(set'))
      BY <2>1, EmptySeq
    <3>2. Len(set') \in 1 .. Len(data)
      BY <1>4, <2>4, <2>7
    <3>3. calls' \in Nat /\ parts' \in Seq(PartOf')
      BY <1>1, <1>2 DEF Types, PartOf
    <3>4. \A r \in DOMAIN set' : \E q \in DOMAIN data' : set'[r] = data'[q]
      BY <1>1, <2>7, <2>8
    <3> QED BY <1>1, <1>2, <2>7, <2>9, <3>1, <3>2, <3>3, <3>4 DEF Types
  <2>11. Phases'
    <3>1. split' \in 1 .. Len(parts') /\ Len(set') = Len(parts'[split'].points)
      BY <1>1, <2>2, <2>3, <2>4, <2>7
    <3> QED BY <1>1, <1>2, <1>3, <2>1, <3>1 DEF Phases
  <2>12. EachInOneCluster'
    BY <2>1 DEF EachInOneCluster
  <2>13. SettledWhenStill'
    BY <2>1 DEF SettledWhenStill
  <2>14. FirstCall'
    <3>1. SUFFICES ASSUME calls = 1
                   PROVE  /\ parts # <<>> /\ ~HasEmpty(parts)
                          /\ Len(parts) = 1 => parts[1].points = Rows(data) /\ set' = data
      BY <1>1 DEF FirstCall, Inner
    <3>2. parts # <<>> /\ (Len(parts) = 1 => parts[1].points = Rows(data))
      BY <1>2, <1>3, <3>1 DEF FirstCall
    <3>3. CASE Len(parts) = 1
      <4>1. c = 1 /\ p = Rows(data)
        BY <2>2, <2>3, <3>2, <3>3
      <4>2. Len(Rows(data)) = Len(data) /\ \A i \in 1 .. Len(data) : Rows(data)[i] = i
        BY <1>4, RowsAre
      <4>3. n = Len(data) /\ \A i \in 1 .. n : set'[i] = data[i]
        BY <2>4, <2>6, <4>1, <4>2
      <4>4. set' = data
        <5>1. data \in Seq(Int)
          BY <1>2, PartsAre
        <5> QED BY <2>7, <4>3, <5>1, SeqEqual
      <4>5. ~HasEmpty(parts)
        <5>1. parts[1].points # <<>>
          BY <2>3, <2>4, <4>1, EmptySeq
        <5> QED BY <1>4, <3>3, <5>1 DEF HasEmpty
      <4> QED BY <3>2, <4>4, <4>5
    <3>4. CASE Len(parts) # 1
      BY <1>5, <1>9, <3>2, <3>4
    <3> QED BY <3>3, <3>4
  <2> QED BY <1>7, <2>10, <2>11, <2>12, <2>13, <2>14 DEF KInv
<1> QED BY <1>8, <1>9

LEMMA StopKeeps == KInv /\ Stop => KInv'
<1> SUFFICES ASSUME KInv, Stop PROVE KInv'
  OBVIOUS
<1>1. /\ pc = "select" /\ pc' = "done"
      /\ UNCHANGED <<algo, data, k, restarts, continues, set, clusters, itr, still,
                     parts, splits, split, calls>>
  BY DEF Stop, given, kmeans, bisection
<1>2. Types /\ Phases /\ EachInOneCluster /\ SettledWhenStill /\ FirstCall /\ SizesAddUp
  BY DEF KInv
<1>3. TypeOK'
  BY <1>1, <1>2 DEF Types, TypeOK
<1>4. Types'
  BY <1>1, <1>2, <1>3 DEF Types, PartOf
<1>5. Phases' /\ EachInOneCluster' /\ FirstCall' /\ SizesAddUp'
  BY <1>1, <1>2 DEF Phases, EachInOneCluster, FirstCall, SizesAddUp, Inner
<1>6. SettledWhenStill'
  BY <1>1, <1>2 DEF SettledWhenStill
<1> QED BY <1>4, <1>5, <1>6 DEF KInv

LEMMA SizesAre ==
    ASSUME NEW ps, NEW n \in Nat, DOMAIN ps = 1 .. n, \A c \in 1 .. n : ps[c].points \in Seq(Nat)
    PROVE  LET ls == [c \in DOMAIN ps |-> Len(ps[c].points)]
           IN  ls \in Seq(Int) /\ Len(ls) = n /\ \A c \in 1 .. n : ls[c] = Len(ps[c].points)
<1>1. PICK ls : ls = [c \in DOMAIN ps |-> Len(ps[c].points)]
  OBVIOUS
<1>2. \A c \in 1 .. n : Len(ps[c].points) \in Int
  BY LenProperties
<1>3. ls \in [1 .. n -> Int]
  BY <1>1, <1>2
<1>4. ls \in Seq(Int) /\ Len(ls) = n
  BY <1>3, IsSeq
<1> QED BY <1>1, <1>4

LEMMA ClusterKeeps == KInv /\ Cluster => KInv'
<1> SUFFICES ASSUME KInv, Cluster PROVE KInv'
  OBVIOUS
<1>1. /\ Returned /\ calls' = calls + 1
      /\ UNCHANGED <<algo, data, k, restarts, continues, set, clusters, itr, still, splits, split>>
  BY DEF Cluster, given, kmeans
<1>2. Types /\ Phases /\ EachInOneCluster /\ SettledWhenStill
  BY DEF KInv
<1>3. calls \in Nat /\ calls' \in Nat \ {0} /\ (calls' = 1 => calls = 0)
  BY <1>1, <1>2 DEF Types
<1>4. EachInOneCluster'
  BY <1>1, <1>2 DEF EachInOneCluster
<1>5. CASE algo = "kmeans"
  <2>1. pc' = "start" /\ parts' = parts
    BY <1>5 DEF Cluster
  <2>2. TypeOK'
    BY <1>1, <1>2, <2>1 DEF Types, TypeOK
  <2>3. Types'
    BY <1>1, <1>2, <1>3, <2>1, <2>2 DEF Types, PartOf
  <2>4. Phases'
    BY <1>1, <1>2, <1>3, <1>5, <2>1 DEF Phases
  <2>5. SettledWhenStill'
    BY <1>1, <1>2, <1>3, <1>5, <2>1 DEF SettledWhenStill, Phases
  <2>6. FirstCall'
    BY <1>1, <1>5 DEF FirstCall
  <2>7. SizesAddUp'
    <3>1. parts' = <<>>
      BY <1>2, <1>5, <2>1 DEF Phases
    <3>2. PICK none : none = [c \in DOMAIN parts' |-> Len(parts'[c].points)]
      OBVIOUS
    <3>3. none = <<>> /\ Len(none) = 0
      BY <3>1, <3>2
    <3>4. Total(none) = 0
      BY <3>3, SumsAre
    <3>5. Len(parts') # 2
      BY <3>1
    <3> QED BY <1>1, <1>5, <3>2, <3>4, <3>5 DEF SizesAddUp
  <2> QED BY <1>4, <2>3, <2>4, <2>5, <2>6, <2>7 DEF KInv
<1>6. CASE algo = "bisection"
  <2> DEFINE new == [centroid |-> 0, points |-> Rows(data), valid |-> FALSE]
  <2>1. pc' = "select" /\ parts' = Append(parts, new)
    BY <1>6 DEF Cluster
  <2>2. /\ data \in Seq(Int) /\ Len(data) \in Nat \ {0} /\ DOMAIN data = 1 .. Len(data)
        /\ Len(parts) \in Nat /\ parts \in Seq(PartOf)
    BY <1>2, PartsAre DEF Types
  <2>3. /\ Rows(data) \in Seq(DOMAIN data) /\ Len(Rows(data)) = Len(data)
        /\ Range(Rows(data)) = DOMAIN data /\ IsInjective(Rows(data))
    BY <2>2, RowsAre
  <2>4. new \in PartOf /\ new.points = Rows(data)
    BY <2>3 DEF PartOf
  <2>5. /\ parts' \in Seq(PartOf) /\ Len(parts') = Len(parts) + 1
        /\ parts'[Len(parts) + 1] = new /\ \A c \in 1 .. Len(parts) : parts'[c] = parts[c]
    <3> HIDE DEF new
    <3> QED BY <2>1, <2>2, <2>4, AppendProperties
  <2> HIDE DEF new
  <2>6. DOMAIN parts' = 1 .. (Len(parts) + 1)
    BY <2>5, LenProperties
  <2>7. TypeOK'
    <3>1. split \in 0 .. Len(parts)
      BY <1>2 DEF Types, TypeOK
    <3>2. split' \in 0 .. Len(parts')
      BY <1>1, <2>2, <2>5, <3>1
    <3> QED BY <1>1, <1>2, <2>1, <3>2 DEF Types, TypeOK
  <2>8. Types'
    <3>1. \A c \in DOMAIN parts' : Len(parts'[c].points) <= Len(data')
      <4> SUFFICES ASSUME NEW c \in 1 .. (Len(parts) + 1)
                   PROVE  Len(parts'[c].points) <= Len(data)
        BY <1>1, <2>6
      <4>1. CASE c = Len(parts) + 1
        BY <2>2, <2>3, <2>4, <2>5, <4>1
      <4>2. CASE c # Len(parts) + 1
        <5>1. c \in 1 .. Len(parts)
          BY <2>2, <4>2
        <5>2. c \in DOMAIN parts
          BY <1>2, <5>1, PartsAre
        <5> QED BY <1>2, <2>5, <5>1, <5>2 DEF Types
      <4> QED BY <4>1, <4>2
    <3>2. parts' \in Seq(PartOf')
      BY <1>1, <2>5 DEF PartOf
    <3> QED BY <1>1, <1>2, <1>3, <2>7, <3>1, <3>2 DEF Types
  <2>9. Phases'
    BY <1>1, <1>2, <1>3, <1>6, <2>1 DEF Phases, Inner
  <2>10. SettledWhenStill'
    BY <1>1, <1>2, <1>6, <2>1 DEF SettledWhenStill
  <2>11. ASSUME calls' = 1
         PROVE  /\ Len(parts') = 1 /\ DOMAIN parts' = 1 .. 1 /\ parts'[1] = new
    <3>1. Len(parts) = 0
      BY <1>2, <1>3, <2>11, EmptySeq DEF Phases
    <3> QED BY <2>5, <2>6, <3>1
  <2>12. FirstCall'
    <3>1. calls' = 1 => parts' # <<>> /\ parts'[1].points = Rows(data)
      BY <2>4, <2>11, EmptySeq
    <3> QED BY <1>1, <2>1, <3>1 DEF FirstCall, Inner
  <2>13. SizesAddUp'
    <3> SUFFICES ASSUME calls' = 1
                 PROVE  /\ Total([c \in DOMAIN parts' |-> Len(parts'[c].points)]) = Len(data)
                        /\ Len(parts') # 2
      BY <1>1, <1>6 DEF SizesAddUp
    <3>1. Len(parts') = 1 /\ DOMAIN parts' = 1 .. 1 /\ parts'[1].points = Rows(data)
      BY <2>4, <2>11
    <3>2. PICK ps : ps = parts'
      OBVIOUS
    <3>3. IsPartition(ps, data)
      <4>1. {Range(ps[c].points) : c \in DOMAIN ps} = {DOMAIN data}
        BY <2>3, <3>1, <3>2
      <4>2. UNION {Range(ps[c].points) : c \in DOMAIN ps} = DOMAIN data
        BY <4>1
      <4>3. \A c \in DOMAIN ps : c = 1 /\ IsInjective(ps[c].points)
        BY <2>3, <3>1, <3>2
      <4> QED BY <4>2, <4>3 DEF IsPartition
    <3>4. \A c \in 1 .. 1 : ps[c].points \in Seq(Nat)
      <4>1. DOMAIN data \subseteq Nat
        BY <2>2
      <4>2. Rows(data) \in Seq(Nat)
        BY <2>3, <4>1, SeqMonotonic
      <4> QED BY <3>1, <3>2, <4>2
    <3>5. Total([c \in DOMAIN ps |-> Len(ps[c].points)]) = Len(data)
      <4>1. DOMAIN ps = 1 .. 1 /\ 1 \in Nat
        BY <3>1, <3>2
      <4> QED BY <2>2, <3>3, <3>4, <4>1, PartitionSize
    <3> QED BY <3>1, <3>2, <3>5
  <2> QED BY <1>4, <2>8, <2>9, <2>10, <2>12, <2>13 DEF KInv
<1> QED BY <1>2, <1>5, <1>6 DEF Types

\* The two halves are clusters of the data set, of no more points than it has.
LEMMA HalvesAre ==
    ASSUME KInv, pc = "split", NEW c \in {1, 2}
    PROVE  /\ DOMAIN clusters = 1 .. 2 /\ Valid(clusters[c]) \in PartOf
           /\ Valid(clusters[c]).points = clusters[c].points
           /\ clusters[c].points \in Seq(Nat)
           /\ Len(clusters[c].points) <= Len(data)
<1>1. Types /\ Phases /\ EachInOneCluster
  BY DEF KInv
<1>2. algo = "bisection"
  BY <1>1 DEF Phases, Types
<1>3. /\ Len(clusters) = 2 /\ clusters \in Seq(ClusterOf(set)) /\ set \in Seq(Int)
      /\ Len(set) \in 1 .. Len(data)
  BY <1>1, <1>2 DEF Phases, Types
<1>4. DOMAIN clusters = 1 .. 2 /\ c \in DOMAIN clusters
  BY <1>3, LenProperties
<1>5. clusters[c] \in ClusterOf(set)
  BY <1>3, <1>4, LenProperties
<1>6. PICK p \in Seq(DOMAIN set) : p = clusters[c].points
  BY <1>5 DEF ClusterOf
<1>7. DOMAIN set = 1 .. Len(set) /\ Len(data) \in Nat /\ DOMAIN data = 1 .. Len(data)
  BY <1>1, <1>3, PartsAre, LenProperties
<1>8. DOMAIN set \subseteq DOMAIN data /\ DOMAIN set \subseteq Nat
  BY <1>3, <1>7
<1>9. p \in Seq(DOMAIN data) /\ p \in Seq(Nat)
  BY <1>8, SeqMonotonic
<1>10. Len(p) <= Len(data)
  <2>1. IsInjective(p)
    BY <1>1, <1>4, <1>6, PointsInjective
  <2>2. Cardinality(Range(p)) = Len(p)
    BY <2>1, LenIsSize
  <2>3. Range(p) \subseteq 1 .. Len(data)
    <3>1. DOMAIN p = 1 .. Len(p) /\ \A i \in 1 .. Len(p) : p[i] \in DOMAIN data
      BY <1>9, LenProperties
    <3> QED BY <1>7, <3>1 DEF Range
  <2>4. IsFiniteSet(1 .. Len(data)) /\ Cardinality(1 .. Len(data)) = Len(data)
    <3>1. 1 \in Int /\ Len(data) \in Int
      BY <1>7
    <3>2. /\ IsFiniteSet(1 .. Len(data))
          /\ Cardinality(1 .. Len(data)) = IF 1 > Len(data) THEN 0 ELSE Len(data) - 1 + 1
      BY <3>1, FS_Interval
    <3> QED BY <1>7, <3>2
  <2>5. Cardinality(Range(p)) <= Cardinality(1 .. Len(data))
    BY <2>3, <2>4, FS_Subset
  <2> QED BY <2>2, <2>4, <2>5
<1>11. Valid(clusters[c]) \in PartOf /\ Valid(clusters[c]).points = p
  BY <1>5, <1>6, <1>9 DEF Valid, PartOf, ClusterOf
<1> QED BY <1>4, <1>6, <1>9, <1>10, <1>11

\* The points of the halves, if none is empty, are as many as those split.
LEMMA HalvesAddUp ==
    ASSUME KInv, pc = "split", clusters[1].points # <<>>
    PROVE  /\ Len(clusters[1].points) + Len(clusters[2].points) = Len(set)
           /\ IsPartition(clusters, set)
<1>1. Types /\ Phases /\ EachInOneCluster
  BY DEF KInv
<1>2. \A c \in {1, 2} : DOMAIN clusters = 1 .. 2 /\ clusters[c].points \in Seq(Nat)
  BY HalvesAre
<1>3. IsPartition(clusters, set)
  BY <1>1, <1>2 DEF EachInOneCluster
<1>4. PICK ls : ls = [c \in DOMAIN clusters |-> Len(clusters[c].points)]
  OBVIOUS
<1>5. 2 \in Nat /\ DOMAIN clusters = 1 .. 2 /\ \A c \in 1 .. 2 : clusters[c].points \in Seq(Nat)
  BY <1>2
<1>6. ls \in Seq(Int) /\ Len(ls) = 2 /\ \A c \in 1 .. 2 : ls[c] = Len(clusters[c].points)
  BY <1>4, <1>5, SizesAre
<1>7. Total(ls) = Len(set)
  <2>1. set \in Seq(Int)
    BY <1>1 DEF Types
  <2> QED BY <1>3, <1>4, <1>5, <2>1, PartitionSize
<1>8. Total(ls) = ls[1] + ls[2]
  <2>1. PICK g : g = Sums(ls)
    OBVIOUS
  <2>2. g[0] = 0 /\ Total(ls) = g[2] /\ \A i \in 1 .. 2 : g[i] = g[i - 1] + ls[i]
    <3>1. Len(ls) \in Nat
      BY <1>6
    <3>2. /\ g[0] = 0 /\ Total(ls) = g[Len(ls)]
          /\ \A i \in 1 .. Len(ls) : g[i] = g[i - 1] + ls[i]
      BY <2>1, <3>1, SumsAre
    <3> QED BY <1>6, <3>2
  <2>3. ls[1] \in Int /\ ls[2] \in Int
    BY <1>6, LenProperties
  <2>4. g[1] = g[0] + ls[1] /\ g[2] = g[1] + ls[2]
    BY <2>2
  <2> QED BY <2>2, <2>3, <2>4
<1>9. 1 \in 1 .. 2 /\ 2 \in 1 .. 2
  OBVIOUS
<1> QED BY <1>3, <1>6, <1>7, <1>8, <1>9

LEMMA SplitKeeps == KInv /\ Split => KInv'
<1> SUFFICES ASSUME KInv, Split PROVE KInv'
  OBVIOUS
<1>1. /\ pc = "split" /\ pc' = "select" /\ parts' = IF Len(parts) < k THEN Halved ELSE parts
      /\ UNCHANGED <<algo, data, k, restarts, continues, set, clusters, itr, still,
                     splits, split, calls>>
  BY DEF Split, given, kmeans
<1>2. Types /\ Phases /\ EachInOneCluster /\ SettledWhenStill /\ FirstCall /\ SizesAddUp
  BY DEF KInv
<1>3. algo = "bisection" /\ Inner /\ split \in 1 .. Len(parts) /\ Len(set) = Len(parts[split].points)
  BY <1>1, <1>2 DEF Phases, Types, Inner
<1>4. EachInOneCluster' /\ SettledWhenStill'
  <2>1. EachInOneCluster'
    BY <1>1, <1>2 DEF EachInOneCluster
  <2>2. SettledWhenStill'
    BY <1>1, <1>2, <1>3 DEF SettledWhenStill
  <2> QED BY <2>1, <2>2
<1>5. CASE parts' = parts
  <2>1. TypeOK'
    BY <1>1, <1>2, <1>5 DEF Types, TypeOK
  <2>2. Types'
    BY <1>1, <1>2, <1>5, <2>1 DEF Types, PartOf
  <2>3. Phases'
    BY <1>1, <1>2, <1>3, <1>5 DEF Phases, Inner
  <2>4. FirstCall' /\ SizesAddUp'
    BY <1>1, <1>2, <1>5 DEF FirstCall, SizesAddUp, Inner
  <2> QED BY <1>4, <2>2, <2>3, <2>4 DEF KInv
<1>6. CASE parts' = Halved
  <2>1. PICK n \in Nat \ {0} : n = Len(parts)
    <3>1. PICK n \in Nat : n = Len(parts)
      BY <1>2 DEF Types
    <3>2. n # 0
      BY <1>3, <3>1
    <3> QED BY <3>1, <3>2
  <2>2. PICK h \in 1 .. n : h = split
    BY <1>3, <2>1
  <2>3. PICK v \in PartOf : v = Valid(clusters[1]) /\ v.points = clusters[1].points
    BY <1>1, HalvesAre
  <2>4. PICK w \in PartOf : w = Valid(clusters[2]) /\ w.points = clusters[2].points
    BY <1>1, HalvesAre
  <2>5. /\ DOMAIN clusters = 1 .. 2
        /\ v.points \in Seq(Nat) /\ Len(v.points) <= Len(data)
        /\ w.points \in Seq(Nat) /\ Len(w.points) <= Len(data)
    BY <1>1, <2>3, <2>4, HalvesAre
  <2>6. /\ parts \in Seq(PartOf) /\ DOMAIN parts = 1 .. n
        /\ data \in Seq(Int) /\ Len(data) \in Nat \ {0}
        /\ \A c \in 1 .. n : /\ parts[c].points \in Seq(Nat)
                             /\ Len(parts[c].points) \in 0 .. Len(data)
    BY <1>2, <2>1, PartsAre DEF Types
  <2>7. /\ parts' \in Seq(PartOf) /\ Len(parts') = n + 1 /\ DOMAIN parts' = 1 .. (n + 1)
        /\ parts'[h] = v /\ parts'[n + 1] = w
        /\ \A c \in 1 .. n : c # h => parts'[c] = parts[c]
    <3>1. PICK q : q = [parts EXCEPT ![h] = v]
      OBVIOUS
    <3>2. /\ q \in Seq(PartOf) /\ Len(q) = n
          /\ \A c \in 1 .. n : q[c] = IF c = h THEN v ELSE parts[c]
      BY <2>1, <2>6, <3>1, ExceptSeq
    <3>3. parts' = Append(q, w)
      BY <1>6, <2>2, <2>3, <2>4, <3>1 DEF Halved
    <3>4. /\ parts' \in Seq(PartOf) /\ Len(parts') = n + 1 /\ parts'[n + 1] = w
          /\ \A c \in 1 .. n : parts'[c] = q[c]
      BY <3>2, <3>3, AppendProperties
    <3>5. DOMAIN parts' = 1 .. (n + 1)
      BY <3>4, LenProperties
    <3> QED BY <3>2, <3>4, <3>5
  <2>8. \A c \in 1 .. (n + 1) : c = n + 1 \/ c \in 1 .. n
    OBVIOUS
  <2>9. \A c \in 1 .. (n + 1) : parts'[c].points \in Seq(Nat) /\ Len(parts'[c].points) <= Len(data)
    <3> SUFFICES ASSUME NEW c \in 1 .. (n + 1)
                 PROVE  parts'[c].points \in Seq(Nat) /\ Len(parts'[c].points) <= Len(data)
      OBVIOUS
    <3>1. CASE c = n + 1
      BY <2>5, <2>7, <3>1
    <3>2. CASE c = h
      BY <2>5, <2>7, <3>2
    <3>3. CASE c \in 1 .. n /\ c # h
      <4>1. parts'[c] = parts[c] /\ Len(parts[c].points) \in 0 .. Len(data)
        BY <2>6, <2>7, <3>3
      <4>2. Len(parts[c].points) <= Len(data)
        BY <2>6, <4>1
      <4> QED BY <2>6, <3>3, <4>1, <4>2
    <3> QED BY <2>8, <3>1, <3>2, <3>3
  <2>10. TypeOK'
    <3>1. split' \in 0 .. Len(parts')
      BY <1>1, <2>2, <2>7
    <3> QED BY <1>1, <1>2, <3>1 DEF Types, TypeOK
  <2>11. Types'
    <3>1. parts' \in Seq(PartOf')
      BY <1>1, <2>7 DEF PartOf
    <3>2. \A c \in DOMAIN parts' : Len(parts'[c].points) <= Len(data')
      BY <1>1, <2>7, <2>9
    <3> QED BY <1>1, <1>2, <2>10, <3>1, <3>2 DEF Types
  <2>12. Phases'
    <3>1. calls # 0
      BY <1>1, <1>2 DEF Phases
    <3> QED BY <1>1, <1>2, <1>3, <3>1 DEF Phases, Inner
  <2>13. FirstCall'
    <3>1. Len(parts') # 1 /\ parts' # <<>>
      BY <2>7, EmptySeq
    <3> QED BY <1>1, <3>1 DEF FirstCall, Inner
  <2>14. SizesAddUp'
    <3> SUFFICES ASSUME calls = 1, ~HasEmpty(parts')
                 PROVE  /\ Total([c \in DOMAIN parts' |-> Len(parts'[c].points)]) = Len(data)
                        /\ Len(parts') = 2 => IsPartition(parts', data)
      BY <1>1, <1>3 DEF SizesAddUp
    <3>1. clusters[1].points # <<>>
      BY <2>3, <2>7 DEF HasEmpty
    <3>2. /\ Len(clusters[1].points) + Len(clusters[2].points) = Len(set)
          /\ IsPartition(clusters, set)
      BY <1>1, <3>1, HalvesAddUp
    <3>3. ~HasEmpty(parts) /\ (Len(parts) = 1 => set = data)
      BY <1>2, <1>3 DEF FirstCall
    <3>4. PICK old : old = [c \in DOMAIN parts |-> Len(parts[c].points)]
      OBVIOUS
    <3>5. /\ old \in Seq(Int) /\ Len(old) = n
          /\ \A c \in 1 .. n : old[c] = Len(parts[c].points)
      BY <2>1, <2>6, <3>4, SizesAre
    <3>6. Total(old) = Len(data)
      BY <1>2, <1>3, <3>3, <3>4 DEF SizesAddUp
    <3>7. PICK ps : ps = parts'
      OBVIOUS
    <3>8. PICK new : new = [c \in DOMAIN ps |-> Len(ps[c].points)]
      OBVIOUS
    <3>9. /\ new \in Seq(Int) /\ Len(new) = n + 1
          /\ \A c \in 1 .. (n + 1) : new[c] = Len(ps[c].points)
      <4>1. n + 1 \in Nat
        OBVIOUS
      <4> QED BY <2>7, <2>9, <3>7, <3>8, <4>1, SizesAre
    <3>10. /\ h \in 1 .. Len(old) /\ Len(new) = Len(old) + 1
           /\ \A c \in 1 .. Len(old) : c # h => new[c] = old[c]
      <4>1. ASSUME NEW c \in 1 .. n, c # h PROVE new[c] = old[c]
        <5>1. c \in 1 .. (n + 1)
          OBVIOUS
        <5> QED BY <2>7, <3>5, <3>7, <3>9, <4>1, <5>1
      <4> QED BY <3>5, <3>9, <4>1
    <3>11. Total(new) = Total(old) - old[h] + new[h] + new[Len(old) + 1]
      BY <3>5, <3>9, <3>10, TotalSplits
    <3>12. /\ old[h] = Len(set)
           /\ new[h] = Len(clusters[1].points) /\ new[n + 1] = Len(clusters[2].points)
      <4>1. h \in 1 .. (n + 1) /\ n + 1 \in 1 .. (n + 1)
        OBVIOUS
      <4>2. old[h] = Len(set)
        BY <1>3, <2>2, <3>5
      <4>3. new[h] = Len(v.points)
        BY <2>7, <3>7, <3>9, <4>1
      <4>4. new[n + 1] = Len(w.points)
        BY <2>7, <3>7, <3>9, <4>1
      <4> QED BY <2>3, <2>4, <4>2, <4>3, <4>4
    <3>13. Total(new) = Len(data)
      <4>1. Len(clusters[1].points) \in Int /\ Len(clusters[2].points) \in Int
        BY <2>3, <2>4, <2>5, LenProperties
      <4>2. Total(new) = Len(data) - Len(set) + Len(clusters[1].points) + Len(clusters[2].points)
        BY <3>5, <3>6, <3>11, <3>12
      <4>3. PICK a \in Int, b \in Int, l \in Int :
               /\ a = Len(clusters[1].points) /\ b = Len(clusters[2].points) /\ l = Len(data)
        <5>1. Len(data) \in Int
          BY <2>6
        <5> QED BY <4>1, <5>1
      <4>4. Total(new) = l - (a + b) + a + b
        BY <3>2, <4>2, <4>3
      <4>5. l - (a + b) + a + b = l
        OBVIOUS
      <4> QED BY <4>3, <4>4, <4>5
    <3>14. ASSUME Len(parts') = 2 PROVE IsPartition(ps, data)
      <4>1. n = 1 /\ h = 1 /\ set = data
        <5>1. n + 1 = 2
          BY <2>7, <3>14
        <5>2. n = 1
          BY <5>1
        <5>3. h = 1
          BY <5>2
        <5>4. set = data
          BY <2>1, <3>3, <5>2
        <5> QED BY <5>2, <5>3, <5>4
      <4>2. DOMAIN ps = DOMAIN clusters /\ \A c \in DOMAIN clusters : clusters[c].points = ps[c].points
        <5>1. ps[1] = v /\ ps[2] = w /\ DOMAIN ps = 1 .. 2
          BY <2>7, <3>7, <4>1
        <5>2. \A c \in 1 .. 2 : c = 1 \/ c = 2
          OBVIOUS
        <5> QED BY <2>3, <2>4, <2>5, <5>1, <5>2
      <4> QED BY <3>2, <4>1, <4>2, PartitionSame
    <3> QED BY <3>7, <3>8, <3>13, <3>14
  <2> QED BY <1>4, <2>11, <2>12, <2>13, <2>14 DEF KInv
<1> QED BY <1>1, <1>5, <1>6

LEMMA NextKInv == KInv /\ [Next]_vars => KInv'
<1> SUFFICES ASSUME KInv, [Next]_vars PROVE KInv'
  OBVIOUS
<1>1. CASE UNCHANGED vars
  <2>1. UNCHANGED <<algo, data, k, restarts, continues, pc, set, clusters, itr, still,
                    parts, splits, split, calls>>
    BY <1>1 DEF vars, given, kmeans, bisection
  <2>2. Types'
    BY <2>1 DEF KInv, Types, TypeOK, PartOf
  <2>3. Phases' /\ FirstCall' /\ SizesAddUp' /\ EachInOneCluster'
    BY <2>1 DEF KInv, Phases, FirstCall, SizesAddUp, EachInOneCluster, Inner
  <2>4. SettledWhenStill'
    BY <2>1 DEF KInv, SettledWhenStill
  <2> QED BY <2>2, <2>3, <2>4 DEF KInv
<1> QED BY <1>1, ClusterKeeps, StartKeeps, ImproveKeeps, EmptyTurnKeeps, FinishKeeps,
           SelectKeeps, SplitKeeps, StopKeeps DEF Next, Run

-----------------------------------------------------------------------------
(* What a clustering costs.                                                 *)

LEMMA SquareIs == ASSUME NEW x \in Int PROVE Square(x) \in Nat /\ (x # 0 => Square(x) > 0)
<1>1. CASE x >= 0
  BY <1>1 DEF Square
<1>2. CASE x < 0
  <2>1. PICK y \in Nat \ {0} : x = -y
    <3>1. -x \in Nat \ {0} /\ x = -(-x)
      BY <1>2
    <3> QED BY <3>1
  <2>2. (-y) * (-y) = y * y /\ y * y \in Nat /\ y * y > 0
    OBVIOUS
  <2> QED BY <2>1, <2>2 DEF Square
<1> QED BY <1>1, <1>2

LEMMA NearerIsCheaper ==
    ASSUME NEW x \in Int, NEW y \in Int, NEW z \in Int, Distance(x, y) <= Distance(x, z)
    PROVE  Square(x - y) <= Square(x - z)
<1>1. ASSUME NEW u \in Int, NEW v \in Int
      PROVE  Distance(u, v) \in Nat /\ Square(u - v) = Distance(u, v) * Distance(u, v)
  <2>1. CASE u < v
    <3>1. (u - v) * (u - v) = (v - u) * (v - u)
      OBVIOUS
    <3> QED BY <2>1, <3>1 DEF Distance, Square
  <2>2. CASE ~(u < v)
    BY <2>2 DEF Distance, Square
  <2> QED BY <2>1, <2>2
<1>2. PICK a \in Nat : a = Distance(x, y) /\ Square(x - y) = a * a
  BY <1>1
<1>3. PICK b \in Nat : b = Distance(x, z) /\ Square(x - z) = b * b
  BY <1>1
<1>4. a <= b => a * a <= b * b
  <2>1. ASSUME a <= b PROVE a * a <= b * b
    <3>1. PICK d \in Nat : b = a + d
      <4>1. b - a \in Nat /\ b = a + (b - a)
        BY <2>1
      <4> QED BY <4>1
    <3>2. (a + d) * (a + d) = a * a + d * (2 * a + d)
      OBVIOUS
    <3>3. d * (2 * a + d) \in Nat /\ a * a \in Nat
      OBVIOUS
    <3> QED BY <3>1, <3>2, <3>3
  <2> QED BY <2>1
<1> QED BY <1>2, <1>3, <1>4

\* The squares that a cluster adds up.
SquaresOf(s, p) == [i \in DOMAIN p.points |-> Square(s[p.points[i]] - p.centroid)]

LEMMA SquaresAre ==
    ASSUME NEW s \in Seq(Int), NEW p, p.points \in Seq(DOMAIN s), p.centroid \in Int
    PROVE  /\ SquaresOf(s, p) \in Seq(Int) /\ Len(SquaresOf(s, p)) = Len(p.points)
           /\ Len(p.points) \in Nat /\ DOMAIN p.points = 1 .. Len(p.points)
           /\ \A i \in 1 .. Len(p.points) :
                 /\ p.points[i] \in DOMAIN s /\ s[p.points[i]] \in Int
                 /\ SquaresOf(s, p)[i] = Square(s[p.points[i]] - p.centroid)
                 /\ SquaresOf(s, p)[i] \in Nat
           /\ Squares(s, p) = Total(SquaresOf(s, p)) /\ Squares(s, p) \in Int
<1>1. /\ Len(p.points) \in Nat /\ DOMAIN p.points = 1 .. Len(p.points)
      /\ \A i \in 1 .. Len(p.points) : p.points[i] \in DOMAIN s
  BY LenProperties
<1>2. \A r \in DOMAIN s : s[r] \in Int
  BY LenProperties
<1>3. PICK n \in Nat : n = Len(p.points)
  BY <1>1
<1>4. PICK q : q = SquaresOf(s, p)
  OBVIOUS
<1>5. \A i \in 1 .. n : q[i] = Square(s[p.points[i]] - p.centroid) /\ q[i] \in Nat
  <2> SUFFICES ASSUME NEW i \in 1 .. n
               PROVE  q[i] = Square(s[p.points[i]] - p.centroid) /\ q[i] \in Nat
    OBVIOUS
  <2>1. q[i] = Square(s[p.points[i]] - p.centroid)
    BY <1>1, <1>3, <1>4 DEF SquaresOf
  <2>2. PICK x \in Int : x = s[p.points[i]] - p.centroid
    <3>1. s[p.points[i]] \in Int
      BY <1>1, <1>2, <1>3
    <3> QED BY <3>1
  <2> QED BY <2>1, <2>2, SquareIs
<1>6. q \in [1 .. n -> Int]
  <2>1. q = [i \in 1 .. n |-> q[i]]
    BY <1>1, <1>3, <1>4 DEF SquaresOf
  <2>2. \A i \in 1 .. n : q[i] \in Int
    BY <1>5
  <2> QED BY <2>1, <2>2
<1>7. q \in Seq(Int) /\ Len(q) = n
  BY <1>6, IsSeq
<1>8. Squares(s, p) = Total(q)
  BY <1>4 DEF Squares, SquaresOf
<1>9. Total(q) \in Int
  BY <1>7, TotalIsInt
<1> QED BY <1>1, <1>2, <1>3, <1>4, <1>5, <1>7, <1>8, <1>9

\* What is added up of smaller summands is smaller.
LEMMA TotalGrows ==
    ASSUME NEW s \in Seq(Int), NEW t \in Seq(Int), Len(s) = Len(t),
           \A i \in 1 .. Len(s) : s[i] <= t[i]
    PROVE  /\ Total(s) \in Int /\ Total(t) \in Int /\ Total(s) <= Total(t)
           /\ (\E i \in 1 .. Len(s) : s[i] < t[i]) => Total(s) < Total(t)
<1>1. PICK n \in Nat : n = Len(s)
  BY LenProperties
<1>2. \A i \in 1 .. n : s[i] \in Int /\ t[i] \in Int
  <2>1. \A i \in 1 .. n : s[i] \in Int
    BY <1>1, LenProperties
  <2>2. \A i \in 1 .. n : t[i] \in Int
    BY <1>1, LenProperties
  <2> QED BY <2>1, <2>2
<1>3. PICK f : f = Sums(s)
  OBVIOUS
<1>4. PICK g : g = Sums(t)
  OBVIOUS
<1>5. f[0] = 0 /\ Total(s) = f[n] /\ \A i \in 1 .. n : f[i] = f[i - 1] + s[i]
  BY <1>1, <1>3, SumsAre
<1>6. g[0] = 0 /\ Total(t) = g[n] /\ \A i \in 1 .. n : g[i] = g[i - 1] + t[i]
  <2>1. Len(t) \in Nat /\ Len(t) = n
    BY <1>1
  <2> QED BY <1>4, <2>1, SumsAre
<1> DEFINE good == {i \in 0 .. n : /\ f[i] \in Int /\ g[i] \in Int /\ f[i] <= g[i]
                                   /\ (\E j \in 1 .. i : s[j] < t[j]) => f[i] < g[i]}
<1>7. 0 \in good
  BY <1>5, <1>6
<1>8. ASSUME NEW i \in 1 .. n, i - 1 \in good PROVE i \in good
  <2>1. PICK a \in Int, b \in Int : a = f[i - 1] /\ b = g[i - 1] /\ a <= b
    BY <1>8
  <2>2. (\E j \in 1 .. (i - 1) : s[j] < t[j]) => a < b
    BY <1>8, <2>1
  <2>3. PICK x \in Int, y \in Int : x = s[i] /\ y = t[i] /\ x <= y
    BY <1>1, <1>2
  <2>4. f[i] = a + x /\ g[i] = b + y
    BY <1>5, <1>6, <2>1, <2>3
  <2>5. f[i] \in Int /\ g[i] \in Int /\ f[i] <= g[i]
    <3>1. a \in Int /\ b \in Int /\ x \in Int /\ y \in Int /\ a <= b /\ x <= y
      BY <2>1, <2>3
    <3>2. \A h, j, u, v \in Int : h <= j /\ u <= v =>
             h + u \in Int /\ j + v \in Int /\ h + u <= j + v
      OBVIOUS
    <3>3. a + x \in Int /\ b + y \in Int /\ a + x <= b + y
      BY <3>1, <3>2
    <3> QED BY <2>4, <3>3
  <2>6. ASSUME NEW j \in 1 .. i, s[j] < t[j] PROVE f[i] < g[i]
    <3>1. CASE j = i
      <4>1. x < y
        BY <2>3, <2>6, <3>1
      <4> QED BY <2>1, <2>4, <4>1
    <3>2. CASE j # i
      <4>1. j \in 1 .. (i - 1)
        BY <3>2
      <4>2. a < b
        BY <2>2, <2>6, <4>1
      <4> QED BY <2>3, <2>4, <4>2
    <3> QED BY <3>1, <3>2
  <2> QED BY <2>5, <2>6
<1>9. n \in good
  <2> HIDE DEF good
  <2>1. \A i \in 0 .. n : i \in good
    BY <1>7, <1>8, Throughout
  <2> QED BY <2>1
<1> QED BY <1>1, <1>5, <1>6, <1>9

SquaresAbout(x, a) == [i \in DOMAIN x |-> Square(x[i] - a)]
Shift(x, a, m) == 2 * (m - a) * Total(x) + Len(x) * (a * a - m * m)

LEMMA SquaresAboutAre ==
    ASSUME NEW x \in Seq(Int), NEW a \in Int
    PROVE  SquaresAbout(x, a) \in Seq(Int) /\ Len(SquaresAbout(x, a)) = Len(x)
<1>1. PICK n \in Nat : n = Len(x) /\ DOMAIN x = 1 .. n
  BY LenProperties
<1>2. ASSUME NEW i \in 1 .. n PROVE Square(x[i] - a) \in Int
  <2>1. PICK y \in Int : y = x[i] - a
    <3>1. x[i] \in Int
      BY <1>1, LenProperties
    <3> QED BY <3>1
  <2> QED BY <2>1, SquareIs
<1>3. SquaresAbout(x, a) \in [1 .. n -> Int]
  BY <1>1, <1>2 DEF SquaresAbout
<1> QED BY <1>1, <1>3, IsSeq

\* About any two centres, the squares of numbers differ by what their sum tells.

LEMMA SquaresDiffer ==
    ASSUME NEW x \in Seq(Int), NEW a \in Int, NEW m \in Int
    PROVE  Total(SquaresAbout(x, a)) = Total(SquaresAbout(x, m)) + Shift(x, a, m)
<1>1. PICK n \in Nat : n = Len(x) /\ DOMAIN x = 1 .. n
  BY LenProperties
<1>s. PICK s : s = SquaresAbout(x, a)
  OBVIOUS
<1>t. PICK t : t = SquaresAbout(x, m)
  OBVIOUS
<1>2. \A i \in 1 .. n : x[i] \in Int
  BY <1>1, LenProperties
<1>3. PICK e : e = Sums(x)
  OBVIOUS
<1>4. PICK f : f = Sums(s)
  OBVIOUS
<1>5. PICK g : g = Sums(t)
  OBVIOUS
<1>6. e[0] = 0 /\ Total(x) = e[n] /\ \A i \in 1 .. n : e[i] = e[i - 1] + x[i]
  BY <1>1, <1>3, SumsAre
<1>7. f[0] = 0 /\ Total(s) = f[n] /\ \A i \in 1 .. n : f[i] = f[i - 1] + s[i]
  <2>1. Len(s) \in Nat /\ Len(s) = n
    BY <1>1, <1>s, SquaresAboutAre
  <2> QED BY <1>4, <2>1, SumsAre
<1>8. g[0] = 0 /\ Total(t) = g[n] /\ \A i \in 1 .. n : g[i] = g[i - 1] + t[i]
  <2>1. Len(t) \in Nat /\ Len(t) = n
    BY <1>1, <1>t, SquaresAboutAre
  <2> QED BY <1>5, <2>1, SumsAre
<1>u. \A i \in 1 .. n : s[i] = Square(x[i] - a) /\ t[i] = Square(x[i] - m)
  BY <1>1, <1>s, <1>t DEF SquaresAbout
<1>9. PICK d \in Int, w \in Int : d = 2 * (m - a) /\ w = a * a - m * m
  <2>1. 2 * (m - a) \in Int /\ a * a - m * m \in Int
    OBVIOUS
  <2> QED BY <2>1
<1> DEFINE good == {i \in 0 .. n : /\ e[i] \in Int /\ g[i] \in Int
                                   /\ f[i] = g[i] + d * e[i] + i * w}
<1>10. 0 \in good
  <2>1. 0 = 0 + d * 0 + 0 * w
    OBVIOUS
  <2> QED BY <1>6, <1>7, <1>8, <2>1
<1>11. ASSUME NEW i \in 1 .. n, i - 1 \in good PROVE i \in good
  <2>1. PICK E \in Int, G \in Int, X \in Int :
           /\ E = e[i - 1] /\ G = g[i - 1] /\ X = x[i]
           /\ f[i - 1] = G + d * E + (i - 1) * w
    BY <1>2, <1>11
  <2>2. PICK T \in Int : T = Square(X - m)
    <3>1. X - m \in Int
      OBVIOUS
    <3> QED BY <3>1, SquareIs
  <2>3. Square(X - a) = T + d * X + w
    <3>1. (X - a) * (X - a) = (X - m) * (X - m) + (2 * (m - a)) * X + (a * a - m * m)
      OBVIOUS
    <3> QED BY <1>9, <2>2, <3>1 DEF Square
  <2>4. /\ e[i] = E + X /\ g[i] = G + T
        /\ f[i] = G + d * E + (i - 1) * w + (T + d * X + w)
    BY <1>6, <1>7, <1>8, <1>u, <2>1, <2>2, <2>3
  <2>5. G + d * E + (i - 1) * w + (T + d * X + w) = (G + T) + d * (E + X) + i * w
    <3>1. d * (E + X) = d * E + d * X
      OBVIOUS
    <3>2. (i - 1) * w + w = i * w
      OBVIOUS
    <3>3. PICK p \in Int, q \in Int, u \in Int : p = d * E /\ q = d * X /\ u = (i - 1) * w
      OBVIOUS
    <3>4. G + p + u + (T + q + w) = (G + T) + (p + q) + (u + w)
      OBVIOUS
    <3> QED BY <3>1, <3>2, <3>3, <3>4
  <2>6. E + X \in Int /\ G + T \in Int
    OBVIOUS
  <2> QED BY <2>4, <2>5, <2>6
<1>12. n \in good
  <2> HIDE DEF good
  <2>1. \A i \in 0 .. n : i \in good
    BY <1>10, <1>11, Throughout
  <2> QED BY <2>1
<1>13. PICK E \in Int, G \in Int :
          E = Total(x) /\ G = Total(t) /\ Total(s) = G + d * E + n * w
  BY <1>6, <1>7, <1>8, <1>12
<1>14. Shift(x, a, m) = d * E + n * w
  BY <1>1, <1>9, <1>13 DEF Shift
<1>15. G + d * E + n * w = G + (d * E + n * w)
  OBVIOUS
<1> QED BY <1>s, <1>t, <1>13, <1>14, <1>15

\* The mean of rows is one of their integers: nothing is lost by the division.
LEMMA MeanIsExact ==
    ASSUME NEW x \in Seq(Int), Len(x) # 0, \A i \in 1 .. Len(x) : x[i] % Len(x) = 0
    PROVE  Total(x) \div Len(x) \in Int /\ Total(x) = Len(x) * (Total(x) \div Len(x))
<1>1. PICK n \in Nat \ {0} : n = Len(x)
  <2>1. Len(x) \in Nat
    BY LenProperties
  <2> QED BY <2>1
<1>2. ASSUME NEW i \in 1 .. n PROVE \E q \in Int : x[i] = n * q
  <2>1. PICK y \in Int : y = x[i] /\ y % n = 0
    <3>1. x[i] \in Int
      BY <1>1, LenProperties
    <3> QED BY <1>1, <3>1
  <2>2. y \div n \in Int /\ y = n * (y \div n)
    BY <2>1
  <2> QED BY <2>1, <2>2
<1>3. PICK g : g = Sums(x)
  OBVIOUS
<1>4. g[0] = 0 /\ Total(x) = g[n] /\ \A i \in 1 .. n : g[i] = g[i - 1] + x[i]
  BY <1>1, <1>3, SumsAre
<1> DEFINE good == {i \in 0 .. n : \E q \in Int : g[i] = n * q}
<1>5. 0 \in good
  <2>1. 0 = n * 0 /\ 0 \in Int
    OBVIOUS
  <2>2. \E q \in Int : g[0] = n * q
    BY <1>4, <2>1
  <2>3. 0 \in 0 .. n
    OBVIOUS
  <2> QED BY <2>2, <2>3
<1>6. ASSUME NEW i \in 1 .. n, i - 1 \in good PROVE i \in good
  <2>1. PICK p \in Int : g[i - 1] = n * p
    BY <1>6
  <2>2. PICK q \in Int : x[i] = n * q
    BY <1>2
  <2>3. g[i] = n * p + n * q
    BY <1>4, <2>1, <2>2
  <2>4. n * p + n * q = n * (p + q) /\ p + q \in Int
    OBVIOUS
  <2>5. \E u \in Int : g[i] = n * u
    BY <2>3, <2>4
  <2>6. i \in 0 .. n
    OBVIOUS
  <2> QED BY <2>5, <2>6
<1>7. n \in good
  <2> HIDE DEF good
  <2>1. \A i \in 0 .. n : i \in good
    BY <1>5, <1>6, Throughout
  <2> QED BY <2>1
<1>8. PICK q \in Int : Total(x) = n * q
  BY <1>4, <1>7
<1>9. (n * q) \div n = q
  OBVIOUS
<1> QED BY <1>1, <1>8, <1>9

\* With the mean for a centroid the squares of a cluster add up to least.
LEMMA MeanIsBest ==
    ASSUME NEW s \in Seq(Int), NEW p, NEW q, p.points \in Seq(DOMAIN s), p.points # <<>>,
           q.points = p.points, p.centroid \in Int, q.centroid = MeanOf(s, p.points),
           \A r \in DOMAIN s, n \in 1 .. Len(p.points) : s[r] % n = 0
    PROVE  /\ Squares(s, q) \in Int /\ Squares(s, p) \in Int
           /\ Squares(s, q) <= Squares(s, p)
           /\ p.centroid # q.centroid => Squares(s, q) < Squares(s, p)
<1>1. PICK n \in Nat \ {0} : n = Len(p.points)
  <2>1. Len(p.points) \in Nat /\ Len(p.points) # 0
    BY LenProperties, EmptySeq
  <2> QED BY <2>1
<1>2. /\ DOMAIN p.points = 1 .. n
      /\ \A i \in 1 .. n : p.points[i] \in DOMAIN s /\ s[p.points[i]] \in Int
  BY <1>1, SquaresAre
<1>3. PICK x : x = [i \in DOMAIN p.points |-> s[p.points[i]]]
  OBVIOUS
<1>4. \A i \in 1 .. n : x[i] = s[p.points[i]] /\ x[i] \in Int
  BY <1>2, <1>3
<1>5. x \in Seq(Int) /\ Len(x) = n
  <2>1. x \in [1 .. n -> Int]
    BY <1>2, <1>3
  <2> QED BY <2>1, IsSeq
<1>6. MeanOf(s, p.points) = Total(x) \div n
  BY <1>1, <1>3 DEF MeanOf
<1>7. \A i \in 1 .. n : x[i] % n = 0
  <2>1. n \in 1 .. Len(p.points)
    BY <1>1
  <2>2. \A r \in DOMAIN s : s[r] % n = 0
    BY <2>1
  <2> SUFFICES ASSUME NEW i \in 1 .. n PROVE x[i] % n = 0
    OBVIOUS
  <2>3. PICK r \in DOMAIN s : r = p.points[i] /\ x[i] = s[r]
    BY <1>2, <1>4
  <2> QED BY <2>2, <2>3
<1>8. PICK m \in Int : m = q.centroid /\ Total(x) = n * m
  <2>1. Total(x) \div Len(x) \in Int /\ Total(x) = Len(x) * (Total(x) \div Len(x))
    <3>1. Len(x) # 0 /\ \A i \in 1 .. Len(x) : x[i] % Len(x) = 0
      BY <1>5, <1>7
    <3> QED BY <1>5, <3>1, MeanIsExact
  <2> QED BY <1>5, <1>6, <2>1
<1>9. PICK a \in Int : a = p.centroid
  OBVIOUS
<1>10. PICK v : v = SquaresOf(s, p)
  OBVIOUS
<1>11. PICK w : w = SquaresOf(s, q)
  OBVIOUS
<1>12. /\ v \in Seq(Int) /\ Len(v) = n /\ Squares(s, p) = Total(v) /\ Total(v) \in Int
       /\ \A i \in 1 .. n : v[i] = Square(s[p.points[i]] - a)
  BY <1>1, <1>9, <1>10, SquaresAre
<1>13. /\ w \in Seq(Int) /\ Len(w) = n /\ Squares(s, q) = Total(w) /\ Total(w) \in Int
       /\ \A i \in 1 .. n : w[i] = Square(s[p.points[i]] - m)
  <2>1. q.centroid \in Int /\ q.points \in Seq(DOMAIN s) /\ n = Len(q.points)
    BY <1>1, <1>8
  <2> QED BY <1>8, <1>11, <2>1, SquaresAre
<1>14. Total(v) = Total(w) + Shift(x, a, m)
  <2>1. v = SquaresAbout(x, a)
    BY <1>2, <1>3, <1>9, <1>10 DEF SquaresOf, SquaresAbout
  <2>2. w = SquaresAbout(x, m)
    BY <1>2, <1>3, <1>8, <1>11 DEF SquaresOf, SquaresAbout
  <2> QED BY <1>5, <2>1, <2>2, SquaresDiffer
<1>15. 2 * (m - a) * (n * m) + n * (a * a - m * m) = n * ((m - a) * (m - a))
  OBVIOUS
<1>16. PICK z \in Nat : z = Square(m - a) /\ (a # m => z > 0)
  <2>1. PICK u \in Int : u = m - a
    OBVIOUS
  <2>2. a # m => u # 0
    BY <2>1
  <2> QED BY <2>1, <2>2, SquareIs
<1>17. Total(v) = Total(w) + n * z
  <2>1. PICK b \in Int, c \in Int : b = 2 * (m - a) * (n * m) /\ c = n * (a * a - m * m)
    OBVIOUS
  <2>2. Shift(x, a, m) = b + c
    BY <1>5, <1>8, <2>1 DEF Shift
  <2>3. b + c = n * z
    BY <1>15, <1>16, <2>1 DEF Square
  <2> QED BY <1>14, <2>2, <2>3
<1>18. n * z \in Nat /\ (z > 0 => n * z > 0)
  OBVIOUS
<1>19. Total(w) <= Total(v) /\ (a # m => Total(w) < Total(v))
  <2>1. PICK b \in Int, c \in Nat : b = Total(w) /\ c = n * z /\ (a # m => c > 0)
    BY <1>13, <1>16, <1>18
  <2>2. Total(v) = b + c
    BY <1>17, <2>1
  <2> QED BY <2>1, <2>2
<1> QED BY <1>8, <1>9, <1>12, <1>13, <1>19

\* As many pairs for every row as its squared distance is large.
Column(r, h) == {u \in Nat \X Nat : u[1] = r /\ u[2] \in 1 .. h}
Stack(s, p) == {u \in Nat \X Nat : /\ u[1] \in Range(p.points)
                                   /\ u[2] \in 1 .. Square(s[u[1]] - p.centroid)}

LEMMA ColumnSize ==
    ASSUME NEW r \in Nat, NEW h \in Nat
    PROVE  IsFiniteSet(Column(r, h)) /\ Cardinality(Column(r, h)) = h
<1>1. IsFiniteSet(1 .. h) /\ Cardinality(1 .. h) = h
  <2>1. 1 \in Int /\ h \in Int
    OBVIOUS
  <2>2. IsFiniteSet(1 .. h) /\ Cardinality(1 .. h) = IF 1 > h THEN 0 ELSE h - 1 + 1
    BY <2>1, FS_Interval
  <2> QED BY <2>2
<1>2. PICK f : f = [i \in 1 .. h |-> <<r, i>>]
  OBVIOUS
<1>3. \A i \in 1 .. h : f[i] = <<r, i>> /\ <<r, i>> \in Column(r, h)
  BY <1>2 DEF Column
<1>4. f \in [1 .. h -> Column(r, h)]
  BY <1>2, <1>3
<1>5. \A i, j \in 1 .. h : f[i] = f[j] => i = j
  <2> SUFFICES ASSUME NEW i \in 1 .. h, NEW j \in 1 .. h, f[i] = f[j] PROVE i = j
    OBVIOUS
  <2>1. <<r, i>> = <<r, j>>
    BY <1>3
  <2> QED BY <2>1
<1>6. \A u \in Column(r, h) : \E i \in 1 .. h : f[i] = u
  <2> SUFFICES ASSUME NEW u \in Column(r, h) PROVE \E i \in 1 .. h : f[i] = u
    OBVIOUS
  <2>1. u = <<r, u[2]>> /\ u[2] \in 1 .. h
    BY DEF Column
  <2> QED BY <1>3, <2>1
<1>7. f \in Bijection(1 .. h, Column(r, h))
  BY <1>4, <1>5, <1>6 DEF Bijection, Injection, Surjection, IsInjective
<1> QED BY <1>1, <1>7, FS_Bijection DEF ExistsBijection

\* The pairs of a cluster are as many as its squares add up to.
LEMMA StackSize ==
    ASSUME NEW s \in Seq(Int), NEW p, p.points \in Seq(DOMAIN s), p.centroid \in Int,
           IsInjective(p.points)
    PROVE  IsFiniteSet(Stack(s, p)) /\ Squares(s, p) = Cardinality(Stack(s, p))
<1>1. PICK n \in Nat : n = Len(p.points)
  BY SquaresAre
<1>2. PICK v : v = SquaresOf(s, p)
  OBVIOUS
<1>3. /\ v \in Seq(Int) /\ Len(v) = n /\ Squares(s, p) = Total(v) /\ DOMAIN p.points = 1 .. n
      /\ \A i \in 1 .. n : /\ p.points[i] \in DOMAIN s
                           /\ v[i] = Square(s[p.points[i]] - p.centroid) /\ v[i] \in Nat
  BY <1>1, <1>2, SquaresAre
<1>4. \A i \in 1 .. n : p.points[i] \in Nat
  <2>1. Len(s) \in Nat /\ DOMAIN s = 1 .. Len(s)
    BY LenProperties
  <2>2. \A r \in DOMAIN s : r \in Nat
    BY <2>1
  <2> QED BY <1>3, <2>2
<1>5. PICK F : F = [i \in 1 .. n |-> Column(p.points[i], v[i])]
  OBVIOUS
<1>6. \A i \in 1 .. n : F[i] = Column(p.points[i], v[i])
  BY <1>5
<1>7. \A i \in 1 .. n : IsFiniteSet(F[i]) /\ v[i] = Cardinality(F[i])
  <2> SUFFICES ASSUME NEW i \in 1 .. n PROVE IsFiniteSet(F[i]) /\ v[i] = Cardinality(F[i])
    OBVIOUS
  <2>1. p.points[i] \in Nat /\ v[i] \in Nat /\ F[i] = Column(p.points[i], v[i])
    BY <1>3, <1>4, <1>6
  <2>2. /\ IsFiniteSet(Column(p.points[i], v[i]))
        /\ Cardinality(Column(p.points[i], v[i])) = v[i]
    BY <2>1, ColumnSize
  <2> QED BY <2>1, <2>2
<1>8. \A i, j \in 1 .. n : i # j => F[i] \cap F[j] = {}
  <2> SUFFICES ASSUME NEW i \in 1 .. n, NEW j \in 1 .. n, i # j, NEW u \in F[i], u \in F[j]
               PROVE  FALSE
    OBVIOUS
  <2>1. u[1] = p.points[i] /\ u[1] = p.points[j]
    BY <1>6 DEF Column
  <2> QED BY <1>3, <2>1 DEF IsInjective
<1>9. UnionOf(F, n) = Stack(s, p)
  <2>1. ASSUME NEW u \in UnionOf(F, n) PROVE u \in Stack(s, p)
    <3>1. PICK i \in 1 .. n : u \in F[i]
      BY DEF UnionOf
    <3>2. u \in Nat \X Nat /\ u[1] = p.points[i] /\ u[2] \in 1 .. v[i]
      BY <1>6, <3>1 DEF Column
    <3>3. u[1] \in Range(p.points)
      BY <1>3, <3>2 DEF Range
    <3>4. v[i] = Square(s[u[1]] - p.centroid)
      BY <1>3, <3>2
    <3> QED BY <3>2, <3>3, <3>4 DEF Stack
  <2>2. ASSUME NEW u \in Stack(s, p) PROVE u \in UnionOf(F, n)
    <3>1. /\ u \in Nat \X Nat /\ u[1] \in Range(p.points)
          /\ u[2] \in 1 .. Square(s[u[1]] - p.centroid)
      BY DEF Stack
    <3>2. PICK i \in 1 .. n : u[1] = p.points[i]
      BY <1>3, <3>1 DEF Range
    <3>3. v[i] = Square(s[u[1]] - p.centroid)
      BY <1>3, <3>2
    <3>4. u \in F[i]
      BY <1>6, <3>1, <3>2, <3>3 DEF Column
    <3> QED BY <3>4 DEF UnionOf
  <2> QED BY <2>1, <2>2
<1>10. IsFiniteSet(UnionOf(F, Len(v))) /\ Total(v) = Cardinality(UnionOf(F, Len(v)))
  <2>1. \A i \in 1 .. Len(v) : IsFiniteSet(F[i])
    BY <1>3, <1>7
  <2>2. \A i, j \in 1 .. Len(v) : i # j => F[i] \cap F[j] = {}
    BY <1>3, <1>8
  <2>3. \A i \in 1 .. Len(v) : v[i] = Cardinality(F[i])
    BY <1>3, <1>7
  <2> QED BY <1>3, <2>1, <2>2, <2>3, DisjointSizes
<1> QED BY <1>3, <1>9, <1>10

\* What each of the clusters costs.
Costs(s, cs) == [c \in DOMAIN cs |-> Squares(s, cs[c])]

LEMMA CostsAre ==
    ASSUME NEW s \in Seq(Int), NEW cs \in Seq(ClusterOf(s))
    PROVE  /\ Costs(s, cs) \in Seq(Int) /\ Len(Costs(s, cs)) = Len(cs)
           /\ \A c \in 1 .. Len(cs) : Costs(s, cs)[c] = Squares(s, cs[c])
<1>1. PICK n \in Nat : n = Len(cs) /\ DOMAIN cs = 1 .. n
  BY LenProperties
<1>2. \A c \in 1 .. n : cs[c].points \in Seq(DOMAIN s) /\ cs[c].centroid \in Int
  <2>1. \A c \in 1 .. n : cs[c] \in ClusterOf(s)
    BY <1>1, LenProperties
  <2> QED BY <2>1 DEF ClusterOf
<1>3. \A c \in 1 .. n : Squares(s, cs[c]) \in Int
  BY <1>2, SquaresAre
<1>4. PICK v : v = Costs(s, cs)
  OBVIOUS
<1>5. v \in [1 .. n -> Int] /\ \A c \in 1 .. n : v[c] = Squares(s, cs[c])
  BY <1>1, <1>3, <1>4 DEF Costs
<1>6. v \in Seq(Int) /\ Len(v) = n
  BY <1>5, IsSeq
<1> QED BY <1>1, <1>4, <1>5, <1>6

Stacks(s, cs) == UNION {Stack(s, cs[c]) : c \in DOMAIN cs}

\* Of a partition, the pairs are as many as all squares add up to.
LEMMA StacksSize ==
    ASSUME NEW s \in Seq(Int), NEW cs \in Seq(ClusterOf(s)), IsPartition(cs, s)
    PROVE  IsFiniteSet(Stacks(s, cs)) /\ Total(Costs(s, cs)) = Cardinality(Stacks(s, cs))
<1>1. PICK n \in Nat : n = Len(cs) /\ DOMAIN cs = 1 .. n
  BY LenProperties
<1>2. \A c \in 1 .. n : cs[c].points \in Seq(DOMAIN s) /\ cs[c].centroid \in Int
  <2>1. \A c \in 1 .. n : cs[c] \in ClusterOf(s)
    BY <1>1, LenProperties
  <2> QED BY <2>1 DEF ClusterOf
<1>3. PICK v : v = Costs(s, cs)
  OBVIOUS
<1>4. v \in Seq(Int) /\ Len(v) = n /\ \A c \in 1 .. n : v[c] = Squares(s, cs[c])
  BY <1>1, <1>3, CostsAre
<1>5. PICK F : F = [c \in 1 .. n |-> Stack(s, cs[c])]
  OBVIOUS
<1>6. \A c \in 1 .. n : F[c] = Stack(s, cs[c])
  BY <1>5
<1>7. \A c \in 1 .. n : IsFiniteSet(F[c]) /\ v[c] = Cardinality(F[c])
  <2> SUFFICES ASSUME NEW c \in 1 .. n PROVE IsFiniteSet(F[c]) /\ v[c] = Cardinality(F[c])
    OBVIOUS
  <2>1. IsInjective(cs[c].points)
    BY <1>1 DEF IsPartition
  <2>2. cs[c].points \in Seq(DOMAIN s) /\ cs[c].centroid \in Int
    BY <1>2
  <2>3. IsFiniteSet(Stack(s, cs[c])) /\ Squares(s, cs[c]) = Cardinality(Stack(s, cs[c]))
    BY <2>1, <2>2, StackSize
  <2> QED BY <1>4, <1>6, <2>3
<1>8. \A c, d \in 1 .. n : c # d => F[c] \cap F[d] = {}
  <2> SUFFICES ASSUME NEW c \in 1 .. n, NEW d \in 1 .. n, c # d, NEW u \in F[c], u \in F[d]
               PROVE  FALSE
    OBVIOUS
  <2>1. u[1] \in Range(cs[c].points) /\ u[1] \in Range(cs[d].points)
    BY <1>6 DEF Stack
  <2> QED BY <1>1, <2>1 DEF IsPartition
<1>9. UnionOf(F, n) = Stacks(s, cs)
  <2>1. {F[c] : c \in 1 .. n} = {Stack(s, cs[c]) : c \in DOMAIN cs}
    BY <1>1, <1>6
  <2> QED BY <2>1 DEF UnionOf, Stacks
<1>10. IsFiniteSet(UnionOf(F, Len(v))) /\ Total(v) = Cardinality(UnionOf(F, Len(v)))
  <2>1. \A c \in 1 .. Len(v) : IsFiniteSet(F[c])
    BY <1>4, <1>7
  <2>2. \A c, d \in 1 .. Len(v) : c # d => F[c] \cap F[d] = {}
    BY <1>4, <1>8
  <2>3. \A c \in 1 .. Len(v) : v[c] = Cardinality(F[c])
    BY <1>4, <1>7
  <2> QED BY <1>4, <2>1, <2>2, <2>3, DisjointSizes
<1> QED BY <1>3, <1>4, <1>9, <1>10

\* A row is never cheaper elsewhere than in the cluster that is nearest.
LEMMA AssignedIsCheaper ==
    ASSUME KInv, pc = "loop", ~HasEmpty(clusters)
    PROVE  Total(Costs(set, Assigned)) <= Total(Costs(set, clusters))
<1>1. PICK s : s = set
  OBVIOUS
<1>2. PICK cs : cs = Assigned
  OBVIOUS
<1>3. /\ s \in Seq(Int) /\ clusters \in Seq(ClusterOf(s)) /\ cs \in Seq(ClusterOf(s))
      /\ DOMAIN cs = DOMAIN clusters /\ IsPartition(cs, s)
      /\ \A c \in DOMAIN clusters :
            /\ cs[c].centroid = clusters[c].centroid
            /\ \A r \in Range(cs[c].points) : r \in DOMAIN s /\ Nearest(clusters, r) = c
  BY <1>1, <1>2, AssignedIs DEF KInv, Types
<1>4. PICK n \in Nat \ {0} : n = Len(clusters) /\ DOMAIN clusters = 1 .. n
  BY AssignedIs
<1>5. IsPartition(clusters, s)
  BY <1>1, <1>4 DEF KInv, EachInOneCluster, HasEmpty
<1>6. \A c \in 1 .. n : clusters[c].centroid \in Int
  <2>1. \A c \in 1 .. n : clusters[c] \in ClusterOf(s)
    BY <1>3, <1>4, LenProperties
  <2> QED BY <2>1 DEF ClusterOf
<1>7. \A r \in DOMAIN s : s[r] \in Int
  BY <1>3, LenProperties
<1>8. Stacks(s, cs) \subseteq Stacks(s, clusters)
  <2> SUFFICES ASSUME NEW u \in Stacks(s, cs) PROVE u \in Stacks(s, clusters)
    OBVIOUS
  <2>1. PICK c \in 1 .. n : u \in Stack(s, cs[c])
    BY <1>3, <1>4 DEF Stacks
  <2>2. /\ u \in Nat \X Nat /\ u[1] \in Range(cs[c].points)
        /\ u[2] \in 1 .. Square(s[u[1]] - cs[c].centroid)
    BY <2>1 DEF Stack
  <2>3. PICK r \in DOMAIN s : r = u[1] /\ Nearest(clusters, r) = c
    BY <1>3, <1>4, <2>2
  <2>4. PICK d \in 1 .. n : r \in Range(clusters[d].points)
    BY <1>4, <1>5 DEF IsPartition
  <2>5. PICK x \in Int, y \in Int, z \in Int :
           x = s[r] /\ y = clusters[c].centroid /\ z = clusters[d].centroid
    BY <1>6, <1>7
  <2>6. Distance(x, y) <= Distance(x, z)
    <3>1. set[r] \in Int
      BY <1>1, <1>7
    <3>2. \A e \in 1 .. n : Distance(set[r], clusters[Nearest(clusters, r)].centroid)
                               <= Distance(set[r], clusters[e].centroid)
      BY <1>4, <1>6, <3>1, NearestIs
    <3> QED BY <1>1, <2>3, <2>5, <3>2
  <2>7. PICK g \in Nat, h \in Nat : g = Square(x - y) /\ h = Square(x - z) /\ g <= h
    <3>1. x - y \in Int /\ x - z \in Int
      OBVIOUS
    <3>2. Square(x - y) \in Nat /\ Square(x - z) \in Nat
      BY <3>1, SquareIs
    <3> QED BY <2>6, <3>2, NearerIsCheaper
  <2>8. u[2] \in 1 .. g
    BY <1>3, <1>4, <2>2, <2>3, <2>5, <2>7
  <2>9. u[2] \in 1 .. h
    BY <2>7, <2>8
  <2>10. u \in Stack(s, clusters[d])
    BY <2>2, <2>3, <2>4, <2>5, <2>7, <2>9 DEF Stack
  <2> QED BY <1>4, <2>10 DEF Stacks
<1>9. /\ IsFiniteSet(Stacks(s, clusters))
      /\ Total(Costs(s, clusters)) = Cardinality(Stacks(s, clusters))
  BY <1>3, <1>5, StacksSize
<1>10. Total(Costs(s, cs)) = Cardinality(Stacks(s, cs))
  BY <1>3, StacksSize
<1>11. Cardinality(Stacks(s, cs)) <= Cardinality(Stacks(s, clusters))
  BY <1>8, <1>9, FS_Subset
<1> QED BY <1>1, <1>2, <1>9, <1>10, <1>11

\* The means of the rows are integers in a subset of the data set too.
LEMMA RowsAreExact ==
    ASSUME KInv, NEW m \in 1 .. Len(set)
    PROVE  \A r \in DOMAIN set, n \in 1 .. m : set[r] % n = 0
<1>1. /\ data \in DataSets /\ Len(set) \in 1 .. Len(data)
      /\ \A r \in DOMAIN set : \E q \in DOMAIN data : set[r] = data[q]
  BY DEF KInv, Types
<1>2. Len(data) \in Nat
  <2>1. data \in Seq(Int)
    BY <1>1, DataSetsAssumption
  <2> QED BY <2>1, LenProperties
<1>3. \A n \in 1 .. m : n \in 1 .. Len(data)
  BY <1>1, <1>2
<1>4. \A q \in DOMAIN data, n \in 1 .. Len(data) : data[q] % n = 0
  BY <1>1, ExactAssumption
<1> SUFFICES ASSUME NEW r \in DOMAIN set, NEW n \in 1 .. m PROVE set[r] % n = 0
  OBVIOUS
<1>5. PICK q \in DOMAIN data : set[r] = data[q]
  BY <1>1
<1> QED BY <1>3, <1>4, <1>5

\* Nor with the means for centroids, and where one has moved it is cheaper.
LEMMA RecalculatedIsCheaper ==
    ASSUME KInv, pc = "loop", ~HasEmpty(Assigned), NEW new, new = Recalculated(Assigned)
    PROVE  /\ Total(Costs(set, new)) \in Int /\ Total(Costs(set, Assigned)) \in Int
           /\ Total(Costs(set, new)) <= Total(Costs(set, Assigned))
           /\ Moved(clusters, new) => Total(Costs(set, new)) < Total(Costs(set, Assigned))
<1>1. PICK cs : cs = Assigned
  OBVIOUS
<1>2. /\ set \in Seq(Int) /\ cs \in Seq(ClusterOf(set)) /\ DOMAIN cs = DOMAIN clusters
      /\ IsPartition(cs, set)
      /\ \A c \in DOMAIN clusters : cs[c].centroid = clusters[c].centroid
  BY <1>1, AssignedIs DEF KInv, Types
<1>3. PICK n \in Nat : n = Len(cs) /\ DOMAIN cs = 1 .. n
  BY <1>2, LenProperties
<1>4. /\ new \in Seq(ClusterOf(set)) /\ Len(new) = n
      /\ \A c \in 1 .. n : /\ new[c].points = cs[c].points
                           /\ new[c].centroid = MeanOf(set, cs[c].points)
  BY <1>1, <1>2, <1>3, RecalculatedAre, OfTheSet
<1>5. \A c \in 1 .. n : /\ Squares(set, new[c]) <= Squares(set, cs[c])
                        /\ cs[c].centroid # new[c].centroid =>
                              Squares(set, new[c]) < Squares(set, cs[c])
  <2> SUFFICES ASSUME NEW c \in 1 .. n
               PROVE  /\ Squares(set, new[c]) <= Squares(set, cs[c])
                      /\ cs[c].centroid # new[c].centroid =>
                            Squares(set, new[c]) < Squares(set, cs[c])
    OBVIOUS
  <2>1. /\ cs[c].points \in Seq(DOMAIN set) /\ cs[c].centroid \in Int
        /\ cs[c].points # <<>> /\ IsInjective(cs[c].points)
    <3>1. cs[c] \in ClusterOf(set)
      BY <1>2, <1>3, LenProperties
    <3> QED BY <1>1, <1>2, <1>3, <3>1 DEF ClusterOf, HasEmpty, IsPartition
  <2>2. Len(cs[c].points) \in 1 .. Len(set)
    <3>1. Len(cs[c].points) \in Nat /\ Len(cs[c].points) # 0
      BY <2>1, LenProperties, EmptySeq
    <3>2. Len(set) \in Nat /\ DOMAIN set = 1 .. Len(set)
      BY <1>2, LenProperties
    <3>3. /\ IsFiniteSet(Range(cs[c].points))
          /\ Cardinality(Range(cs[c].points)) = Len(cs[c].points)
      BY <2>1, LenIsSize
    <3>4. Range(cs[c].points) \subseteq DOMAIN set
      BY <1>2, <1>3 DEF IsPartition
    <3>5. IsFiniteSet(DOMAIN set) /\ Cardinality(DOMAIN set) = Len(set)
      <4>1. 1 \in Int /\ Len(set) \in Int
        BY <3>2
      <4>2. /\ IsFiniteSet(1 .. Len(set))
            /\ Cardinality(1 .. Len(set)) = IF 1 > Len(set) THEN 0 ELSE Len(set) - 1 + 1
        BY <4>1, FS_Interval
      <4> QED BY <3>2, <4>2
    <3>6. Cardinality(Range(cs[c].points)) <= Cardinality(DOMAIN set)
      BY <3>4, <3>5, FS_Subset
    <3>7. Len(cs[c].points) <= Len(set)
      BY <3>3, <3>5, <3>6
    <3> QED BY <3>1, <3>2, <3>7
  <2>3. \A r \in DOMAIN set, m \in 1 .. Len(cs[c].points) : set[r] % m = 0
    BY <2>2, RowsAreExact
  <2>4. new[c].points = cs[c].points /\ new[c].centroid = MeanOf(set, cs[c].points)
    BY <1>4
  <2> QED BY <1>2, <2>1, <2>3, <2>4, MeanIsBest
<1>6. PICK f : f = Costs(set, new)
  OBVIOUS
<1>7. PICK g : g = Costs(set, cs)
  OBVIOUS
<1>8. f \in Seq(Int) /\ Len(f) = n /\ \A c \in 1 .. n : f[c] = Squares(set, new[c])
  BY <1>2, <1>4, <1>6, CostsAre
<1>9. g \in Seq(Int) /\ Len(g) = n /\ \A c \in 1 .. n : g[c] = Squares(set, cs[c])
  BY <1>2, <1>3, <1>7, CostsAre
<1>10. Len(f) = Len(g) /\ \A c \in 1 .. Len(f) : f[c] <= g[c]
  BY <1>5, <1>8, <1>9
<1>11. /\ Total(f) \in Int /\ Total(g) \in Int /\ Total(f) <= Total(g)
       /\ (\E c \in 1 .. Len(f) : f[c] < g[c]) => Total(f) < Total(g)
  BY <1>8, <1>9, <1>10, TotalGrows
<1>12. Moved(clusters, new) => \E c \in 1 .. Len(f) : f[c] < g[c]
  <2>1. SUFFICES ASSUME Moved(clusters, new) PROVE \E c \in 1 .. Len(f) : f[c] < g[c]
    OBVIOUS
  <2>2. PICK c \in 1 .. n : cs[c].centroid # new[c].centroid
    BY <1>2, <1>3, <2>1 DEF Moved
  <2> QED BY <1>5, <1>8, <1>9, <2>2
<1> QED BY <1>1, <1>6, <1>7, <1>11, <1>12

LEMMA ImproveLowers ==
    ASSUME KInv, Improve, ~HasEmpty(clusters)
    PROVE  IF still' THEN Cost(clusters') <= Cost(clusters) ELSE Cost(clusters') < Cost(clusters)
<1>1. PICK new : new = Recalculated(Assigned)
  OBVIOUS
<1>2. /\ pc = "loop" /\ ~HasEmpty(Assigned) /\ clusters' = new
      /\ still' = ~Moved(clusters, new)
  BY <1>1 DEF Improve, Pass
<1>3. Cost(clusters') = Total(Costs(set, new)) /\ Cost(clusters) = Total(Costs(set, clusters))
  BY <1>2 DEF Cost, Costs
<1>4. Total(Costs(set, Assigned)) <= Total(Costs(set, clusters))
  BY <1>2, AssignedIsCheaper
<1>5. /\ Total(Costs(set, new)) \in Int /\ Total(Costs(set, Assigned)) \in Int
      /\ Total(Costs(set, new)) <= Total(Costs(set, Assigned))
      /\ ~still' => Total(Costs(set, new)) < Total(Costs(set, Assigned))
  BY <1>1, <1>2, RecalculatedIsCheaper
<1>6. Total(Costs(set, clusters)) \in Int
  <2>1. set \in Seq(Int) /\ clusters \in Seq(ClusterOf(set))
    BY DEF KInv, Types
  <2>2. Costs(set, clusters) \in Seq(Int)
    BY <2>1, CostsAre
  <2> QED BY <2>2, TotalIsInt
<1> QED BY <1>3, <1>4, <1>5, <1>6

-----------------------------------------------------------------------------
(* Theorems.                                                                *)

\* The invariant that every step of either class keeps.
THEOREM ClustersSafe == Spec => []KInv
<1> QED BY InitKInv, NextKInv, PTL DEF Spec

\* No turn, restart or split loses a point or has it in two clusters, and the
\* clusters of a first bisection have as many points as there are rows: for any
\* data, any number of clusters and any choice of first centroids.
THEOREM PointsNeverLost == Spec => []Inv
<1>1. KInv => Inv
  BY DEF KInv, Types, Inv
<1> QED BY <1>1, ClustersSafe, PTL

\* What is reported as converged is a fixed point of the next turn.
THEOREM ConvergedStays == Spec => []ConvergedIsStable
<1>1. KInv => ConvergedIsStable
  <2> SUFFICES ASSUME KInv, still, algo = "kmeans" => calls = 1
               PROVE  /\ ~HasEmpty(clusters)
                      /\ \A c \in DOMAIN clusters :
                            /\ clusters[c].centroid = Mean(clusters[c].points)
                            /\ \A r \in Range(clusters[c].points) : Nearest(clusters, r) = c
    BY DEF ConvergedIsStable
  <2>1. Settled(set, clusters)
    BY DEF KInv, SettledWhenStill
  <2> QED BY <2>1, OfTheSet DEF Settled
<1> QED BY <1>1, ClustersSafe, PTL

\* No turn of the loop makes the clustering worse, and one that changes a
\* centroid makes it better: for any data whose means are exact, any number of
\* clusters, any first centroids and however often it has been restarted.
THEOREM TurnsLowerTheCost == Spec => CostFalls
<1>1. KInv /\ [Next]_vars =>
         [Improve /\ ~HasEmpty(clusters) =>
             IF still' THEN Cost(clusters') <= Cost(clusters)
                       ELSE Cost(clusters') < Cost(clusters)]_vars
  BY ImproveLowers
<1> QED BY <1>1, ClustersSafe, PTL DEF Spec, CostFalls
=============================================================================
