---------------------------- MODULE IndexLemmas ----------------------------
(***************************************************************************)
(* Sequences and sets of indices: what the proofs about the router, the    *)
(* proxy, the configuration parser and the texts share.  The models name   *)
(* the first or the last position with some property by a CHOOSE, and cut  *)
(* sequences with SubSeq; these lemmas say index by index what results.    *)
(***************************************************************************)
EXTENDS Integers, Sequences, SequencesExt, SequenceTheorems, NaturalsInduction,
        WellFoundedInduction, TLAPS

(* The elements of a sequence.                                             *)
LEMMA SeqElements ==
  ASSUME NEW S, NEW s \in Seq(S)
  PROVE  /\ Len(s) \in Nat /\ DOMAIN s = 1 .. Len(s)
         /\ \A i \in 1 .. Len(s) : s[i] \in S
  OBVIOUS

(* Sequences: what IsPrefix says index by index.                           *)
LEMMA PrefixIndex ==
  ASSUME NEW S, NEW s \in Seq(S), NEW t \in Seq(S)
  PROVE  IsPrefix(s, t) <=> Len(s) <= Len(t) /\ \A i \in 1 .. Len(s) : s[i] = t[i]
  <1>1. ASSUME Len(s) <= Len(t)
        PROVE  /\ Len(SubSeq(t, 1, Len(s))) = Len(s)
               /\ SubSeq(t, 1, Len(s)) \in Seq(S)
               /\ \A i \in 1 .. Len(s) : SubSeq(t, 1, Len(s))[i] = t[i]
    BY <1>1
  <1>2. /\ Len(SubSeq(s, 1, Len(s))) = Len(s) /\ SubSeq(s, 1, Len(s)) \in Seq(S)
        /\ \A i \in 1 .. Len(s) : SubSeq(s, 1, Len(s))[i] = s[i]
    OBVIOUS
  <1>3. ASSUME Len(s) <= Len(t), \A i \in 1 .. Len(s) : s[i] = t[i]
        PROVE  SubSeq(s, 1, Len(s)) = SubSeq(t, 1, Len(s))
    BY <1>3, <1>1, <1>2
  <1> QED BY <1>1, <1>2, <1>3 DEF IsPrefix

(* Two prefixes of one sequence that are equally long are the same.        *)
LEMMA PrefixUnique ==
  ASSUME NEW S, NEW s \in Seq(S), NEW r \in Seq(S), NEW t \in Seq(S),
         IsPrefix(s, t), IsPrefix(r, t), Len(s) = Len(r)
  PROVE  s = r
  <1>1. \A i \in 1 .. Len(s) : s[i] = t[i] /\ r[i] = t[i]
    BY PrefixIndex
  <1> QED BY <1>1

(* A sequence, and the empty one, are prefixes of it.                      *)
LEMMA PrefixRefl ==
  ASSUME NEW S, NEW t \in Seq(S)
  PROVE  IsPrefix(t, t) /\ IsPrefix(<<>>, t)
  <1>1. <<>> \in Seq(S) /\ Len(<<>>) = 0
    OBVIOUS
  <1>2. PICK z : z = <<>> /\ z \in Seq(S) /\ Len(z) = 0
    BY <1>1, Zenon
  <1>3. IsPrefix(t, t)
    <2>1. Len(t) <= Len(t)
      OBVIOUS
    <2> QED BY <2>1 DEF IsPrefix
  <1>4. Len(z) <= Len(t) /\ \A i \in 1 .. Len(z) : z[i] = t[i]
    BY <1>2
  <1>5. IsPrefix(z, t)
    BY <1>2, <1>4, PrefixIndex
  <1> QED BY <1>2, <1>3, <1>5

(* A prefix stays one while the sequence grows.                            *)
LEMMA PrefixGrows ==
  ASSUME NEW S, NEW s \in Seq(S), NEW t \in Seq(S), NEW e \in S, IsPrefix(s, t)
  PROVE  IsPrefix(s, Append(t, e))
  <1>1. /\ Append(t, e) \in Seq(S) /\ Len(Append(t, e)) = Len(t) + 1
        /\ \A i \in 1 .. Len(t) : Append(t, e)[i] = t[i]
    OBVIOUS
  <1>2. Len(s) <= Len(t) /\ \A i \in 1 .. Len(s) : s[i] = t[i]
    BY PrefixIndex
  <1>3. Len(s) \in Nat /\ Len(t) \in Nat
    OBVIOUS
  <1>4. PICK a \in Seq(S) : a = Append(t, e)
    BY <1>1
  <1>5. Len(s) <= Len(a) /\ \A i \in 1 .. Len(s) : s[i] = a[i]
    BY <1>1, <1>2, <1>3, <1>4
  <1>6. IsPrefix(s, a)
    BY <1>5, PrefixIndex
  <1> QED BY <1>4, <1>6

(* Every set of indices has a last one.                                    *)
LEMMA LastIndex ==
  ASSUME NEW n \in Nat, NEW T \in SUBSET (1 .. n), T # {}
  PROVE  \E b \in T : \A c \in T : c <= b
  <1> DEFINE M == {k \in Nat : \E c \in T : k = n - c}
  <1>1. M \subseteq Nat /\ M # {}
    <2>1. PICK c \in T : TRUE
      OBVIOUS
    <2>2. n - c \in Nat
      OBVIOUS
    <2> QED BY <2>1, <2>2
  <1> HIDE DEF M
  <1> DEFINE R == {ss \in Nat \X Nat : ss[1] < ss[2]}
  <1>2. IsWellFoundedOn(R, Nat)
    BY NatLessThanWellFounded, Zenon DEF OpToRel
  <1>3. PICK x \in M : \A y \in M : ~ (<<y, x>> \in R)
    <2> HIDE DEF R
    <2> QED BY <1>1, <1>2, WFMin, Zenon
  <1>4. \A y \in M : ~ (y < x)
    BY <1>1, <1>3
  <1>5. PICK b \in T : x = n - b
    BY DEF M
  <1>6. \A c \in T : c <= b
    <2> TAKE c \in T
    <2>1. n - c \in M
      BY DEF M
    <2> QED BY <1>4, <1>5, <2>1
  <1> QED BY <1>6

(* Every set of indices has a first one.                                   *)
LEMMA FirstIndex ==
  ASSUME NEW T \in SUBSET Nat, T # {}
  PROVE  \E b \in T : \A c \in T : b <= c
  <1> DEFINE R == {ss \in Nat \X Nat : ss[1] < ss[2]}
  <1>1. IsWellFoundedOn(R, Nat)
    BY NatLessThanWellFounded, Zenon DEF OpToRel
  <1>2. PICK x \in T : \A y \in T : ~ (<<y, x>> \in R)
    <2> HIDE DEF R
    <2> QED BY <1>1, WFMin, Zenon
  <1>3. \A y \in T : ~ (y < x)
    BY <1>2
  <1>4. \A y \in T : x <= y
    BY <1>3
  <1> QED BY <1>4

(* A part of a sequence, and its elements.                                 *)
LEMMA SubSeqIndex ==
  ASSUME NEW S, NEW s \in Seq(S), NEW m \in Nat, NEW n \in Nat,
         1 <= m, m <= n + 1, n <= Len(s)
  PROVE  /\ SubSeq(s, m, n) \in Seq(S)
         /\ Len(SubSeq(s, m, n)) = n + 1 - m
         /\ \A i \in 1 .. n + 1 - m : SubSeq(s, m, n)[i] = s[m + i - 1]
  OBVIOUS

(* A sequence is given by its length and its elements.                     *)
LEMMA SameSeq ==
  ASSUME NEW S, NEW s \in Seq(S), NEW t \in Seq(S), Len(s) = Len(t),
         \A i \in 1 .. Len(s) : s[i] = t[i]
  PROVE  s = t
  OBVIOUS

(* A part of a part.                                                       *)
LEMMA SubSeqTwice ==
  ASSUME NEW S, NEW s \in Seq(S), NEW m \in Nat, NEW n \in Nat, NEW k \in Nat, NEW l \in Nat,
         1 <= m, m <= n + 1, n <= Len(s), 1 <= k, k <= l + 1, l <= n + 1 - m
  PROVE  SubSeq(SubSeq(s, m, n), k, l) = SubSeq(s, m + k - 1, m + l - 1)
  <1>1. PICK a \in Seq(S) : a = SubSeq(s, m, n)
    BY SubSeqIndex
  <1>2. Len(a) = n + 1 - m /\ \A i \in 1 .. n + 1 - m : a[i] = s[m + i - 1]
    BY <1>1, SubSeqIndex
  <1>3. PICK b \in Seq(S) : b = SubSeq(a, k, l)
    BY <1>2, SubSeqIndex
  <1>4. Len(b) = l + 1 - k /\ \A i \in 1 .. l + 1 - k : b[i] = a[k + i - 1]
    BY <1>2, <1>3, SubSeqIndex
  <1>5. /\ m + k - 1 \in Nat /\ m + l - 1 \in Nat /\ 1 <= m + k - 1
        /\ m + k - 1 <= m + l - 1 + 1 /\ m + l - 1 <= Len(s)
    OBVIOUS
  <1>6. PICK c \in Seq(S) : c = SubSeq(s, m + k - 1, m + l - 1)
    BY <1>5, SubSeqIndex
  <1>7. Len(c) = l + 1 - k /\ \A i \in 1 .. l + 1 - k : c[i] = s[m + k - 1 + i - 1]
    BY <1>5, <1>6, SubSeqIndex
  <1>8. ASSUME NEW i \in 1 .. Len(b) PROVE b[i] = c[i]
    <2>1. i \in 1 .. l + 1 - k /\ k + i - 1 \in 1 .. n + 1 - m
      BY <1>4
    <2>2. b[i] = a[k + i - 1] /\ a[k + i - 1] = s[m + (k + i - 1) - 1]
      BY <1>2, <1>4, <2>1
    <2>3. m + (k + i - 1) - 1 = m + k - 1 + i - 1
      BY <2>1
    <2> QED BY <1>7, <2>1, <2>2, <2>3
  <1>9. b = c
    BY <1>4, <1>7, <1>8, SameSeq
  <1> QED BY <1>1, <1>3, <1>6, <1>9

(* Two sequences put together.                                             *)
LEMMA ConcatIndex ==
  ASSUME NEW S, NEW x \in Seq(S), NEW y \in Seq(S)
  PROVE  /\ x \o y \in Seq(S)
         /\ Len(x \o y) = Len(x) + Len(y)
         /\ \A i \in 1 .. Len(x) : (x \o y)[i] = x[i]
         /\ \A i \in 1 .. Len(y) : (x \o y)[Len(x) + i] = y[i]
  <1>1. x \o y \in Seq(S)
    OBVIOUS
  <1>2. Len(x \o y) = Len(x) + Len(y)
    OBVIOUS
  <1>3. \A i \in 1 .. Len(x) : (x \o y)[i] = x[i]
    OBVIOUS
  <1>4. \A i \in 1 .. Len(y) : (x \o y)[Len(x) + i] = y[i]
    OBVIOUS
  <1> QED BY <1>1, <1>2, <1>3, <1>4

(* Tuples put together.                                                    *)
LEMMA TupleOfThree ==
  ASSUME NEW a, NEW b, NEW c
  PROVE  <<a>> \o <<b, c>> = <<a, b, c>>
  <1>1. PICK S : a \in S /\ b \in S /\ c \in S
    <2>1. a \in {a, b, c} /\ b \in {a, b, c} /\ c \in {a, b, c}
      OBVIOUS
    <2> QED BY <2>1
  <1>2. <<a>> \in Seq(S) /\ <<b, c>> \in Seq(S)
    BY <1>1
  <1>3. PICK x \in Seq(S) : x = <<a>>
    BY <1>2, Zenon
  <1>4. PICK y \in Seq(S) : y = <<b, c>>
    BY <1>2, Zenon
  <1>5. Len(x) = 1 /\ x[1] = a
    BY <1>3
  <1>6. Len(y) = 2 /\ y[1] = b /\ y[2] = c
    BY <1>4
  <1>7. /\ x \o y \in Seq(S) /\ Len(x \o y) = Len(x) + Len(y)
        /\ \A i \in 1 .. Len(x) : (x \o y)[i] = x[i]
        /\ \A i \in 1 .. Len(y) : (x \o y)[Len(x) + i] = y[i]
    BY ConcatIndex
  <1>8. PICK z \in Seq(S) :
          /\ z = x \o y /\ Len(z) = Len(x) + Len(y)
          /\ \A i \in 1 .. Len(x) : z[i] = x[i]
          /\ \A i \in 1 .. Len(y) : z[Len(x) + i] = y[i]
    BY <1>7, Zenon
  <1>9. Len(z) = 3 /\ z[1] = a /\ z[2] = b /\ z[3] = c
    BY <1>5, <1>6, <1>8
  <1>10. z = <<z[1], z[2], z[3]>>
    BY <1>9
  <1> QED BY <1>3, <1>4, <1>8, <1>9, <1>10, Zenon

(* A pair behind itself.                                                   *)
LEMMA TupleOfFour ==
  ASSUME NEW a, NEW b
  PROVE  <<a, b>> \o <<a, b>> = <<a, b, a, b>>
  <1>1. PICK S : a \in S /\ b \in S
    <2>1. a \in {a, b} /\ b \in {a, b}
      OBVIOUS
    <2> QED BY <2>1
  <1>2. <<a, b>> \in Seq(S)
    BY <1>1
  <1>3. PICK y \in Seq(S) : y = <<a, b>>
    BY <1>2, Zenon
  <1>4. Len(y) = 2 /\ y[1] = a /\ y[2] = b
    BY <1>3
  <1>5. /\ y \o y \in Seq(S) /\ Len(y \o y) = Len(y) + Len(y)
        /\ \A i \in 1 .. Len(y) : (y \o y)[i] = y[i]
        /\ \A i \in 1 .. Len(y) : (y \o y)[Len(y) + i] = y[i]
    BY ConcatIndex
  <1>6. PICK z \in Seq(S) :
          /\ z = y \o y /\ Len(z) = Len(y) + Len(y)
          /\ \A i \in 1 .. Len(y) : z[i] = y[i]
          /\ \A i \in 1 .. Len(y) : z[Len(y) + i] = y[i]
    BY <1>5, Zenon
  <1>7. Len(z) = 4 /\ z[1] = a /\ z[2] = b /\ z[3] = a /\ z[4] = b
    BY <1>4, <1>6
  <1>8. z = <<z[1], z[2], z[3], z[4]>>
    BY <1>7
  <1> QED BY <1>3, <1>6, <1>7, <1>8, Zenon

-----------------------------------------------------------------------------
(* Recursion.  A recursive function f[x \in D] == e is CHOOSE f : f =      *)
(* [x \in D |-> e]: that there is such an f, and only one, is proved here  *)
(* by a least counterexample, once for every recursion on a bounded        *)
(* measure.                                                                *)

Measure(m, D, n) == n \in Nat /\ m \in [D -> 0..n]

(* F is a definition by recursion on a measure: what it gives at x is      *)
(* settled by the values at the points of a smaller measure.               *)
Recursion(F, D, A, m, n) ==
  /\ Measure(m, D, n) /\ A # {}
  /\ F \in [[D -> A] -> [D -> A]]
  /\ \A g \in [D -> A] : \A h \in [D -> A] : \A x \in D :
       (\A y \in D : m[y] < m[x] => g[y] = h[y]) => F[g][x] = F[h][x]

(* A definition by recursion on a bounded measure defines a function.      *)
LEMMA RecursionDefines ==
  ASSUME NEW D, NEW A, NEW m, NEW n, NEW F, Recursion(F, D, A, m, n)
  PROVE  \E g \in [D -> A] : g = F[g]
  <1>1. F \in [[D -> A] -> [D -> A]] /\ n \in Nat /\ m \in [D -> 0..n]
    BY DEF Recursion, Measure
  <1>a. PICK a \in A : TRUE
    BY DEF Recursion
  <1> DEFINE Good(k) == \E g \in [D -> A] : \A x \in D : m[x] < k => g[x] = F[g][x]
  <1> DEFINE Bad == {k \in Nat : ~Good(k)}
  <1>2. Good(0)
    <2>1. [x \in D |-> a] \in [D -> A]
      BY <1>a
    <2>2. \A x \in D : ~(m[x] < 0)
      BY <1>1
    <2> QED BY <2>1, <2>2
  <1>3. ASSUME NEW k \in Nat, Good(k) PROVE Good(k + 1)
    <2>1. PICK g \in [D -> A] : \A x \in D : m[x] < k => g[x] = F[g][x]
      BY <1>3
    <2>2. PICK h \in [D -> A] : h = F[g]
      BY <1>1
    <2>3. ASSUME NEW x \in D, m[x] < k + 1 PROVE h[x] = F[h][x]
      <3>1. ASSUME NEW y \in D, m[y] < m[x] PROVE g[y] = h[y]
        <4>1. m[y] < k
          BY <1>1, <1>3, <2>3, <3>1
        <4> QED BY <2>1, <2>2, <4>1
      <3>2. F[g][x] = F[h][x]
        BY <3>1 DEF Recursion
      <3> QED BY <2>2, <3>2
    <2> QED BY <2>3
  <1>4. Good(n + 1)
    <2> SUFFICES ASSUME ~Good(n + 1) PROVE FALSE
      OBVIOUS
    <2>1. n + 1 \in Bad /\ Bad \in SUBSET Nat
      <3>1. n + 1 \in Nat
        BY <1>1
      <3> HIDE DEF Good
      <3> QED BY <3>1
    <2> HIDE DEF Bad, Good
    <2>2. PICK b \in Bad : \A c \in Bad : b <= c
      BY <2>1, FirstIndex
    <2>3. b \in Nat /\ ~Good(b)
      BY DEF Bad
    <2>4. b # 0
      BY <1>2, <2>3
    <2>5. b - 1 \in Nat /\ b - 1 + 1 = b
      BY <2>3, <2>4
    <2>6. b - 1 \notin Bad
      BY <2>2, <2>3, <2>5
    <2>7. Good(b - 1)
      BY <2>5, <2>6 DEF Bad
    <2>8. Good(b - 1 + 1)
      BY <1>3, <2>5, <2>7
    <2> QED BY <2>3, <2>5, <2>8
  <1>5. PICK g \in [D -> A] : \A x \in D : m[x] < n + 1 => g[x] = F[g][x]
    BY <1>4
  <1>6. \A x \in D : g[x] = F[g][x]
    <2> TAKE x \in D
    <2>1. m[x] < n + 1
      BY <1>1
    <2> QED BY <1>5, <2>1
  <1>7. F[g] \in [D -> A]
    BY <1>1
  <1> QED BY <1>6, <1>7

(* f and g agree wherever they agree on the points of a smaller measure.   *)
Agree(f, g, D, m) ==
  /\ f = [x \in D |-> f[x]] /\ g = [x \in D |-> g[x]]
  /\ \A x \in D : (\A y \in D : m[y] < m[x] => f[y] = g[y]) => f[x] = g[x]

(* Two functions that agree wherever they agree on the points of a smaller *)
(* measure are the same.                                                   *)
LEMMA RecursionUnique ==
  ASSUME NEW D, NEW m, NEW n, Measure(m, D, n),
         NEW f, NEW g, Agree(f, g, D, m)
  PROVE  f = g
  <1>a. n \in Nat /\ m \in [D -> 0..n]
    BY DEF Recursion, Measure
  <1> SUFFICES ASSUME NEW x \in D, f[x] # g[x] PROVE FALSE
    BY Zenon DEF Agree
  <1> DEFINE Bad == {k \in Nat : \E y \in D : k = m[y] /\ f[y] # g[y]}
  <1>1. m[x] \in Bad /\ Bad \in SUBSET Nat
    <2>1. m[x] \in Nat
      BY <1>a
    <2> QED BY <2>1
  <1> HIDE DEF Bad
  <1>2. PICK b \in Bad : \A c \in Bad : b <= c
    BY <1>1, FirstIndex
  <1>3. PICK y \in D : b = m[y] /\ f[y] # g[y]
    BY DEF Bad
  <1>4. ASSUME NEW w \in D, m[w] < m[y], f[w] # g[w] PROVE FALSE
    <2>1. m[w] \in Nat /\ m[y] \in Nat
      BY <1>a, <1>4
    <2>2. m[w] \in Bad
      BY <1>4, <2>1 DEF Bad
    <2>3. m[y] <= m[w]
      BY <1>2, <1>3, <2>2
    <2> QED BY <1>4, <2>1, <2>3
  <1> QED BY <1>3, <1>4, Zenon DEF Agree

(* FlattenSeq puts its parts together one by one.                          *)
LEMMA FlattenIs ==
  ASSUME NEW S, NEW ss \in Seq(Seq(S))
  PROVE  \E acc \in [0..Len(ss) -> Seq(S)] :
           /\ acc[0] = <<>>
           /\ \A k \in 1..Len(ss) : acc[k] = acc[k - 1] \o ss[k]
           /\ FlattenSeq(ss) = acc[Len(ss)]
  <1>1. PICK n \in Nat : n = Len(ss)
    OBVIOUS
  <1>2. PICK z \in Seq(S) : z = <<>> /\ Len(z) = 0
    BY EmptySeq
  <1>3. \A k \in 1..n : ss[k] \in Seq(S)
    BY <1>1
  <1>4. CASE n = 0
    <2>1. ss = <<>>
      BY <1>1, <1>4, EmptySeq
    <2>2. FlattenSeq(ss) = ss
      BY <1>1, <1>4, Zenon DEF FlattenSeq
    <2>3. PICK acc : acc = [k \in 0..n |-> z]
      OBVIOUS
    <2>4. acc \in [0..n -> Seq(S)] /\ acc[0] = z /\ acc[n] = z
      BY <1>4, <2>3
    <2>5. \A k \in 1..n : acc[k] = acc[k - 1] \o ss[k]
      BY <1>4
    <2> QED BY <1>1, <1>2, <2>1, <2>2, <2>4, <2>5, Zenon
  <1>5. CASE n > 0
    <2> DEFINE B(g, i) == IF i = 1 THEN ss[i] ELSE g[i - 1] \o ss[i]
    <2>a. PICK D : D = 1..n
      OBVIOUS
    <2>b. PICK F : F = [g \in [D -> Seq(S)] |-> [i \in D |-> B(g, i)]]
      OBVIOUS
    <2>1. PICK m : m = [i \in D |-> i]
      OBVIOUS
    <2>2. m \in [D -> 0..n]
      BY <1>1, <2>a, <2>1
    <2>3. ASSUME NEW g \in [D -> Seq(S)], NEW i \in D
          PROVE  B(g, i) \in Seq(S)
      <3>1. CASE i = 1
        BY <1>3, <2>a, <3>1
      <3>2. CASE i # 1
        <4>1. i - 1 \in D
          BY <1>1, <2>a, <3>2
        <4>2. g[i - 1] \in Seq(S) /\ ss[i] \in Seq(S)
          BY <1>3, <2>a, <4>1
        <4> QED BY <3>2, <4>2, ConcatIndex
      <3> QED BY <3>1, <3>2
    <2>4. F \in [[D -> Seq(S)] -> [D -> Seq(S)]]
      BY <2>3, <2>b, Zenon
    <2>5. ASSUME NEW g, NEW h, NEW x \in D, \A y \in D : m[y] < m[x] => g[y] = h[y]
          PROVE  B(g, x) = B(h, x)
      <3>1. x # 1 => x - 1 \in D /\ m[x - 1] < m[x]
        BY <1>1, <2>a, <2>1
      <3>2. x # 1 => g[x - 1] = h[x - 1]
        BY <2>5, <3>1
      <3> QED BY <3>2, Zenon
    <2>c. Measure(m, D, n)
      BY <1>1, <2>2, Zenon DEF Measure
    <2>6. Recursion(F, D, Seq(S), m, n)
      <3>1. ASSUME NEW g \in [D -> Seq(S)], NEW x \in D
            PROVE  F[g][x] = B(g, x)
        BY <2>b, Zenon
      <3>2. ASSUME NEW g \in [D -> Seq(S)], NEW h \in [D -> Seq(S)], NEW x \in D,
                   \A y \in D : m[y] < m[x] => g[y] = h[y]
            PROVE  F[g][x] = F[h][x]
        <4>1. B(g, x) = B(h, x)
          BY <2>5, <3>2
        <4>2. F[g][x] = B(g, x)
          BY <3>1
        <4>3. F[h][x] = B(h, x)
          BY <3>1
        <4> HIDE DEF B
        <4> QED BY <4>1, <4>2, <4>3
      <3> HIDE DEF B
      <3> QED BY <1>1, <1>2, <2>2, <2>4, <3>2, Zenon DEF Recursion, Measure
    <2>7. PICK g \in [D -> Seq(S)] : g = F[g]
      <3> QED BY <2>6, RecursionDefines, SMT
    <2>8. g = [i \in D |-> B(g, i)]
      BY <2>7, <2>b, Zenon
    <2>9. PICK f : f = CHOOSE any : any = [i \in D |-> IF i = 1 THEN ss[i] ELSE any[i - 1] \o ss[i]]
      OBVIOUS
    <2>10. f = [i \in D |-> B(f, i)]
      BY <2>8, <2>9, Zenon
    <2>11. FlattenSeq(ss) = f[n]
      BY <1>1, <1>5, <2>9, <2>a DEF FlattenSeq
    <2>12. f = g
      <3> HIDE DEF B
      <3>1. f = [x \in D |-> f[x]]
        BY <2>10, Zenon
      <3>2. \A x \in D : (\A y \in D : m[y] < m[x] => f[y] = g[y]) => f[x] = g[x]
        BY <2>5, <2>8, <2>10
      <3>3. g = [x \in D |-> g[x]]
        BY <2>7, Zenon
      <3>4. Agree(f, g, D, m)
        BY <3>1, <3>2, <3>3, Zenon DEF Agree
      <3> QED BY <2>c, <3>4, RecursionUnique, SMT
    <2>13. \A k \in 1..n : f[k] \in Seq(S) /\ f[k] = IF k = 1 THEN ss[k] ELSE f[k - 1] \o ss[k]
      BY <2>7, <2>10, <2>12, <2>a, Zenon
    <2>14. PICK acc : acc = [k \in 0..n |-> IF k = 0 THEN z ELSE f[k]]
      OBVIOUS
    <2>15. /\ acc \in [0..n -> Seq(S)] /\ acc[0] = z /\ acc[n] = f[n]
           /\ \A k \in 1..n : acc[k] = f[k]
      BY <1>1, <1>2, <1>5, <2>13, <2>14
    <2>16. ASSUME NEW k \in 1..n PROVE acc[k] = acc[k - 1] \o ss[k]
      <3>1. CASE k = 1
        <4>1. z \o ss[k] = ss[k]
          BY <1>2, <1>3
        <4>2. k - 1 = 0
          BY <3>1
        <4> QED BY <2>13, <2>15, <3>1, <4>1, <4>2
      <3>2. CASE k # 1
        <4>1. k - 1 \in 1..n
          BY <3>2
        <4> QED BY <2>13, <2>15, <3>2, <4>1
      <3> QED BY <3>1, <3>2
    <2> QED BY <1>1, <1>2, <2>11, <2>15, <2>16, Zenon
  <1>6. n = 0 \/ n > 0
    BY <1>1
  <1> QED BY <1>4, <1>5, <1>6, Zenon

(* The greatest of the first k indices, and the indices below it.          *)
LEMMA MaxOfFirst ==
  ASSUME NEW k \in Nat \ {0}
  PROVE  1..k # {} /\ Max(1..k) = k /\ (1..k) \ {k} = 1..(k - 1)
  <1>1. k \in 1..k /\ \A y \in 1..k : k >= y
    OBVIOUS
  <1>2. \A x \in 1..k : (\A y \in 1..k : x >= y) => x = k
    BY <1>1
  <1>3. Max(1..k) = k
    <2>1. PICK K : K = 1..k
      OBVIOUS
    <2>2. PICK c : c = CHOOSE x \in K : \A y \in K : x >= y
      OBVIOUS
    <2>3. c \in K /\ \A y \in K : c >= y
      BY <1>1, <2>1, <2>2, Zenon
    <2>4. c = k
      BY <1>2, <2>1, <2>3, Zenon
    <2> QED BY <2>1, <2>2, <2>4, Zenon DEF Max
  <1>4. (1..k) \ {k} = 1..(k - 1)
    OBVIOUS
  <1> QED BY <1>1, <1>3, <1>4

(* The greatest of some indices.                                           *)
LEMMA MaxOfIndices ==
  ASSUME NEW n \in Nat, NEW s \in SUBSET (1..n), s # {}
  PROVE  Max(s) \in s /\ \A y \in s : Max(s) >= y
  <1>1. PICK b \in s : \A c \in s : c <= b
    BY LastIndex
  <1>2. \A c \in s : b >= c
    BY <1>1
  <1> QED BY <1>2, Zenon DEF Max

(* How far a set of indices reaches: the measure of a fold's recursion.    *)
Reach(s) == IF s = {} THEN 0 ELSE Max(s)

(* Without its greatest index a set reaches less far.                      *)
LEMMA ReachShrinks ==
  ASSUME NEW n \in Nat, NEW s \in SUBSET (1..n)
  PROVE  /\ Reach(s) \in 0..n
         /\ s # {} => s \ {Max(s)} \in SUBSET (1..n) /\ Reach(s \ {Max(s)}) < Reach(s)
  <1>1. CASE s = {}
    BY <1>1 DEF Reach
  <1>2. CASE s # {}
    <2>1. PICK x : x = Max(s)
      OBVIOUS
    <2>2. x \in s /\ \A y \in s : x >= y
      BY <1>2, <2>1, MaxOfIndices
    <2>3. x \in 1..n /\ Reach(s) = x
      BY <1>2, <2>1, <2>2 DEF Reach
    <2>4. PICK r : r = s \ {x}
      OBVIOUS
    <2>5. r \in SUBSET (1..n)
      BY <2>4
    <2>6. Reach(r) < x
      <3>1. CASE r = {}
        BY <2>3, <3>1 DEF Reach
      <3>2. CASE r # {}
        <4>1. PICK y : y = Max(r)
          OBVIOUS
        <4>2. y \in r
          BY <2>5, <3>2, <4>1, MaxOfIndices
        <4>3. y \in s /\ y # x
          BY <2>4, <4>2
        <4>4. x >= y /\ y \in 1..n
          BY <2>2, <4>3
        <4>5. Reach(r) = y
          BY <3>2, <4>1 DEF Reach
        <4> QED BY <2>3, <4>3, <4>4, <4>5
      <3> QED BY <3>1, <3>2
    <2> QED BY <1>2, <2>1, <2>3, <2>4, <2>5, <2>6
  <1> QED BY <1>1, <1>2

(* f is the fold over q, from base on, that takes one step by G.           *)
FoldsBy(f, G, base, q) ==
  f = [s \in SUBSET DOMAIN q |->
         IF s = {} THEN base ELSE G[<<f[s \ {Max(s)}], q[Max(s)]>>]]

(* There is such a fold, whatever G is.                                    *)
LEMMA FoldExists ==
  ASSUME NEW A, NEW B, NEW G, G \in [A \X B -> A], NEW base \in A, NEW q \in Seq(B)
  PROVE  \E f \in [SUBSET DOMAIN q -> A] : FoldsBy(f, G, base, q)
  <1>1. PICK n \in Nat : n = Len(q) /\ DOMAIN q = 1..n /\ \A i \in 1..n : q[i] \in B
    OBVIOUS
  <1> DEFINE Bd(f, s) == IF s = {} THEN base ELSE G[<<f[s \ {Max(s)}], q[Max(s)]>>]
  <1>2. PICK D : D = SUBSET (1..n)
    OBVIOUS
  <1>3. PICK F : F = [f \in [D -> A] |-> [s \in D |-> Bd(f, s)]]
    OBVIOUS
  <1>4. PICK m : m = [s \in D |-> Reach(s)]
    OBVIOUS
  <1>5. m \in [D -> 0..n]
    BY <1>1, <1>2, <1>4, ReachShrinks
  <1>6. ASSUME NEW f \in [D -> A], NEW s \in D PROVE Bd(f, s) \in A
    <2>1. CASE s = {}
      BY <2>1
    <2>2. CASE s # {}
      <3>1. PICK x : x = Max(s)
        OBVIOUS
      <3>2. x \in 1..n
        BY <1>1, <1>2, <2>2, <3>1, MaxOfIndices
      <3>3. s \ {x} \in D
        BY <1>1, <1>2
      <3>4. f[s \ {x}] \in A /\ q[x] \in B
        BY <1>1, <3>2, <3>3
      <3>5. PICK u \in A : u = f[s \ {x}]
        BY <3>4
      <3>6. PICK v \in B : v = q[x]
        BY <3>4
      <3>7. G[<<u, v>>] \in A
        OBVIOUS
      <3>8. Bd(f, s) = G[<<u, v>>]
        BY <2>2, <3>1, <3>5, <3>6, Zenon
      <3> QED BY <3>7, <3>8
    <2> QED BY <2>1, <2>2
  <1>7. F \in [[D -> A] -> [D -> A]]
    BY <1>3, <1>6, Zenon
  <1>8. ASSUME NEW f \in [D -> A], NEW g \in [D -> A], NEW s \in D,
               \A y \in D : m[y] < m[s] => f[y] = g[y]
        PROVE  F[f][s] = F[g][s]
    <2>1. F[f][s] = Bd(f, s)
      BY <1>3, Zenon
    <2>2. F[g][s] = Bd(g, s)
      BY <1>3, Zenon
    <2>3. s # {} => f[s \ {Max(s)}] = g[s \ {Max(s)}]
      <3> SUFFICES ASSUME s # {} PROVE f[s \ {Max(s)}] = g[s \ {Max(s)}]
        OBVIOUS
      <3>1. PICK y : y = s \ {Max(s)}
        OBVIOUS
      <3>2. y \in D /\ Reach(y) < Reach(s)
        BY <1>1, <1>2, <3>1, ReachShrinks
      <3>3. m[y] < m[s]
        BY <1>4, <3>2
      <3> QED BY <1>8, <3>1, <3>2, <3>3
    <2>4. Bd(f, s) = Bd(g, s)
      BY <2>3, Zenon
    <2> HIDE DEF Bd
    <2> QED BY <2>1, <2>2, <2>4, Zenon
  <1>9. Recursion(F, D, A, m, n)
    BY <1>1, <1>5, <1>7, <1>8, Zenon DEF Recursion, Measure
  <1>10. PICK f \in [D -> A] : f = F[f]
    BY <1>9, RecursionDefines, SMT
  <1>11. f = [s \in D |-> Bd(f, s)]
    BY <1>3, <1>10, Zenon
  <1> QED BY <1>1, <1>2, <1>10, <1>11, Zenon DEF FoldsBy

(* The values a fold goes through.                                         *)
FoldOf(h, A, B, G, base, q) ==
  G \in [A \X B -> A] /\ base \in A /\ q \in Seq(B) /\ FoldsBy(h, G, base, q)
FoldTrace(st, h, A, G, base, q) ==
  /\ st \in [0..Len(q) -> A] /\ st[0] = base
  /\ \A k \in 1..Len(q) : st[k] = G[<<st[k - 1], q[k]>>]
  /\ h[DOMAIN q] = st[Len(q)]

(* Every fold goes through such values.                                    *)
LEMMA FoldSteps ==
  ASSUME NEW h, NEW A, NEW B, NEW G, NEW base, NEW q, FoldOf(h, A, B, G, base, q)
  PROVE  \E st : FoldTrace(st, h, A, G, base, q)
  <1>0. G \in [A \X B -> A] /\ base \in A /\ q \in Seq(B) /\ FoldsBy(h, G, base, q)
    BY DEF FoldOf
  <1>1. PICK n \in Nat : n = Len(q) /\ DOMAIN q = 1..n /\ \A i \in 1..n : q[i] \in B
    BY <1>0
  <1>2. PICK st : st = [k \in 0..n |-> h[1..k]]
    OBVIOUS
  <1>3. st[0] = base
    <2>1. 1..0 = {}
      OBVIOUS
    <2>2. {} \in SUBSET DOMAIN q
      OBVIOUS
    <2>3. h[{}] = base
      BY <1>0, <2>2, Zenon DEF FoldsBy
    <2>4. 0 \in 0..n
      BY <1>1
    <2> QED BY <1>2, <2>1, <2>3, <2>4
  <1>4. ASSUME NEW k \in 1..n PROVE st[k] = G[<<st[k - 1], q[k]>>]
    <2>1. k \in Nat \ {0} /\ k \in 0..n /\ k - 1 \in 0..n
      BY <1>1
    <2>2. PICK s : s = 1..k
      OBVIOUS
    <2>3. s # {} /\ Max(s) = k /\ s \ {k} = 1..(k - 1)
      BY <2>1, <2>2, MaxOfFirst
    <2>4. s \in SUBSET DOMAIN q
      BY <1>1, <2>2
    <2>5. h[s] = G[<<h[s \ {Max(s)}], q[Max(s)]>>]
      BY <1>0, <2>3, <2>4, Zenon DEF FoldsBy
    <2>6. h[s] = G[<<h[1..(k - 1)], q[k]>>]
      BY <2>3, <2>5, Zenon
    <2>7. st[k] = h[s] /\ st[k - 1] = h[1..(k - 1)]
      BY <1>2, <2>1, <2>2, Zenon
    <2> QED BY <2>6, <2>7, Zenon
  <1>5. h[DOMAIN q] = st[n]
    BY <1>1, <1>2
  <1>6. ASSUME NEW k \in 0..n PROVE st[k] \in A
    <2> DEFINE Bad == {j \in Nat : j <= n /\ st[j] \notin A}
    <2> SUFFICES ASSUME st[k] \notin A PROVE FALSE
      OBVIOUS
    <2>1. k \in Bad /\ Bad \in SUBSET Nat
      BY <1>1
    <2> HIDE DEF Bad
    <2>2. PICK b \in Bad : \A c \in Bad : b <= c
      BY <2>1, FirstIndex
    <2>3. b \in Nat /\ b <= n /\ st[b] \notin A
      BY DEF Bad
    <2>4. b # 0
      BY <1>0, <1>3, <2>3
    <2>5. b - 1 \in Nat /\ b \in 1..n /\ b - 1 <= n /\ ~(b <= b - 1)
      BY <1>1, <2>3, <2>4
    <2>6. st[b - 1] \in A
      BY <2>2, <2>5 DEF Bad
    <2>7. st[b] = G[<<st[b - 1], q[b]>>] /\ q[b] \in B
      BY <1>1, <1>4, <2>5
    <2>8. PICK u \in A : u = st[b - 1]
      BY <2>6
    <2>9. PICK v \in B : v = q[b]
      BY <2>7
    <2>10. G[<<u, v>>] \in A
      BY <1>0
    <2>11. st[b] = G[<<u, v>>]
      BY <2>7, <2>8, <2>9, Zenon
    <2> QED BY <2>3, <2>10, <2>11
  <1>7. st \in [0..n -> A]
    BY <1>2, <1>6
  <1> QED BY <1>1, <1>3, <1>4, <1>5, <1>7, Zenon DEF FoldTrace

(* Two folds over the same indices that take every step alike are the      *)
(* same.                                                                   *)
FoldsAlike(f, h, q) ==
  /\ f = [s \in SUBSET DOMAIN q |-> f[s]] /\ h = [s \in SUBSET DOMAIN q |-> h[s]]
  /\ f[{}] = h[{}]
  /\ \A s \in SUBSET DOMAIN q :
       s # {} /\ f[s \ {Max(s)}] = h[s \ {Max(s)}] => f[s] = h[s]

(* Two folds that take every step alike agree on every set of indices.     *)
LEMMA FoldUnique ==
  ASSUME NEW B, NEW q \in Seq(B), NEW f, NEW h, FoldsAlike(f, h, q)
  PROVE  f = h
  <1>1. PICK n \in Nat : n = Len(q) /\ DOMAIN q = 1..n
    OBVIOUS
  <1>2. PICK D : D = SUBSET (1..n)
    OBVIOUS
  <1>3. PICK m : m = [s \in D |-> Reach(s)]
    OBVIOUS
  <1>4. m \in [D -> 0..n]
    BY <1>1, <1>2, <1>3, ReachShrinks
  <1>5. Measure(m, D, n)
    BY <1>1, <1>4, Zenon DEF Measure
  <1>6. Agree(f, h, D, m)
    <2>1. f = [s \in D |-> f[s]] /\ h = [s \in D |-> h[s]]
      BY <1>1, <1>2, Zenon DEF FoldsAlike
    <2>2. ASSUME NEW s \in D, \A y \in D : m[y] < m[s] => f[y] = h[y]
          PROVE  f[s] = h[s]
      <3>1. CASE s = {}
        BY <3>1 DEF FoldsAlike
      <3>2. CASE s # {}
        <4>1. PICK y : y = s \ {Max(s)}
          OBVIOUS
        <4>2. y \in D /\ Reach(y) < Reach(s)
          BY <1>1, <1>2, <3>2, <4>1, ReachShrinks
        <4>3. m[y] < m[s]
          BY <1>3, <4>2
        <4>4. f[y] = h[y]
          BY <2>2, <4>2, <4>3
        <4>5. s \in SUBSET DOMAIN q
          BY <1>1, <1>2
        <4> QED BY <3>2, <4>1, <4>4, <4>5 DEF FoldsAlike
      <3> QED BY <3>1, <3>2
    <2> QED BY <2>1, <2>2, Zenon DEF Agree
  <1> QED BY <1>5, <1>6, RecursionUnique, SMT

(* The parts ss stand in s one behind the other: the k-th ends at at[k].   *)
Laid(s, ss, at) ==
  /\ at \in [0..Len(ss) -> 0..Len(s)] /\ at[0] = 0 /\ at[Len(ss)] = Len(s)
  /\ \A k \in 1..Len(ss) :
       /\ at[k] = at[k - 1] + Len(ss[k])
       /\ \A j \in 1..Len(ss[k]) : s[at[k - 1] + j] = ss[k][j]

(* So they do in FlattenSeq(ss).                                           *)
LEMMA FlattenLays ==
  ASSUME NEW S, NEW ss \in Seq(Seq(S))
  PROVE  FlattenSeq(ss) \in Seq(S) /\ \E at : Laid(FlattenSeq(ss), ss, at)
  <1>1. PICK n \in Nat : n = Len(ss)
    OBVIOUS
  <1>2. PICK acc \in [0..n -> Seq(S)] :
           /\ acc[0] = <<>>
           /\ \A k \in 1..n : acc[k] = acc[k - 1] \o ss[k]
           /\ FlattenSeq(ss) = acc[n]
    BY <1>1, FlattenIs
  <1>3. \A k \in 1..n : ss[k] \in Seq(S)
    BY <1>1
  <1>4. PICK s \in Seq(S) : s = acc[n]
    BY <1>1, <1>2
  <1>5. ASSUME NEW k \in 1..n
        PROVE  /\ k - 1 \in 0..n /\ k \in 0..n
               /\ Len(acc[k - 1]) \in Nat /\ Len(ss[k]) \in Nat
               /\ Len(acc[k]) = Len(acc[k - 1]) + Len(ss[k])
               /\ \A j \in 1..Len(acc[k - 1]) : acc[k][j] = acc[k - 1][j]
               /\ \A j \in 1..Len(ss[k]) : acc[k][Len(acc[k - 1]) + j] = ss[k][j]
    <2>1. k - 1 \in 0..n /\ k \in 0..n
      BY <1>1
    <2>2. PICK x \in Seq(S) : x = acc[k - 1]
      BY <1>2, <2>1
    <2>3. PICK y \in Seq(S) : y = ss[k]
      BY <1>3
    <2>4. acc[k] = x \o y
      BY <1>2, <2>2, <2>3, Zenon
    <2>5. /\ Len(x) \in Nat /\ Len(y) \in Nat /\ Len(x \o y) = Len(x) + Len(y)
          /\ \A i \in 1..Len(x) : (x \o y)[i] = x[i]
          /\ \A i \in 1..Len(y) : (x \o y)[Len(x) + i] = y[i]
      BY ConcatIndex
    <2> QED BY <2>1, <2>2, <2>3, <2>4, <2>5, Zenon
  <1> DEFINE Good(k) == /\ Len(acc[k]) <= Len(s)
                        /\ \A j \in 1..Len(acc[k]) : s[j] = acc[k][j]
             Bad == {d \in Nat : d <= n /\ ~Good(n - d)}
  <1>6. \A k \in 0..n : Good(k)
    <2> SUFFICES ASSUME NEW k \in 0..n, ~Good(k) PROVE FALSE
      OBVIOUS
    <2>1. n - k \in Nat /\ n - k <= n /\ n - (n - k) = k
      BY <1>1
    <2>2. n - k \in Bad /\ Bad \in SUBSET Nat
      BY <2>1, Zenon
    <2>3. PICK d \in Bad : \A c \in Bad : d <= c
      <3> HIDE DEF Bad
      <3> QED BY <2>2, FirstIndex
    <2>4. d \in Nat /\ d <= n /\ ~Good(n - d)
      BY <2>3, Zenon
    <2>5. d # 0
      <3>1. Good(n)
        BY <1>4
      <3>2. n - 0 = n
        BY <1>1
      <3> QED BY <2>4, <3>1, <3>2, Zenon
    <2>6. PICK i \in 1..n : i = n - d + 1
      <3>1. n - d + 1 \in 1..n
        BY ONLY n \in Nat, d \in Nat, d <= n, d # 0, <2>4, <2>5
      <3> QED BY <3>1, Zenon
    <2>7. i - 1 = n - d /\ d - 1 \in Nat /\ d - 1 <= n /\ n - (d - 1) = i /\ ~(d <= d - 1)
      BY <1>1, <2>4, <2>5, <2>6
    <2>8. d - 1 \notin Bad
      BY <2>3, <2>7, Zenon
    <2>9. Good(i)
      <3>1. Good(n - (d - 1))
        BY <2>7, <2>8, Zenon
      <3> QED BY <2>7, <3>1, Zenon
    <2>10. Good(i - 1)
      <3>1. PICK x, y : x = acc[i - 1] /\ y = acc[i]
        OBVIOUS
      <3>2. /\ Len(x) \in Nat /\ Len(y) \in Nat /\ Len(x) <= Len(y)
            /\ \A j \in 1..Len(x) : y[j] = x[j]
        <4>1. PICK l : l = Len(ss[i])
          OBVIOUS
        <4>2. /\ Len(x) \in Nat /\ l \in Nat /\ Len(y) = Len(x) + l
              /\ \A j \in 1..Len(x) : y[j] = x[j]
          BY <1>5, <3>1, <4>1, Zenon
        <4>3. Len(y) \in Nat /\ Len(x) <= Len(y)
          BY ONLY <4>2
        <4> QED BY <4>2, <4>3, Zenon
      <3>3. Len(y) <= Len(s) /\ \A j \in 1..Len(y) : s[j] = y[j]
        BY <2>9, <3>1, Zenon
      <3>4. Len(x) <= Len(s) /\ \A j \in 1..Len(x) : s[j] = x[j]
        <4>1. Len(s) \in Nat
          OBVIOUS
        <4>2. Len(x) <= Len(s) /\ \A j \in 1..Len(x) : j \in 1..Len(y)
          BY <3>2, <3>3, <4>1
        <4> QED BY <3>2, <3>3, <4>2, Zenon
      <3> QED BY <3>1, <3>4, Zenon
    <2> QED BY <2>4, <2>7, <2>10, Zenon
  <1>7. PICK at : at = [k \in 0..n |-> Len(acc[k])]
    OBVIOUS
  <1>8. at \in [0..n -> 0..Len(s)]
    <2>1. ASSUME NEW k \in 0..n PROVE Len(acc[k]) \in 0..Len(s)
      <3>1. Len(acc[k]) \in Nat
        BY <1>2
      <3>2. Len(acc[k]) <= Len(s) /\ Len(s) \in Nat
        BY <1>6
      <3> QED BY <3>1, <3>2
    <2> QED BY <1>7, <2>1, Zenon
  <1>9. at[0] = 0 /\ at[n] = Len(s)
    <2>1. 0 \in 0..n /\ n \in 0..n
      BY <1>1
    <2>2. PICK z : z = <<>> /\ Len(z) = 0
      BY EmptySeq
    <2> QED BY <1>2, <1>4, <1>7, <2>1, <2>2, Zenon
  <1>10. ASSUME NEW k \in 1..n
         PROVE  /\ at[k] = at[k - 1] + Len(ss[k])
                /\ \A j \in 1..Len(ss[k]) : s[at[k - 1] + j] = ss[k][j]
    <2>1. at[k] = Len(acc[k]) /\ at[k - 1] = Len(acc[k - 1])
      BY <1>5, <1>7, Zenon
    <2>2. ASSUME NEW j \in 1..Len(ss[k]) PROVE s[at[k - 1] + j] = ss[k][j]
      <3>1. at[k - 1] \in Nat /\ Len(ss[k]) \in Nat /\ Len(acc[k]) = at[k - 1] + Len(ss[k])
        BY <1>5, <2>1, Zenon
      <3>2. at[k - 1] + j \in 1..Len(acc[k])
        <4>1. PICK a, l : a = at[k - 1] /\ l = Len(ss[k])
          OBVIOUS
        <4>2. a \in Nat /\ l \in Nat /\ j \in 1..l
          BY <3>1, <4>1, Zenon
        <4>3. a + j \in 1..(a + l)
          BY ONLY <4>2
        <4> QED BY <3>1, <4>1, <4>3, Zenon
      <3>3. s[at[k - 1] + j] = acc[k][at[k - 1] + j]
        BY <1>5, <1>6, <3>2, Zenon
      <3> QED BY <1>5, <2>1, <3>3, Zenon
    <2> QED BY <1>5, <2>1, <2>2, Zenon
  <1>11. Laid(s, ss, at)
    BY <1>1, <1>8, <1>9, <1>10, Zenon DEF Laid
  <1> QED BY <1>1, <1>2, <1>4, <1>11, Zenon

-----------------------------------------------------------------------------
(* Scans.                                                                  *)

(* A scan of positions: it ends at some, takes a pair at others, and goes  *)
(* on behind.                                                              *)
Scans(g, D, stop, take, nx, pr) ==
  g = [q \in D |-> IF q \in stop THEN <<>>
                   ELSE IF q \in take THEN <<pr[q]>> \o g[nx[q]] ELSE g[nx[q]]]

(* Every scan that moves on is defined.                                    *)
LEMMA ScanDefined ==
  ASSUME NEW n \in Nat, NEW D, D = 1..(n + 1), NEW stop, NEW take, NEW nx, NEW pr,
         \A q \in D : q \notin stop => nx[q] \in D /\ q < nx[q]
  PROVE  \E g : Scans(g, D, stop, take, nx, pr)
  <1>1. PICK R : R = {pr[q] : q \in D}
    OBVIOUS
  <1>2. PICK A : A = Seq(R)
    OBVIOUS
  <1> DEFINE B(g, q) == IF q \in stop THEN <<>>
                        ELSE IF q \in take THEN <<pr[q]>> \o g[nx[q]] ELSE g[nx[q]]
  <1>3. PICK m : m = [q \in D |-> n + 1 - q]
    OBVIOUS
  <1>4. PICK N \in Nat : N = n + 1
    OBVIOUS
  <1>5. Measure(m, D, N)
    BY <1>3, <1>4 DEF Measure
  <1>6. ASSUME NEW q \in D, q \notin stop PROVE nx[q] \in D /\ m[nx[q]] < m[q]
    <2>1. PICK p \in D : p = nx[q] /\ q < p
      BY <1>6
    <2>2. m[p] = n + 1 - p /\ m[q] = n + 1 - q
      BY <1>3
    <2>3. n + 1 - p < n + 1 - q
      BY <2>1
    <2> QED BY <2>1, <2>2, <2>3, Zenon
  <1>7. ASSUME NEW g, NEW h, NEW q \in D, \A y \in D : m[y] < m[q] => g[y] = h[y]
        PROVE  B(g, q) = B(h, q)
    BY <1>6, <1>7, Zenon
  <1>8. ASSUME NEW g \in [D -> A], NEW q \in D PROVE B(g, q) \in A
    <2>1. CASE q \in stop
      <3>1. <<>> \in A
        BY <1>2, EmptySeq, Zenon
      <3> QED BY <2>1, <3>1, Zenon
    <2>2. CASE q \notin stop
      <3>1. PICK w \in A : w = g[nx[q]]
        BY <1>6, <2>2, Zenon
      <3>2. PICK c \in R : c = pr[q]
        BY <1>1, Zenon
      <3>3. <<c>> \o w \in A
        BY ONLY <1>2, c \in R, w \in A
      <3>4. B(g, q) = <<c>> \o w \/ B(g, q) = w
        BY <2>2, <3>1, <3>2, Zenon
      <3> QED BY <3>3, <3>4, Zenon
    <2> QED BY <2>1, <2>2, Zenon
  <1>9. PICK F : F = [g \in [D -> A] |-> [q \in D |-> B(g, q)]]
    OBVIOUS
  <1>10. Recursion(F, D, A, m, N)
    <2>1. F \in [[D -> A] -> [D -> A]]
      <3> HIDE DEF B
      <3> QED BY <1>8, <1>9, Zenon
    <2>2. ASSUME NEW g \in [D -> A], NEW q \in D PROVE F[g][q] = B(g, q)
      <3> HIDE DEF B
      <3> QED BY <1>9, Zenon
    <2>3. A # {}
      BY <1>2, EmptySeq, Zenon
    <2> HIDE DEF B
    <2>4. ASSUME NEW g \in [D -> A], NEW h \in [D -> A], NEW q \in D,
                 \A y \in D : m[y] < m[q] => g[y] = h[y]
          PROVE  F[g][q] = F[h][q]
      <3>1. B(g, q) = B(h, q)
        BY <1>7, <2>4
      <3> QED BY <2>2, <3>1
    <2> QED BY <1>5, <2>1, <2>3, <2>4, Zenon DEF Recursion
  <1>11. PICK g \in [D -> A] : g = F[g]
    <2> HIDE DEF B
    <2> QED BY ONLY <1>10, RecursionDefines
  <1>12. g = [q \in D |-> B(g, q)]
    <2> HIDE DEF B
    <2> QED BY <1>9, <1>11, Zenon
  <1>13. Scans(g, D, stop, take, nx, pr)
    BY <1>12, Zenon DEF Scans
  <1> QED BY <1>13

(* A part of a sequence is its first element and the rest.                 *)
LEMMA SubSeqHead ==
  ASSUME NEW R, NEW u \in Seq(R), NEW k \in 1..Len(u)
  PROVE  /\ SubSeq(u, k + 1, Len(u)) \in Seq(R)
         /\ <<u[k]>> \o SubSeq(u, k + 1, Len(u)) = SubSeq(u, k, Len(u))
  <1>1. PICK n \in Nat : n = Len(u) /\ \A i \in 1..n : u[i] \in R
    OBVIOUS
  <1>2. PICK c \in R : c = u[k]
    BY <1>1
  <1>3. PICK w : w = SubSeq(u, k + 1, n)
    OBVIOUS
  <1>4. w \in Seq(R)
    BY <1>1, <1>3
  <1>5. <<c>> \o w = SubSeq(u, k, n)
    BY ONLY u \in Seq(R), n \in Nat, <1>1, <1>2, <1>3, k \in 1..n, c \in R
  <1> QED BY <1>1, <1>2, <1>3, <1>4, <1>5, Zenon

(* The scan g finds the pairs of u one by one, at the places a, and then v. *)
Finds(g, a, u, v) ==
  g[a[Len(u)]] = v /\ \A k \in 1..Len(u) : g[a[k - 1]] = <<u[k]>> \o g[a[k]]

(* Such a scan reads u and v.                                              *)
LEMMA ScanReads ==
  ASSUME NEW R, NEW u \in Seq(R), NEW v \in Seq(R), NEW g, NEW a, Finds(g, a, u, v)
  PROVE  g[a[0]] = u \o v
  <1>1. PICK n \in Nat : n = Len(u) /\ \A k \in 1..n : u[k] \in R
    OBVIOUS
  <1> DEFINE Good(d) == g[a[n - d]] = SubSeq(u, n - d + 1, n) \o v
             Bad == {d \in Nat : d <= n /\ ~Good(d)}
  <1>2. Good(0)
    <2>1. n - 0 = n
      BY <1>1
    <2>2. SubSeq(u, n + 1, n) \o v = v
      <3>1. SubSeq(u, n + 1, n) = <<>>
        BY <1>1
      <3>2. <<>> \o v = v
        OBVIOUS
      <3> QED BY <3>1, <3>2, Zenon
    <2> QED BY <1>1, <2>1, <2>2, Zenon DEF Finds
  <1>3. ASSUME NEW d \in Nat, d < n, Good(d) PROVE Good(d + 1)
    <2>1. PICK k \in 1..n : k = n - d
      BY <1>1, <1>3
    <2>2. n - (d + 1) = k - 1 /\ n - (d + 1) + 1 = k
      BY <1>1, <1>3, <2>1
    <2>3. PICK c \in R : c = u[k]
      BY <1>1
    <2>4. PICK w : w = SubSeq(u, k + 1, n)
      OBVIOUS
    <2>5. g[a[k]] = w \o v
      BY <1>3, <2>1, <2>4, Zenon
    <2>6. g[a[k - 1]] = <<c>> \o (w \o v)
      BY <1>1, <2>3, <2>5, Zenon DEF Finds
    <2>7. w \in Seq(R) /\ <<c>> \o w = SubSeq(u, k, n)
      BY ONLY <1>1, <2>3, <2>4, u \in Seq(R), k \in 1..n, SubSeqHead
    <2>8. w \in Seq(R)
      BY <2>7
    <2>9. <<c>> \o (w \o v) = (<<c>> \o w) \o v
      BY ONLY <2>8, c \in R, v \in Seq(R)
    <2> QED BY <2>2, <2>6, <2>7, <2>9, Zenon
  <1>4. Good(n)
    <2> SUFFICES ASSUME ~Good(n) PROVE FALSE
      OBVIOUS
    <2>1. n \in Bad /\ Bad \in SUBSET Nat
      <3>1. n <= n
        BY <1>1
      <3> HIDE DEF Good
      <3> QED BY <3>1, Zenon
    <2>2. PICK d \in Bad : \A c \in Bad : d <= c
      <3> HIDE DEF Bad
      <3> QED BY <2>1, FirstIndex
    <2> HIDE DEF Good
    <2>3. d \in Nat /\ d <= n /\ ~Good(d)
      BY <2>2, Zenon
    <2>4. d # 0
      BY <1>2, <2>3, Zenon
    <2>5. d - 1 \in Nat /\ d - 1 < n /\ d - 1 <= n /\ d - 1 + 1 = d /\ ~(d <= d - 1)
      BY <1>1, <2>3, <2>4
    <2>6. Good(d - 1)
      BY <2>2, <2>5, Zenon
    <2>7. Good(d - 1 + 1)
      BY <1>3, <2>5, <2>6
    <2> QED BY <2>3, <2>5, <2>7, Zenon
  <1>5. n - n = 0 /\ 0 + 1 = 1
    BY <1>1
  <1>6. g[a[0]] = SubSeq(u, 1, n) \o v
    BY <1>4, <1>5, Zenon
  <1>7. SubSeq(u, 1, Len(u)) = u
    OBVIOUS
  <1> QED BY <1>1, <1>6, <1>7, Zenon

=============================================================================
