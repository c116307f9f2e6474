--------------------------- MODULE HttpTextProofs ---------------------------
(***************************************************************************)
(* Proofs about the texts of an exchange, whatever the request, the files  *)
(* and the default headers: the names of the files served, URI encoding    *)
(* and decoding, what a client reads in an answer and what the server      *)
(* reads in a request.  The pattern of a form's body stays with TLC.       *)
(***************************************************************************)
EXTENDS HttpText, IndexLemmas, FiniteSetTheorems, TLAPS

-----------------------------------------------------------------------------
(* Positions in a text.                                                    *)

(* The least of some positions is one of them and not behind any.          *)
LEMMA LeastIs ==
  ASSUME NEW S \in SUBSET Nat, NEW d
  PROVE  /\ S = {} => Least(S, d) = d
         /\ S # {} => Least(S, d) \in S /\ \A k \in S : Least(S, d) <= k
  <1>1. ASSUME S # {} PROVE \E i \in S : \A k \in S : i <= k
    BY <1>1, FirstIndex
  <1> QED BY <1>1, Zenon DEF Least

(* The greatest of some positions is one of them and not before any.       *)
LEMMA GreatestIs ==
  ASSUME NEW n \in Nat, NEW S \in SUBSET (1..n), NEW d
  PROVE  /\ S = {} => Greatest(S, d) = d
         /\ S # {} => Greatest(S, d) \in S /\ \A k \in S : k <= Greatest(S, d)
  <1>1. ASSUME S # {} PROVE \E i \in S : \A k \in S : k <= i
    BY <1>1, LastIndex
  <1> QED BY <1>1, Zenon DEF Greatest

(* What IsSuffix says index by index.                                      *)
LEMMA SuffixIndex ==
  ASSUME NEW S, NEW s \in Seq(S), NEW t \in Seq(S)
  PROVE  IsSuffix(s, t) <=> /\ Len(s) <= Len(t)
                            /\ \A i \in 1..Len(s) : s[i] = t[Len(t) - Len(s) + i]
  <1>1. /\ Reverse(s) \in Seq(S) /\ Len(Reverse(s)) = Len(s)
        /\ \A i \in 1..Len(s) : Reverse(s)[i] = s[(Len(s) - i) + 1]
    BY DEF Reverse
  <1>2. /\ Reverse(t) \in Seq(S) /\ Len(Reverse(t)) = Len(t)
        /\ \A i \in 1..Len(t) : Reverse(t)[i] = t[(Len(t) - i) + 1]
    BY DEF Reverse
  <1>3. IsSuffix(s, t) <=> /\ Len(s) <= Len(t)
                           /\ \A i \in 1..Len(s) : Reverse(s)[i] = Reverse(t)[i]
    BY <1>1, <1>2, PrefixIndex DEF IsSuffix
  <1>4. Len(s) \in Nat /\ Len(t) \in Nat
    OBVIOUS
  <1>5. ASSUME Len(s) <= Len(t), \A i \in 1..Len(s) : Reverse(s)[i] = Reverse(t)[i],
               NEW i \in 1..Len(s)
        PROVE  s[i] = t[Len(t) - Len(s) + i]
    <2>1. PICK j \in 1..Len(s) : i = Len(s) - j + 1
      <3>1. Len(s) - i + 1 \in 1..Len(s) /\ i = Len(s) - (Len(s) - i + 1) + 1
        BY <1>4
      <3> QED BY <3>1
    <2>2. Reverse(s)[j] = s[i]
      BY <1>1, <2>1
    <2>3. j \in 1..Len(t) /\ (Len(t) - j) + 1 = Len(t) - Len(s) + i
      BY <1>4, <1>5, <2>1
    <2>4. Reverse(t)[j] = t[Len(t) - Len(s) + i]
      BY <1>2, <2>3
    <2> QED BY <1>5, <2>2, <2>4
  <1>6. ASSUME Len(s) <= Len(t), \A i \in 1..Len(s) : s[i] = t[Len(t) - Len(s) + i],
               NEW j \in 1..Len(s)
        PROVE  Reverse(s)[j] = Reverse(t)[j]
    <2>1. PICK i \in 1..Len(s) : i = Len(s) - j + 1
      <3>1. Len(s) - j + 1 \in 1..Len(s)
        BY <1>4
      <3> QED BY <3>1
    <2>2. Reverse(s)[j] = s[i]
      BY <1>1, <2>1
    <2>3. j \in 1..Len(t) /\ (Len(t) - j) + 1 = Len(t) - Len(s) + i
      BY <1>4, <1>6, <2>1
    <2>4. Reverse(t)[j] = t[Len(t) - Len(s) + i]
      BY <1>2, <2>3
    <2> QED BY <1>6, <2>2, <2>4
  <1> QED BY <1>3, <1>5, <1>6

(* The run of word characters from i on ends at e.                         *)
WordsTo(s, i, e) ==
  /\ e \in Nat /\ i <= e + 1 /\ e <= Len(s)
  /\ \A k \in i..e : Word(s[k])
  /\ e < Len(s) => ~Word(s[e + 1])

(* RunEnd is where the run ends.                                           *)
LEMMA RunEndIs ==
  ASSUME NEW s \in Seq(Nat), NEW i \in 1..(Len(s) + 1)
  PROVE  WordsTo(s, i, RunEnd(s, i, Word))
  <1> DEFINE S == {k \in i..Len(s) : ~Word(s[k])}
             e == RunEnd(s, i, Word)
  <1>1. e = Least(S, Len(s) + 1) - 1
    BY Zenon DEF RunEnd
  <1>2. S \in SUBSET Nat /\ Len(s) \in Nat /\ i \in Nat /\ 1 <= i /\ i <= Len(s) + 1
    OBVIOUS
  <1>3. CASE S = {}
    <2>1. Least(S, Len(s) + 1) = Len(s) + 1
      BY <1>2, <1>3, LeastIs, Zenon
    <2>2. e = Len(s)
      BY <1>1, <1>2, <2>1
    <2>3. \A k \in i..Len(s) : Word(s[k])
      BY <1>3, Zenon
    <2> HIDE DEF e, S
    <2>4. WordsTo(s, i, e)
      BY <1>2, <2>2, <2>3 DEF WordsTo
    <2> QED BY <2>4, Zenon DEF e
  <1>4. CASE S # {}
    <2>1. PICK k : k = Least(S, Len(s) + 1)
      OBVIOUS
    <2>2. k \in S /\ \A q \in S : k <= q
      BY <1>2, <1>4, <2>1, LeastIs
    <2>3. k \in i..Len(s) /\ ~Word(s[k])
      BY <2>2
    <2>4. \A q \in i..(k - 1) : Word(s[q])
      <3> SUFFICES ASSUME NEW q \in i..(k - 1), ~Word(s[q]) PROVE FALSE
        OBVIOUS
      <3>1. q \in i..Len(s) /\ ~(k <= q)
        BY <1>2, <2>3
      <3>2. q \in S
        BY <3>1
      <3> QED BY <2>2, <3>1, <3>2
    <2>5. e = k - 1
      BY <1>1, <2>1
    <2> HIDE DEF e, S
    <2>6. (e + 1 = k) /\ e \in Nat
      BY <1>2, <2>3, <2>5
    <2>7. WordsTo(s, i, e)
      BY <1>2, <2>3, <2>4, <2>5, <2>6 DEF WordsTo
    <2> QED BY <2>7, Zenon DEF e
  <1> QED BY <1>3, <1>4

(* There is one such place.                                                *)
LEMMA OneEnd ==
  ASSUME NEW s \in Seq(Nat), NEW i \in 1..(Len(s) + 1), NEW e, NEW d,
         WordsTo(s, i, e), WordsTo(s, i, d)
  PROVE  e = d
  <1>1. e \in Nat /\ d \in Nat /\ i <= e + 1 /\ i <= d + 1 /\ e <= Len(s) /\ d <= Len(s)
    BY DEF WordsTo
  <1>2. ~(e < d)
    <2> SUFFICES ASSUME e < d PROVE FALSE
      OBVIOUS
    <2>1. e + 1 \in i..d /\ e < Len(s)
      BY <1>1
    <2> QED BY <2>1 DEF WordsTo
  <1>3. ~(d < e)
    <2> SUFFICES ASSUME d < e PROVE FALSE
      OBVIOUS
    <2>1. d + 1 \in i..e /\ d < Len(s)
      BY <1>1
    <2> QED BY <2>1 DEF WordsTo
  <1> QED BY <1>1, <1>2, <1>3

(* The handler's response keeps its code and what it was made from, though *)
(* the default headers are set in it.                                      *)
LEMMA RoutedIs ==
  ASSUME NEW c, NEW b, NEW h, NEW u
  PROVE  /\ Routed(Response(c, b, h), u).r.code = c
         /\ Routed(Response(c, b, h), u).used = u
  <1>1. PICK x : x = FoldLeft(SetHeader, <<>>, h)
    BY Zenon
  <1>2. PICK r : r = [code |-> c, body |-> b, headers |-> x]
    OBVIOUS
  <1>3. Response(c, b, h) = r
    BY <1>1, <1>2, Zenon DEF Response
  <1>4. PICK y : y = FoldLeft(SetHeader, r.headers, Defaults)
    BY Zenon
  <1>5. WithDefaults(r) = [r EXCEPT !.headers = y]
    BY <1>4, Zenon DEF WithDefaults
  <1>6. WithDefaults(r).code = c
    BY <1>2, <1>5
  <1>7. Routed(r, u) = [r |-> WithDefaults(r), used |-> u]
    BY Zenon DEF Routed
  <1>8. Routed(r, u).r = WithDefaults(r) /\ Routed(r, u).used = u
    <2> HIDE DEF WithDefaults
    <2> QED BY <1>7
  <1> QED BY <1>3, <1>6, <1>8
-----------------------------------------------------------------------------
(* The name of the file.                                                   *)

(* No character of a word is a slash or a dot.                             *)
LEMMA WordChars ==
  ~Word(SLASH) /\ ~Word(DOT)
  BY DEF Word, WordCodes, SLASH, DOT

(* s stands behind the slash at position p of the text u, and is word      *)
(* characters but for its dot at d.                                        *)
FileName(u, p, s, d) ==
  /\ p \in 1..Len(u) /\ u[p] = SLASH
  /\ s = SubSeq(u, p + 1, Len(u))
  /\ d \in 2..(Len(s) - 1) /\ s[d] = DOT
  /\ \A i \in 1..Len(s) : i # d => Word(s[i])

(* The last slash of a text.                                               *)
LastSlash(u) == Greatest({i \in DOMAIN u : u[i] = SLASH}, 0)

(* It is a slash and none follows it, or there is none.                    *)
LEMMA LastSlashIs ==
  ASSUME NEW u \in Seq(Nat)
  PROVE  \/ LastSlash(u) = 0 /\ \A i \in 1..Len(u) : u[i] # SLASH
         \/ /\ LastSlash(u) \in 1..Len(u) /\ u[LastSlash(u)] = SLASH
            /\ \A i \in 1..Len(u) : u[i] = SLASH => i <= LastSlash(u)
  <1> DEFINE S == {i \in DOMAIN u : u[i] = SLASH}
  <1>1. DOMAIN u = 1..Len(u) /\ Len(u) \in Nat
    OBVIOUS
  <1>2. S \in SUBSET (1..Len(u))
    BY <1>1
  <1>3. LastSlash(u) = Greatest(S, 0)
    BY Zenon DEF LastSlash
  <1>4. CASE S = {}
    <2>1. LastSlash(u) = 0
      BY <1>1, <1>2, <1>3, <1>4, GreatestIs, Zenon
    <2> QED BY <1>1, <1>4, <2>1
  <1>5. CASE S # {}
    <2>1. Greatest(S, 0) \in S /\ \A k \in S : k <= Greatest(S, 0)
      <3> HIDE DEF S
      <3> QED BY <1>1, <1>2, <1>5, GreatestIs
    <2>2. LastSlash(u) \in S /\ \A k \in S : k <= LastSlash(u)
      BY <1>3, <2>1, Zenon
    <2> QED BY <1>1, <2>2
  <1> QED BY <1>4, <1>5

(* The rest of a text behind position p.                                   *)
LEMMA RestIndex ==
  ASSUME NEW u \in Seq(Nat), NEW p \in 1..Len(u), NEW s, s = SubSeq(u, p + 1, Len(u))
  PROVE  /\ s \in Seq(Nat) /\ Len(s) = Len(u) - p
         /\ \A i \in 1..(Len(u) - p) : s[i] = u[p + i]
  <1>1. PICK n \in Nat : n = Len(u)
    OBVIOUS
  <1>2. PICK m \in Nat : m = p + 1 /\ 1 <= m /\ m <= n + 1 /\ n <= Len(u)
    BY <1>1
  <1>3. s = SubSeq(u, m, n)
    BY <1>1, <1>2
  <1>4. /\ s \in Seq(Nat) /\ Len(s) = n + 1 - m
        /\ \A i \in 1..(n + 1 - m) : s[i] = u[m + i - 1]
    BY <1>1, <1>2, <1>3, SubSeqIndex
  <1>5. n + 1 - m = Len(u) - p /\ \A i \in Nat : m + i - 1 = p + i
    BY <1>1, <1>2
  <1>6. ASSUME NEW i \in 1..(Len(u) - p) PROVE s[i] = u[p + i]
    <2>1. i \in 1..(n + 1 - m) /\ m + i - 1 = p + i
      BY ONLY <1>5, i \in 1..(Len(u) - p)
    <2> QED BY <1>4, <2>1, Zenon
  <1> QED BY <1>4, <1>5, <1>6, Zenon

(* What ParseFileInfo finds is a file name behind the last slash.          *)
LEMMA ParseFileInfoSound ==
  ASSUME NEW u \in Seq(Nat), ParseFileInfo(u) # <<>>
  PROVE  \E p \in 1..Len(u) : \E d \in Nat : FileName(u, p, ParseFileInfo(u), d)
  <1>1. PICK p : p = LastSlash(u)
    OBVIOUS
  <1>2. PICK e : e = RunEnd(u, p + 1, Word) + 1
    BY Zenon
  <1>3. PICK f : f = RunEnd(u, e + 1, Word)
    BY Zenon
  <1>4. /\ p # 0 /\ p + 1 < e /\ e < Len(u) /\ u[e] = DOT /\ f = Len(u)
        /\ ParseFileInfo(u) = SubSeq(u, p + 1, Len(u))
    BY <1>1, <1>2, <1>3, Zenon DEF ParseFileInfo, LastSlash
  <1>5. p \in 1..Len(u) /\ u[p] = SLASH /\ Len(u) \in Nat
    BY <1>1, <1>4, LastSlashIs
  <1>6. p + 1 \in 1..(Len(u) + 1)
    BY <1>5
  <1>7. WordsTo(u, p + 1, e - 1)
    <2>1. PICK g : g = RunEnd(u, p + 1, Word)
      BY Zenon
    <2>2. WordsTo(u, p + 1, g)
      BY <1>6, <2>1, RunEndIs, Zenon
    <2>3. g \in Nat
      BY <2>2 DEF WordsTo
    <2>4. e = g + 1
      BY <1>2, <2>1, Zenon
    <2>5. g = e - 1
      BY <2>3, <2>4
    <2> QED BY <2>2, <2>5
  <1>8. e - 1 \in Nat /\ e - 1 <= Len(u) /\ \A k \in (p + 1)..(e - 1) : Word(u[k])
    BY <1>7 DEF WordsTo
  <1>9. e \in Int
    <2>1. PICK g : g = RunEnd(u, p + 1, Word)
      BY Zenon
    <2>2. WordsTo(u, p + 1, g)
      BY <1>6, <2>1, RunEndIs, Zenon
    <2>3. g \in Nat
      BY <2>2 DEF WordsTo
    <2>4. e = g + 1
      BY <1>2, <2>1, Zenon
    <2> QED BY <2>3, <2>4
  <1>10. e + 1 \in 1..(Len(u) + 1)
    BY <1>4, <1>5, <1>8, <1>9
  <1>11. WordsTo(u, e + 1, f)
    BY <1>3, <1>10, RunEndIs, Zenon
  <1>12. \A k \in (e + 1)..Len(u) : Word(u[k])
    BY <1>4, <1>11 DEF WordsTo
  <1>13. PICK s : s = ParseFileInfo(u)
    OBVIOUS
  <1>14. /\ s \in Seq(Nat) /\ Len(s) = Len(u) - p
         /\ \A i \in 1..(Len(u) - p) : s[i] = u[p + i]
    BY <1>4, <1>5, <1>13, RestIndex
  <1>15. e - p \in 2..(Len(s) - 1) /\ s[e - p] = DOT
    <2>1. e - p \in 1..(Len(u) - p) /\ p + (e - p) = e
      BY <1>4, <1>5, <1>9
    <2>2. s[e - p] = u[e]
      BY <1>14, <2>1
    <2>3. e - p \in 2..(Len(s) - 1)
      BY <1>4, <1>5, <1>9, <1>14
    <2> QED BY <1>4, <2>2, <2>3
  <1>16. ASSUME NEW i \in 1..Len(s), i # e - p PROVE Word(s[i])
    <2>1. s[i] = u[p + i]
      BY <1>14
    <2>2. p + i \in (p + 1)..(e - 1) \/ p + i \in (e + 1)..Len(u)
      BY <1>4, <1>5, <1>9, <1>14, <1>16
    <2> QED BY <1>8, <1>12, <2>1, <2>2
  <1>17. FileName(u, p, s, e - p)
    BY <1>4, <1>5, <1>13, <1>15, <1>16, Zenon DEF FileName
  <1>18. e - p \in Nat
    BY <1>15, <1>14, <1>5
  <1> QED BY <1>5, <1>13, <1>17, <1>18

(* A text that ends in a slash and a file name is taken for that name.     *)
LEMMA ParseFileInfoComplete ==
  ASSUME NEW u \in Seq(Nat), NEW p, NEW s, NEW d, FileName(u, p, s, d)
  PROVE  ParseFileInfo(u) = s
  <1>1. /\ p \in 1..Len(u) /\ u[p] = SLASH /\ s = SubSeq(u, p + 1, Len(u))
        /\ d \in 2..(Len(s) - 1) /\ s[d] = DOT /\ Len(u) \in Nat
        /\ \A i \in 1..Len(s) : i # d => Word(s[i])
    <2>1. Len(u) \in Nat
      OBVIOUS
    <2> QED BY <2>1, Zenon DEF FileName
  <1>2. /\ s \in Seq(Nat) /\ Len(s) = Len(u) - p
        /\ \A i \in 1..(Len(u) - p) : s[i] = u[p + i]
    BY <1>1, RestIndex
  <1>3. \A k \in (p + 1)..Len(u) : k # p + d => Word(u[k])
    <2> SUFFICES ASSUME NEW k \in (p + 1)..Len(u), k # p + d PROVE Word(u[k])
      OBVIOUS
    <2>1. PICK i \in 1..Len(s) : i = k - p
      BY <1>1, <1>2
    <2>2. k = p + i /\ i # d
      BY <1>1, <1>2, <2>1
    <2> QED BY <1>1, <1>2, <2>1, <2>2
  <1>4. u[p + d] = DOT /\ p + d \in (p + 2)..(Len(u) - 1)
    BY <1>1, <1>2
  <1>5. /\ p \in Nat /\ d \in Nat /\ Len(u) \in Nat
        /\ 1 <= p /\ 2 <= d /\ p + d <= Len(u) - 1
    BY <1>1, <1>2, <1>4
  <1>6. LastSlash(u) = p
    <2>1. \A i \in 1..Len(u) : u[i] = SLASH => i <= p
      <3> SUFFICES ASSUME NEW i \in 1..Len(u), u[i] = SLASH, ~(i <= p) PROVE FALSE
        OBVIOUS
      <3>1. i \in (p + 1)..Len(u)
        BY <1>1
      <3>2. SLASH # DOT
        BY DEF SLASH, DOT
      <3> QED BY <1>3, <1>4, <3>1, <3>2, WordChars
    <2>2. /\ LastSlash(u) \in 1..Len(u) /\ u[LastSlash(u)] = SLASH
          /\ \A i \in 1..Len(u) : u[i] = SLASH => i <= LastSlash(u)
      BY <1>1, LastSlashIs
    <2>3. LastSlash(u) <= p /\ p <= LastSlash(u)
      BY <1>1, <2>1, <2>2
    <2> QED BY <1>1, <2>2, <2>3
  <1>7. RunEnd(u, p + 1, Word) = p + d - 1
    <2>1. PICK g : g = RunEnd(u, p + 1, Word)
      BY Zenon
    <2>2. p + 1 \in 1..(Len(u) + 1)
      BY <1>1
    <2>3. WordsTo(u, p + 1, g)
      BY <2>1, <2>2, RunEndIs, Zenon
    <2>4. WordsTo(u, p + 1, p + d - 1)
      <3>1. PICK h : h = p + d - 1
        OBVIOUS
      <3>2. h \in Nat /\ p + 1 <= h + 1 /\ h <= Len(u) /\ h + 1 = p + d
        BY ONLY <1>5, <3>1
      <3>3. ~Word(u[h + 1])
        BY <1>4, <3>2, WordChars
      <3>4. \A k \in (p + 1)..h : Word(u[k])
        <4>1. \A k \in (p + 1)..h : k \in (p + 1)..Len(u) /\ k # p + d
          BY ONLY <1>5, <3>1
        <4> QED BY <1>3, <4>1, Zenon
      <3>5. WordsTo(u, p + 1, h)
        BY <3>2, <3>3, <3>4, Zenon DEF WordsTo
      <3> QED BY <3>1, <3>5
    <2>5. g = p + d - 1
      BY <2>2, <2>3, <2>4, OneEnd
    <2> QED BY <2>1, <2>5, Zenon
  <1>8. RunEnd(u, p + d + 1, Word) = Len(u)
    <2>1. PICK g : g = RunEnd(u, p + d + 1, Word)
      BY Zenon
    <2>2. p + d + 1 \in 1..(Len(u) + 1)
      BY ONLY <1>5
    <2>3. WordsTo(u, p + d + 1, g)
      BY <2>1, <2>2, RunEndIs, Zenon
    <2>4. WordsTo(u, p + d + 1, Len(u))
      <3>1. /\ Len(u) \in Nat /\ p + d + 1 <= Len(u) + 1 /\ Len(u) <= Len(u)
            /\ ~(Len(u) < Len(u))
        BY ONLY <1>5
      <3>2. \A k \in (p + d + 1)..Len(u) : Word(u[k])
        <4>1. \A k \in (p + d + 1)..Len(u) : k \in (p + 1)..Len(u) /\ k # p + d
          BY ONLY <1>5
        <4> QED BY <1>3, <4>1, Zenon
      <3> QED BY <3>1, <3>2, Zenon DEF WordsTo
    <2>5. g = Len(u)
      BY <2>2, <2>3, <2>4, OneEnd
    <2> QED BY <2>1, <2>5, Zenon
  <1>9. PICK e : e = RunEnd(u, p + 1, Word) + 1
    BY Zenon
  <1>10. e = p + d
    <2>1. e = (p + d - 1) + 1
      BY <1>7, <1>9, Zenon
    <2> QED BY ONLY <1>5, <2>1
  <1>11. p # 0 /\ p + 1 < e /\ e < Len(u) /\ u[e] = DOT
    <2>1. p # 0 /\ p + 1 < e /\ e < Len(u)
      BY ONLY <1>5, <1>10
    <2> QED BY <1>4, <1>10, <2>1, Zenon
  <1>12. RunEnd(u, e + 1, Word) = Len(u)
    BY <1>8, <1>10, Zenon
  <1> QED BY <1>1, <1>6, <1>9, <1>11, <1>12, Zenon DEF ParseFileInfo, LastSlash

(* s stands at the end of u, behind a slash, iff the rest of u behind some *)
(* slash is s.                                                             *)
LEMMA SlashSuffix ==
  ASSUME NEW u \in Seq(Nat), NEW s \in Seq(Nat)
  PROVE  IsSuffix(<<SLASH>> \o s, u) <=>
           \E p \in 1..Len(u) : u[p] = SLASH /\ s = SubSeq(u, p + 1, Len(u))
  <1>1. PICK x : x = <<SLASH>>
    OBVIOUS
  <1>2. x \in Seq(Nat) /\ Len(x) = 1 /\ x[1] = SLASH
    BY <1>1 DEF SLASH
  <1>3. PICK t : t = x \o s
    OBVIOUS
  <1>4. /\ t \in Seq(Nat) /\ Len(t) = 1 + Len(s) /\ t[1] = SLASH
        /\ \A i \in 1..Len(s) : t[1 + i] = s[i]
    <2>1. /\ t \in Seq(Nat) /\ Len(t) = Len(x) + Len(s)
          /\ \A i \in 1..Len(x) : t[i] = x[i]
          /\ \A i \in 1..Len(s) : t[Len(x) + i] = s[i]
      <3>1. PICK S : S = Nat /\ x \in Seq(S) /\ s \in Seq(S)
        BY <1>2
      <3>2. /\ x \o s \in Seq(S) /\ Len(x \o s) = Len(x) + Len(s)
            /\ \A i \in 1..Len(x) : (x \o s)[i] = x[i]
            /\ \A i \in 1..Len(s) : (x \o s)[Len(x) + i] = s[i]
        BY <3>1, ConcatIndex
      <3> QED BY <1>3, <3>1, <3>2, Zenon
    <2>2. 1 \in 1..1
      OBVIOUS
    <2> QED BY <1>2, <2>1, <2>2
  <1>5. Len(u) \in Nat /\ Len(s) \in Nat
    OBVIOUS
  <1>6. ASSUME IsSuffix(t, u)
        PROVE  \E p \in 1..Len(u) : u[p] = SLASH /\ s = SubSeq(u, p + 1, Len(u))
    <2>1. Len(t) <= Len(u) /\ \A i \in 1..Len(t) : t[i] = u[Len(u) - Len(t) + i]
      BY <1>4, <1>6, SuffixIndex
    <2>2. PICK p \in 1..Len(u) : p = Len(u) - Len(s)
      BY <1>4, <1>5, <2>1
    <2>3. Len(u) - Len(t) + 1 = p /\ 1 \in 1..Len(t)
      BY <1>4, <1>5, <2>2
    <2>4. u[p] = SLASH
      BY <1>4, <2>1, <2>3
    <2>5. PICK v : v = SubSeq(u, p + 1, Len(u))
      OBVIOUS
    <2>6. /\ v \in Seq(Nat) /\ Len(v) = Len(u) - p
          /\ \A i \in 1..(Len(u) - p) : v[i] = u[p + i]
      BY <2>5, RestIndex
    <2>7. Len(v) = Len(s)
      BY <1>5, <2>2, <2>6
    <2>8. ASSUME NEW i \in 1..Len(s) PROVE s[i] = v[i]
      <3>1. /\ 1 + i \in 1..Len(t) /\ Len(u) - Len(t) + (1 + i) = p + i
            /\ i \in 1..(Len(u) - p)
        <4>1. Len(t) = 1 + Len(s)
          BY <1>4
        <4> QED BY ONLY <1>5, <2>2, <4>1, i \in 1..Len(s)
      <3>2. t[1 + i] = u[p + i]
        BY <2>1, <3>1, Zenon
      <3> QED BY <1>4, <2>6, <3>1, <3>2
    <2>9. s = v
      BY <2>6, <2>7, <2>8, SameSeq
    <2> QED BY <2>4, <2>5, <2>9
  <1>7. ASSUME NEW p \in 1..Len(u), u[p] = SLASH, s = SubSeq(u, p + 1, Len(u))
        PROVE  IsSuffix(t, u)
    <2>1. Len(s) = Len(u) - p /\ \A i \in 1..(Len(u) - p) : s[i] = u[p + i]
      BY <1>7, RestIndex
    <2>2. Len(t) <= Len(u)
      BY <1>4, <1>5, <2>1
    <2>3. ASSUME NEW i \in 1..Len(t) PROVE t[i] = u[Len(u) - Len(t) + i]
      <3>1. CASE i = 1
        <4>1. Len(u) - Len(t) + i = p
          BY <1>4, <1>5, <2>1, <3>1
        <4> QED BY <1>4, <1>7, <3>1, <4>1
      <3>2. CASE i # 1
        <4>1. PICK k \in 1..Len(s) : i = 1 + k
          <5>1. i - 1 \in 1..Len(s) /\ i = 1 + (i - 1)
            BY <1>4, <1>5, <3>2
          <5> QED BY <5>1
        <4>2. Len(u) - Len(t) + i = p + k /\ k \in 1..(Len(u) - p)
          BY <1>4, <1>5, <2>1, <4>1
        <4>3. t[i] = s[k] /\ s[k] = u[p + k]
          BY <1>4, <2>1, <4>1, <4>2
        <4> QED BY <4>2, <4>3
      <3> QED BY <3>1, <3>2
    <2> QED BY <1>4, <2>2, <2>3, SuffixIndex
  <1> QED BY <1>1, <1>3, <1>6, <1>7

-----------------------------------------------------------------------------
(* The URI.                                                                *)

(* What the status line's pattern takes for the URI is a text.             *)
LEMMA StatusLineUri ==
  ASSUME NEW text \in Seq(Nat), StatusLine(text).ok
  PROVE  StatusLine(text).uri \in Seq(Nat)
  <1>1. PICK m : m = RunEnd(text, 1, Word)
    BY Zenon
  <1>2. m \in Nat
    <2>1. 1 \in 1..(Len(text) + 1)
      OBVIOUS
    <2>2. WordsTo(text, 1, m)
      BY <1>1, <2>1, RunEndIs, Zenon
    <2> QED BY <2>2 DEF WordsTo
  <1>3. PICK ends : ends = {k \in Places(<<SP, HTTP, CR, LF>>, text) :
                              k > m + 2 /\ NoBreak(SubSeq(text, 1, k))}
    OBVIOUS
  <1>4. StatusLine(text) =
          IF m = 0 \/ ends = {} \/ text[m + 1] # SP
          THEN [ok |-> FALSE, method |-> <<>>, uri |-> <<>>]
          ELSE [ok |-> TRUE, method |-> SubSeq(text, 1, m),
                uri |-> SubSeq(text, m + 2, Greatest(ends, 0) - 1)]
    BY <1>1, <1>3, Zenon DEF StatusLine
  <1>5. ends # {} /\ StatusLine(text).uri = SubSeq(text, m + 2, Greatest(ends, 0) - 1)
    <2>1. CASE m = 0 \/ ends = {} \/ text[m + 1] # SP
      <3>1. PICK z : z = <<>>
        OBVIOUS
      <3>2. StatusLine(text) = [ok |-> FALSE, method |-> z, uri |-> z]
        BY <1>4, <2>1, <3>1, Zenon
      <3>3. StatusLine(text).ok = FALSE
        BY <3>2
      <3> QED BY <3>3
    <2>2. CASE ~(m = 0 \/ ends = {} \/ text[m + 1] # SP)
      <3>1. PICK v, w : /\ v = SubSeq(text, 1, m)
                        /\ w = SubSeq(text, m + 2, Greatest(ends, 0) - 1)
        OBVIOUS
      <3>2. StatusLine(text) = [ok |-> TRUE, method |-> v, uri |-> w]
        BY <1>4, <2>2, <3>1, Zenon
      <3>3. StatusLine(text).uri = w
        BY <3>2
      <3> QED BY <2>2, <3>1, <3>3, Zenon
    <2> QED BY <2>1, <2>2
  <1>6. ends \in SUBSET (1..Len(text))
    <2>1. Len(<<SP, HTTP, CR, LF>>) = 4
      OBVIOUS
    <2>2. Places(<<SP, HTTP, CR, LF>>, text) \subseteq 1..(Len(text) + 1 - 4)
      BY <2>1 DEF Places
    <2>3. 1..(Len(text) + 1 - 4) \subseteq 1..Len(text)
      OBVIOUS
    <2> QED BY <1>3, <2>2, <2>3, Zenon
  <1>7. PICK g : g = Greatest(ends, 0)
    OBVIOUS
  <1>8. g \in ends
    <2>1. Len(text) \in Nat
      OBVIOUS
    <2> QED BY <1>5, <1>6, <1>7, <2>1, GreatestIs
  <1>9. g \in 1..Len(text) /\ g > m + 2
    BY <1>3, <1>6, <1>8
  <1>10. PICK a \in Nat : a = m + 2 /\ 1 <= a
    BY <1>2
  <1>11. PICK b \in Nat : b = g - 1 /\ a <= b + 1 /\ b <= Len(text)
    BY <1>2, <1>9, <1>10
  <1>12. SubSeq(text, a, b) \in Seq(Nat)
    BY <1>10, <1>11, SubSeqIndex
  <1> QED BY <1>5, <1>7, <1>10, <1>11, <1>12

(* get_uri of a valid request is a text.                                   *)
LEMMA UriIsText ==
  ASSUME NEW text \in Seq(Nat), ParsedRequest(text).valid
  PROVE  ParsedRequest(text).uri \in Seq(Nat)
  <1>1. PICK line : line = StatusLine(text)
    OBVIOUS
  <1>2. /\ ParsedRequest(text).valid = line.ok
        /\ ParsedRequest(text).uri = SubSeq(line.uri, 1, QueryMark(line.uri) - 1)
    BY <1>1, Zenon DEF ParsedRequest
  <1>3. PICK u \in Seq(Nat) : u = line.uri
    BY <1>1, <1>2, StatusLineUri
  <1>4. QueryMark(u) \in 1..(Len(u) + 1)
    <2>1. PICK S : S = {i \in 2..Len(u) : u[i] = QMARK}
      OBVIOUS
    <2>2. S \in SUBSET (1..Len(u)) /\ Len(u) \in Nat
      BY <2>1
    <2>3. QueryMark(u) = Greatest(S, Len(u) + 1)
      BY <2>1, Zenon DEF QueryMark
    <2>4. QueryMark(u) = Len(u) + 1 \/ QueryMark(u) \in 1..Len(u)
      BY <2>2, <2>3, GreatestIs
    <2>5. Len(u) + 1 \in 1..(Len(u) + 1) /\ 1..Len(u) \subseteq 1..(Len(u) + 1)
      BY <2>2
    <2> QED BY <2>4, <2>5, Zenon
  <1>5. PICK b \in Nat : b = QueryMark(u) - 1 /\ 1 <= b + 1 /\ b <= Len(u)
    BY <1>4
  <1>6. SubSeq(u, 1, b) \in Seq(Nat)
    BY <1>5, SubSeqIndex
  <1> QED BY <1>2, <1>3, <1>5, <1>6

-----------------------------------------------------------------------------
(* The text of a request.                                                *)

(* The text s stands in t behind the position k.                           *)
Holds(t, k, s) ==
  /\ t \in Seq(Nat) /\ s \in Seq(Nat) /\ k \in Nat /\ k + Len(s) <= Len(t)
  /\ \A j \in 1..Len(s) : t[k + j] = s[j]

(* A text that stands in another has a length, and so has the other.       *)
LEMMA HoldsTexts ==
  ASSUME NEW t, NEW k, NEW s, Holds(t, k, s)
  PROVE  t \in Seq(Nat) /\ s \in Seq(Nat) /\ Len(t) \in Nat /\ Len(s) \in Nat
  <1>1. t \in Seq(Nat) /\ s \in Seq(Nat)
    BY Zenon DEF Holds
  <1>2. \A x \in Seq(Nat) : Len(x) \in Nat
    OBVIOUS
  <1> QED BY <1>1, <1>2, Zenon

(* A text stands in itself.                                                *)
LEMMA HoldsAll ==
  ASSUME NEW t \in Seq(Nat)
  PROVE  Holds(t, 0, t)
  <1>1. PICK n \in Nat : n = Len(t)
    OBVIOUS
  <1>2. 0 + n <= n /\ 0 \in Nat /\ \A j \in 1..n : 0 + j = j
    OBVIOUS
  <1> QED BY <1>1, <1>2, Zenon DEF Holds

(* What stands in a part of a text stands in the text.                     *)
LEMMA HoldsWithin ==
  ASSUME NEW t, NEW k, NEW s, NEW i, NEW x, Holds(t, k, s), Holds(s, i, x)
  PROVE  Holds(t, k + i, x)
  <1>1. PICK l \in Nat, m \in Nat, n \in Nat : l = Len(x) /\ m = Len(s) /\ n = Len(t)
    BY HoldsTexts, Zenon
  <1>2. k \in Nat /\ i \in Nat /\ k + m <= n /\ i + l <= m
    BY <1>1, Zenon DEF Holds
  <1>3. k + i \in Nat /\ k + i + l <= n
    BY ONLY <1>2, l \in Nat, m \in Nat, n \in Nat
  <1>4. ASSUME NEW j \in 1..l PROVE t[k + i + j] = x[j]
    <2>1. i + j \in 1..m /\ k + i + j = k + (i + j)
      BY ONLY <1>2, l \in Nat, m \in Nat, j \in 1..l
    <2>2. s[i + j] = x[j]
      BY <1>1, Zenon DEF Holds
    <2>3. t[k + (i + j)] = s[i + j]
      BY <1>1, <2>1, Zenon DEF Holds
    <2> QED BY <2>1, <2>2, <2>3, Zenon
  <1> QED BY <1>1, <1>3, <1>4, Zenon DEF Holds

(* Where a concatenation stands both its parts do.                         *)
LEMMA HoldsParts ==
  ASSUME NEW t, NEW k, NEW x \in Seq(Nat), NEW y \in Seq(Nat), Holds(t, k, x \o y)
  PROVE  Holds(t, k, x) /\ Holds(t, k + Len(x), y)
  <1>1. PICK s : s = x \o y
    OBVIOUS
  <1>2. /\ s \in Seq(Nat) /\ Len(s) = Len(x) + Len(y)
        /\ \A i \in 1..Len(x) : s[i] = x[i]
        /\ \A i \in 1..Len(y) : s[Len(x) + i] = y[i]
    BY ONLY x \in Seq(Nat), y \in Seq(Nat), <1>1, ConcatIndex
  <1>3. PICK l \in Nat, m \in Nat : l = Len(x) /\ m = Len(y)
    OBVIOUS
  <1>4. 0 + l <= l + m /\ l + m <= l + m /\ 0 \in Nat /\ \A j \in 1..l : 0 + j = j
    OBVIOUS
  <1>5. Holds(s, 0, x)
    BY <1>2, <1>3, <1>4, Zenon DEF Holds
  <1>6. Holds(s, l, y)
    BY <1>2, <1>3, <1>4, Zenon DEF Holds
  <1>7. Holds(t, k, s)
    BY <1>1
  <1>8. Holds(t, k + 0, x) /\ Holds(t, k + l, y)
    BY ONLY <1>5, <1>6, <1>7, HoldsWithin
  <1>9. k + 0 = k
    BY <1>7 DEF Holds
  <1> QED BY <1>3, <1>8, <1>9, Zenon

(* What stands in a text is a part of it.                                  *)
LEMMA HoldsPart ==
  ASSUME NEW t, NEW k, NEW s, Holds(t, k, s)
  PROVE  SubSeq(t, k + 1, k + Len(s)) = s
  <1>1. PICK l \in Nat, n \in Nat : l = Len(s) /\ n = Len(t)
    BY HoldsTexts, Zenon
  <1>2. t \in Seq(Nat)
    BY HoldsTexts, Zenon
  <1>3. s \in Seq(Nat)
    BY HoldsTexts, Zenon
  <1>4. k \in Nat /\ k + l <= n
    BY <1>1, Zenon DEF Holds
  <1>5. PICK p \in Nat, q \in Nat : p = k + 1 /\ q = k + l
    BY <1>4
  <1>6. 1 <= p /\ p <= q + 1 /\ q <= Len(t) /\ q + 1 - p = l
    BY ONLY <1>1, <1>4, <1>5, l \in Nat, n \in Nat
  <1>7. PICK u : u = SubSeq(t, p, q)
    OBVIOUS
  <1>8. /\ u \in Seq(Nat) /\ Len(u) = q + 1 - p
        /\ \A j \in 1..(q + 1 - p) : u[j] = t[p + j - 1]
    BY ONLY <1>2, <1>6, <1>7, p \in Nat, q \in Nat
  <1>9. ASSUME NEW j \in 1..l PROVE u[j] = s[j]
    <2>1. p + j - 1 = k + j
      BY ONLY <1>4, <1>5, j \in 1..l, l \in Nat
    <2>2. u[j] = t[k + j]
      BY <1>6, <1>8, <2>1, Zenon
    <2>3. t[k + j] = s[j]
      BY <1>1, Zenon DEF Holds
    <2> QED BY <2>2, <2>3, Zenon
  <1>10. u \in Seq(Nat) /\ Len(u) = l
    BY <1>6, <1>8, Zenon
  <1>11. u = s
    BY ONLY <1>1, <1>3, <1>9, <1>10, SameSeq
  <1> QED BY <1>1, <1>5, <1>7, <1>11, Zenon

(* Two texts, one behind the other.                                        *)
LEMMA HoldsJoin ==
  ASSUME NEW t, NEW k, NEW x, NEW y, Holds(t, k, x), Holds(t, k + Len(x), y)
  PROVE  Holds(t, k, x \o y)
  <1>1. x \in Seq(Nat)
    BY HoldsTexts, Zenon
  <1>2. y \in Seq(Nat)
    BY HoldsTexts, Zenon
  <1>3. PICK s : s = x \o y
    OBVIOUS
  <1>4. /\ s \in Seq(Nat) /\ Len(s) = Len(x) + Len(y)
        /\ \A i \in 1..Len(x) : s[i] = x[i]
        /\ \A i \in 1..Len(y) : s[Len(x) + i] = y[i]
    BY ONLY <1>1, <1>2, <1>3, ConcatIndex
  <1>5. PICK l \in Nat, m \in Nat, n \in Nat : l = Len(x) /\ m = Len(y) /\ n = Len(t)
    BY HoldsTexts, Zenon
  <1>6. k \in Nat /\ k + l + m <= n
    BY <1>5, Zenon DEF Holds
  <1>7. k + (l + m) <= n
    BY ONLY <1>6, l \in Nat, m \in Nat, n \in Nat
  <1>8. ASSUME NEW j \in 1..(l + m) PROVE t[k + j] = s[j]
    <2>1. CASE j \in 1..l
      BY <1>4, <1>5, <2>1, Zenon DEF Holds
    <2>2. CASE j \notin 1..l
      <3>1. PICK i \in 1..m : j = l + i
        <4>1. j - l \in 1..m /\ j = l + (j - l)
          BY ONLY j \in 1..(l + m), l \in Nat, m \in Nat, <2>2
        <4> QED BY <4>1, Zenon
      <3>2. t[k + l + i] = y[i]
        BY <1>5, Zenon DEF Holds
      <3>3. k + l + i = k + j
        BY ONLY <1>6, l \in Nat, m \in Nat, i \in 1..m, <3>1
      <3>4. s[j] = y[i]
        BY <1>4, <1>5, <3>1, Zenon
      <3> QED BY <3>2, <3>3, <3>4, Zenon
    <2> QED BY <2>1, <2>2
  <1>9. t \in Seq(Nat)
    BY HoldsTexts, Zenon
  <1>10. Holds(t, k, s)
    BY <1>4, <1>5, <1>6, <1>7, <1>8, <1>9, Zenon DEF Holds
  <1> QED BY <1>3, <1>10, Zenon

(* The length of a concatenation.                                          *)
LEMMA JoinIs ==
  ASSUME NEW x \in Seq(Nat), NEW y \in Seq(Nat)
  PROVE  x \o y \in Seq(Nat) /\ Len(x \o y) = Len(x) + Len(y)
  BY ConcatIndex

(* The parts of a request: the method A, the URI W, the lines F of the     *)
(* headers and the body B; the URI ends at e, the lines at T.              *)
Layout(t, A, W, F, B, e, T) ==
  /\ t \in Seq(Nat) /\ A \in Seq(Nat) /\ W \in Seq(Nat) /\ F \in Seq(Nat) /\ B \in Seq(Nat)
  /\ e \in Nat /\ e = Len(A) + 1 + Len(W) /\ T \in Nat /\ T = e + 4 + Len(F)
  /\ Len(t) = T + 2 + Len(B)
  /\ Holds(t, 0, A) /\ Holds(t, Len(A), <<SP>>) /\ Holds(t, Len(A) + 1, W)
  /\ Holds(t, e, <<SP, HTTP, CR, LF>>) /\ Holds(t, e + 4, F)
  /\ Holds(t, T, <<CR, LF>>) /\ Holds(t, T + 2, B)

(* The text of a pair in a query and in a header.                          *)
QueryPart(p, i) == <<IF i = 1 THEN QMARK ELSE AMP>> \o p[i].name \o <<EQ>> \o p[i].value
HeaderPart(p, i) == p[i].name \o <<COLON, SP>> \o p[i].value \o <<CR, LF>>
Texted == [name : Seq(Nat), value : Seq(Nat)]

(* Codes are characters.                                                   *)
LEMMA CodesAre ==
  /\ <<SP>> \in Seq(Nat) /\ <<EQ>> \in Seq(Nat) /\ <<CR, LF>> \in Seq(Nat)
  /\ <<COLON, SP>> \in Seq(Nat) /\ <<SP, HTTP, CR, LF>> \in Seq(Nat)
  /\ \A i : <<IF i = 1 THEN QMARK ELSE AMP>> \in Seq(Nat)
  /\ Len(<<SP>>) = 1 /\ Len(<<EQ>>) = 1 /\ Len(<<CR, LF>>) = 2 /\ Len(<<COLON, SP>>) = 2
  /\ Len(<<SP, HTTP, CR, LF>>) = 4
  BY DEF SP, EQ, CR, LF, COLON, HTTP, QMARK, AMP

(* The parts are texts.                                                    *)
LEMMA PartsAre ==
  ASSUME NEW p \in Seq(Texted)
  PROVE  /\ [i \in DOMAIN p |-> QueryPart(p, i)] \in Seq(Seq(Nat))
         /\ [i \in DOMAIN p |-> HeaderPart(p, i)] \in Seq(Seq(Nat))
         /\ \A i \in DOMAIN p : QueryPart(p, i) \in Seq(Nat) /\ HeaderPart(p, i) \in Seq(Nat)
  <1>1. PICK n \in Nat : n = Len(p) /\ DOMAIN p = 1..n /\ \A i \in 1..n : p[i] \in Texted
    OBVIOUS
  <1>2. ASSUME NEW i \in 1..n
        PROVE  QueryPart(p, i) \in Seq(Nat) /\ HeaderPart(p, i) \in Seq(Nat)
    <2>1. PICK x \in Seq(Nat) : x = p[i].name
      BY <1>1 DEF Texted
    <2>2. PICK y \in Seq(Nat) : y = p[i].value
      BY <1>1 DEF Texted
    <2>3. PICK a \in Seq(Nat) : a = <<IF i = 1 THEN QMARK ELSE AMP>>
      BY CodesAre
    <2>4. PICK b \in Seq(Nat) : b = <<EQ>>
      BY CodesAre
    <2>5. PICK c \in Seq(Nat) : c = <<COLON, SP>>
      BY CodesAre
    <2>6. PICK d \in Seq(Nat) : d = <<CR, LF>>
      BY CodesAre
    <2>7. a \o x \o b \o y \in Seq(Nat) /\ x \o c \o y \o d \in Seq(Nat)
      OBVIOUS
    <2> QED BY <2>1, <2>2, <2>3, <2>4, <2>5, <2>6, <2>7, Zenon DEF QueryPart, HeaderPart
  <1>3. PICK N : N = Seq(Nat)
    OBVIOUS
  <1>4. [i \in 1..n |-> QueryPart(p, i)] \in [1..n -> N]
    BY <1>2, <1>3, Zenon
  <1>5. [i \in 1..n |-> HeaderPart(p, i)] \in [1..n -> N]
    BY <1>2, <1>3, Zenon
  <1>6. \A f : f \in [1..n -> N] => f \in Seq(N)
    BY ONLY n \in Nat
  <1> QED BY <1>1, <1>2, <1>3, <1>4, <1>5, <1>6, Zenon

(* A message is sent in this layout.                                       *)
LEMMA RequestLayout ==
  ASSUME NEW m, IsMessage(m), NEW F,
         F = FlattenSeq([i \in DOMAIN m.headers |-> HeaderPart(m.headers, i)])
  PROVE  /\ QueryText(m.query) \in Seq(Nat)
         /\ \E e, T : Layout(RequestText(m), m.method, m.path \o QueryText(m.query), F, BodyText(m), e, T)
  <1>1. m.query \in Seq(Texted) /\ m.headers \in Seq(Texted)
    BY Zenon DEF IsMessage, Texted
  <1>2. F \in Seq(Nat)
    <2>1. [i \in DOMAIN m.headers |-> HeaderPart(m.headers, i)] \in Seq(Seq(Nat))
      BY <1>1, PartsAre, Zenon
    <2> QED BY <2>1, FlattenLays
  <1>3. QueryText(m.query) \in Seq(Nat)
    <2>1. [i \in DOMAIN m.query |-> QueryPart(m.query, i)] \in Seq(Seq(Nat))
      BY <1>1, PartsAre, Zenon
    <2>2. FlattenSeq([i \in DOMAIN m.query |-> QueryPart(m.query, i)]) \in Seq(Nat)
      BY <2>1, FlattenLays
    <2> QED BY <2>2, Zenon DEF QueryText, QueryPart
  <1>4. PICK A \in Seq(Nat), P \in Seq(Nat), B \in Seq(Nat) :
          A = m.method /\ P = m.path /\ B = BodyText(m)
    BY Zenon DEF IsMessage
  <1>5. PICK U \in Seq(Nat) : U = QueryText(m.query)
    BY <1>3
  <1>6. PICK s \in Seq(Nat), c \in Seq(Nat), l \in Seq(Nat) :
          s = <<SP>> /\ c = <<CR, LF>> /\ l = <<SP, HTTP, CR, LF>>
          /\ Len(s) = 1 /\ Len(c) = 2 /\ Len(l) = 4
    BY CodesAre, Zenon
  <1>7. PICK t : t = RequestText(m)
    OBVIOUS
  <1>8. t = A \o s \o P \o U \o l \o F \o c \o B
    BY <1>4, <1>5, <1>6, <1>7, Zenon DEF RequestText, HeaderPart
  <1>9. PICK x1, x2, x3, x4, x5, x6 :
          /\ x1 = A \o s /\ x2 = x1 \o P /\ x3 = x2 \o U /\ x4 = x3 \o l /\ x5 = x4 \o F
          /\ x6 = x5 \o c
    OBVIOUS
  <1>10. t = x6 \o B
    BY <1>8, <1>9, Zenon
  <1>11. x1 \in Seq(Nat) /\ Len(x1) = Len(A) + 1
    BY ONLY <1>6, <1>9, A \in Seq(Nat), s \in Seq(Nat)
  <1>12. x2 \in Seq(Nat) /\ Len(x2) = Len(x1) + Len(P)
    BY <1>9, <1>11, JoinIs, Zenon
  <1>13. x3 \in Seq(Nat) /\ Len(x3) = Len(x2) + Len(U)
    BY <1>9, <1>12, JoinIs, Zenon
  <1>14. x4 \in Seq(Nat) /\ Len(x4) = Len(x3) + 4
    BY ONLY <1>6, <1>9, <1>13, l \in Seq(Nat)
  <1>15. x5 \in Seq(Nat) /\ Len(x5) = Len(x4) + Len(F)
    BY <1>2, <1>9, <1>14, JoinIs, Zenon
  <1>16. x6 \in Seq(Nat) /\ Len(x6) = Len(x5) + 2
    BY ONLY <1>6, <1>9, <1>15, c \in Seq(Nat)
  <1>17. t \in Seq(Nat) /\ Len(t) = Len(x6) + Len(B)
    BY <1>10, <1>16, JoinIs, Zenon
  <1>18. Holds(t, 0, x6 \o B)
    BY <1>10, <1>17, HoldsAll, Zenon
  <1>19. Holds(t, 0, x6) /\ Holds(t, 0 + Len(x6), B)
    BY ONLY <1>18, <1>16, B \in Seq(Nat), HoldsParts
  <1>20. Holds(t, 0, x5) /\ Holds(t, 0 + Len(x5), c)
    BY ONLY <1>19, <1>15, c \in Seq(Nat), <1>9, HoldsParts
  <1>21. Holds(t, 0, x4) /\ Holds(t, 0 + Len(x4), F)
    BY ONLY <1>20, <1>14, <1>2, <1>9, HoldsParts
  <1>22. Holds(t, 0, x3) /\ Holds(t, 0 + Len(x3), l)
    BY ONLY <1>21, <1>13, l \in Seq(Nat), <1>9, HoldsParts
  <1>23. Holds(t, 0, x2) /\ Holds(t, 0 + Len(x2), U)
    BY ONLY <1>22, <1>12, U \in Seq(Nat), <1>9, HoldsParts
  <1>24. Holds(t, 0, x1) /\ Holds(t, 0 + Len(x1), P)
    BY ONLY <1>23, <1>11, P \in Seq(Nat), <1>9, HoldsParts
  <1>25. Holds(t, 0, A) /\ Holds(t, 0 + Len(A), s)
    BY ONLY <1>24, A \in Seq(Nat), s \in Seq(Nat), <1>9, HoldsParts
  <1>26. PICK a \in Nat, p \in Nat, u \in Nat, f \in Nat, b \in Nat :
           a = Len(A) /\ p = Len(P) /\ u = Len(U) /\ f = Len(F) /\ b = Len(B)
    <2>1. \A x \in Seq(Nat) : Len(x) \in Nat
      OBVIOUS
    <2> QED BY <1>2, <2>1, Zenon
  <1>27. PICK e \in Nat, T \in Nat : e = a + 1 + (p + u) /\ T = e + 4 + f
    OBVIOUS
  <1>28. /\ Len(x1) = a + 1 /\ Len(x2) = a + 1 + p /\ Len(x3) = a + 1 + p + u
         /\ Len(x4) = a + 1 + p + u + 4 /\ Len(x5) = a + 1 + p + u + 4 + f
         /\ Len(x6) = a + 1 + p + u + 4 + f + 2 /\ Len(t) = a + 1 + p + u + 4 + f + 2 + b
    BY <1>11, <1>12, <1>13, <1>14, <1>15, <1>16, <1>17, <1>26, Zenon
  <1>29. /\ 0 + a = a /\ 0 + (a + 1) = a + 1 /\ 0 + (a + 1 + p) = a + 1 + p
         /\ 0 + (a + 1 + p + u) = e /\ 0 + (a + 1 + p + u + 4) = e + 4
         /\ 0 + (a + 1 + p + u + 4 + f) = T /\ 0 + (a + 1 + p + u + 4 + f + 2) = T + 2
         /\ a + 1 + p + u + 4 + f + 2 + b = T + 2 + b
    BY ONLY a \in Nat, p \in Nat, u \in Nat, f \in Nat, b \in Nat, <1>27
  <1>30. Holds(t, a + 1, P) /\ Holds(t, a + 1 + Len(P), U)
    BY <1>23, <1>24, <1>26, <1>28, <1>29, Zenon
  <1>31. PICK W : W = P \o U
    OBVIOUS
  <1>32. Holds(t, a + 1, W)
    <2>1. PICK k : k = a + 1
      OBVIOUS
    <2>2. Holds(t, k, P) /\ Holds(t, k + Len(P), U)
      BY <1>30, <2>1, Zenon
    <2>3. Holds(t, k, P \o U)
      BY ONLY <2>2, HoldsJoin
    <2> QED BY <1>31, <2>1, <2>3, Zenon
  <1>33. W \in Seq(Nat) /\ Len(W) = p + u
    BY <1>26, <1>31
  <1>34. Holds(t, 0, A) /\ Holds(t, a, s) /\ Holds(t, e, l) /\ Holds(t, e + 4, F)
         /\ Holds(t, T, c) /\ Holds(t, T + 2, B)
    BY <1>19, <1>20, <1>21, <1>22, <1>25, <1>26, <1>28, <1>29, Zenon
  <1>35. Len(t) = T + 2 + b
    BY <1>28, <1>29, Zenon
  <1>36. Layout(t, A, W, F, B, e, T)
    BY <1>2, <1>6, <1>17, <1>26, <1>27, <1>32, <1>33, <1>34, <1>35, Zenon DEF Layout
  <1> QED BY <1>3, <1>4, <1>5, <1>7, <1>31, <1>36, Zenon

(* What is sent is a text.                                                 *)
LEMMA WireIsText ==
  ASSUME NEW m \in Messages
  PROVE  IsMessage(m) /\ RequestText(m) \in Seq(Nat)
  <1>1. IsMessage(m)
    BY TextAssumption, Zenon
  <1>2. PICK F : F = FlattenSeq([i \in DOMAIN m.headers |-> HeaderPart(m.headers, i)])
    OBVIOUS
  <1>3. PICK e, T : Layout(RequestText(m), m.method, m.path \o QueryText(m.query), F, BodyText(m), e, T)
    BY <1>1, <1>2, RequestLayout, Zenon
  <1>4. RequestText(m) \in Seq(Nat)
    BY <1>3, Zenon DEF Layout
  <1> QED BY <1>1, <1>4, Zenon

-----------------------------------------------------------------------------
(* The exchange.                                                           *)

(* What the request and the response were made from.  StaysInDirectory is  *)
(* not inductive by itself: it relates the response to the request, and    *)
(* needs that the request is still the one the handler was given.          *)
IInv ==
  /\ msg \in Messages /\ wire = RequestText(msg)
  /\ stage \in {"sent", "parsed", "handled", "answered"}
  /\ stage # "sent" => req = ParsedRequest(wire)
  /\ stage \in {"handled", "answered"} /\ msg.handler = "static" /\ req.valid =>
       resp = ServeFile

(* It holds at first.                                                      *)
LEMMA InitIInv == Init => IInv
  BY Zenon DEF Init, IInv

(* Every step keeps it.                                                    *)
LEMMA NextIInv == IInv /\ [Next]_vars => IInv'
  <1> SUFFICES ASSUME IInv, [Next]_vars PROVE IInv'
    OBVIOUS
  <1>1. CASE ParseRequest
    BY <1>1, Zenon DEF IInv, ParseRequest
  <1>2. CASE HandleRequest
    <2>1. ASSUME msg.handler = "static", req.valid PROVE resp' = ServeFile
      BY <1>2, <2>1, Zenon DEF HandleRequest
    <2>2. ServeFile' = ServeFile
      BY <1>2, Zenon DEF HandleRequest, ServeFile
    <2> QED BY <1>2, <2>1, <2>2, Zenon DEF IInv, HandleRequest
  <1>3. CASE GenerateResponse
    <2>1. ServeFile' = ServeFile
      BY <1>3, Zenon DEF GenerateResponse, ServeFile
    <2> QED BY <1>3, <2>1, Zenon DEF IInv, GenerateResponse
  <1>4. CASE UNCHANGED vars
    <2>1. ServeFile' = ServeFile
      BY <1>4, Zenon DEF vars, ServeFile
    <2> QED BY <1>4, <2>1, Zenon DEF IInv, vars
  <1> QED BY <1>1, <1>2, <1>3, <1>4, Zenon DEF Next

(* The invariant.                                                          *)
THEOREM Invariance == Spec => []IInv
  BY InitIInv, NextIInv, PTL DEF Spec

(* A file is served iff the method is GET and the name is that of a file.  *)
LEMMA ServeFileIs ==
  /\ ServeFile.r.code = 200 =>
       ParseFileInfo(req.uri) \in Files /\ ServeFile.used = ParseFileInfo(req.uri)
  /\ req.method = <<GET>> /\ ParseFileInfo(req.uri) \in Files => ServeFile.r.code = 200
  <1>1. PICK file : file = ParseFileInfo(req.uri)
    OBVIOUS
  <1>2. PICK z, b, h : z = <<>> /\ b = <<Text>> /\ h = <<Typed(Text)>>
    OBVIOUS
  <1>3. PICK i : i = <<Typed(MimeType)>>
    OBVIOUS
  <1>4. \A c, x, y, w : /\ Routed(Response(c, x, y), w).r.code = c
                        /\ Routed(Response(c, x, y), w).used = w
    BY RoutedIs
  <1>5. CASE req.method # <<GET>>
    <2>1. ServeFile = Routed(Response(405, b, h), z)
      BY <1>2, <1>5, ZenonT(60) DEF ServeFile
    <2>2. Routed(Response(405, b, h), z).r.code = 405
      BY <1>4
    <2>3. ServeFile.r.code = 405
      BY <2>1, <2>2, Zenon
    <2>4. ServeFile.r.code # 200
      BY <2>3
    <2> QED BY <1>1, <1>5, <2>4, Zenon
  <1>6. CASE req.method = <<GET>> /\ file \in Files
    <2>1. ServeFile = Routed(Response(200, file, i), file)
      BY <1>1, <1>3, <1>6, ZenonT(60) DEF ServeFile
    <2>2. /\ Routed(Response(200, file, i), file).r.code = 200
          /\ Routed(Response(200, file, i), file).used = file
      BY <1>4
    <2>3. ServeFile.r.code = 200 /\ ServeFile.used = file
      BY <2>1, <2>2, Zenon
    <2> QED BY <1>1, <1>6, <2>3, Zenon
  <1>7. CASE req.method = <<GET>> /\ file \notin Files
    <2>1. ServeFile = Routed(Response(404, b, h), z)
      BY <1>1, <1>2, <1>7, ZenonT(60) DEF ServeFile
    <2>2. Routed(Response(404, b, h), z).r.code = 404
      BY <1>4
    <2>3. ServeFile.r.code = 404
      BY <2>1, <2>2, Zenon
    <2>4. ServeFile.r.code # 200
      BY <2>3
    <2> QED BY <1>1, <1>7, <2>4, Zenon
  <1> QED BY <1>5, <1>6, <1>7

(* Whatever the URI, the static handler opens a file of its own directory  *)
(* or none: the last segment of the URI, with neither a slash nor a second *)
(* dot.  And every file of such a name is found.                           *)
THEOREM FilesOfTheDirectory == Spec => []StaysInDirectory
  <1>1. IInv => StaysInDirectory
    <2> SUFFICES ASSUME IInv, stage = "handled", msg.handler = "static", req.valid
                 PROVE  StaysInDirectory
      BY Zenon DEF StaysInDirectory
    <2>1. wire \in Seq(Nat) /\ req = ParsedRequest(wire) /\ resp = ServeFile
      BY WireIsText, Zenon DEF IInv
    <2>2. PICK u \in Seq(Nat) : u = req.uri
      BY <2>1, UriIsText
    <2>3. Files \subseteq Seq(Nat) /\ <<>> \notin Files
      BY TextAssumption, Zenon
    <2>4. ASSUME resp.r.code = 200
          PROVE  /\ IsSuffix(<<SLASH>> \o resp.used, req.uri)
                 /\ \A i \in DOMAIN resp.used : resp.used[i] # SLASH
                 /\ \E d \in 2..(Len(resp.used) - 1) :
                      \A i \in DOMAIN resp.used : (resp.used[i] = DOT) <=> (i = d)
      <3>1. PICK f : f = resp.used
        OBVIOUS
      <3>2. f = ParseFileInfo(u) /\ f \in Files
        BY <2>1, <2>2, <2>4, <3>1, ServeFileIs, Zenon
      <3>3. f \in Seq(Nat) /\ f # <<>>
        BY <2>3, <3>2, Zenon
      <3>4. PICK p \in 1..Len(u), d \in Nat : FileName(u, p, f, d)
        BY <3>2, <3>3, ParseFileInfoSound, Zenon
      <3>5. /\ u[p] = SLASH /\ f = SubSeq(u, p + 1, Len(u))
            /\ d \in 2..(Len(f) - 1) /\ f[d] = DOT
            /\ \A i \in 1..Len(f) : i # d => Word(f[i])
        BY <3>4, Zenon DEF FileName
      <3>6. IsSuffix(<<SLASH>> \o f, u)
        BY <3>3, <3>4, <3>5, SlashSuffix, Zenon
      <3>7. DOMAIN f = 1..Len(f)
        BY <3>3
      <3>8. DOT # SLASH
        BY DEF DOT, SLASH
      <3>9. \A i \in DOMAIN f : f[i] # SLASH /\ ((f[i] = DOT) <=> (i = d))
        BY <3>5, <3>7, <3>8, WordChars, Zenon
      <3>10. \E e \in 2..(Len(f) - 1) : \A i \in DOMAIN f : (f[i] = DOT) <=> (i = e)
        BY <3>5, <3>9, Zenon
      <3> QED BY <2>2, <3>1, <3>6, <3>9, <3>10, Zenon
    <2>5. ASSUME NEW f \in Files, req.method = <<GET>>, IsSuffix(<<SLASH>> \o f, req.uri),
                 NEW d \in 2..(Len(f) - 1), f[d] = DOT,
                 \A i \in DOMAIN f : i # d => Word(f[i])
          PROVE  resp.r.code = 200
      <3>1. f \in Seq(Nat)
        BY <2>3
      <3>2. DOMAIN f = 1..Len(f)
        BY <3>1
      <3>3. PICK p \in 1..Len(u) : u[p] = SLASH /\ f = SubSeq(u, p + 1, Len(u))
        BY <2>2, <2>5, <3>1, SlashSuffix, Zenon
      <3>4. FileName(u, p, f, d)
        BY <2>5, <3>2, <3>3, Zenon DEF FileName
      <3>5. ParseFileInfo(u) = f
        BY <3>4, ParseFileInfoComplete, Zenon
      <3> QED BY <2>1, <2>2, <2>5, <3>5, ServeFileIs, Zenon
    <2> QED BY <2>4, <2>5, Zenon DEF StaysInDirectory
  <1> QED BY <1>1, Invariance, PTL

-----------------------------------------------------------------------------
(* uri_lib.cc: two hexadecimal digits.                                     *)

(* A step of the fold over hexadecimal digits.                             *)
HexStep(v, c) == 16 * v + HexValue(c)

(* The value of a digit is a number,                                       *)
LEMMA HexValueType == ASSUME NEW c \in Nat PROVE HexValue(c) \in Int
  <1>1. CASE c <= 57
    BY <1>1 DEF HexValue
  <1>2. CASE ~(c <= 57) /\ c \in 65..70
    BY <1>2 DEF HexValue
  <1>3. CASE ~(c <= 57) /\ ~(c \in 65..70)
    BY <1>3 DEF HexValue
  <1> QED BY <1>1, <1>2, <1>3

(* and so is what a step makes of it.                                      *)
LEMMA HexStepType == ASSUME NEW u \in Int, NEW t \in Nat PROVE HexStep(u, t) \in Int
  <1>1. PICK x \in Int : x = HexValue(t)
    BY HexValueType
  <1> QED BY <1>1 DEF HexStep

(* The fold over two digits.                                               *)
LEMMA HexFold ==
  ASSUME NEW w \in Int, NEW q \in Seq(Nat)
  PROVE  \E st \in [0..Len(q) -> Int] :
           /\ st[0] = w
           /\ \A k \in 1..Len(q) : st[k] = HexStep(st[k - 1], q[k])
           /\ FoldLeft(LAMBDA v, c : 16 * v + HexValue(c), w, q) = st[Len(q)]
  <1>1. PICK B : B = Nat
    OBVIOUS
  <1>2. PICK G : G = [p \in Int \X B |-> HexStep(p[1], p[2])]
    OBVIOUS
  <1>3. ASSUME NEW u \in Int, NEW t \in B PROVE HexStep(u, t) \in Int
    BY <1>1, HexStepType
  <1>4. G \in [Int \X B -> Int]
    <2>1. ASSUME NEW p \in Int \X B PROVE HexStep(p[1], p[2]) \in Int
      <3>1. p[1] \in Int /\ p[2] \in B
        OBVIOUS
      <3> QED BY <1>3, <3>1
    <2> QED BY <1>2, <2>1, Zenon
  <1>5. \A u \in Int : \A t \in B : G[<<u, t>>] = HexStep(u, t)
    <2> SUFFICES ASSUME NEW u \in Int, NEW t \in B
                 PROVE  G[<<u, t>>] = HexStep(u, t)
      OBVIOUS
    <2>1. PICK p : p = <<u, t>>
      OBVIOUS
    <2>2. p \in Int \X B /\ p[1] = u /\ p[2] = t
      BY <2>1
    <2>3. G[p] = HexStep(p[1], p[2])
      BY <1>2, <2>2, Zenon
    <2> QED BY <2>1, <2>2, <2>3, Zenon
  <1>6. q \in Seq(B)
    BY <1>1
  <1>7. PICK f \in [SUBSET DOMAIN q -> Int] : FoldsBy(f, G, w, q)
    BY <1>4, <1>6, FoldExists
  <1>8. PICK n \in Nat : n = Len(q) /\ DOMAIN q = 1..n /\ \A i \in 1..n : q[i] \in B
    BY <1>6
  <1>9. ASSUME NEW s \in SUBSET DOMAIN q, s # {}
        PROVE  s \ {Max(s)} \in SUBSET DOMAIN q /\ Max(s) \in DOMAIN q
    BY <1>8, <1>9, MaxOfIndices
  <1>10. f = [s \in SUBSET DOMAIN q |->
                IF s = {} THEN w ELSE HexStep(f[s \ {Max(s)}], q[Max(s)])]
    <2>1. ASSUME NEW s \in SUBSET DOMAIN q
          PROVE  f[s] = IF s = {} THEN w ELSE HexStep(f[s \ {Max(s)}], q[Max(s)])
      <3>1. f[s] = IF s = {} THEN w ELSE G[<<f[s \ {Max(s)}], q[Max(s)]>>]
        BY <1>7, Zenon DEF FoldsBy
      <3>2. CASE s = {}
        BY <3>1, <3>2, Zenon
      <3>3. CASE s # {}
        <4>1. PICK x : x = Max(s)
          OBVIOUS
        <4>2. PICK r : r = s \ {x}
          OBVIOUS
        <4>3. f[r] \in Int /\ q[x] \in B
          BY <1>7, <1>8, <1>9, <3>3, <4>1, <4>2
        <4>4. G[<<f[r], q[x]>>] = HexStep(f[r], q[x])
          BY <1>5, <4>3
        <4> QED BY <3>1, <3>3, <4>1, <4>2, <4>4, Zenon
      <3> QED BY <3>2, <3>3, Zenon
    <2> QED BY <1>7, <2>1, Zenon
  <1>11. PICK h : h = CHOOSE any : any = [s \in SUBSET DOMAIN q |->
                        IF s = {} THEN w ELSE HexStep(any[s \ {Max(s)}], q[Max(s)])]
    OBVIOUS
  <1>12. h = [s \in SUBSET DOMAIN q |->
                IF s = {} THEN w ELSE HexStep(h[s \ {Max(s)}], q[Max(s)])]
    BY <1>10, <1>11, Zenon
  <1>13. FoldLeft(LAMBDA v, c : 16 * v + HexValue(c), w, q) = h[DOMAIN q]
    BY <1>11, Zenon DEF FoldLeft, MapThenFoldSet, HexStep
  <1>14. FoldsAlike(f, h, q)
    <2>1. f = [s \in SUBSET DOMAIN q |-> f[s]] /\ h = [s \in SUBSET DOMAIN q |-> h[s]]
      BY <1>10, <1>12, Zenon
    <2>2. {} \in SUBSET DOMAIN q
      OBVIOUS
    <2>3. f[{}] = w /\ h[{}] = w
      BY <1>10, <1>12, <2>2, Zenon
    <2>4. ASSUME NEW s \in SUBSET DOMAIN q, s # {}, f[s \ {Max(s)}] = h[s \ {Max(s)}]
          PROVE  f[s] = h[s]
      <3>1. f[s] = HexStep(f[s \ {Max(s)}], q[Max(s)])
        BY <1>10, <2>4, Zenon
      <3>2. h[s] = HexStep(h[s \ {Max(s)}], q[Max(s)])
        BY <1>12, <2>4, Zenon
      <3> QED BY <2>4, <3>1, <3>2, Zenon
    <2> QED BY <2>1, <2>3, <2>4, Zenon DEF FoldsAlike
  <1>15. f = h
    BY <1>6, <1>14, FoldUnique, SMT
  <1>16. PICK st \in [0..Len(q) -> Int] :
           /\ st[0] = w
           /\ \A k \in 1..Len(q) : st[k] = G[<<st[k - 1], q[k]>>]
           /\ f[DOMAIN q] = st[Len(q)]
    <2>1. FoldsBy(f, G, w, q)
      BY <1>7
    <2>2. FoldOf(f, Int, B, G, w, q)
      BY <1>4, <1>6, <2>1, Zenon DEF FoldOf
    <2>3. PICK st : FoldTrace(st, f, Int, G, w, q)
      BY <2>2, FoldSteps, SMT
    <2> QED BY <2>3, Zenon DEF FoldTrace
  <1>17. ASSUME NEW k \in 1..Len(q) PROVE st[k] = HexStep(st[k - 1], q[k])
    <2>1. k - 1 \in 0..Len(q)
      BY <1>8
    <2>2. st[k - 1] \in Int /\ q[k] \in B
      BY <1>8, <1>16, <2>1
    <2> QED BY <1>5, <1>16, <2>2, Zenon
  <1> QED BY <1>13, <1>15, <1>16, <1>17, Zenon


(* A digit that CharToHex writes is read as the number it stands for.      *)
LEMMA HexDigitIs ==
  ASSUME NEW n \in 0..15
  PROVE  /\ HexDigit(n) \in Nat /\ HexDigit(n) \in (48..57) \cup (97..102)
         /\ HexValue(HexDigit(n)) = n
  <1>1. CASE n < 10
    BY <1>1 DEF HexDigit, HexValue
  <1>2. CASE ~(n < 10)
    <2>1. HexDigit(n) = 87 + n
      BY <1>2 DEF HexDigit
    <2>2. ~(87 + n <= 57) /\ 87 + n \notin 65..70
      OBVIOUS
    <2>3. PICK x : x = 87 + n
      OBVIOUS
    <2>4. HexValue(x) = x - 87
      BY <2>2, <2>3, Zenon DEF HexValue
    <2> QED BY <1>2, <2>1, <2>3, <2>4
  <1> QED BY <1>1, <1>2

(* HexToChar reads the two digits that CharToHex writes as the character.  *)
LEMMA HexToCharIs ==
  ASSUME NEW a \in 0..15, NEW b \in 0..15
  PROVE  HexToChar(<<HexDigit(a), HexDigit(b)>>) = 16 * a + b
  <1>1. PICK c, d : c = HexDigit(a) /\ d = HexDigit(b)
    OBVIOUS
  <1>2. /\ c \in Nat /\ c \in (48..57) \cup (97..102) /\ HexValue(c) = a
        /\ d \in Nat /\ d \in (48..57) \cup (97..102) /\ HexValue(d) = b
    BY <1>1, HexDigitIs
  <1>3. PICK s \in Seq(Nat) : s = <<c, d>>
    <2>1. <<c, d>> \in Seq(Nat)
      BY <1>2
    <2> QED BY <2>1, Zenon
  <1>4. Len(s) = 2 /\ s[1] = c /\ s[2] = d
    BY <1>3
  <1>5. PICK W : W = {k \in 1..Len(s) : ~(s[k] \in (9..13) \cup {SP})}
    OBVIOUS
  <1>6. Least(W, Len(s) + 1) = 1
    <2>1. W \in SUBSET Nat /\ 1 \in W
      BY <1>2, <1>4, <1>5 DEF SP
    <2>2. PICK x : x = Least(W, Len(s) + 1)
      OBVIOUS
    <2>3. x \in W /\ \A k \in W : x <= k
      BY <2>1, <2>2, LeastIs
    <2>4. x \in 1..2 /\ x <= 1
      BY <1>4, <1>5, <2>1, <2>3
    <2> QED BY <2>2, <2>4
  <1>7. PICK from : from = RunEnd(s, 1, LAMBDA e : e \in (9..13) \cup {SP}) + 1
    BY Zenon
  <1>8. from = 1
    <2>1. RunEnd(s, 1, LAMBDA e : e \in (9..13) \cup {SP}) = Least(W, Len(s) + 1) - 1
      BY <1>5, Zenon DEF RunEnd
    <2>2. from = (1 - 1) + 1
      BY <1>6, <1>7, <2>1, Zenon
    <2> QED BY <2>2
  <1>9. PICK V : V = {k \in 1..Len(s) : ~IsHex(s[k])}
    OBVIOUS
  <1>10. V = {}
    <2>1. IsHex(c) /\ IsHex(d)
      BY <1>2 DEF IsHex
    <2>2. \A k \in 1..Len(s) : k = 1 \/ k = 2
      BY <1>4
    <2> QED BY <1>4, <1>9, <2>1, <2>2, Zenon
  <1>11. RunEnd(s, 1, IsHex) = 2
    <2>1. RunEnd(s, 1, IsHex) = Least(V, Len(s) + 1) - 1
      BY <1>9, Zenon DEF RunEnd
    <2>2. Least(V, Len(s) + 1) = Len(s) + 1
      BY <1>10, Zenon DEF Least
    <2>3. RunEnd(s, 1, IsHex) = (2 + 1) - 1
      BY <1>4, <2>1, <2>2, Zenon
    <2> QED BY <2>3
  <1>12. PICK signed : signed = (from <= Len(s) /\ s[from] \in {PLUS, 45})
    OBVIOUS
  <1>13. signed = FALSE
    <2>1. c \notin {PLUS, 45}
      BY <1>2 DEF PLUS
    <2> QED BY <1>4, <1>8, <1>12, <2>1, Zenon
  <1>14. PICK digits : digits = SubSeq(s, 1, 2)
    OBVIOUS
  <1>15. digits = s
    <2>1. SubSeq(s, 1, Len(s)) = s
      OBVIOUS
    <2> QED BY <1>4, <1>14, <2>1, Zenon
  <1>16. PICK value : value = FoldLeft(LAMBDA v, e : 16 * v + HexValue(e), 0, s)
    BY Zenon
  <1>17. value = 16 * a + b
    <2>0. 0 \in Int
      OBVIOUS
    <2>1. PICK st \in [0..Len(s) -> Int] :
            /\ st[0] = 0
            /\ \A k \in 1..Len(s) : st[k] = HexStep(st[k - 1], s[k])
            /\ FoldLeft(LAMBDA v, e : 16 * v + HexValue(e), 0, s) = st[Len(s)]
      BY <2>0, HexFold, Zenon
    <2>2. 1 \in 1..2 /\ 2 \in 1..2 /\ 1 - 1 = 0 /\ 2 - 1 = 1
      OBVIOUS
    <2>3. st[1] = HexStep(st[0], c) /\ st[2] = HexStep(st[1], d)
      BY <1>4, <2>1, <2>2, Zenon
    <2>4. st[1] = 16 * 0 + a
      BY <1>2, <2>1, <2>3, Zenon DEF HexStep
    <2>5. st[1] = a
      BY <2>4
    <2>6. st[2] = 16 * a + b
      BY <1>2, <2>3, <2>5, Zenon DEF HexStep
    <2> QED BY <1>4, <1>16, <2>1, <2>6, Zenon
  <1>18. s # <<>> /\ s \notin {<<48, 88>>, <<48, 120>>}
    <2>1. s # <<>>
      <3>1. PICK z : z = <<>> /\ Len(z) = 0
        BY EmptySeq
      <3> QED BY <1>4, <3>1
    <2>2. PICK x : x = <<48, 88>>
      OBVIOUS
    <2>4. PICK y : y = <<48, 120>>
      OBVIOUS
    <2>5. x[2] = 88
      BY <2>2
    <2>6. y[2] = 120
      BY <2>4
    <2>3. d # 88 /\ d # 120
      BY <1>2
    <2>7. s # x /\ s # y
      BY <1>4, <2>3, <2>5, <2>6
    <2> QED BY <2>1, <2>2, <2>4, <2>7, Zenon
  <1>19. HexToChar(s) = CASE s = <<>> -> 0
        [] digits = <<>> /\ s # <<>> -> -1
        [] s \in {<<48, 88>>, <<48, 120>>} -> -1
        [] OTHER -> (IF signed /\ s[from] = 45 THEN -value ELSE value) % 256
    <2>1. PICK first : first = IF signed THEN from + 1 ELSE from
      OBVIOUS
    <2>2. first = 1
      BY <1>8, <1>13, <2>1, Zenon
    <2>3. PICK dg : dg = SubSeq(s, first, RunEnd(s, first, IsHex))
      BY Zenon
    <2>4. dg = digits
      BY <1>11, <1>14, <2>2, <2>3, Zenon
    <2>5. FoldLeft(LAMBDA v, e : 16 * v + HexValue(e), 0, dg) = value
      BY <1>15, <1>16, <2>4, Zenon
    <2> QED BY <1>7, <1>12, <2>1, <2>3, <2>4, <2>5, Zenon DEF HexToChar
  <1>20. HexToChar(s) = value % 256
    BY <1>13, <1>15, <1>18, <1>19, Zenon
  <1>21. (16 * a + b) % 256 = 16 * a + b
    OBVIOUS
  <1> QED BY <1>1, <1>3, <1>17, <1>20, <1>21, Zenon

-----------------------------------------------------------------------------
(* uri_lib.cc: the recursion of UriDecode.                                 *)

(* The character that stands at position i of e in hexadecimal.            *)
HexAt(e, i) == HexToChar(SubSeq(e, i + 1, Least({i + 2, Len(e)}, Len(e))))

DecodeChars(e) == Nat \cup {HexAt(e, i) : i \in 1..(Len(e) + 3)}
DecodedType(e) == [ok : BOOLEAN, text : Seq(DecodeChars(e))]

After(c, rest) == [rest EXCEPT !.text = <<c>> \o @]

(* r is the recursion of UriDecode(e).                                     *)
Decodes(e, r) ==
  /\ r \in [1..(Len(e) + 3) -> DecodedType(e)]
  /\ \A i \in 1..(Len(e) + 3) :
       r[i] = CASE i > Len(e) -> [ok |-> TRUE, text |-> <<>>]
                [] i <= Len(e) /\ e[i] = PCT ->
                     IF HexAt(e, i) = -1 THEN [ok |-> FALSE, text |-> <<>>]
                     ELSE After(HexAt(e, i), r[i + 3])
                [] i <= Len(e) /\ e[i] = PLUS -> After(SP, r[i + 1])
                [] OTHER -> After(e[i], r[i + 1])

(* What After does with a decoded text,                                    *)
LEMMA AfterIs ==
  ASSUME NEW C, NEW c \in C, NEW b \in BOOLEAN, NEW t \in Seq(C), NEW x,
         x = [ok |-> b, text |-> t]
  PROVE  After(c, x) = [ok |-> b, text |-> <<c>> \o t] /\ <<c>> \o t \in Seq(C)
  <1>1. PICK u : u = <<c>> \o x.text
    OBVIOUS
  <1>2. After(c, x) = [x EXCEPT !.text = u]
    BY <1>1, Zenon DEF After
  <1>3. x.text = t
    OBVIOUS
  <1>4. [x EXCEPT !.text = u] = [ok |-> b, text |-> u]
    OBVIOUS
  <1>5. <<c>> \in Seq(C)
    OBVIOUS
  <1>6. <<c>> \o t \in Seq(C)
    BY <1>5, ConcatIndex
  <1> QED BY <1>1, <1>2, <1>3, <1>4, <1>6, Zenon

(* and that it is one again.                                               *)
LEMMA AfterType ==
  ASSUME NEW C, NEW c \in C, NEW x \in [ok : BOOLEAN, text : Seq(C)]
  PROVE  After(c, x) \in [ok : BOOLEAN, text : Seq(C)]
  <1>1. PICK b \in BOOLEAN, t \in Seq(C) : x = [ok |-> b, text |-> t]
    OBVIOUS
  <1>2. After(c, x) = [ok |-> b, text |-> <<c>> \o t] /\ <<c>> \o t \in Seq(C)
    BY <1>1, AfterIs
  <1> QED BY <1>2

(* The recursive definition in UriDecode has one solution, and it obeys    *)
(* the recursion.                                                          *)
LEMMA UriDecodeIs ==
  ASSUME NEW e \in Seq(Nat)
  PROVE  \E r : Decodes(e, r) /\ UriDecode(e) = r[1]
  <1>1. PICK n \in Nat : n = Len(e) /\ DOMAIN e = 1..n /\ \A i \in 1..n : e[i] \in Nat
    OBVIOUS
  <1>2. PICK D : D = 1..(Len(e) + 3) /\ D = 1..(n + 3)
    BY <1>1
  <1>3. PICK C : C = DecodeChars(e)
    OBVIOUS
  <1>a. PICK A : A = [ok : BOOLEAN, text : Seq(C)]
    OBVIOUS
  <1> DEFINE B(g, i) == CASE i > Len(e) -> [ok |-> TRUE, text |-> <<>>]
                [] i <= Len(e) /\ e[i] = PCT ->
                     IF HexAt(e, i) = -1 THEN [ok |-> FALSE, text |-> <<>>]
                     ELSE After(HexAt(e, i), g[i + 3])
                [] i <= Len(e) /\ e[i] = PLUS -> After(SP, g[i + 1])
                [] OTHER -> After(e[i], g[i + 1])
  <1>4. PICK m : m = [q \in D |-> n + 3 - q]
    OBVIOUS
  <1>b. PICK N \in Nat : N = n + 3
    OBVIOUS
  <1>5. Measure(m, D, N)
    BY <1>2, <1>4, <1>b DEF Measure
  <1>6. ASSUME NEW q \in D, ~(q > n)
        PROVE  /\ q + 3 \in D /\ m[q + 3] < m[q]
               /\ q + 1 \in D /\ m[q + 1] < m[q]
    BY <1>2, <1>4, <1>6
  <1>c. \A q \in D : q <= n <=> ~(q > n)
    BY <1>2
  <1>7. ASSUME NEW g, NEW h, NEW q \in D, \A y \in D : m[y] < m[q] => g[y] = h[y]
        PROVE  B(g, q) = B(h, q)
    <2>1. CASE q > n
      <3>1. ~(q <= n)
        BY <1>c, <2>1
      <3> QED BY <1>1, <2>1, <3>1, Zenon
    <2>2. CASE ~(q > n)
      <3>1. g[q + 3] = h[q + 3] /\ g[q + 1] = h[q + 1]
        BY <1>6, <1>7, <2>2
      <3> QED BY <1>1, <3>1, Zenon
    <2> QED BY <2>1, <2>2
  <1>8. ASSUME NEW g \in [D -> A], NEW q \in D PROVE B(g, q) \in A
    <2>1. PICK z : z = <<>> /\ z \in Seq(C)
      BY EmptySeq
    <2>2. [ok |-> TRUE, text |-> z] \in A /\ [ok |-> FALSE, text |-> z] \in A
      BY <1>a, <2>1
    <2>3. CASE q > n
      <3>1. ~(q <= n)
        BY <1>c, <2>3
      <3>2. B(g, q) = [ok |-> TRUE, text |-> z]
        BY <1>1, <2>1, <2>3, <3>1, Zenon
      <3> QED BY <2>2, <3>2
    <2>4. CASE ~(q > n)
      <3>1. g[q + 3] \in A /\ g[q + 1] \in A /\ q <= n
        BY <1>6, <1>c, <2>4
      <3>2. HexAt(e, q) \in C /\ SP \in C /\ e[q] \in C
        <4>1. SP \in Nat
          BY DEF SP
        <4>2. q \in 1..n
          BY <1>2, <3>1
        <4> QED BY <1>1, <1>2, <1>3, <4>1, <4>2, Zenon DEF DecodeChars
      <3>3. CASE e[q] = PCT
        <4>1. PCT # PLUS
          BY DEF PCT, PLUS
        <4>2. CASE HexAt(e, q) = -1
          <5>1. B(g, q) = [ok |-> FALSE, text |-> z]
            BY <1>1, <2>1, <2>4, <3>1, <3>3, <4>1, <4>2, Zenon
          <5> QED BY <2>2, <5>1
        <4>3. CASE HexAt(e, q) # -1
          <5>1. B(g, q) = After(HexAt(e, q), g[q + 3])
            BY <1>1, <2>4, <3>1, <3>3, <4>1, <4>3, Zenon
          <5> QED BY <1>a, <3>1, <3>2, <5>1, AfterType, Zenon
        <4> QED BY <4>2, <4>3
      <3>4. CASE e[q] = PLUS
        <4>1. PCT # PLUS
          BY DEF PCT, PLUS
        <4>2. B(g, q) = After(SP, g[q + 1])
          BY <1>1, <2>4, <3>1, <3>4, <4>1, Zenon
        <4> QED BY <1>a, <3>1, <3>2, <4>2, AfterType, Zenon
      <3>5. CASE e[q] # PLUS /\ e[q] # PCT
        <4>1. PICK c \in C : c = e[q]
          BY <3>2
        <4>2. B(g, q) = After(c, g[q + 1])
          BY <1>1, <2>4, <3>1, <3>5, <4>1, Zenon
        <4> QED BY <1>a, <3>1, <4>2, AfterType, Zenon
      <3> QED BY <3>3, <3>4, <3>5
    <2> QED BY <2>3, <2>4
  <1>9. PICK F : F = [g \in [D -> A] |-> [q \in D |-> B(g, q)]]
    OBVIOUS
  <1>10. Recursion(F, D, A, m, N)
    <2>1. F \in [[D -> A] -> [D -> A]]
      <3> HIDE DEF B
      <3> QED BY <1>8, <1>9, Zenon
    <2>2. ASSUME NEW g \in [D -> A], NEW q \in D PROVE F[g][q] = B(g, q)
      <3> HIDE DEF B
      <3> QED BY <1>9, Zenon
    <2>3. A # {}
      <3>1. PICK z : z = <<>> /\ z \in Seq(C)
        BY EmptySeq
      <3>2. [ok |-> TRUE, text |-> z] \in A
        BY <1>a, <3>1
      <3> QED BY <3>2
    <2> HIDE DEF B
    <2>4. ASSUME NEW g \in [D -> A], NEW h \in [D -> A], NEW q \in D,
                 \A y \in D : m[y] < m[q] => g[y] = h[y]
          PROVE  F[g][q] = F[h][q]
      <3>1. B(g, q) = B(h, q)
        BY <1>7, <2>4
      <3> QED BY <2>2, <3>1
    <2> QED BY <1>5, <2>1, <2>3, <2>4, Zenon DEF Recursion
  <1>11. PICK g \in [D -> A] : g = F[g]
    BY <1>10, RecursionDefines, SMT
  <1>12. g = [q \in D |-> B(g, q)]
    <2> HIDE DEF B
    <2> QED BY <1>9, <1>11, Zenon
  <1>13. PICK r : r = CHOOSE any : any = [q \in D |-> B(any, q)]
    OBVIOUS
  <1>14. r = [q \in D |-> B(r, q)]
    <2> HIDE DEF B
    <2> QED BY <1>12, <1>13, Zenon
  <1>15. UriDecode(e) = r[1]
    BY <1>1, <1>2, <1>13, Zenon DEF UriDecode, HexAt, After
  <1>16. r = g
    <2> HIDE DEF B
    <2>1. r = [q \in D |-> r[q]] /\ g = [q \in D |-> g[q]]
      BY <1>11, <1>14, Zenon
    <2>2. \A q \in D : (\A y \in D : m[y] < m[q] => r[y] = g[y]) => r[q] = g[q]
      BY <1>7, <1>12, <1>14
    <2>3. Agree(r, g, D, m)
      BY <2>1, <2>2, Zenon DEF Agree
    <2> QED BY <1>5, <2>3, RecursionUnique, SMT
  <1>17. Decodes(e, r)
    <2>1. r \in [1..(Len(e) + 3) -> DecodedType(e)]
      BY <1>1, <1>2, <1>3, <1>a, <1>11, <1>16, Zenon DEF DecodedType
    <2>2. ASSUME NEW i \in 1..(Len(e) + 3) PROVE r[i] = B(r, i)
      <3> HIDE DEF B
      <3> QED BY <1>1, <1>2, <1>14, Zenon
    <2>3. \A i \in 1..(Len(e) + 3) :
       r[i] = CASE i > Len(e) -> [ok |-> TRUE, text |-> <<>>]
                [] i <= Len(e) /\ e[i] = PCT ->
                     IF HexAt(e, i) = -1 THEN [ok |-> FALSE, text |-> <<>>]
                     ELSE After(HexAt(e, i), r[i + 3])
                [] i <= Len(e) /\ e[i] = PLUS -> After(SP, r[i + 1])
                [] OTHER -> After(e[i], r[i + 1])
      BY <1>1, <2>2, Zenon
    <2> QED BY <2>1, <2>3, Zenon DEF Decodes
  <1> QED BY <1>15, <1>17

(* The text p is one of the ways to write the character c in a form.       *)
Spells(p, c) ==
  \/ p = <<c>> /\ c \notin {PCT, PLUS}
  \/ p = <<PLUS>> /\ c = SP
  \/ p = CharToHex(c) /\ c \in 0..255

Decoded(t) == [ok |-> TRUE, text |-> t]

(* After, on a text decoded without an exception.                          *)
LEMMA AfterDecoded ==
  ASSUME NEW c, NEW t
  PROVE  After(c, Decoded(t)) = Decoded(<<c>> \o t)
  <1>1. PICK x : x = Decoded(t)
    OBVIOUS
  <1>2. PICK b : b = TRUE
    OBVIOUS
  <1>3. x = [ok |-> b, text |-> t]
    BY <1>1, <1>2, Zenon DEF Decoded
  <1>4. x.text = t
    BY <1>3
  <1>5. PICK u : u = <<c>> \o t
    OBVIOUS
  <1>6. After(c, x) = [x EXCEPT !.text = u]
    BY <1>4, <1>5, Zenon DEF After
  <1>7. [x EXCEPT !.text = u] = [ok |-> b, text |-> u]
    BY <1>3
  <1> QED BY <1>1, <1>2, <1>5, <1>6, <1>7, Zenon DEF Decoded

(* It has one character, or it has three that are written so.              *)
LEMMA SpellsIs ==
  ASSUME NEW c \in Nat, NEW p, Spells(p, c)
  PROVE  /\ p \in Seq(Nat)
         /\ \/ Len(p) = 1 /\ p[1] = c /\ c \notin {PCT, PLUS}
            \/ Len(p) = 1 /\ p[1] = PLUS /\ c = SP
            \/ /\ Len(p) = 3 /\ p[1] = PCT /\ c \in 0..255
               /\ p[2] = HexDigit(c \div 16) /\ p[3] = HexDigit(c % 16)
  <1>1. CASE p = <<c>> /\ c \notin {PCT, PLUS}
    <2>1. PICK x : x = <<c>>
      OBVIOUS
    <2>2. x \in Seq(Nat) /\ Len(x) = 1 /\ x[1] = c
      BY <2>1
    <2> QED BY <1>1, <2>1, <2>2, Zenon
  <1>2. CASE p = <<PLUS>> /\ c = SP
    <2>1. PICK x : x = <<PLUS>>
      OBVIOUS
    <2>2. x \in Seq(Nat) /\ Len(x) = 1 /\ x[1] = PLUS
      BY <2>1 DEF PLUS
    <2> QED BY <1>2, <2>1, <2>2, Zenon
  <1>3. CASE p = CharToHex(c) /\ c \in 0..255
    <2>1. c \div 16 \in 0..15 /\ c % 16 \in 0..15
      BY <1>3
    <2>2. PICK a \in Nat : a = HexDigit(c \div 16)
      BY <2>1, HexDigitIs
    <2>3. PICK b \in Nat : b = HexDigit(c % 16)
      BY <2>1, HexDigitIs
    <2>4. PICK y : y = PCT /\ y \in Nat
      BY DEF PCT
    <2>5. PICK x : x = <<y, a, b>>
      OBVIOUS
    <2>6. x \in Seq(Nat) /\ Len(x) = 3 /\ x[1] = y /\ x[2] = a /\ x[3] = b
      BY <2>4, <2>5
    <2>7. p = x
      BY <1>3, <2>2, <2>3, <2>4, <2>5, Zenon DEF CharToHex
    <2> QED BY <1>3, <2>2, <2>3, <2>4, <2>6, <2>7, Zenon
  <1> QED BY <1>1, <1>2, <1>3 DEF Spells

(* The text p stands in e from position i on.                              *)
StandsAt(p, e, i) ==
  /\ i \in Nat \ {0} /\ i + Len(p) <= Len(e) + 1
  /\ \A j \in 1..Len(p) : e[i - 1 + j] = p[j]

(* Where a character is spelled, UriDecode finds it and goes on behind.    *)
LEMMA DecodeStep ==
  ASSUME NEW e \in Seq(Nat), NEW r, Decodes(e, r), NEW c \in Nat, NEW p, Spells(p, c),
         NEW i, StandsAt(p, e, i), NEW t \in Seq(Nat), r[i + Len(p)] = Decoded(t)
  PROVE  r[i] = Decoded(<<c>> \o t)
  <1>0. /\ i \in Nat \ {0} /\ i + Len(p) <= Len(e) + 1
        /\ \A j \in 1..Len(p) : e[i - 1 + j] = p[j]
    BY DEF StandsAt
  <1>1. p \in Seq(Nat) /\ Len(p) \in Nat
    BY SpellsIs
  <1>2. PICK n \in Nat : n = Len(e) /\ \A k \in 1..n : e[k] \in Nat
    OBVIOUS
  <1>s. \/ Len(p) = 1 /\ p[1] = c /\ c \notin {PCT, PLUS}
        \/ Len(p) = 1 /\ p[1] = PLUS /\ c = SP
        \/ /\ Len(p) = 3 /\ p[1] = PCT /\ c \in 0..255
           /\ p[2] = HexDigit(c \div 16) /\ p[3] = HexDigit(c % 16)
    BY SpellsIs, Zenon
  <1>t. Len(p) = 1 \/ Len(p) = 3
    BY <1>s, Zenon
  <1>3. Len(p) # 0
    BY ONLY <1>t
  <1>4. i \in 1..(Len(e) + 3) /\ i <= Len(e) /\ ~(i > Len(e)) /\ 1 \in 1..Len(p) /\ i - 1 + 1 = i
    BY <1>0, <1>1, <1>2, <1>3
  <1>5. e[i] = p[1]
    BY <1>0, <1>4, Zenon
  <1>6. r[i] = CASE i > Len(e) -> [ok |-> TRUE, text |-> <<>>]
                [] i <= Len(e) /\ e[i] = PCT ->
                     IF HexAt(e, i) = -1 THEN [ok |-> FALSE, text |-> <<>>]
                     ELSE After(HexAt(e, i), r[i + 3])
                [] i <= Len(e) /\ e[i] = PLUS -> After(SP, r[i + 1])
                [] OTHER -> After(e[i], r[i + 1])
    BY <1>4, Zenon DEF Decodes
  <1>7. PCT # PLUS
    BY DEF PCT, PLUS
  <1>8. ASSUME NEW x, x = Decoded(t) PROVE After(c, x) = Decoded(<<c>> \o t)
    BY <1>8, AfterDecoded, Zenon
  <1>9. CASE Len(p) = 1 /\ p[1] = c /\ c \notin {PCT, PLUS}
    <2>1. r[i] = After(e[i], r[i + 1])
      BY <1>4, <1>5, <1>6, <1>9, Zenon
    <2> QED BY <1>5, <1>8, <1>9, <2>1, Zenon
  <1>10. CASE Len(p) = 1 /\ p[1] = PLUS /\ c = SP
    <2>1. r[i] = After(SP, r[i + 1])
      BY <1>4, <1>5, <1>6, <1>7, <1>10, Zenon
    <2> QED BY <1>8, <1>10, <2>1, Zenon
  <1>11. CASE /\ Len(p) = 3 /\ p[1] = PCT /\ c \in 0..255
              /\ p[2] = HexDigit(c \div 16) /\ p[3] = HexDigit(c % 16)
    <2>1. PICK a \in 0..15 : a = c \div 16
      BY <1>11
    <2>2. PICK b \in 0..15 : b = c % 16
      BY <1>11
    <2>3. 16 * a + b = c
      BY <1>11, <2>1, <2>2
    <2>4. PICK l \in Nat : l = i + 2 /\ l <= n
      BY <1>0, <1>2, <1>11
    <2>5. Least({i + 2, Len(e)}, Len(e)) = l
      <3>1. PICK L : L = {i + 2, Len(e)}
        OBVIOUS
      <3>2. L \in SUBSET Nat /\ l \in L /\ L = {l, n}
        BY <1>2, <2>4, <3>1
      <3>3. PICK x : x = Least(L, Len(e))
        OBVIOUS
      <3>4. x \in L /\ \A k \in L : x <= k
        BY <3>2, <3>3, LeastIs
      <3>5. x = l
        BY <2>4, <3>2, <3>4
      <3> QED BY <3>1, <3>3, <3>5, Zenon
    <2>6. PICK k \in Nat : k = i + 1 /\ 1 <= k /\ k <= l + 1 /\ l <= Len(e) /\ l + 1 - k = 2
      BY <1>0, <1>2, <2>4
    <2>7. PICK s : s = SubSeq(e, k, l)
      OBVIOUS
    <2>8. /\ s \in Seq(Nat) /\ Len(s) = l + 1 - k
          /\ \A j \in 1..(l + 1 - k) : s[j] = e[k + j - 1]
      <3>1. 1 <= k
        BY <2>6
      <3>2. k <= l + 1
        BY <2>6
      <3>3. l <= Len(e)
        BY <2>6
      <3>4. e \in Seq(Nat)
        OBVIOUS
      <3>5. /\ SubSeq(e, k, l) \in Seq(Nat) /\ Len(SubSeq(e, k, l)) = l + 1 - k
            /\ \A j \in 1..(l + 1 - k) : SubSeq(e, k, l)[j] = e[k + j - 1]
        BY ONLY k \in Nat, l \in Nat, <3>1, <3>2, <3>3, <3>4
      <3> QED BY ONLY <2>7, <3>5, Zenon
    <2>9. s[1] = e[i + 1] /\ s[2] = e[i + 2] /\ Len(s) = 2
      <3>1. /\ 1 \in 1..2 /\ 2 \in 1..2
            /\ k + 1 - 1 = i + 1 /\ k + 2 - 1 = i + 2
        BY ONLY <1>0, <2>6
      <3> QED BY <2>6, <2>8, <3>1, Zenon
    <2>10. e[i + 1] = p[2] /\ e[i + 2] = p[3]
      <3>1. 2 \in 1..Len(p) /\ 3 \in 1..Len(p) /\ i - 1 + 2 = i + 1 /\ i - 1 + 3 = i + 2
        BY <1>0, <1>11
      <3> QED BY <1>0, <3>1, Zenon
    <2>11. s = <<HexDigit(a), HexDigit(b)>>
      <3>1. s = <<s[1], s[2]>>
        <4>1. s \in Seq(Nat) /\ Len(s) = 2
          BY <2>8, <2>9, Zenon
        <4>2. PICK S : S = Nat /\ s \in Seq(S)
          BY <4>1
        <4> QED BY ONLY <4>1, <4>2
      <3> QED BY <1>11, <2>1, <2>2, <2>9, <2>10, <3>1, Zenon
    <2>12. HexToChar(s) = c
      BY <2>3, <2>11, HexToCharIs, Zenon
    <2>13. HexAt(e, i) = c
      BY <2>5, <2>6, <2>7, <2>12, Zenon DEF HexAt
    <2>14. HexAt(e, i) # -1
      BY <2>13
    <2>15. r[i] = After(HexAt(e, i), r[i + 3])
      BY <1>4, <1>5, <1>6, <1>7, <1>11, <2>14, Zenon
    <2> QED BY <1>8, <1>11, <2>13, <2>15, Zenon
  <1> QED BY <1>9, <1>10, <1>11, SpellsIs

(* The parts ss spell the text t, one character each.                      *)
SpellsAll(ss, t) ==
  /\ t \in Seq(Nat) /\ ss \in Seq(Seq(Nat)) /\ Len(ss) = Len(t)
  /\ \A k \in 1..Len(t) : Spells(ss[k], t[k])

(* UriDecode gives back what was spelled.                                  *)
LEMMA DecodeSpelled ==
  ASSUME NEW ss, NEW t, SpellsAll(ss, t)
  PROVE  UriDecode(FlattenSeq(ss)) = Decoded(t)
  <1>0. /\ t \in Seq(Nat) /\ ss \in Seq(Seq(Nat)) /\ Len(ss) = Len(t)
        /\ \A k \in 1..Len(t) : Spells(ss[k], t[k])
    BY DEF SpellsAll
  <1>1. PICK e \in Seq(Nat) : e = FlattenSeq(ss)
    BY <1>0, FlattenLays
  <1>2. PICK at : Laid(e, ss, at)
    BY <1>0, <1>1, FlattenLays
  <1>3. PICK n \in Nat : n = Len(t) /\ Len(ss) = n /\ \A k \in 1..n : t[k] \in Nat
    <2>1. Len(t) \in Nat /\ \A k \in 1..Len(t) : t[k] \in Nat
      BY <1>0
    <2> QED BY <1>0, <2>1, Zenon
  <1>4. PICK r : Decodes(e, r) /\ UriDecode(e) = r[1]
    BY UriDecodeIs
  <1>5. /\ at \in [0..n -> 0..Len(e)] /\ at[0] = 0 /\ at[n] = Len(e)
        /\ \A k \in 1..n : /\ at[k] = at[k - 1] + Len(ss[k])
                           /\ \A j \in 1..Len(ss[k]) : e[at[k - 1] + j] = ss[k][j]
    BY <1>2, <1>3, Zenon DEF Laid
  <1> DEFINE Good(d) == r[at[n - d] + 1] = Decoded(SubSeq(t, n - d + 1, n))
             Bad == {d \in Nat : d <= n /\ ~Good(d)}
  <1>6. Good(0)
    <2>1. n - 0 = n /\ Len(e) \in Nat /\ Len(e) + 1 > Len(e) /\ ~(Len(e) + 1 <= Len(e))
          /\ Len(e) + 1 \in 1..(Len(e) + 3)
      BY <1>3
    <2>2. PICK i : i = Len(e) + 1
      OBVIOUS
    <2>3. PICK z : z = <<>> /\ z \in Seq(Nat)
      BY EmptySeq
    <2>4. r[i] = Decoded(z)
      BY <1>4, <2>1, <2>2, <2>3, Zenon DEF Decodes, Decoded
    <2>5. SubSeq(t, n + 1, n) = z
      <3>1. PICK k \in Nat : k = n + 1 /\ 1 <= k /\ k <= n + 1 /\ n <= Len(t) /\ n + 1 - k = 0
        BY <1>3
      <3>2. SubSeq(t, k, n) \in Seq(Nat) /\ Len(SubSeq(t, k, n)) = 0
        BY <1>0, <1>3, <3>1, SubSeqIndex
      <3> QED BY <2>3, <3>1, <3>2, EmptySeq
    <2> QED BY <1>5, <2>1, <2>2, <2>4, <2>5, Zenon
  <1>7. ASSUME NEW d \in Nat, d < n, Good(d) PROVE Good(d + 1)
    <2>1. PICK k \in 1..n : k = n - d
      BY <1>3, <1>7
    <2>2. n - (d + 1) = k - 1 /\ n - (d + 1) + 1 = k /\ k - 1 \in 0..n /\ k \in 0..n
          /\ k \in Nat /\ k + 1 \in Nat /\ n \in Nat
      BY <1>3, <1>7, <2>1
    <2>3. r[at[k] + 1] = Decoded(SubSeq(t, k + 1, n))
      BY <1>7, <2>1, Zenon
    <2>4. PICK a \in 0..Len(e) : a = at[k - 1]
      BY <1>5, <2>2
    <2>5. PICK p : p = ss[k]
      OBVIOUS
    <2>6. PICK c \in Nat : c = t[k]
      BY <1>3, <2>1
    <2>7. Spells(p, c)
      BY <1>0, <1>3, <2>1, <2>5, <2>6, Zenon
    <2>8. Len(p) \in Nat
      BY <2>7, SpellsIs
    <2>9. /\ at[k] = a + Len(p) /\ at[k] \in 0..Len(e)
          /\ \A j \in 1..Len(p) : e[a + j] = p[j]
      BY <1>5, <2>1, <2>2, <2>4, <2>5, Zenon
    <2>10. PICK i \in Nat \ {0} : i = a + 1 /\ i - 1 = a
      BY <2>4
    <2>11. StandsAt(p, e, i)
      <3>1. i + Len(p) <= Len(e) + 1
        <4>1. PICK l, b : l = Len(p) /\ b = at[k]
          OBVIOUS
        <4>2. Len(e) \in Nat /\ l \in Nat /\ a \in Nat /\ b = a + l /\ b <= Len(e)
          BY <2>4, <2>8, <2>9, <4>1
        <4>3. i + l <= Len(e) + 1
          BY ONLY <2>10, <4>2
        <4> QED BY <4>1, <4>3
      <3> QED BY <2>9, <2>10, <3>1, Zenon DEF StandsAt
    <2>12. PICK u : u = SubSeq(t, k + 1, n)
      OBVIOUS
    <2>13. k + 1 <= n + 1 /\ 1 <= k + 1 /\ n <= Len(t) /\ k <= n + 1 /\ 1 <= k
      BY <1>3, <2>1
    <2>14. /\ u \in Seq(Nat) /\ Len(u) = n + 1 - (k + 1)
           /\ \A j \in 1..(n + 1 - (k + 1)) : u[j] = t[k + 1 + j - 1]
      <3>1. PICK m \in Nat : m = k + 1 /\ 1 <= m /\ m <= n + 1
        BY <2>2, <2>13
      <3>2. u = SubSeq(t, m, n)
        BY <2>12, <3>1
      <3>3. t \in Seq(Nat)
        BY <1>0
      <3>4. /\ u \in Seq(Nat) /\ Len(u) = n + 1 - m
            /\ \A j \in 1..(n + 1 - m) : u[j] = t[m + j - 1]
        BY ONLY <3>3, m \in Nat, n \in Nat, <2>13, <3>1, <3>2, SubSeqIndex
      <3> QED BY <3>1, <3>4, Zenon
    <2>15. i + Len(p) = at[k] + 1
      BY <2>4, <2>8, <2>9, <2>10
    <2>16. r[i] = Decoded(<<c>> \o u)
      <3>1. r[i + Len(p)] = Decoded(u) /\ Decodes(e, r)
        BY <1>4, <2>3, <2>12, <2>15, Zenon
      <3>2. u \in Seq(Nat)
        BY <2>14
      <3> QED BY ONLY e \in Seq(Nat), c \in Nat, <2>7, <2>11, <3>1, <3>2, DecodeStep, SMT
    <2>17. <<c>> \o u = SubSeq(t, k, n)
      <3>1. PICK x \in Seq(Nat) : x = <<c>> /\ Len(x) = 1 /\ x[1] = c
        <4>1. <<c>> \in Seq(Nat) /\ Len(<<c>>) = 1 /\ <<c>>[1] = c
          OBVIOUS
        <4> QED BY <4>1, Zenon
      <3>2. PICK y : y = x \o u
        OBVIOUS
      <3>3. /\ y \in Seq(Nat) /\ Len(y) = Len(x) + Len(u)
            /\ \A j \in 1..Len(x) : y[j] = x[j]
            /\ \A j \in 1..Len(u) : y[Len(x) + j] = u[j]
        BY <2>14, <3>2, ConcatIndex
      <3>4. PICK w : w = SubSeq(t, k, n)
        OBVIOUS
      <3>5. /\ w \in Seq(Nat) /\ Len(w) = n + 1 - k
            /\ \A j \in 1..(n + 1 - k) : w[j] = t[k + j - 1]
        <4>1. t \in Seq(Nat) /\ k \in Nat
          BY <1>0, <2>2
        <4> QED BY ONLY <4>1, n \in Nat, <2>13, <3>4, SubSeqIndex
      <3>6. Len(y) = Len(w)
        BY <2>1, <2>14, <3>1, <3>3, <3>5, <1>3
      <3>7. ASSUME NEW j \in 1..Len(y) PROVE y[j] = w[j]
        <4>1. j \in 1..(n + 1 - k)
          BY <3>5, <3>6
        <4>2. CASE j = 1
          <5>1. 1 \in 1..Len(x) /\ k + j - 1 = k
            BY <2>2, <3>1, <4>2
          <5> QED BY <2>6, <3>1, <3>3, <3>5, <4>1, <4>2, <5>1
        <4>3. CASE j # 1
          <5>1. PICK q : q = j - 1 /\ q \in 1..Len(u) /\ Len(x) + q = j /\ k + 1 + q - 1 = k + j - 1
            <6>1. Len(u) = n - k /\ Len(x) = 1 /\ k \in Nat /\ n \in Nat
              <7>1. Len(u) = n + 1 - (k + 1) /\ Len(x) = 1 /\ k \in Nat /\ n \in Nat
                BY ONLY <2>2, <2>14, <3>1, Zenon
              <7>2. n + 1 - (k + 1) = n - k
                BY ONLY k \in Nat, n \in Nat
              <7> QED BY ONLY <7>1, <7>2, Zenon
            <6>2. /\ j - 1 \in 1..Len(u) /\ Len(x) + (j - 1) = j
                  /\ k + 1 + (j - 1) - 1 = k + j - 1
              BY ONLY <4>1, <4>3, <6>1
            <6> QED BY <6>2, Zenon
          <5>2. y[j] = u[q]
            BY <3>3, <5>1, Zenon
          <5>3. u[q] = t[k + 1 + q - 1]
            BY <2>14, <5>1, Zenon
          <5> QED BY <3>5, <4>1, <5>1, <5>2, <5>3, Zenon
        <4> QED BY <4>2, <4>3
      <3>8. y = w
        BY <3>3, <3>5, <3>6, <3>7, SameSeq
      <3> QED BY <3>1, <3>2, <3>4, <3>8, Zenon
    <2> QED BY <2>2, <2>4, <2>10, <2>16, <2>17, Zenon
  <1>8. Good(n)
    <2> SUFFICES ASSUME ~Good(n) PROVE FALSE
      OBVIOUS
    <2>1. n \in Bad /\ Bad \in SUBSET Nat
      <3>1. n <= n
        BY <1>3
      <3> HIDE DEF Good
      <3> QED BY <3>1, Zenon
    <2>2. PICK d \in Bad : \A c \in Bad : d <= c
      <3> HIDE DEF Bad
      <3> QED BY <2>1, FirstIndex
    <2> HIDE DEF Good
    <2>3. d \in Nat /\ d <= n /\ ~Good(d)
      BY <2>2, Zenon
    <2>4. d # 0
      BY <1>6, <2>3, Zenon
    <2>5. d - 1 \in Nat /\ d - 1 < n /\ d - 1 <= n /\ d - 1 + 1 = d /\ ~(d <= d - 1)
      BY <1>3, <2>3, <2>4
    <2>6. Good(d - 1)
      BY <2>2, <2>5, Zenon
    <2>7. Good(d - 1 + 1)
      BY <1>7, <2>5, <2>6
    <2> QED BY <2>3, <2>5, <2>7, Zenon
  <1>9. n - n = 0 /\ 0 + 1 = 1
    BY <1>3
  <1>10. r[1] = Decoded(SubSeq(t, 1, n))
    BY <1>5, <1>8, <1>9, Zenon
  <1>11. SubSeq(t, 1, Len(t)) = t
    BY <1>0
  <1> QED BY <1>1, <1>3, <1>4, <1>10, <1>11, Zenon

-----------------------------------------------------------------------------
(* uri_lib.cc: decoding what was encoded.                                  *)

(* UriEncode spells every character of a text.                             *)
LEMMA EncodeSpells ==
  ASSUME NEW t \in Seq(Chars)
  PROVE  \E ss : SpellsAll(ss, t) /\ UriEncode(t) = FlattenSeq(ss)
  <1>0. PICK n \in Nat : n = Len(t) /\ DOMAIN t = 1..n /\ \A k \in 1..n : t[k] \in Chars
    OBVIOUS
  <1>1. Chars \subseteq Nat
    BY DEF Chars, WordCodes
  <1>2. t \in Seq(Nat)
    <2>1. \A k \in 1..n : t[k] \in Nat
      BY <1>0, <1>1, Zenon
    <2>2. t \in [1..n -> Nat]
      BY <1>0, <2>1
    <2> QED BY ONLY n \in Nat, <2>2
  <1>3. PICK ss : ss = [i \in DOMAIN t |-> IF Unreserved(t[i]) THEN <<t[i]>> ELSE CharToHex(t[i])]
    OBVIOUS
  <1>4. ASSUME NEW k \in 1..n PROVE Spells(ss[k], t[k]) /\ ss[k] \in Seq(Nat)
    <2>1. PICK c : c = t[k] /\ c \in Chars /\ c \in Nat
      BY <1>0, <1>1
    <2>2. ss[k] = IF Unreserved(c) THEN <<c>> ELSE CharToHex(c)
      BY <1>0, <1>3, <2>1, Zenon
    <2>3. CASE Unreserved(c)
      <3>1. c \notin {PCT, PLUS}
        <4>1. ~Unreserved(PCT) /\ ~Unreserved(PLUS)
          BY DEF Unreserved, Word, WordCodes, PCT, PLUS
        <4>2. c # PCT /\ c # PLUS
          BY <2>3, <4>1, Zenon
        <4> QED BY <4>2, Zenon
      <3>2. Spells(ss[k], c)
        BY <2>2, <2>3, <3>1, Zenon DEF Spells
      <3> QED BY <2>1, <3>2, SpellsIs
    <2>4. CASE ~Unreserved(c)
      <3>1. c \in 0..255
        BY <2>1, <2>4 DEF Unreserved, Word, WordCodes, Chars
      <3>2. Spells(ss[k], c)
        BY <2>2, <2>4, <3>1, Zenon DEF Spells
      <3> QED BY <2>1, <3>2, SpellsIs
    <2> QED BY <2>3, <2>4
  <1>5. ss \in Seq(Seq(Nat)) /\ Len(ss) = n
    <2>1. PICK A : A = Seq(Nat)
      OBVIOUS
    <2>2. ss = [k \in 1..n |-> ss[k]]
      BY <1>0, <1>3, Zenon
    <2>3. \A k \in 1..n : ss[k] \in A
      BY <1>4, <2>1, Zenon
    <2>4. ss \in [1..n -> A]
      BY <2>2, <2>3, Zenon
    <2>5. ss \in Seq(A) /\ Len(ss) = n
      BY ONLY n \in Nat, <2>4
    <2> QED BY <2>1, <2>5, Zenon
  <1>6. SpellsAll(ss, t)
    BY <1>0, <1>2, <1>4, <1>5, Zenon DEF SpellsAll
  <1>7. UriEncode(t) = FlattenSeq(ss)
    BY <1>3, Zenon DEF UriEncode
  <1> QED BY <1>6, <1>7

(* Every text of characters comes back from UriEncode and UriDecode.       *)
THEOREM DecodingInvertsEncoding == Spec => []CodingInverts
  <1>1. IInv => CodingInverts
    <2> SUFFICES ASSUME IInv, msg.coding # "text"
                 PROVE  UriDecode(UriEncode(msg.form.top \o msg.form.bottom))
                          = [ok |-> TRUE, text |-> msg.form.top \o msg.form.bottom]
      BY Zenon DEF CodingInverts
    <2>1. msg.form.top \in Seq(Chars) /\ msg.form.bottom \in Seq(Chars)
      BY TextAssumption, Zenon DEF IInv
    <2>2. PICK x \in Seq(Chars) : x = msg.form.top
      BY <2>1
    <2>3. PICK y \in Seq(Chars) : y = msg.form.bottom
      BY <2>1
    <2>4. PICK t \in Seq(Chars) : t = x \o y
      BY ConcatIndex
    <2>5. PICK ss : SpellsAll(ss, t) /\ UriEncode(t) = FlattenSeq(ss)
      BY EncodeSpells
    <2>6. UriDecode(UriEncode(t)) = Decoded(t)
      BY <2>5, DecodeSpelled, Zenon
    <2> QED BY <2>2, <2>3, <2>4, <2>6, Zenon DEF Decoded
  <1> QED BY <1>1, Invariance, PTL

-----------------------------------------------------------------------------
(* response.cc: the lines of a head.                                       *)

-----------------------------------------------------------------------------
(* The head of an answer.                                                  *)

(* A header line, name n and value v, stands in H behind p and ends at q.  *)
LineAt(H, p, q, n, v) ==
  /\ p \in Nat /\ q = p + Len(n) + Len(v) + 4
  /\ \A j \in 1..Len(n) : H[p + j] = n[j]
  /\ H[p + Len(n) + 1] = COLON /\ H[p + Len(n) + 2] = SP
  /\ \A j \in 1..Len(v) : H[p + Len(n) + 2 + j] = v[j]
  /\ H[q - 1] = CR /\ H[q] = LF

(* The names and the values of headers.                                    *)
Texts(n, v) == n \in Seq(Nat) /\ v \in Seq(Nat) /\ IsHeader(n, v)

(* H is a status line, up to b[0], and header lines: the k-th has the name *)
(* order[k], the value h has for it, and ends at b[k].                     *)
IsHead(H, b, order, h) ==
  /\ H \in Seq(Nat) /\ Len(order) \in Nat
  /\ b \in [0..Len(order) -> 1..Len(H)] /\ b[Len(order)] = Len(H)
  /\ 1 <= b[0] - 1 /\ H[b[0] - 1] = CR /\ H[b[0]] = LF
  /\ \A i \in 1..(b[0] - 2) : H[i] \notin {CR, LF}
  /\ \A k \in 1..Len(order) :
       /\ Texts(order[k], h[order[k]])
       /\ LineAt(H, b[k - 1], b[k], order[k], h[order[k]])

(* The only line break in a header line is at its end.                     *)
LEMMA LineBreaks ==
  ASSUME NEW H, NEW p, NEW q, NEW n, NEW v, LineAt(H, p, q, n, v), Texts(n, v),
         NEW i \in (p + 1)..q, H[i] \in {CR, LF}
  PROVE  (i = q /\ H[i] = LF) \/ (i = q - 1 /\ H[i] = CR)
  <1>1. /\ p \in Nat /\ Len(n) \in Nat /\ Len(v) \in Nat /\ q = p + Len(n) + Len(v) + 4
        /\ DOMAIN n = 1..Len(n) /\ DOMAIN v = 1..Len(v)
    BY DEF LineAt, Texts
  <1>2. ASSUME i <= p + Len(n) PROVE FALSE
    <2>1. PICK j \in 1..Len(n) : i = p + j
      <3>1. i - p \in 1..Len(n) /\ i = p + (i - p)
        BY <1>1, <1>2
      <3> QED BY <3>1
    <2>2. H[i] = n[j]
      BY <2>1, Zenon DEF LineAt
    <2>3. n[j] \notin {CR, LF}
      BY <1>1, <2>1, Zenon DEF Texts, IsHeader
    <2> QED BY <2>2, <2>3
  <1>3. COLON \notin {CR, LF} /\ SP \notin {CR, LF} /\ CR # LF
    BY DEF COLON, SP, CR, LF
  <1>4. i # p + Len(n) + 1 /\ i # p + Len(n) + 2
    BY <1>3, Zenon DEF LineAt
  <1>5. ASSUME i > p + Len(n) + 2, i < q - 1 PROVE FALSE
    <2>1. PICK j \in 1..Len(v) : i = p + Len(n) + 2 + j
      <3>1. /\ i - (p + Len(n) + 2) \in 1..Len(v)
            /\ i = p + Len(n) + 2 + (i - (p + Len(n) + 2))
        BY <1>1, <1>5
      <3> QED BY <3>1
    <2>2. H[i] = v[j]
      BY <2>1, Zenon DEF LineAt
    <2>3. v[j] \notin {CR, LF}
      BY <1>1, <2>1, Zenon DEF Texts, IsHeader, NoBreak
    <2> QED BY <2>2, <2>3
  <1>6. i = q - 1 \/ i = q
    BY <1>1, <1>2, <1>4, <1>5
  <1>7. H[q - 1] = CR /\ H[q] = LF
    BY DEF LineAt
  <1>8. CASE i = q - 1
    <2>1. H[i] = CR
      BY <1>7, <1>8
    <2> QED BY <1>8, <2>1, Zenon
  <1>9. CASE i = q
    <2>1. H[i] = LF
      BY <1>7, <1>9
    <2> QED BY <1>9, <2>1, Zenon
  <1> QED BY <1>6, <1>8, <1>9

(* Every position of the head is in a line of it.                          *)
LEMMA LineOf ==
  ASSUME NEW H, NEW b, NEW order, NEW h, IsHead(H, b, order, h), NEW i \in 1..Len(H)
  PROVE  i <= b[0] \/ \E k \in 1..Len(order) : i \in (b[k - 1] + 1)..b[k]
  <1>1. PICK m \in Nat : m = Len(order)
    BY DEF IsHead
  <1>2. b \in [0..m -> 1..Len(H)] /\ b[m] = Len(H) /\ H \in Seq(Nat)
    BY <1>1, Zenon DEF IsHead
  <1>3. Len(H) \in Nat
    BY <1>2
  <1>4. PICK K : K = {k \in 0..m : i <= b[k]}
    OBVIOUS
  <1>5. K \in SUBSET Nat /\ m \in K
    BY <1>1, <1>2, <1>3, <1>4
  <1>6. PICK k \in K : \A c \in K : k <= c
    BY <1>5, FirstIndex
  <1>7. k \in 0..m /\ i <= b[k]
    BY <1>4, <1>6
  <1>8. CASE k = 0
    BY <1>7, <1>8
  <1>9. CASE k # 0
    <2>1. k \in 1..m /\ k - 1 \in 0..m /\ ~(k <= k - 1)
      BY <1>1, <1>7, <1>9
    <2>2. ~(i <= b[k - 1])
      BY <1>4, <1>6, <2>1, Zenon
    <2>3. b[k - 1] \in Int /\ b[k] \in Int
      BY <1>2, <1>7, <2>1
    <2>4. i \in (b[k - 1] + 1)..b[k]
      BY <1>7, <2>2, <2>3
    <2> QED BY <1>1, <2>1, <2>4
  <1> QED BY <1>8, <1>9

(* Every line break of the head ends one of its lines.                     *)
LEMMA HeadBreaks ==
  ASSUME NEW H, NEW b, NEW order, NEW h, IsHead(H, b, order, h), NEW i \in 1..Len(H),
         H[i] \in {CR, LF}
  PROVE  \E k \in 0..Len(order) : (i = b[k] /\ H[i] = LF) \/ (i = b[k] - 1 /\ H[i] = CR)
  <1>1. PICK m \in Nat : m = Len(order)
    BY DEF IsHead
  <1>2. CASE i <= b[0]
    <2>1. /\ b \in [0..m -> 1..Len(H)] /\ 1 <= b[0] - 1 /\ H[b[0] - 1] = CR /\ H[b[0]] = LF
          /\ \A j \in 1..(b[0] - 2) : H[j] \notin {CR, LF}
      BY <1>1, Zenon DEF IsHead
    <2>2. 0 \in 0..m
      BY <1>1
    <2>3. PICK a \in Int : a = b[0]
      BY <2>1, <2>2
    <2>4. i \notin 1..(a - 2)
      BY <2>1, <2>3, Zenon
    <2>5. i = a \/ i = a - 1
      BY <1>2, <2>3, <2>4
    <2>6. H[a - 1] = CR /\ H[a] = LF
      BY <2>1, <2>3
    <2>7. (i = a /\ H[i] = LF) \/ (i = a - 1 /\ H[i] = CR)
      <3>1. CASE i = a
        <4>1. H[i] = LF
          BY <2>6, <3>1
        <4> QED BY <3>1, <4>1, Zenon
      <3>2. CASE i = a - 1
        <4>1. H[i] = CR
          BY <2>6, <3>2
        <4> QED BY <3>2, <4>1, Zenon
      <3> QED BY <2>5, <3>1, <3>2
    <2> QED BY <1>1, <2>2, <2>3, <2>7, Zenon
  <1>3. ASSUME NEW k \in 1..m, i \in (b[k - 1] + 1)..b[k]
        PROVE  \E l \in 0..m : (i = b[l] /\ H[i] = LF) \/ (i = b[l] - 1 /\ H[i] = CR)
    <2>1. /\ Texts(order[k], h[order[k]])
          /\ LineAt(H, b[k - 1], b[k], order[k], h[order[k]])
      BY <1>1, Zenon DEF IsHead
    <2>2. (i = b[k] /\ H[i] = LF) \/ (i = b[k] - 1 /\ H[i] = CR)
      <3>1. PICK p, q, n, v : p = b[k - 1] /\ q = b[k] /\ n = order[k] /\ v = h[order[k]]
        OBVIOUS
      <3>2. i \in (p + 1)..q /\ Texts(n, v) /\ LineAt(H, p, q, n, v)
        BY <1>3, <2>1, <3>1, Zenon
      <3>3. (i = q /\ H[i] = LF) \/ (i = q - 1 /\ H[i] = CR)
        BY ONLY <3>2, H[i] \in {CR, LF}, LineBreaks
      <3> QED BY <3>1, <3>3, Zenon
    <2>3. k \in 0..m
      BY <1>1
    <2> QED BY <2>2, <2>3, Zenon
  <1> QED BY <1>1, <1>2, <1>3, LineOf, Zenon

(* Behind a line of the head, but for the last, comes no line break.       *)
LEMMA LineBegins ==
  ASSUME NEW H, NEW b, NEW order, NEW h, IsHead(H, b, order, h),
         NEW k \in 0..Len(order), k # Len(order)
  PROVE  /\ b[k] \in Nat /\ b[k] + 4 <= Len(H)
         /\ H[b[k] + 1] \notin {CR, LF}
  <1>1. PICK m \in Nat : m = Len(order)
    BY DEF IsHead
  <1>2. k \in 0..m /\ k + 1 \in 1..m /\ k + 1 \in 0..m /\ (k + 1) - 1 = k
    BY <1>1
  <1>3. PICK l \in 1..m : l = k + 1
    BY <1>2
  <1>4. PICK n, v : n = order[l] /\ v = h[order[l]]
    OBVIOUS
  <1>5. Texts(n, v) /\ LineAt(H, b[k], b[l], n, v)
    <2>1. Texts(order[l], h[order[l]]) /\ LineAt(H, b[l - 1], b[l], order[l], h[order[l]])
      BY <1>1, <1>3, Zenon DEF IsHead
    <2>2. l - 1 = k
      BY <1>2, <1>3
    <2> QED BY <1>4, <2>1, <2>2, Zenon
  <1>6. b[l] \in 1..Len(H) /\ Len(H) \in Nat
    <2>1. b \in [0..m -> 1..Len(H)] /\ H \in Seq(Nat)
      BY <1>1, Zenon DEF IsHead
    <2>2. l \in 0..m
      BY <1>2, <1>3
    <2> QED BY <2>1, <2>2
  <1>7. b[k] \in Nat /\ Len(n) \in Nat /\ Len(v) \in Nat /\ b[l] = b[k] + Len(n) + Len(v) + 4
        /\ DOMAIN n = 1..Len(n)
    BY <1>5 DEF Texts, LineAt
  <1>8. b[k] + 4 <= Len(H)
    BY <1>6, <1>7
  <1>9. CASE Len(n) = 0
    <2>1. b[k] + Len(n) + 1 = b[k] + 1
      BY <1>7, <1>9
    <2>2. H[b[k] + 1] = COLON
      BY <1>5, <2>1, Zenon DEF LineAt
    <2>3. COLON \notin {CR, LF}
      BY DEF COLON, CR, LF
    <2> QED BY <1>7, <1>8, <2>2, <2>3, Zenon
  <1>10. CASE Len(n) # 0
    <2>1. 1 \in 1..Len(n)
      BY <1>7, <1>10
    <2>2. H[b[k] + 1] = n[1]
      BY <1>5, <2>1, Zenon DEF LineAt
    <2>3. n[1] \notin {CR, LF}
      BY <1>5, <1>7, <2>1, Zenon DEF Texts, IsHeader
    <2> QED BY <1>7, <1>8, <2>2, <2>3, Zenon
  <1> QED BY <1>9, <1>10

-----------------------------------------------------------------------------
(* The client: the first empty line, and the place of a header's name.     *)

(* Places are where a text stands.                                         *)
LEMMA PlacesIs ==
  ASSUME NEW t \in Seq(Nat), NEW s \in Seq(Nat)
  PROVE  /\ Places(t, s) \in SUBSET Nat
         /\ \A i : i \in Places(t, s) <=> StandsAt(t, s, i)
  <1>1. PICK l \in Nat : l = Len(t)
    OBVIOUS
  <1>2. PICK n \in Nat : n = Len(s)
    OBVIOUS
  <1>3. Places(t, s) = {i \in 1..(n + 1 - l) : SubSeq(s, i, i + l - 1) = t}
    BY <1>1, <1>2, Zenon DEF Places
  <1>4. ASSUME NEW i \in 1..(n + 1 - l)
        PROVE  /\ i \in Nat \ {0} /\ i + l <= n + 1
               /\ SubSeq(s, i, i + l - 1) = t <=> \A j \in 1..l : s[i - 1 + j] = t[j]
    <2>1. i \in Nat \ {0} /\ i + l <= n + 1
      BY <1>1, <1>2
    <2>2. PICK k \in Nat : k = i + l - 1 /\ 1 <= i /\ i <= k + 1 /\ k <= Len(s) /\ k + 1 - i = l
      <3>1. i + l - 1 \in Nat /\ 1 <= i /\ i <= i + l - 1 + 1 /\ i + l - 1 <= n /\ i + l - 1 + 1 - i = l
        BY <1>1, <1>2, <2>1
      <3> QED BY <1>2, <3>1
    <2>3. PICK u : u = SubSeq(s, i, k)
      OBVIOUS
    <2>4. i \in Nat /\ 1 <= i /\ i <= k + 1 /\ k <= Len(s)
      BY <2>1, <2>2
    <2>5. /\ u \in Seq(Nat) /\ Len(u) = k + 1 - i
          /\ \A j \in 1..(k + 1 - i) : u[j] = s[i + j - 1]
      BY ONLY s \in Seq(Nat), k \in Nat, <2>3, <2>4, SubSeqIndex
    <2>6. Len(u) = l /\ \A j \in 1..l : u[j] = s[i - 1 + j]
      <3>1. \A j \in 1..l : i + j - 1 = i - 1 + j
        BY <1>1, <2>1
      <3> QED BY <2>2, <2>5, <3>1, Zenon
    <2>7. u = t <=> \A j \in 1..l : s[i - 1 + j] = t[j]
      <3>1. ASSUME u = t PROVE \A j \in 1..l : s[i - 1 + j] = t[j]
        BY <2>6, <3>1, Zenon
      <3>2. ASSUME \A j \in 1..l : s[i - 1 + j] = t[j] PROVE u = t
        <4>1. \A j \in 1..l : u[j] = t[j]
          BY <2>6, <3>2, Zenon
        <4>2. u \in Seq(Nat) /\ Len(u) = Len(t) /\ \A j \in 1..Len(u) : u[j] = t[j]
          BY <1>1, <2>5, <2>6, <4>1, Zenon
        <4> QED BY ONLY t \in Seq(Nat), <4>2, SameSeq
      <3> QED BY <3>1, <3>2
    <2> QED BY <2>1, <2>2, <2>3, <2>7, Zenon
  <1>5. ASSUME NEW i, StandsAt(t, s, i) PROVE i \in 1..(n + 1 - l)
    BY <1>1, <1>2, <1>5 DEF StandsAt
  <1>6. \A i : i \in Places(t, s) <=> StandsAt(t, s, i)
    <2> TAKE i
    <2>1. ASSUME i \in Places(t, s) PROVE StandsAt(t, s, i)
      <3>1. i \in 1..(n + 1 - l) /\ SubSeq(s, i, i + l - 1) = t
        BY <1>3, <2>1, Zenon
      <3> QED BY <1>1, <1>2, <1>4, <3>1, Zenon DEF StandsAt
    <2>2. ASSUME StandsAt(t, s, i) PROVE i \in Places(t, s)
      <3>1. i \in 1..(n + 1 - l)
        BY <1>5, <2>2
      <3>2. \A j \in 1..l : s[i - 1 + j] = t[j]
        BY <1>1, <2>2, Zenon DEF StandsAt
      <3>3. SubSeq(s, i, i + l - 1) = t
        BY <1>4, <3>1, <3>2, Zenon
      <3> QED BY <1>3, <3>1, <3>3, Zenon
    <2> QED BY <2>1, <2>2
  <1>7. Places(t, s) \in SUBSET Nat
    BY <1>3
  <1> QED BY <1>6, <1>7

(* A is the head H, an empty line and a body.                              *)
IsAnswer(A, H, body) ==
  /\ A \in Seq(Nat) /\ H \in Seq(Nat) /\ body \in Seq(Nat)
  /\ Len(A) = Len(H) + 2 + Len(body)
  /\ \A i \in 1..Len(H) : A[i] = H[i]
  /\ A[Len(H) + 1] = CR /\ A[Len(H) + 2] = LF
  /\ \A j \in 1..Len(body) : A[Len(H) + 2 + j] = body[j]

(* The first empty line of an answer ends its head.                        *)
LEMMA HeadIs ==
  ASSUME NEW H, NEW b, NEW order, NEW h, IsHead(H, b, order, h),
         NEW A, NEW body, IsAnswer(A, H, body)
  PROVE  HeadOf(A) = H
  <1>1. /\ A \in Seq(Nat) /\ H \in Seq(Nat)
        /\ \A i \in 1..Len(H) : A[i] = H[i]
        /\ A[Len(H) + 1] = CR /\ A[Len(H) + 2] = LF
    BY DEF IsAnswer
  <1>2. PICK l \in Nat : l = Len(H)
    BY <1>1
  <1>3. Len(A) \in Nat /\ Len(A) >= l + 2
    <2>1. PICK x \in Nat : x = Len(body)
      BY DEF IsAnswer
    <2>2. Len(A) = l + 2 + x
      BY <1>2, <2>1, Zenon DEF IsAnswer
    <2> QED BY <2>2
  <1>4. PICK m \in Nat : m = Len(order)
    BY DEF IsHead
  <1>5. b \in [0..m -> 1..l] /\ b[m] = l /\ 1 <= b[0] - 1 /\ H[b[0] - 1] = CR /\ H[b[0]] = LF
    BY <1>2, <1>4, Zenon DEF IsHead
  <1>6. l >= 2 /\ H[l - 1] = CR /\ H[l] = LF
    <2>1. CASE m = 0
      <3>1. l - 1 = b[0] - 1 /\ l = b[0]
        BY <1>5, <2>1
      <3>2. l >= 2
        BY <1>5, <3>1
      <3> QED BY <1>5, <3>1, <3>2
    <2>2. CASE m # 0
      <3>1. m \in 1..m
        BY <2>2
      <3>2. PICK n, v : n = order[m] /\ v = h[order[m]]
        OBVIOUS
      <3>3. Texts(n, v) /\ LineAt(H, b[m - 1], b[m], n, v)
        BY <1>4, <3>1, <3>2, Zenon DEF IsHead
      <3>4. PICK p, x, y : p = b[m - 1] /\ x = Len(n) /\ y = Len(v)
        OBVIOUS
      <3>5. x \in Nat /\ y \in Nat
        BY <3>3, <3>4 DEF Texts
      <3>6. p \in Nat /\ l = p + x + y + 4 /\ H[l - 1] = CR /\ H[l] = LF
        BY <1>5, <3>3, <3>4, Zenon DEF LineAt
      <3>7. l >= 2
        BY ONLY <3>5, <3>6
      <3> QED BY <3>6, <3>7
    <2> QED BY <2>1, <2>2
  <1>7. PICK e \in Seq(Nat) : /\ e = <<CR, LF, CR, LF>> /\ Len(e) = 4
                              /\ e[1] = CR /\ e[2] = LF /\ e[3] = CR /\ e[4] = LF
    <2>1. PICK x, y : x = CR /\ y = LF /\ x \in Nat /\ y \in Nat
      BY DEF CR, LF
    <2>2. PICK e : e = <<x, y, x, y>>
      OBVIOUS
    <2>3. e \in Seq(Nat) /\ Len(e) = 4 /\ e[1] = x /\ e[2] = y /\ e[3] = x /\ e[4] = y
      BY <2>1, <2>2
    <2> QED BY <2>1, <2>2, <2>3, Zenon
  <1>8. l - 1 \in Places(e, A)
    <2>1. ASSUME NEW j \in 1..Len(e) PROVE A[l - 1 - 1 + j] = e[j]
      <3>1. j = 1 \/ j = 2 \/ j = 3 \/ j = 4
        BY <1>7
      <3>2. l - 1 - 1 + 1 = l - 1 /\ l - 1 - 1 + 2 = l /\ l - 1 - 1 + 3 = l + 1 /\ l - 1 - 1 + 4 = l + 2
        OBVIOUS
      <3>3. l - 1 \in 1..Len(H) /\ l \in 1..Len(H)
        BY <1>2, <1>6
      <3>4. A[l - 1] = CR /\ A[l] = LF /\ A[l + 1] = CR /\ A[l + 2] = LF
        BY <1>1, <1>2, <1>6, <3>3, Zenon
      <3> QED BY <1>7, <3>1, <3>2, <3>4, Zenon
    <2>2. l - 1 \in Nat \ {0} /\ l - 1 + Len(e) <= Len(A) + 1
      BY <1>3, <1>6, <1>7
    <2>3. StandsAt(e, A, l - 1)
      BY <2>1, <2>2, Zenon DEF StandsAt
    <2> QED BY <1>1, <2>3, PlacesIs
  <1>9. ASSUME NEW i \in Places(e, A) PROVE l - 1 <= i
    <2> SUFFICES ASSUME ~(l - 1 <= i) PROVE FALSE
      OBVIOUS
    <2>1. StandsAt(e, A, i)
      BY <1>1, PlacesIs
    <2>2. i \in Nat \ {0} /\ \A j \in 1..Len(e) : A[i - 1 + j] = e[j]
      BY <2>1, Zenon DEF StandsAt
    <2>3. 1 \in 1..Len(e) /\ 3 \in 1..Len(e) /\ i - 1 + 1 = i /\ i - 1 + 3 = i + 2
      BY <1>7, <2>2
    <2>4. A[i] = CR /\ A[i + 2] = CR
      BY <1>7, <2>2, <2>3, Zenon
    <2>5. i \in 1..Len(H) /\ i + 2 \in 1..Len(H)
      BY <1>2, <2>2
    <2>6. H[i] = CR /\ H[i + 2] = CR
      BY <1>1, <2>4, <2>5, Zenon
    <2>7. H[i] \in {CR, LF}
      BY <2>6
    <2>8. PICK k \in 0..m : (i = b[k] /\ H[i] = LF) \/ (i = b[k] - 1 /\ H[i] = CR)
      <3>1. \E k \in 0..Len(order) : (i = b[k] /\ H[i] = LF) \/ (i = b[k] - 1 /\ H[i] = CR)
        BY ONLY IsHead(H, b, order, h), <2>5, <2>7, HeadBreaks
      <3> QED BY <1>4, <3>1, Zenon
    <2>9. CR # LF
      BY DEF CR, LF
    <2>10. i = b[k] - 1
      BY <2>6, <2>8, <2>9, Zenon
    <2>11. k # m
      BY <1>5, <2>10
    <2>12. b[k] \in Nat /\ H[b[k] + 1] \notin {CR, LF}
      BY <1>4, <2>11, LineBegins, Zenon
    <2>13. b[k] + 1 = i + 2
      BY <2>10, <2>12
    <2> QED BY <2>6, <2>12, <2>13, Zenon
  <1>10. Least(Places(e, A), 0) = l - 1
    <2>1. PICK P : P = Places(e, A)
      OBVIOUS
    <2>2. P \in SUBSET Nat /\ l - 1 \in P /\ \A i \in P : l - 1 <= i
      BY <1>1, <1>8, <1>9, <2>1, PlacesIs, Zenon
    <2>3. PICK x : x = Least(P, 0)
      OBVIOUS
    <2>4. x \in P /\ \A k \in P : x <= k
      BY <2>2, <2>3, LeastIs
    <2>5. x = l - 1
      BY <2>2, <2>4
    <2> QED BY <2>1, <2>3, <2>5, Zenon
  <1>11. HeadOf(A) = SubSeq(A, 1, l)
    <2>1. l - 1 + 1 = l
      OBVIOUS
    <2> QED BY <1>7, <1>10, <2>1, Zenon DEF HeadOf
  <1>12. /\ SubSeq(A, 1, l) \in Seq(Nat) /\ Len(SubSeq(A, 1, l)) = l + 1 - 1
         /\ \A i \in 1..(l + 1 - 1) : SubSeq(A, 1, l)[i] = A[1 + i - 1]
    <2>1. 1 \in Nat /\ 1 <= 1 /\ 1 <= l + 1 /\ l <= Len(A)
      BY <1>3
    <2> QED BY ONLY <1>1, l \in Nat, <2>1, SubSeqIndex
  <1>13. PICK u : u = SubSeq(A, 1, l)
    OBVIOUS
  <1>14. u \in Seq(Nat) /\ Len(u) = Len(H) /\ \A i \in 1..Len(u) : u[i] = H[i]
    <2>1. l + 1 - 1 = l /\ \A i \in 1..l : 1 + i - 1 = i
      OBVIOUS
    <2> QED BY <1>1, <1>2, <1>12, <1>13, <2>1, Zenon
  <1>15. u = H
    BY <1>1, <1>14, SameSeq
  <1> QED BY <1>11, <1>13, <1>15, Zenon

(* The client finds the body behind it.                                    *)
LEMMA BodyIs ==
  ASSUME NEW A, NEW H, NEW body, IsAnswer(A, H, body), HeadOf(A) = H
  PROVE  ReadBody(A) = body
  <1>1. /\ A \in Seq(Nat) /\ H \in Seq(Nat) /\ body \in Seq(Nat)
        /\ Len(A) = Len(H) + 2 + Len(body)
        /\ \A j \in 1..Len(body) : A[Len(H) + 2 + j] = body[j]
    BY DEF IsAnswer
  <1>2. PICK l \in Nat : l = Len(H)
    BY <1>1
  <1>3. PICK x \in Nat : x = Len(body)
    BY <1>1
  <1>4. PICK n \in Nat : n = Len(A) /\ n = l + 2 + x
    BY <1>1, <1>2, <1>3
  <1>5. PICK k \in Nat : k = l + 3 /\ 1 <= k /\ k <= n + 1 /\ n <= Len(A) /\ n + 1 - k = x
    BY <1>2, <1>3, <1>4
  <1>6. ReadBody(A) = SubSeq(A, k, n)
    BY <1>2, <1>4, <1>5, Zenon DEF ReadBody
  <1>7. PICK u : u = SubSeq(A, k, n)
    OBVIOUS
  <1>8. 1 <= k /\ k <= n + 1 /\ n <= Len(A)
    BY <1>5
  <1>9. /\ u \in Seq(Nat) /\ Len(u) = n + 1 - k
        /\ \A i \in 1..(n + 1 - k) : u[i] = A[k + i - 1]
    <2>1. A \in Seq(Nat)
      BY <1>1
    <2> QED BY ONLY <2>1, k \in Nat, n \in Nat, <1>7, <1>8, SubSeqIndex
  <1>10. \A i \in 1..x : k + i - 1 = l + 2 + i
    BY <1>5
  <1>11. Len(u) = x /\ \A i \in 1..x : u[i] = body[i]
    <2>1. n + 1 - k = x
      BY <1>5
    <2>2. Len(u) = x /\ \A i \in 1..x : u[i] = A[k + i - 1]
      BY <1>9, <2>1, Zenon
    <2>3. \A i \in 1..x : A[l + 2 + i] = body[i]
      BY <1>1, <1>2, <1>3, Zenon
    <2> QED BY <1>10, <2>2, <2>3, Zenon
  <1>12. u = body
    <2>1. u \in Seq(Nat) /\ Len(u) = Len(body) /\ \A i \in 1..Len(u) : u[i] = body[i]
      BY <1>3, <1>9, <1>11, Zenon
    <2> QED BY ONLY <1>1, <2>1, SameSeq
  <1> QED BY <1>6, <1>7, <1>12, Zenon

(* What ReadHeader looks for.                                              *)
LEMMA PatternIs ==
  ASSUME NEW n \in Seq(Nat), NEW t, t = <<LF>> \o n \o <<COLON, SP>>
  PROVE  /\ t \in Seq(Nat) /\ Len(t) = Len(n) + 3 /\ t[1] = LF
         /\ \A j \in 1..Len(n) : t[1 + j] = n[j]
         /\ t[Len(n) + 2] = COLON /\ t[Len(n) + 3] = SP
  <1>1. PICK x \in Seq(Nat) : x = <<LF>> /\ Len(x) = 1 /\ x[1] = LF
    <2>1. PICK c : c = LF /\ c \in Nat
      BY DEF LF
    <2>2. PICK x : x = <<c>>
      OBVIOUS
    <2>3. x \in Seq(Nat) /\ Len(x) = 1 /\ x[1] = c
      BY <2>1, <2>2
    <2> QED BY <2>1, <2>2, <2>3, Zenon
  <1>2. PICK y \in Seq(Nat) : y = <<COLON, SP>> /\ Len(y) = 2 /\ y[1] = COLON /\ y[2] = SP
    <2>1. PICK c, d : c = COLON /\ d = SP /\ c \in Nat /\ d \in Nat
      BY DEF COLON, SP
    <2>2. PICK y : y = <<c, d>>
      OBVIOUS
    <2>3. y \in Seq(Nat) /\ Len(y) = 2 /\ y[1] = c /\ y[2] = d
      BY <2>1, <2>2
    <2> QED BY <2>1, <2>2, <2>3, Zenon
  <1>3. PICK w : w = x \o n
    OBVIOUS
  <1>4. /\ w \in Seq(Nat) /\ Len(w) = 1 + Len(n) /\ w[1] = LF
        /\ \A j \in 1..Len(n) : w[1 + j] = n[j]
    <2>1. /\ w \in Seq(Nat) /\ Len(w) = Len(x) + Len(n)
          /\ \A j \in 1..Len(x) : w[j] = x[j]
          /\ \A j \in 1..Len(n) : w[Len(x) + j] = n[j]
      BY <1>3, ConcatIndex
    <2>2. 1 \in 1..1
      OBVIOUS
    <2> QED BY <1>1, <2>1, <2>2, Zenon
  <1>5. t = w \o y
    BY <1>1, <1>2, <1>3, Zenon
  <1>6. /\ t \in Seq(Nat) /\ Len(t) = Len(w) + Len(y)
        /\ \A j \in 1..Len(w) : t[j] = w[j]
        /\ \A j \in 1..Len(y) : t[Len(w) + j] = y[j]
    <2>1. w \in Seq(Nat)
      BY <1>4
    <2> QED BY ONLY <2>1, y \in Seq(Nat), <1>5, ConcatIndex
  <1>7. PICK l \in Nat : l = Len(n)
    OBVIOUS
  <1>8. /\ Len(t) = (1 + l) + 2
        /\ \A j \in 1..(1 + l) : t[j] = w[j]
        /\ \A j \in 1..2 : t[(1 + l) + j] = y[j]
    BY <1>2, <1>4, <1>6, <1>7, Zenon
  <1>9. /\ (1 + l) + 2 = l + 3 /\ (1 + l) + 1 = l + 2 /\ 1 \in 1..(1 + l)
        /\ 1 \in 1..2 /\ 2 \in 1..2
        /\ \A j \in 1..l : 1 + j \in 1..(1 + l)
    BY ONLY l \in Nat
  <1>10. t[1] = LF /\ \A j \in 1..l : t[1 + j] = n[j]
    BY <1>4, <1>7, <1>8, <1>9, Zenon
  <1>11. t[l + 2] = COLON /\ t[l + 3] = SP
    BY <1>2, <1>8, <1>9, Zenon
  <1>12. Len(t) = l + 3
    BY <1>8, <1>9, Zenon
  <1> QED BY <1>6, <1>7, <1>10, <1>11, <1>12, Zenon

(* Each line of the head ends with a line feed.                            *)
LEMMA LineEnds ==
  ASSUME NEW H, NEW b, NEW order, NEW h, IsHead(H, b, order, h), NEW k \in 0..Len(order)
  PROVE  H[b[k]] = LF
  <1>1. PICK m \in Nat : m = Len(order)
    BY DEF IsHead
  <1>2. CASE k = 0
    BY <1>2, Zenon DEF IsHead
  <1>3. CASE k # 0
    <2>1. k \in 1..m
      BY <1>1, <1>3
    <2>2. LineAt(H, b[k - 1], b[k], order[k], h[order[k]])
      BY <1>1, <2>1, Zenon DEF IsHead
    <2> QED BY <2>2, Zenon DEF LineAt
  <1> QED BY <1>2, <1>3

(* The name of a line ends at its first colon.                             *)
LEMMA SameName ==
  ASSUME NEW H, NEW p, NEW q, NEW n, NEW v, LineAt(H, p, q, n, v), Texts(n, v),
         NEW s, NEW w, Texts(s, w),
         \A j \in 1..Len(s) : H[p + j] = s[j], H[p + Len(s) + 1] = COLON
  PROVE  s = n
  <1>1. /\ n \in Seq(Nat) /\ s \in Seq(Nat) /\ DOMAIN n = 1..Len(n) /\ DOMAIN s = 1..Len(s)
        /\ Len(n) \in Nat /\ Len(s) \in Nat
    BY DEF Texts
  <1>2. (\A i \in 1..Len(n) : n[i] # COLON) /\ (\A i \in 1..Len(s) : s[i] # COLON)
    BY <1>1, Zenon DEF Texts, IsHeader
  <1>3. /\ p \in Nat /\ H[p + Len(n) + 1] = COLON
        /\ \A j \in 1..Len(n) : H[p + j] = n[j]
    BY Zenon DEF LineAt
  <1>4. ~(Len(s) < Len(n))
    <2> SUFFICES ASSUME Len(s) < Len(n) PROVE FALSE
      OBVIOUS
    <2>1. PICK j \in 1..Len(n) : j = Len(s) + 1 /\ p + j = p + Len(s) + 1
      <3>1. Len(s) + 1 \in 1..Len(n) /\ p + (Len(s) + 1) = p + Len(s) + 1
        BY <1>1, <1>3
      <3> QED BY <3>1, Zenon
    <2>2. H[p + j] = COLON
      BY <2>1
    <2> QED BY <1>2, <1>3, <2>1, <2>2, Zenon
  <1>5. ~(Len(n) < Len(s))
    <2> SUFFICES ASSUME Len(n) < Len(s) PROVE FALSE
      OBVIOUS
    <2>1. PICK j \in 1..Len(s) : j = Len(n) + 1 /\ p + j = p + Len(n) + 1
      <3>1. Len(n) + 1 \in 1..Len(s) /\ p + (Len(n) + 1) = p + Len(n) + 1
        BY <1>1, <1>3
      <3> QED BY <3>1, Zenon
    <2>2. H[p + j] = COLON
      BY <1>3, <2>1, Zenon
    <2> QED BY <1>2, <2>1, <2>2, Zenon
  <1>6. Len(s) = Len(n)
    <2>1. Len(n) \in Nat /\ Len(s) \in Nat
      BY <1>1
    <2> QED BY ONLY <1>4, <1>5, <2>1
  <1>7. \A j \in 1..Len(s) : s[j] = n[j]
    BY <1>3, <1>6, Zenon
  <1> QED BY <1>1, <1>6, <1>7, SameSeq

(* No name has two lines.                                                  *)
Distinct(order) ==
  \A i \in 1..Len(order) : \A j \in 1..Len(order) : order[i] = order[j] => i = j

NamedAt(H, n, p) ==
  p \in Nat \ {0} /\ Places(<<LF>> \o n \o <<COLON, SP>>, H) = {p}

(* The one place where a name stands behind a line feed and before a colon *)
(* is at its own line.                                                     *)
LEMMA NamePlace ==
  ASSUME NEW H, NEW b, NEW order, NEW h, IsHead(H, b, order, h), Distinct(order),
         NEW k \in 1..Len(order)
  PROVE  NamedAt(H, order[k], b[k - 1])
  <1>1. PICK m \in Nat : m = Len(order)
    BY DEF IsHead
  <1>2. PICK n, v : n = order[k] /\ v = h[order[k]]
    OBVIOUS
  <1>3. PICK p, q : p = b[k - 1] /\ q = b[k]
    OBVIOUS
  <1>4. Texts(n, v) /\ LineAt(H, p, q, n, v)
    BY <1>2, <1>3, Zenon DEF IsHead
  <1>5. PICK t : t = <<LF>> \o n \o <<COLON, SP>>
    OBVIOUS
  <1>6. n \in Seq(Nat) /\ Len(n) \in Nat /\ Len(v) \in Nat /\ H \in Seq(Nat) /\ Len(H) \in Nat
    BY <1>4 DEF Texts, IsHead
  <1>7. PICK l \in Nat : l = Len(n)
    BY <1>6
  <1>8. /\ t \in Seq(Nat) /\ Len(t) = l + 3 /\ t[1] = LF
        /\ \A j \in 1..l : t[1 + j] = n[j]
        /\ t[l + 2] = COLON /\ t[l + 3] = SP
    BY <1>5, <1>6, <1>7, PatternIs, Zenon
  <1>9. b \in [0..m -> 1..Len(H)] /\ b[m] = Len(H)
    BY <1>1, Zenon DEF IsHead
  <1>10. k - 1 \in 0..m /\ k \in 0..m
    BY <1>1
  <1>11. p \in Nat \ {0} /\ q <= Len(H)
    BY <1>3, <1>6, <1>9, <1>10
  <1>12. /\ q = p + l + Len(v) + 4 /\ \A j \in 1..l : H[p + j] = n[j]
         /\ H[p + l + 1] = COLON /\ H[p + l + 2] = SP
    BY <1>4, <1>7, Zenon DEF LineAt
  <1>13. StandsAt(t, H, p)
    <2>1. p + Len(t) <= Len(H) + 1
      BY <1>6, <1>8, <1>11, <1>12
    <2>2. ASSUME NEW j \in 1..Len(t) PROVE H[p - 1 + j] = t[j]
      <3>1. CASE j = 1
        <4>1. p - 1 + j = p
          BY <1>11, <3>1
        <4>2. H[p] = LF
          BY <1>1, <1>3, <1>10, LineEnds, Zenon
        <4>3. t[j] = LF
          BY ONLY <1>8, <3>1, Zenon
        <4> QED BY ONLY <4>1, <4>2, <4>3, Zenon
      <3>2. CASE j \in 2..(l + 1)
        <4>1. PICK i \in 1..l : j = 1 + i /\ p - 1 + j = p + i
          <5>1. j - 1 \in 1..l /\ j = 1 + (j - 1) /\ p - 1 + j = p + (j - 1)
            BY <1>11, <3>2
          <5> QED BY <5>1, Zenon
        <4> QED BY <1>8, <1>12, <4>1, Zenon
      <3>3. CASE j = l + 2
        <4>1. p - 1 + j = p + l + 1
          BY <1>11, <3>3
        <4> QED BY <1>8, <1>12, <3>3, <4>1, Zenon
      <3>4. CASE j = l + 3
        <4>1. p - 1 + j = p + l + 2
          BY <1>11, <3>4
        <4> QED BY <1>8, <1>12, <3>4, <4>1, Zenon
      <3>5. j = 1 \/ j \in 2..(l + 1) \/ j = l + 2 \/ j = l + 3
        BY <1>8
      <3> QED BY <3>1, <3>2, <3>3, <3>4, <3>5
    <2> QED BY <1>11, <2>1, <2>2, Zenon DEF StandsAt
  <1>14. ASSUME NEW i, StandsAt(t, H, i) PROVE i = p
    <2>1. /\ i \in Nat \ {0} /\ i + Len(t) <= Len(H) + 1
          /\ \A j \in 1..Len(t) : H[i - 1 + j] = t[j]
      BY <1>14, Zenon DEF StandsAt
    <2>2. /\ 1 \in 1..Len(t) /\ i - 1 + 1 = i /\ i \in 1..Len(H) /\ i # Len(H)
          /\ l + 2 \in 1..Len(t) /\ i - 1 + (l + 2) = i + l + 1
      BY <1>6, <1>8, <2>1
    <2>3. H[i] = LF /\ H[i + l + 1] = COLON
      BY <1>8, <2>1, <2>2, Zenon
    <2>4. ASSUME NEW j \in 1..l PROVE H[i + j] = n[j]
      <3>1. 1 + j \in 1..Len(t) /\ i - 1 + (1 + j) = i + j
        BY <1>8, <2>1
      <3>2. H[i + j] = t[1 + j]
        BY <2>1, <3>1, Zenon
      <3> QED BY <1>8, <3>2, Zenon
    <2>5. H[i] \in {CR, LF} /\ CR # LF
      BY <2>3 DEF CR, LF
    <2>6. PICK c \in 0..m : i = b[c]
      <3>1. i \in 1..Len(H) /\ H[i] \in {CR, LF}
        BY <2>2, <2>5
      <3>2. \E c \in 0..Len(order) : (i = b[c] /\ H[i] = LF) \/ (i = b[c] - 1 /\ H[i] = CR)
        BY ONLY IsHead(H, b, order, h), <3>1, HeadBreaks
      <3> QED BY <1>1, <2>3, <2>5, <3>2, Zenon
    <2>7. c # m
      BY <1>9, <2>2, <2>6, Zenon
    <2>8. PICK d \in 1..m : d = c + 1 /\ d - 1 = c
      BY <1>1, <2>6, <2>7
    <2>9. PICK s, w : s = order[d] /\ w = h[order[d]]
      OBVIOUS
    <2>10. Texts(s, w) /\ LineAt(H, i, b[d], s, w)
      <3>1. Texts(order[d], h[order[d]]) /\ LineAt(H, b[d - 1], b[d], order[d], h[order[d]])
        BY <1>1, <2>8, Zenon DEF IsHead
      <3> QED BY <2>6, <2>8, <2>9, <3>1, Zenon
    <2>11. n = s
      <3>1. (\A j \in 1..Len(n) : H[i + j] = n[j]) /\ H[i + Len(n) + 1] = COLON
        BY <1>7, <2>3, <2>4, Zenon
      <3>2. Texts(n, v)
        BY <1>4
      <3> QED BY ONLY <2>10, <3>1, <3>2, SameName, SMT
    <2>12. d = k
      BY <1>1, <1>2, <2>8, <2>9, <2>11, Zenon DEF Distinct
    <2> QED BY <1>3, <2>6, <2>8, <2>12, Zenon
  <1>15. Places(t, H) = {p}
    <2>1. \A i : i \in Places(t, H) <=> StandsAt(t, H, i)
      BY <1>6, <1>8, PlacesIs
    <2> QED BY <1>13, <1>14, <2>1, Zenon
  <1> QED BY <1>2, <1>3, <1>5, <1>11, <1>15, Zenon DEF NamedAt

(* The client finds each header's value.                                   *)
LEMMA HeaderIs ==
  ASSUME NEW H, NEW b, NEW order, NEW h, IsHead(H, b, order, h), Distinct(order),
         NEW A, NEW body, IsAnswer(A, H, body), HeadOf(A) = H,
         NEW k \in 1..Len(order)
  PROVE  ReadHeader(A, order[k]) = h[order[k]]
  <1>1. PICK m \in Nat : m = Len(order)
    BY DEF IsHead
  <1>2. PICK n, v : n = order[k] /\ v = h[order[k]]
    OBVIOUS
  <1>3. PICK p, q : p = b[k - 1] /\ q = b[k]
    OBVIOUS
  <1>4. Texts(n, v) /\ LineAt(H, p, q, n, v)
    BY <1>2, <1>3, Zenon DEF IsHead
  <1>5. PICK l \in Nat : l = Len(n)
    BY <1>4 DEF Texts
  <1>6. PICK x \in Nat : x = Len(v) /\ v \in Seq(Nat) /\ DOMAIN v = 1..x
    BY <1>4 DEF Texts
  <1>7. p \in Nat \ {0} /\ Places(<<LF>> \o n \o <<COLON, SP>>, H) = {p}
    <2>1. NamedAt(H, order[k], b[k - 1])
      BY ONLY IsHead(H, b, order, h), Distinct(order), k \in 1..Len(order), NamePlace
    <2> QED BY <1>2, <1>3, <2>1, Zenon DEF NamedAt
  <1>8. /\ q = p + l + x + 4
        /\ \A j \in 1..x : H[p + l + 2 + j] = v[j]
        /\ H[q - 1] = CR
    BY <1>4, <1>5, <1>6, Zenon DEF LineAt
  <1>9. q \in 1..Len(H) /\ Len(H) \in Nat
    <2>1. b \in [0..m -> 1..Len(H)] /\ H \in Seq(Nat)
      BY <1>1, Zenon DEF IsHead
    <2>2. k \in 0..m
      BY <1>1
    <2> QED BY <1>3, <2>1, <2>2
  <1>10. /\ A \in Seq(Nat) /\ Len(A) \in Nat /\ Len(H) <= Len(A)
         /\ \A i \in 1..Len(H) : A[i] = H[i]
    <2>1. PICK y \in Nat : y = Len(body)
      BY DEF IsAnswer
    <2>2. Len(A) = Len(H) + 2 + y /\ A \in Seq(Nat) /\ \A i \in 1..Len(H) : A[i] = H[i]
      BY <2>1, Zenon DEF IsAnswer
    <2>3. Len(A) \in Nat /\ Len(H) <= Len(A)
      BY <1>9, <2>1, <2>2
    <2> QED BY <2>2, <2>3
  <1>11. Least({p}, 0) = p
    <2>1. PICK P : P = {p}
      OBVIOUS
    <2>2. PICK y : y = Least(P, 0)
      OBVIOUS
    <2>3. y \in P
      BY <1>7, <2>1, <2>2, LeastIs
    <2> QED BY <2>1, <2>2, <2>3, Zenon
  <1>12. PICK from \in Nat : from = p + l + 3
    BY <1>7
  <1>13. PICK to \in Nat : to = q - 2
    BY <1>7, <1>8
  <1>14. /\ 1 <= from /\ from <= to + 1 /\ to <= Len(A) /\ to + 1 - from = x
         /\ q - 1 = to + 1 /\ to + 1 \in from..Len(A) /\ to + 1 \in 1..Len(H)
         /\ \A i \in from..to : i \in 1..Len(H) /\ i - (p + l + 2) \in 1..x
                                /\ i = p + l + 2 + (i - (p + l + 2))
    <2>1. p \in Nat \ {0} /\ q = p + l + x + 4 /\ q <= Len(H) /\ Len(H) <= Len(A)
          /\ Len(H) \in Nat /\ Len(A) \in Nat
      BY <1>7, <1>8, <1>9, <1>10
    <2> QED BY ONLY <1>12, <1>13, <2>1, p \in Nat, l \in Nat, x \in Nat, from \in Nat, to \in Nat
  <1>15. A[to + 1] = CR
    BY <1>8, <1>10, <1>14, Zenon
  <1>16. \A i \in from..to : A[i] # CR
    <2> SUFFICES ASSUME NEW i \in from..to PROVE A[i] # CR
      OBVIOUS
    <2>1. PICK j \in 1..x : i = p + l + 2 + j
      BY <1>14, Zenon
    <2>2. A[i] = v[j]
      <3>1. A[i] = H[i]
        BY <1>10, <1>14, Zenon
      <3> QED BY <1>8, <2>1, <3>1, Zenon
    <2>3. v[j] \notin {CR, LF}
      BY <1>4, <1>6, <2>1, Zenon DEF Texts, IsHeader, NoBreak
    <2> QED BY <2>2, <2>3
  <1>17. RunEnd(A, from, LAMBDA c : c # CR) = to
    <2>1. PICK S : S = {i \in from..Len(A) : ~(A[i] # CR)}
      OBVIOUS
    <2>2. RunEnd(A, from, LAMBDA c : c # CR) = Least(S, Len(A) + 1) - 1
      BY <2>1, Zenon DEF RunEnd
    <2>3. S \in SUBSET Nat /\ to + 1 \in S
      <3>1. from..Len(A) \subseteq Nat
        BY <1>10
      <3> QED BY <1>14, <1>15, <2>1, <3>1, Zenon
    <2>4. \A i \in S : to + 1 <= i
      <3> SUFFICES ASSUME NEW i \in S, ~(to + 1 <= i) PROVE FALSE
        OBVIOUS
      <3>1. i \in from..Len(A) /\ A[i] = CR
        BY <2>1, Zenon
      <3>2. i \in from..to
        BY <1>10, <3>1
      <3> QED BY <1>16, <3>1, <3>2, Zenon
    <2>5. PICK y : y = Least(S, Len(A) + 1)
      OBVIOUS
    <2>6. y \in S /\ \A i \in S : y <= i
      BY <2>3, <2>5, LeastIs
    <2>7. y = to + 1
      BY <2>3, <2>4, <2>6
    <2>8. y - 1 = to
      BY <2>7
    <2> QED BY <2>2, <2>5, <2>8, Zenon
  <1>18. ReadHeader(A, n) = SubSeq(A, from, to)
    <2>1. PICK at : at = Least(Places(<<LF>> \o n \o <<COLON, SP>>, HeadOf(A)), 0)
      OBVIOUS
    <2>2. at = p
      BY <1>7, <1>11, <2>1, Zenon
    <2>3. PICK f : f = at + Len(n) + 3
      OBVIOUS
    <2>4. f = from /\ at # 0
      BY <1>5, <1>7, <1>12, <2>2, <2>3, Zenon
    <2>5. ReadHeader(A, n) = IF at = 0 THEN <<>>
                             ELSE SubSeq(A, f, RunEnd(A, f, LAMBDA c : c # CR))
      BY <2>1, <2>3, Zenon DEF ReadHeader
    <2> QED BY <1>17, <2>4, <2>5, Zenon
  <1>19. PICK u : u = SubSeq(A, from, to)
    OBVIOUS
  <1>20. /\ u \in Seq(Nat) /\ Len(u) = to + 1 - from
         /\ \A i \in 1..(to + 1 - from) : u[i] = A[from + i - 1]
    <2>1. A \in Seq(Nat) /\ 1 <= from /\ from <= to + 1 /\ to <= Len(A)
      BY <1>10, <1>14
    <2> QED BY ONLY <2>1, from \in Nat, to \in Nat, <1>19, SubSeqIndex
  <1>21. ASSUME NEW i \in 1..x PROVE u[i] = v[i]
    <2>1. from + i - 1 = p + l + 2 + i /\ from + i - 1 \in from..to
      <3>1. p \in Nat /\ to + 1 - from = x
        BY <1>7, <1>14
      <3> QED BY ONLY <1>12, <3>1, i \in 1..x, p \in Nat, l \in Nat, x \in Nat, to \in Nat
    <2>2. A[from + i - 1] = H[p + l + 2 + i]
      BY <1>10, <1>14, <2>1, Zenon
    <2> QED BY <1>8, <1>14, <1>20, <2>2, Zenon
  <1>22. u = v
    <2>1. v \in Seq(Nat) /\ u \in Seq(Nat) /\ Len(u) = Len(v) /\ \A i \in 1..Len(u) : u[i] = v[i]
      BY <1>6, <1>14, <1>20, <1>21, Zenon
    <2> QED BY ONLY <2>1, SameSeq
  <1> QED BY <1>2, <1>18, <1>19, <1>22, Zenon

-----------------------------------------------------------------------------
(* The text of a response.                                                 *)

(* A header line, by itself.                                               *)
LEMMA LineIs ==
  ASSUME NEW n \in Seq(Nat), NEW v \in Seq(Nat), NEW t,
         t = n \o <<COLON, SP>> \o v \o <<CR, LF>>
  PROVE  t \in Seq(Nat) /\ LineAt(t, 0, Len(t), n, v)
  <1>1. PICK y \in Seq(Nat) : y = <<COLON, SP>> /\ Len(y) = 2 /\ y[1] = COLON /\ y[2] = SP
    <2>1. PICK c, d : c = COLON /\ d = SP /\ c \in Nat /\ d \in Nat
      BY DEF COLON, SP
    <2>2. PICK y : y = <<c, d>>
      OBVIOUS
    <2>3. y \in Seq(Nat) /\ Len(y) = 2 /\ y[1] = c /\ y[2] = d
      BY <2>1, <2>2
    <2> QED BY <2>1, <2>2, <2>3, Zenon
  <1>2. PICK z \in Seq(Nat) : z = <<CR, LF>> /\ Len(z) = 2 /\ z[1] = CR /\ z[2] = LF
    <2>1. PICK c, d : c = CR /\ d = LF /\ c \in Nat /\ d \in Nat
      BY DEF CR, LF
    <2>2. PICK y1 : y1 = <<c, d>>
      OBVIOUS
    <2>3. y1 \in Seq(Nat) /\ Len(y1) = 2 /\ y1[1] = c /\ y1[2] = d
      BY <2>1, <2>2
    <2> QED BY <2>1, <2>2, <2>3, Zenon
  <1>3. PICK w : w = n \o y
    OBVIOUS
  <1>4. /\ w \in Seq(Nat) /\ Len(w) = Len(n) + Len(y)
        /\ \A j \in 1..Len(n) : w[j] = n[j]
        /\ \A j \in 1..Len(y) : w[Len(n) + j] = y[j]
    BY ONLY n \in Seq(Nat), y \in Seq(Nat), <1>3, ConcatIndex
  <1>5. w \in Seq(Nat)
    BY <1>4
  <1>6. PICK u : u = w \o v
    OBVIOUS
  <1>7. /\ u \in Seq(Nat) /\ Len(u) = Len(w) + Len(v)
        /\ \A j \in 1..Len(w) : u[j] = w[j]
        /\ \A j \in 1..Len(v) : u[Len(w) + j] = v[j]
    BY ONLY <1>5, v \in Seq(Nat), <1>6, ConcatIndex
  <1>8. u \in Seq(Nat)
    BY <1>7
  <1>9. t = u \o z
    BY <1>1, <1>2, <1>3, <1>6, Zenon
  <1>10. /\ t \in Seq(Nat) /\ Len(t) = Len(u) + Len(z)
         /\ \A j \in 1..Len(u) : t[j] = u[j]
         /\ \A j \in 1..Len(z) : t[Len(u) + j] = z[j]
    BY ONLY <1>8, z \in Seq(Nat), <1>9, ConcatIndex
  <1>11. PICK l \in Nat : l = Len(n)
    OBVIOUS
  <1>12. PICK x \in Nat : x = Len(v)
    OBVIOUS
  <1>13. Len(w) = l + 2 /\ Len(u) = (l + 2) + x /\ Len(t) = ((l + 2) + x) + 2
    BY <1>1, <1>2, <1>4, <1>7, <1>10, <1>11, <1>12, Zenon
  <1>14. /\ Len(t) = 0 + l + x + 4 /\ Len(t) - 1 = ((l + 2) + x) + 1
         /\ \A j \in 1..l : j \in 1..(l + 2) /\ j \in 1..((l + 2) + x) /\ 0 + j = j
         /\ 0 + l + 1 = l + 1 /\ 0 + l + 2 = l + 2
         /\ 1 \in 1..2 /\ 2 \in 1..2
         /\ l + 1 \in 1..(l + 2) /\ l + 2 \in 1..(l + 2)
         /\ l + 1 \in 1..((l + 2) + x) /\ l + 2 \in 1..((l + 2) + x)
         /\ \A j \in 1..x : (l + 2) + j \in 1..((l + 2) + x) /\ 0 + l + 2 + j = (l + 2) + j
    BY ONLY <1>13, l \in Nat, x \in Nat
  <1>15. \A j \in 1..l : t[0 + j] = n[j]
    <2> TAKE j \in 1..l
    <2>1. j \in 1..Len(w) /\ j \in 1..Len(u) /\ 0 + j = j /\ j \in 1..Len(n)
      BY <1>11, <1>13, <1>14, Zenon
    <2>2. t[j] = u[j] /\ u[j] = w[j] /\ w[j] = n[j]
      BY <1>4, <1>7, <1>10, <2>1, Zenon
    <2> QED BY <2>1, <2>2, Zenon
  <1>16. t[0 + l + 1] = COLON /\ t[0 + l + 2] = SP
    <2>1. w[l + 1] = COLON /\ w[l + 2] = SP
      BY <1>1, <1>4, <1>11, <1>14, Zenon
    <2> QED BY <1>7, <1>10, <1>13, <1>14, <2>1, Zenon
  <1>17. \A j \in 1..x : t[0 + l + 2 + j] = v[j]
    <2> TAKE j \in 1..x
    <2>1. Len(w) + j \in 1..Len(u) /\ 0 + l + 2 + j = Len(w) + j /\ j \in 1..Len(v)
      BY <1>12, <1>13, <1>14, Zenon
    <2>2. t[Len(w) + j] = u[Len(w) + j] /\ u[Len(w) + j] = v[j]
      BY <1>7, <1>10, <2>1, Zenon
    <2> QED BY <2>1, <2>2, Zenon
  <1>18. t[Len(t) - 1] = CR /\ t[Len(t)] = LF
    <2>1. t[((l + 2) + x) + 1] = CR /\ t[((l + 2) + x) + 2] = LF
      BY <1>2, <1>10, <1>13, <1>14, Zenon
    <2> QED BY <1>13, <1>14, <2>1, Zenon
  <1>19. 0 \in Nat
    OBVIOUS
  <1>20. LineAt(t, 0, Len(t), n, v)
    BY <1>11, <1>12, <1>14, <1>15, <1>16, <1>17, <1>18, <1>19, Zenon DEF LineAt
  <1> QED BY <1>10, <1>20

(* A line that is a part of the head stands there.                         *)
LEMMA LineMoves ==
  ASSUME NEW t \in Seq(Nat), NEW n \in Seq(Nat), NEW v \in Seq(Nat), LineAt(t, 0, Len(t), n, v),
         NEW H, NEW p \in Nat, NEW q, q = p + Len(t), \A j \in 1..Len(t) : H[p + j] = t[j]
  PROVE  LineAt(H, p, q, n, v)
  <1>1. PICK l \in Nat : l = Len(n)
    OBVIOUS
  <1>2. PICK x \in Nat : x = Len(v)
    OBVIOUS
  <1>3. PICK y \in Nat : y = Len(t)
    OBVIOUS
  <1>4. /\ y = 0 + l + x + 4
        /\ \A j \in 1..l : t[0 + j] = n[j]
        /\ t[0 + l + 1] = COLON /\ t[0 + l + 2] = SP
        /\ \A j \in 1..x : t[0 + l + 2 + j] = v[j]
        /\ t[y - 1] = CR /\ t[y] = LF
    BY <1>1, <1>2, <1>3, Zenon DEF LineAt
  <1>5. /\ q = p + l + x + 4 /\ q - 1 = p + (y - 1) /\ q = p + y
        /\ y - 1 \in 1..y /\ y \in 1..y
        /\ \A j \in 1..l : j \in 1..y /\ 0 + j = j
        /\ 0 + l + 1 = l + 1 /\ 0 + l + 2 = l + 2
        /\ l + 1 \in 1..y /\ l + 2 \in 1..y
        /\ p + l + 1 = p + (l + 1) /\ p + l + 2 = p + (l + 2)
        /\ \A j \in 1..x : /\ l + 2 + j \in 1..y /\ 0 + l + 2 + j = l + 2 + j
                           /\ p + l + 2 + j = p + (l + 2 + j)
    <2>1. y = 0 + l + x + 4 /\ q = p + y
      BY <1>3, <1>4
    <2> QED BY ONLY <2>1, p \in Nat, l \in Nat, x \in Nat, y \in Nat
  <1>6. \A j \in 1..y : H[p + j] = t[j]
    BY <1>3
  <1>7. H[q - 1] = CR /\ H[q] = LF
    BY <1>4, <1>5, <1>6, Zenon
  <1>8. \A j \in 1..l : H[p + j] = n[j]
    BY <1>4, <1>5, <1>6, Zenon
  <1>9. H[p + l + 1] = COLON /\ H[p + l + 2] = SP
    <2>1. t[l + 1] = COLON /\ t[l + 2] = SP
      BY <1>4, <1>5, Zenon
    <2>2. H[p + (l + 1)] = t[l + 1] /\ H[p + (l + 2)] = t[l + 2]
      BY <1>5, <1>6, Zenon
    <2> QED BY <1>5, <2>1, <2>2, Zenon
  <1>10. \A j \in 1..x : H[p + l + 2 + j] = v[j]
    <2> TAKE j \in 1..x
    <2>1. t[l + 2 + j] = v[j]
      BY <1>4, <1>5, Zenon
    <2>2. H[p + (l + 2 + j)] = t[l + 2 + j]
      BY <1>5, <1>6, Zenon
    <2> QED BY <1>5, <2>1, <2>2, Zenon
  <1> QED BY <1>1, <1>2, <1>5, <1>7, <1>8, <1>9, <1>10, Zenon DEF LineAt

-----------------------------------------------------------------------------
(* response.cc: the text of a response.                                    *)

(* A status line: no line break but at its end, the code third.            *)
IsStatus(s, code) ==
  /\ s \in Seq(Nat) /\ Len(s) \in Nat /\ 6 <= Len(s) /\ s[3] = 1000 + code
  /\ s[Len(s) - 1] = CR /\ s[Len(s)] = LF
  /\ \A i \in 1..(Len(s) - 2) : s[i] \notin {CR, LF}

(* The code's first line is one, whether or not it has a word for the code. *)
LEMMA StatusTextIs ==
  ASSUME NEW code \in Nat
  PROVE  IsStatus(StatusText(code), code)
  <1>0. PICK s : s = StatusText(code)
    OBVIOUS
  <1>1. PICK c \in Nat : c = 1000 + code
    OBVIOUS
  <1>2. PICK x : x = <<HTTP, SP, c, SP>>
    OBVIOUS
  <1>3. /\ x \in Seq(Nat) /\ Len(x) = 4 /\ x[3] = c
        /\ \A i \in 1..4 : x[i] \notin {CR, LF}
    <2>1. PICK p, q : p = HTTP /\ q = SP /\ p \in Nat /\ q \in Nat /\ p \notin {CR, LF} /\ q \notin {CR, LF}
      BY DEF HTTP, SP, CR, LF
    <2>2. x = <<p, q, c, q>>
      BY <1>2, <2>1, Zenon
    <2>3. x \in Seq(Nat) /\ Len(x) = 4 /\ x[1] = p /\ x[2] = q /\ x[3] = c /\ x[4] = q
      BY <2>1, <2>2
    <2>4. c \notin {CR, LF}
      BY <1>1 DEF CR, LF
    <2>5. \A i \in 1..4 : i = 1 \/ i = 2 \/ i = 3 \/ i = 4
      OBVIOUS
    <2> QED BY <2>1, <2>3, <2>4, <2>5, Zenon
  <1>4. PICK y \in Seq(Nat) : /\ y = StatusWord(code) /\ Len(y) \in Nat
                              /\ \A i \in 1..Len(y) : y[i] \notin {CR, LF}
    <2>1. CASE code \in {200, 201, 303, 400, 404, 405, 500}
      <3>1. PICK d \in Nat : d = 2000 + code
        OBVIOUS
      <3>2. PICK y : y = <<d>>
        OBVIOUS
      <3>3. y = StatusWord(code)
        BY <2>1, <3>1, <3>2 DEF StatusWord
      <3>4. y \in Seq(Nat) /\ Len(y) = 1 /\ y[1] = d
        BY <3>2
      <3>5. d \notin {CR, LF}
        BY <3>1 DEF CR, LF
      <3>6. \A i \in 1..1 : i = 1
        OBVIOUS
      <3>7. 1 \in Nat
        OBVIOUS
      <3> QED BY <3>3, <3>4, <3>5, <3>6, <3>7, Zenon
    <2>2. CASE code \notin {200, 201, 303, 400, 404, 405, 500}
      <3>1. PICK y : y = <<>> /\ y \in Seq(Nat) /\ Len(y) = 0
        BY EmptySeq
      <3>2. y = StatusWord(code)
        BY <2>2, <3>1 DEF StatusWord
      <3>3. \A i \in 1..0 : FALSE
        OBVIOUS
      <3>4. 0 \in Nat
        OBVIOUS
      <3> QED BY <3>1, <3>2, <3>3, <3>4, Zenon
    <2> QED BY <2>1, <2>2
  <1>5. PICK z \in Seq(Nat) : z = <<CR, LF>> /\ Len(z) = 2 /\ z[1] = CR /\ z[2] = LF
    <2>1. PICK e, d : e = CR /\ d = LF /\ e \in Nat /\ d \in Nat
      BY DEF CR, LF
    <2>2. PICK z : z = <<e, d>>
      OBVIOUS
    <2>3. z \in Seq(Nat) /\ Len(z) = 2 /\ z[1] = e /\ z[2] = d
      BY <2>1, <2>2
    <2> QED BY <2>1, <2>2, <2>3, Zenon
  <1>6. PICK w : w = x \o y
    OBVIOUS
  <1>7. x \in Seq(Nat)
    BY <1>3
  <1>8. /\ w \in Seq(Nat) /\ Len(w) = Len(x) + Len(y)
        /\ \A j \in 1..Len(x) : w[j] = x[j]
        /\ \A j \in 1..Len(y) : w[Len(x) + j] = y[j]
    BY ONLY <1>7, y \in Seq(Nat), <1>6, ConcatIndex
  <1>9. w \in Seq(Nat)
    BY <1>8
  <1>10. s = w \o z
    BY <1>0, <1>1, <1>2, <1>4, <1>5, <1>6 DEF StatusText
  <1>11. /\ s \in Seq(Nat) /\ Len(s) = Len(w) + Len(z)
         /\ \A j \in 1..Len(w) : s[j] = w[j]
         /\ \A j \in 1..Len(z) : s[Len(w) + j] = z[j]
    BY ONLY <1>9, z \in Seq(Nat), <1>10, ConcatIndex
  <1>12. PICK l \in Nat : l = Len(y)
    BY <1>4
  <1>13. Len(w) = 4 + l /\ Len(s) = (4 + l) + 2
    BY <1>3, <1>5, <1>8, <1>11, <1>12, Zenon
  <1>14. /\ Len(s) \in Nat /\ 6 <= Len(s) /\ Len(s) - 1 = (4 + l) + 1 /\ Len(s) - 2 = 4 + l
         /\ 3 \in 1..4 /\ 3 \in 1..(4 + l) /\ 1 \in 1..2 /\ 2 \in 1..2
    BY ONLY <1>13, l \in Nat
  <1>15. s[3] = c
    BY <1>3, <1>8, <1>11, <1>13, <1>14, Zenon
  <1>16. s[Len(s) - 1] = CR /\ s[Len(s)] = LF
    <2>1. s[(4 + l) + 1] = CR /\ s[(4 + l) + 2] = LF
      BY <1>5, <1>11, <1>13, <1>14, Zenon
    <2> QED BY <1>13, <1>14, <2>1, Zenon
  <1>17. ASSUME NEW i \in 1..(4 + l) PROVE s[i] \notin {CR, LF}
    <2>1. s[i] = w[i]
      BY <1>11, <1>13, Zenon
    <2>2. CASE i \in 1..4
      BY <1>3, <1>8, <2>1, <2>2, Zenon
    <2>3. CASE i \notin 1..4
      <3>1. PICK j \in 1..l : i = 4 + j
        <4>1. i - 4 \in 1..l /\ i = 4 + (i - 4)
          BY ONLY i \in 1..(4 + l), l \in Nat, <2>3
        <4> QED BY <4>1, Zenon
      <3>2. w[i] = y[j]
        BY <1>3, <1>8, <1>12, <3>1, Zenon
      <3> QED BY <1>4, <1>12, <2>1, <3>1, <3>2, Zenon
    <2> QED BY <2>2, <2>3
  <1>18. \A i \in 1..(Len(s) - 2) : s[i] \notin {CR, LF}
    BY <1>14, <1>17
  <1> QED BY <1>0, <1>1, <1>11, <1>14, <1>15, <1>16, <1>18 DEF IsStatus

(* Every order in which an unordered_map is walked has each of its names   *)
(* once.                                                                   *)
LEMMA OrderIs ==
  ASSUME NEW S, IsFiniteSet(S), NEW order \in SetToSeqs(S)
  PROVE  /\ order \in Seq(S) /\ Distinct(order)
         /\ \A n \in S : \E k \in 1..Len(order) : order[k] = n
  <1>1. PICK m \in Nat : m = Cardinality(S)
    BY FS_CardinalityType
  <1>2. order \in [1..m -> S] /\ \A i, j \in 1..m : i # j => order[i] # order[j]
    BY <1>1, Zenon DEF SetToSeqs
  <1>3. order \in Seq(S) /\ Len(order) = m
    BY ONLY m \in Nat, <1>2
  <1>4. Distinct(order)
    BY <1>2, <1>3, Zenon DEF Distinct
  <1>5. PICK T : T = {order[i] : i \in 1..m}
    OBVIOUS
  <1>6. T \subseteq S
    BY <1>2, <1>5
  <1>7. IsFiniteSet(1..m) /\ Cardinality(1..m) = m
    <2>1. 1 \in Int /\ m \in Int
      OBVIOUS
    <2>2. IsFiniteSet(1..m) /\ Cardinality(1..m) = IF 1 > m THEN 0 ELSE m - 1 + 1
      BY <2>1, FS_Interval
    <2>3. (IF 1 > m THEN 0 ELSE m - 1 + 1) = m
      BY ONLY m \in Nat
    <2> QED BY <2>2, <2>3
  <1>8. IsFiniteSet(T) /\ Cardinality(T) = m
    <2>1. order \in Bijection(1..m, T)
      <3>1. order \in [1..m -> T]
        BY <1>2, <1>5
      <3>2. \A i, j \in 1..m : order[i] = order[j] => i = j
        BY <1>2
      <3>3. \A t \in T : \E i \in 1..m : order[i] = t
        BY <1>5
      <3>4. DOMAIN order = 1..m
        BY <1>2
      <3>5. order \in Injection(1..m, T)
        BY <3>1, <3>2, <3>4, Zenon DEF Injection, IsInjective
      <3>6. order \in Surjection(1..m, T)
        BY <3>1, <3>3, Zenon DEF Surjection
      <3> QED BY <3>5, <3>6, Zenon DEF Bijection
    <2>2. ExistsBijection(1..m, T)
      BY <2>1, Zenon DEF ExistsBijection
    <2>3. IsFiniteSet(T) /\ Cardinality(1..m) = Cardinality(T)
      BY <1>7, <2>2, FS_Bijection
    <2> QED BY <1>7, <2>3
  <1>9. T = S
    BY <1>1, <1>6, <1>8, FS_Subset
  <1> QED BY <1>3, <1>4, <1>5, <1>9, Zenon

(* A response as the server builds it: a code, a body and headers.         *)
IsResponse(r, code, body, h) ==
  /\ r = [code |-> code, body |-> body, headers |-> h]
  /\ code \in Nat /\ body \in Seq(Nat) /\ IsFiniteSet(DOMAIN h)
  /\ \A n \in DOMAIN h : Texts(n, h[n])

(* Its text is a head with a line for each header, an empty line and the   *)
(* body.                                                                   *)
LEMMA ResponseTextIs ==
  ASSUME NEW r, NEW code, NEW body, NEW h, IsResponse(r, code, body, h),
         NEW order \in SetToSeqs(DOMAIN h), NEW A, A = ResponseText(r, order)
  PROVE  /\ A[3] = 1000 + code
         /\ \E H, b : IsHead(H, b, order, h) /\ IsAnswer(A, H, body)
  <1>1. /\ code \in Nat /\ body \in Seq(Nat) /\ IsFiniteSet(DOMAIN h)
        /\ \A n \in DOMAIN h : Texts(n, h[n])
        /\ r.code = code /\ r.body = body /\ r.headers = h
    BY DEF IsResponse
  <1>2. order \in Seq(DOMAIN h)
    BY <1>1, OrderIs
  <1>3. PICK m \in Nat : m = Len(order) /\ DOMAIN order = 1..m /\ \A k \in 1..m : order[k] \in DOMAIN h
    BY <1>2
  <1>4. PICK s : s = StatusText(code)
    OBVIOUS
  <1>5. /\ s \in Seq(Nat) /\ Len(s) \in Nat /\ 6 <= Len(s) /\ s[3] = 1000 + code
        /\ s[Len(s) - 1] = CR /\ s[Len(s)] = LF
        /\ \A i \in 1..(Len(s) - 2) : s[i] \notin {CR, LF}
    <2>1. code \in Nat
      BY <1>1
    <2>2. IsStatus(StatusText(code), code)
      BY ONLY <2>1, StatusTextIs
    <2>3. IsStatus(s, code)
      BY <1>4, <2>2, Zenon
    <2> QED BY ONLY <2>3 DEF IsStatus
  <1>6. PICK z \in Seq(Nat) : z = <<CR, LF>> /\ Len(z) = 2 /\ z[1] = CR /\ z[2] = LF
    <2>1. PICK e, d : e = CR /\ d = LF /\ e \in Nat /\ d \in Nat
      BY DEF CR, LF
    <2>2. PICK z : z = <<e, d>>
      OBVIOUS
    <2>3. z \in Seq(Nat) /\ Len(z) = 2 /\ z[1] = e /\ z[2] = d
      BY <2>1, <2>2
    <2> QED BY <2>1, <2>2, <2>3, Zenon
  <1>7. PICK ls : ls = [i \in DOMAIN order |->
                          order[i] \o <<COLON, SP>> \o h[order[i]] \o <<CR, LF>>]
    OBVIOUS
  <1>8. ASSUME NEW k \in 1..m
        PROVE  /\ ls[k] \in Seq(Nat) /\ Texts(order[k], h[order[k]])
               /\ LineAt(ls[k], 0, Len(ls[k]), order[k], h[order[k]])
    <2>1. PICK n, v : n = order[k] /\ v = h[order[k]]
      OBVIOUS
    <2>2. Texts(n, v)
      BY <1>1, <1>3, <2>1, Zenon
    <2>3. n \in Seq(Nat) /\ v \in Seq(Nat)
      BY <2>2 DEF Texts
    <2>4. PICK t : t = n \o <<COLON, SP>> \o v \o <<CR, LF>>
      OBVIOUS
    <2>5. t \in Seq(Nat) /\ LineAt(t, 0, Len(t), n, v)
      BY <2>3, <2>4, LineIs, Zenon
    <2>6. ls[k] = t
      BY <1>3, <1>7, <2>1, <2>4, Zenon
    <2> QED BY <2>1, <2>2, <2>5, <2>6, Zenon
  <1>9. ls \in Seq(Seq(Nat)) /\ Len(ls) = m
    <2>1. PICK N : N = Seq(Nat)
      OBVIOUS
    <2>2. ls = [k \in 1..m |-> ls[k]]
      BY <1>3, <1>7, Zenon
    <2>3. ls \in [1..m -> N]
      BY <1>8, <2>1, <2>2, Zenon
    <2>4. ls \in Seq(N) /\ Len(ls) = m
      BY ONLY m \in Nat, <2>3
    <2> QED BY <2>1, <2>4, Zenon
  <1>10. PICK f \in Seq(Nat) : f = FlattenSeq(ls)
    BY <1>9, FlattenLays
  <1>11. PICK at : Laid(f, ls, at)
    BY <1>9, <1>10, FlattenLays
  <1>12. /\ at \in [0..m -> 0..Len(f)] /\ at[0] = 0 /\ at[m] = Len(f)
         /\ \A k \in 1..m : /\ at[k] = at[k - 1] + Len(ls[k])
                            /\ \A j \in 1..Len(ls[k]) : f[at[k - 1] + j] = ls[k][j]
    BY <1>9, <1>11, Zenon DEF Laid
  <1>13. A = s \o (f \o z) \o body
    <2>1. HeaderLines(r.headers, order) = f \o z
      BY <1>1, <1>6, <1>7, <1>10, Zenon DEF HeaderLines
    <2> QED BY <1>1, <1>4, <2>1, Zenon DEF ResponseText
  <1>14. PICK H : H = s \o f
    OBVIOUS
  <1>15. PICK x \in Nat : x = Len(s)
    BY <1>5
  <1>16. PICK y \in Nat : y = Len(f)
    OBVIOUS
  <1>17. s \in Seq(Nat)
    BY <1>5
  <1>18. /\ H \in Seq(Nat) /\ Len(H) = x + y
         /\ \A i \in 1..x : H[i] = s[i]
         /\ \A i \in 1..y : H[x + i] = f[i]
    <2>1. /\ H \in Seq(Nat) /\ Len(H) = Len(s) + Len(f)
          /\ \A i \in 1..Len(s) : H[i] = s[i]
          /\ \A i \in 1..Len(f) : H[Len(s) + i] = f[i]
      BY ONLY <1>17, f \in Seq(Nat), <1>14, ConcatIndex
    <2> QED BY <1>15, <1>16, <2>1, Zenon
  <1>19. IsAnswer(A, H, body) /\ A[3] = 1000 + code
    <2>1. PICK fz : fz = f \o z
      OBVIOUS
    <2>2. /\ fz \in Seq(Nat) /\ Len(fz) = Len(f) + Len(z)
          /\ \A i \in 1..Len(f) : fz[i] = f[i]
          /\ \A i \in 1..Len(z) : fz[Len(f) + i] = z[i]
      BY ONLY f \in Seq(Nat), z \in Seq(Nat), <2>1, ConcatIndex
    <2>3. fz \in Seq(Nat) /\ Len(fz) = y + 2
      BY <1>6, <1>16, <2>2, Zenon
    <2>4. PICK sf : sf = s \o fz
      OBVIOUS
    <2>5. /\ sf \in Seq(Nat) /\ Len(sf) = Len(s) + Len(fz)
          /\ \A i \in 1..Len(s) : sf[i] = s[i]
          /\ \A i \in 1..Len(fz) : sf[Len(s) + i] = fz[i]
      <3>1. fz \in Seq(Nat)
        BY <2>3
      <3> QED BY ONLY <1>17, <3>1, <2>4, ConcatIndex
    <2>6. sf \in Seq(Nat) /\ Len(sf) = x + (y + 2) /\ body \in Seq(Nat)
      BY <1>1, <1>15, <2>3, <2>5, Zenon
    <2>7. A = sf \o body
      BY <1>13, <2>1, <2>4, Zenon
    <2>8. /\ A \in Seq(Nat) /\ Len(A) = Len(sf) + Len(body)
          /\ \A i \in 1..Len(sf) : A[i] = sf[i]
          /\ \A i \in 1..Len(body) : A[Len(sf) + i] = body[i]
      <3>1. sf \in Seq(Nat)
        BY <2>6
      <3>2. body \in Seq(Nat)
        BY <2>6
      <3> QED BY ONLY <3>1, <3>2, <2>7, ConcatIndex
    <2>9. PICK l \in Nat : l = Len(body)
      BY <1>1
    <2>10. /\ (x + y) + 2 = x + (y + 2) /\ (x + y) + 1 = x + (y + 1)
           /\ x + (y + 1) \in 1..(x + (y + 2)) /\ x + (y + 2) \in 1..(x + (y + 2))
           /\ y + 1 \in 1..(y + 2) /\ y + 2 \in 1..(y + 2) /\ 1 \in 1..2 /\ 2 \in 1..2
           /\ \A i \in 1..x : i \in 1..(x + (y + 2))
           /\ \A i \in 1..y : x + i \in 1..(x + (y + 2)) /\ i \in 1..(y + 2)
      BY ONLY x \in Nat, y \in Nat
    <2>11. A[(x + y) + 1] = CR /\ A[(x + y) + 2] = LF
      <3>1. fz[y + 1] = CR /\ fz[y + 2] = LF
        BY <1>6, <1>16, <2>2, <2>10, Zenon
      <3>2. sf[x + (y + 1)] = CR /\ sf[x + (y + 2)] = LF
        BY <1>15, <2>3, <2>5, <2>10, <3>1, Zenon
      <3> QED BY <2>6, <2>8, <2>10, <3>2, Zenon
    <2>12. \A j \in 1..l : A[(x + y) + 2 + j] = body[j]
      BY <2>6, <2>8, <2>9, <2>10, Zenon
    <2>13. Len(A) = (x + y) + 2 + l
      BY <2>6, <2>8, <2>9, <2>10, Zenon
    <2>14. \A i \in 1..x : A[i] = s[i]
      BY <1>15, <2>5, <2>6, <2>8, <2>10, Zenon
    <2>15. \A i \in 1..y : A[x + i] = f[i]
      <3> TAKE i \in 1..y
      <3>1. A[x + i] = sf[x + i]
        BY <2>6, <2>8, <2>10, Zenon
      <3>2. sf[x + i] = fz[i]
        BY <1>15, <2>3, <2>5, <2>10, Zenon
      <3> QED BY <1>16, <2>2, <3>1, <3>2, Zenon
    <2>16. \A i \in 1..(x + y) : A[i] = H[i]
      <3> TAKE i \in 1..(x + y)
      <3>1. CASE i \in 1..x
        BY <1>18, <2>14, <3>1, Zenon
      <3>2. CASE i \notin 1..x
        <4>1. i - x \in 1..y /\ x + (i - x) = i
          BY ONLY i \in 1..(x + y), x \in Nat, y \in Nat, <3>2
        <4> QED BY <1>18, <2>15, <4>1, Zenon
      <3> QED BY <3>1, <3>2
    <2>17. A[3] = 1000 + code
      <3>1. 3 \in 1..x
        BY <1>5, <1>15
      <3> QED BY <1>5, <2>14, <3>1
    <2>18. A \in Seq(Nat)
      BY <2>8
    <2>19. IsAnswer(A, H, body)
      BY <1>1, <1>18, <2>9, <2>11, <2>12, <2>13, <2>16, <2>18, Zenon DEF IsAnswer
    <2> QED BY <2>17, <2>19
  <1>20. PICK b : b = [k \in 0..m |-> x + at[k]]
    OBVIOUS
  <1>21. b \in [0..m -> 1..Len(H)] /\ b[m] = Len(H) /\ b[0] = x
    <2>1. ASSUME NEW k \in 0..m PROVE x + at[k] \in 1..Len(H)
      <3>1. PICK a \in 0..y : a = at[k]
        BY <1>12, <1>16
      <3>2. 6 <= x
        BY <1>5, <1>15
      <3>3. x + a \in 1..(x + y)
        BY ONLY <3>2, a \in 0..y, x \in Nat, y \in Nat
      <3> QED BY <1>18, <3>1, <3>3, Zenon
    <2>2. 0 \in 0..m /\ m \in 0..m /\ x + 0 = x
      OBVIOUS
    <2>3. b[m] = x + y /\ b[0] = x + 0
      BY <1>12, <1>16, <1>20, <2>2, Zenon
    <2>4. b \in [0..m -> 1..Len(H)]
      BY <1>20, <2>1, Zenon
    <2> QED BY <1>18, <2>2, <2>3, <2>4, Zenon
  <1>22. ASSUME NEW k \in 1..m
         PROVE  LineAt(H, b[k - 1], b[k], order[k], h[order[k]])
    <2>1. k - 1 \in 0..m /\ k \in 0..m
      OBVIOUS
    <2>2. PICK a \in 0..y : a = at[k - 1]
      BY <1>12, <1>16, <2>1
    <2>3. PICK t \in Seq(Nat) : t = ls[k]
      BY <1>8
    <2>4. PICK l \in Nat : l = Len(t)
      OBVIOUS
    <2>5. PICK c \in 0..y : c = at[k]
      BY <1>12, <1>16, <2>1
    <2>6. c = a + l /\ \A j \in 1..l : f[a + j] = t[j]
      BY <1>12, <2>2, <2>3, <2>4, <2>5, Zenon
    <2>7. PICK p \in Nat : p = x + a
      OBVIOUS
    <2>8. b[k - 1] = p /\ b[k] = x + c
      BY <1>20, <2>1, <2>2, <2>5, <2>7, Zenon
    <2>9. b[k] = p + l
      BY <2>5, <2>6, <2>7, <2>8
    <2>10. ASSUME NEW j \in 1..l PROVE H[p + j] = t[j]
      <3>1. a + j \in 1..y /\ p + j = x + (a + j)
        BY ONLY a \in 0..y, j \in 1..l, l \in Nat, x \in Nat, y \in Nat, c \in 0..y, <2>6, <2>7
      <3> QED BY <1>18, <2>6, <3>1, Zenon
    <2>11. PICK n, v : n = order[k] /\ v = h[order[k]]
      OBVIOUS
    <2>12. n \in Seq(Nat) /\ v \in Seq(Nat) /\ LineAt(t, 0, Len(t), n, v)
      BY <1>8, <2>3, <2>11 DEF Texts
    <2>13. PICK q : q = b[k]
      OBVIOUS
    <2>14. q = p + Len(t) /\ \A j \in 1..Len(t) : H[p + j] = t[j]
      BY <2>4, <2>9, <2>10, <2>13, Zenon
    <2>15. LineAt(H, p, q, n, v)
      BY ONLY t \in Seq(Nat), p \in Nat, <2>12, <2>14, LineMoves
    <2> QED BY <2>8, <2>11, <2>13, <2>15, Zenon
  <1>23. IsHead(H, b, order, h)
    <2>1. 1 <= x - 1 /\ x - 1 \in 1..x /\ x \in 1..x /\ \A i \in 1..(x - 2) : i \in 1..x
      BY <1>5, <1>15
    <2>2. H[x - 1] = CR /\ H[x] = LF
      <3>1. s[x - 1] = CR /\ s[x] = LF
        BY ONLY <1>5, <1>15, Zenon
      <3>2. x - 1 \in 1..x /\ x \in 1..x
        BY <2>1
      <3> QED BY ONLY <1>18, <3>1, <3>2, Zenon
    <2>3. \A i \in 1..(x - 2) : H[i] \notin {CR, LF}
      <3>1. \A i \in 1..(x - 2) : s[i] \notin {CR, LF}
        BY ONLY <1>5, <1>15, Zenon
      <3>2. \A i \in 1..(x - 2) : i \in 1..x
        BY <2>1
      <3> QED BY ONLY <1>18, <3>1, <3>2, Zenon
    <2> QED BY <1>3, <1>8, <1>18, <1>21, <1>22, <2>1, <2>2, <2>3, Zenon DEF IsHead
  <1> QED BY <1>19, <1>23

(* What the client reads in it is the response, whatever the order.        *)
LEMMA ResponseIsRead ==
  ASSUME NEW r, NEW code, NEW body, NEW h, IsResponse(r, code, body, h),
         NEW order \in SetToSeqs(DOMAIN h), NEW A, A = ResponseText(r, order)
  PROVE  /\ A[3] = 1000 + code /\ ReadBody(A) = body
         /\ \A n \in DOMAIN h : ReadHeader(A, n) = h[n]
  <1>1. A[3] = 1000 + code
    BY ResponseTextIs
  <1>2. PICK H, b : IsHead(H, b, order, h) /\ IsAnswer(A, H, body)
    BY ONLY IsResponse(r, code, body, h), order \in SetToSeqs(DOMAIN h),
            A = ResponseText(r, order), ResponseTextIs
  <1>3. HeadOf(A) = H
    BY <1>2, HeadIs, Zenon
  <1>4. ReadBody(A) = body
    BY <1>2, <1>3, BodyIs, Zenon
  <1>5. IsFiniteSet(DOMAIN h)
    BY DEF IsResponse
  <1>6. Distinct(order) /\ \A n \in DOMAIN h : \E k \in 1..Len(order) : order[k] = n
    BY <1>5, OrderIs
  <1>7. ASSUME NEW n \in DOMAIN h PROVE ReadHeader(A, n) = h[n]
    <2>1. PICK k \in 1..Len(order) : order[k] = n
      BY <1>6
    <2>2. ReadHeader(A, order[k]) = h[order[k]]
      BY ONLY <1>2, <1>3, <1>6, k \in 1..Len(order), HeaderIs
    <2> QED BY <2>1, <2>2, Zenon
  <1> QED BY <1>1, <1>4, <1>7

-----------------------------------------------------------------------------
(* response.cc: set_header, call by call.                                  *)

(* Headers a response may hold, and calls of set_header that keep it so.    *)
IsHeaders(h) ==
  /\ h = [n \in DOMAIN h |-> h[n]] /\ IsFiniteSet(DOMAIN h)
  /\ \A n \in DOMAIN h : Texts(n, h[n])
HeaderMaps ==
  {h \in UNION {[D -> Seq(Nat)] : D \in SUBSET Seq(Nat)} : IsHeaders(h)}
HeaderCalls == {p \in Seq(Nat) \X Seq(Nat) : Texts(p[1], p[2])}

(* All such headers are in the one set.                                     *)
LEMMA HeaderMapsHold ==
  ASSUME NEW h, IsHeaders(h)
  PROVE  h \in HeaderMaps
  <1>1. PICK N : N = Seq(Nat)
    OBVIOUS
  <1>2. \A n \in DOMAIN h : n \in N /\ h[n] \in N
    BY <1>1, Zenon DEF IsHeaders, Texts
  <1>3. PICK D : D = DOMAIN h
    OBVIOUS
  <1>4. D \in SUBSET N
    BY <1>2, <1>3
  <1>5. h = [n \in D |-> h[n]]
    BY <1>3, Zenon DEF IsHeaders
  <1>6. h \in [D -> N]
    BY <1>2, <1>3, <1>5, Zenon
  <1>7. h \in UNION {[C -> N] : C \in SUBSET N}
    BY <1>4, <1>6, Zenon
  <1> QED BY <1>1, <1>7, Zenon DEF HeaderMaps

(* g is h but for the value that the call p sets.                           *)
HasSet(g, h, p) ==
  /\ DOMAIN g = DOMAIN h \cup {p[1]} /\ g[p[1]] = p[2]
  /\ \A n \in DOMAIN h : n # p[1] => g[n] = h[n]

(* set_header sets one value and leaves such headers.                       *)
LEMMA SetHeaderIs ==
  ASSUME NEW h, IsHeaders(h), NEW p, Texts(p[1], p[2]), NEW g, g = SetHeader(h, p)
  PROVE  IsHeaders(g) /\ HasSet(g, h, p)
  <1>1. PICK x, y : x = p[1] /\ y = p[2]
    OBVIOUS
  <1>2. PICK D : D = DOMAIN h \cup {x}
    OBVIOUS
  <1>3. g = [n \in D |-> IF n = x THEN y ELSE h[n]]
    BY <1>1, <1>2, Zenon DEF SetHeader
  <1>4. DOMAIN g = D /\ g = [n \in DOMAIN g |-> g[n]]
    BY <1>3, Zenon
  <1>5. x \in D /\ g[x] = y
    BY <1>2, <1>3, Zenon
  <1>6. \A n \in DOMAIN h : n # x => g[n] = h[n]
    BY <1>2, <1>3, Zenon
  <1>7. IsFiniteSet(D)
    BY <1>2, FS_AddElement DEF IsHeaders
  <1>8. \A n \in D : Texts(n, g[n])
    <2> TAKE n \in D
    <2>1. CASE n = x
      BY <1>1, <1>5, <2>1, Zenon
    <2>2. CASE n # x
      BY <1>2, <1>6, <2>2, Zenon DEF IsHeaders
    <2> QED BY <2>1, <2>2
  <1>9. IsHeaders(g)
    BY <1>4, <1>7, <1>8, Zenon DEF IsHeaders
  <1> QED BY <1>1, <1>2, <1>4, <1>5, <1>6, <1>9, Zenon DEF HasSet

(* The calls of set_header, one after the other.                            *)
SetTrace(st, w, q) ==
  /\ st[0] = w
  /\ \A k \in 0..Len(q) : IsHeaders(st[k])
  /\ \A k \in 1..Len(q) : st[k] = SetHeader(st[k - 1], q[k])
  /\ FoldLeft(SetHeader, w, q) = st[Len(q)]

(* Every sequence of calls goes through such headers.                       *)
LEMMA SetHeaderFold ==
  ASSUME NEW w, IsHeaders(w), NEW q \in Seq(HeaderCalls)
  PROVE  \E st : SetTrace(st, w, q)
  <1>0. PICK W : W = HeaderMaps
    OBVIOUS
  <1>1. PICK B : B = HeaderCalls
    OBVIOUS
  <1>2. PICK G : G = [p \in W \X B |-> SetHeader(p[1], p[2])]
    OBVIOUS
  <1>3. ASSUME NEW u \in W, NEW t \in B PROVE SetHeader(u, t) \in W
    <2>1. IsHeaders(u)
      BY <1>0, Zenon DEF HeaderMaps
    <2>2. Texts(t[1], t[2])
      BY <1>1, Zenon DEF HeaderCalls
    <2>3. PICK g : g = SetHeader(u, t)
      OBVIOUS
    <2>4. IsHeaders(g)
      BY ONLY <2>1, <2>2, <2>3, SetHeaderIs
    <2> QED BY <1>0, <2>3, <2>4, HeaderMapsHold, Zenon
  <1>4. G \in [W \X B -> W]
    <2>1. ASSUME NEW p \in W \X B PROVE SetHeader(p[1], p[2]) \in W
      <3>1. p[1] \in W /\ p[2] \in B
        OBVIOUS
      <3> QED BY <1>3, <3>1
    <2> QED BY <1>2, <2>1, Zenon
  <1>5. \A u \in W : \A t \in B : G[<<u, t>>] = SetHeader(u, t)
    <2> SUFFICES ASSUME NEW u \in W, NEW t \in B
                 PROVE  G[<<u, t>>] = SetHeader(u, t)
      OBVIOUS
    <2>1. PICK p : p = <<u, t>>
      OBVIOUS
    <2>2. p \in W \X B /\ p[1] = u /\ p[2] = t
      BY <2>1
    <2>3. G[p] = SetHeader(p[1], p[2])
      BY <1>2, <2>2, Zenon
    <2> QED BY <2>1, <2>2, <2>3, Zenon
  <1>6. q \in Seq(B)
    BY <1>1
  <1>w. w \in W
    BY <1>0, HeaderMapsHold, Zenon
  <1>7. PICK f \in [SUBSET DOMAIN q -> W] : FoldsBy(f, G, w, q)
    BY ONLY <1>4, <1>6, <1>w, FoldExists
  <1>8. PICK n \in Nat : n = Len(q) /\ DOMAIN q = 1..n /\ \A i \in 1..n : q[i] \in B
    BY <1>6
  <1>9. ASSUME NEW s \in SUBSET DOMAIN q, s # {}
        PROVE  s \ {Max(s)} \in SUBSET DOMAIN q /\ Max(s) \in DOMAIN q
    BY <1>8, <1>9, MaxOfIndices
  <1>10. f = [s \in SUBSET DOMAIN q |->
                IF s = {} THEN w ELSE SetHeader(f[s \ {Max(s)}], q[Max(s)])]
    <2>1. ASSUME NEW s \in SUBSET DOMAIN q
          PROVE  f[s] = IF s = {} THEN w ELSE SetHeader(f[s \ {Max(s)}], q[Max(s)])
      <3>1. f[s] = IF s = {} THEN w ELSE G[<<f[s \ {Max(s)}], q[Max(s)]>>]
        BY <1>7, Zenon DEF FoldsBy
      <3>2. CASE s = {}
        BY <3>1, <3>2, Zenon
      <3>3. CASE s # {}
        <4>1. PICK x : x = Max(s)
          OBVIOUS
        <4>2. PICK r : r = s \ {x}
          OBVIOUS
        <4>3. f[r] \in W /\ q[x] \in B
          BY <1>7, <1>8, <1>9, <3>3, <4>1, <4>2
        <4>4. G[<<f[r], q[x]>>] = SetHeader(f[r], q[x])
          BY <1>5, <4>3
        <4> QED BY <3>1, <3>3, <4>1, <4>2, <4>4, Zenon
      <3> QED BY <3>2, <3>3, Zenon
    <2> QED BY <1>7, <2>1, Zenon
  <1>11. PICK h : h = CHOOSE any : any = [s \in SUBSET DOMAIN q |->
                        IF s = {} THEN w ELSE SetHeader(any[s \ {Max(s)}], q[Max(s)])]
    OBVIOUS
  <1>12. h = [s \in SUBSET DOMAIN q |->
                IF s = {} THEN w ELSE SetHeader(h[s \ {Max(s)}], q[Max(s)])]
    BY <1>10, <1>11, Zenon
  <1>13. FoldLeft(SetHeader, w, q) = h[DOMAIN q]
    BY <1>11, Zenon DEF FoldLeft, MapThenFoldSet
  <1>14. FoldsAlike(f, h, q)
    <2>1. f = [s \in SUBSET DOMAIN q |-> f[s]] /\ h = [s \in SUBSET DOMAIN q |-> h[s]]
      BY <1>10, <1>12, Zenon
    <2>2. {} \in SUBSET DOMAIN q
      OBVIOUS
    <2>3. f[{}] = w /\ h[{}] = w
      BY <1>10, <1>12, <2>2, Zenon
    <2>4. ASSUME NEW s \in SUBSET DOMAIN q, s # {}, f[s \ {Max(s)}] = h[s \ {Max(s)}]
          PROVE  f[s] = h[s]
      <3>1. f[s] = SetHeader(f[s \ {Max(s)}], q[Max(s)])
        BY <1>10, <2>4, Zenon
      <3>2. h[s] = SetHeader(h[s \ {Max(s)}], q[Max(s)])
        BY <1>12, <2>4, Zenon
      <3> QED BY <2>4, <3>1, <3>2, Zenon
    <2> QED BY <2>1, <2>3, <2>4, Zenon DEF FoldsAlike
  <1>15. f = h
    BY <1>6, <1>14, FoldUnique, SMT
  <1>16. PICK st \in [0..Len(q) -> W] :
           /\ st[0] = w
           /\ \A k \in 1..Len(q) : st[k] = G[<<st[k - 1], q[k]>>]
           /\ f[DOMAIN q] = st[Len(q)]
    <2>1. FoldsBy(f, G, w, q)
      BY <1>7
    <2>2. FoldOf(f, W, B, G, w, q)
      BY <1>4, <1>6, <1>w, <2>1, Zenon DEF FoldOf
    <2>3. PICK st : FoldTrace(st, f, W, G, w, q)
      BY <2>2, FoldSteps, SMT
    <2> QED BY <2>3, Zenon DEF FoldTrace
  <1>17. ASSUME NEW k \in 1..Len(q) PROVE st[k] = SetHeader(st[k - 1], q[k])
    <2>1. k - 1 \in 0..Len(q)
      BY <1>8
    <2>2. st[k - 1] \in W /\ q[k] \in B
      BY <1>8, <1>16, <2>1
    <2> QED BY <1>5, <1>16, <2>2, Zenon
  <1>18. \A k \in 0..Len(q) : IsHeaders(st[k])
    BY <1>0, <1>16, Zenon DEF HeaderMaps
  <1> QED BY <1>13, <1>15, <1>16, <1>17, <1>18, Zenon DEF SetTrace

(* After the calls each name has the value of its last call.                *)
LastCalls(h, q) ==
  \A i \in DOMAIN q :
    (\A k \in (i + 1)..Len(q) : q[k][1] # q[i][1]) => q[i][1] \in DOMAIN h /\ h[q[i][1]] = q[i][2]

(* The last call for a name wins, and the headers stay such.                *)
LEMMA LastCallWins ==
  ASSUME NEW w, IsHeaders(w), NEW q \in Seq(HeaderCalls), NEW g, g = FoldLeft(SetHeader, w, q)
  PROVE  IsHeaders(g) /\ LastCalls(g, q)
  <1>1. PICK st : SetTrace(st, w, q)
    BY ONLY IsHeaders(w), q \in Seq(HeaderCalls), SetHeaderFold
  <1>2. PICK n \in Nat : n = Len(q) /\ DOMAIN q = 1..n /\ \A i \in 1..n : q[i] \in HeaderCalls
    OBVIOUS
  <1>3. /\ \A k \in 0..n : IsHeaders(st[k])
        /\ \A k \in 1..n : st[k] = SetHeader(st[k - 1], q[k])
        /\ g = st[n]
    BY <1>1, <1>2, Zenon DEF SetTrace
  <1>4. \A i \in 1..n : Texts(q[i][1], q[i][2])
    BY <1>2, Zenon DEF HeaderCalls
  <1>5. ASSUME NEW k \in 1..n
        PROVE  /\ DOMAIN st[k] = DOMAIN st[k - 1] \cup {q[k][1]} /\ st[k][q[k][1]] = q[k][2]
               /\ \A m \in DOMAIN st[k - 1] : m # q[k][1] => st[k][m] = st[k - 1][m]
    <2>1. k - 1 \in 0..n
      OBVIOUS
    <2>2. PICK u, p, v : u = st[k - 1] /\ p = q[k] /\ v = st[k]
      OBVIOUS
    <2>3. IsHeaders(u) /\ Texts(p[1], p[2]) /\ v = SetHeader(u, p)
      BY <1>3, <1>4, <2>1, <2>2, Zenon
    <2>4. HasSet(v, u, p)
      BY ONLY <2>3, SetHeaderIs
    <2> QED BY <2>2, <2>4, Zenon DEF HasSet
  <1>6. ASSUME NEW i \in 1..n, \A k \in (i + 1)..n : q[k][1] # q[i][1]
        PROVE  q[i][1] \in DOMAIN g /\ g[q[i][1]] = q[i][2]
    <2>1. PICK x, y : x = q[i][1] /\ y = q[i][2]
      OBVIOUS
    <2> DEFINE Bad == {k \in Nat : k \in i..n /\ ~(x \in DOMAIN st[k] /\ st[k][x] = y)}
    <2>2. Bad \in SUBSET Nat
      OBVIOUS
    <2>3. ASSUME NEW b \in Bad, \A c \in Bad : b <= c PROVE FALSE
      <3>1. b \in Nat /\ b \in i..n /\ ~(x \in DOMAIN st[b] /\ st[b][x] = y)
        BY DEF Bad
      <3>2. b # i
        BY <1>5, <2>1, <3>1, Zenon
      <3>3. b \in 1..n /\ b \in (i + 1)..n /\ b - 1 \in Nat /\ b - 1 \in i..n /\ ~(b <= b - 1)
        BY ONLY n \in Nat, i \in 1..n, b \in Nat, <3>1, <3>2
      <3>4. x \in DOMAIN st[b - 1] /\ st[b - 1][x] = y
        <4>1. b - 1 \notin Bad
          BY <2>3, <3>3, Zenon
        <4> QED BY <3>3, <4>1, Zenon DEF Bad
      <3>5. q[b][1] # x
        BY <1>6, <2>1, <3>3, Zenon
      <3>6. /\ DOMAIN st[b] = DOMAIN st[b - 1] \cup {q[b][1]}
            /\ \A m \in DOMAIN st[b - 1] : m # q[b][1] => st[b][m] = st[b - 1][m]
        BY <1>5, <3>3, Zenon
      <3>7. st[b][x] = st[b - 1][x] /\ x \in DOMAIN st[b]
        BY <3>4, <3>5, <3>6, Zenon
      <3> QED BY <3>1, <3>4, <3>7, Zenon
    <2> HIDE DEF Bad
    <2>4. Bad = {}
      BY <2>2, <2>3, FirstIndex, Zenon
    <2>5. n \in Nat /\ n \in i..n
      OBVIOUS
    <2>6. x \in DOMAIN st[n] /\ st[n][x] = y
      BY <2>4, <2>5, Zenon DEF Bad
    <2> QED BY <1>3, <2>1, <2>6, Zenon
  <1>7. LastCalls(g, q)
    BY <1>2, <1>6, Zenon DEF LastCalls
  <1>8. n \in 0..n
    OBVIOUS
  <1> QED BY <1>3, <1>7, <1>8, Zenon

-----------------------------------------------------------------------------
(* The handlers' responses and the answer.                                 *)

(* The calls a response begins with are calls for headers.                 *)
LEMMA TypedIs ==
  ASSUME NEW t \in Nat, t \notin {CR, LF}
  PROVE  <<Typed(t)>> \in Seq(HeaderCalls)
  <1>1. PICK c \in Nat : c = ContentType /\ c \notin {COLON, CR, LF}
    BY DEF ContentType, COLON, CR, LF
  <1>2. PICK n : n = <<c>>
    OBVIOUS
  <1>3. PICK v : v = <<t>>
    OBVIOUS
  <1>4. n \in Seq(Nat) /\ Len(n) = 1 /\ n[1] = c /\ DOMAIN n = {1}
    BY <1>2
  <1>5. v \in Seq(Nat) /\ Len(v) = 1 /\ v[1] = t /\ DOMAIN v = {1}
    BY <1>3
  <1>6. IsHeader(n, v)
    BY <1>1, <1>4, <1>5, Zenon DEF IsHeader, NoBreak
  <1>7. PICK p : p = <<n, v>>
    OBVIOUS
  <1>8. p[1] = n /\ p[2] = v
    BY <1>7
  <1>9. p \in Seq(Nat) \X Seq(Nat)
    <2>1. PICK N : N = Seq(Nat)
      OBVIOUS
    <2>2. n \in N /\ v \in N
      BY <1>4, <1>5, <2>1, Zenon
    <2>3. p \in N \X N
      BY ONLY <1>7, <2>2
    <2> QED BY <2>1, <2>3, Zenon
  <1>10. p \in HeaderCalls
    <2>1. Texts(p[1], p[2])
      BY <1>4, <1>5, <1>6, <1>8, Zenon DEF Texts
    <2> QED BY <1>9, <2>1, Zenon DEF HeaderCalls
  <1>11. Typed(t) = p
    BY <1>1, <1>2, <1>3, <1>7, Zenon DEF Typed
  <1>12. <<p>> \in Seq(HeaderCalls)
    <2>1. PICK C : C = HeaderCalls
      OBVIOUS
    <2>2. p \in C
      BY <1>10, <2>1, Zenon
    <2>3. <<p>> \in Seq(C)
      BY ONLY <2>2
    <2> QED BY <2>1, <2>3, Zenon
  <1> QED BY <1>11, <1>12, Zenon

(* So are those of register_default_header.                                *)
LEMMA DefaultsAre == Defaults \in Seq(HeaderCalls)
  <1>1. PICK N : N = Seq(Nat)
    OBVIOUS
  <1>2. PICK d : d = Defaults
    OBVIOUS
  <1>3. d \in Seq(N \X N)
    BY <1>1, <1>2, TextAssumption, Zenon
  <1>4. PICK n \in Nat : n = Len(d) /\ DOMAIN d = 1..n /\ \A i \in 1..n : d[i] \in N \X N
    BY ONLY <1>3
  <1>5. ASSUME NEW i \in 1..n PROVE d[i] \in HeaderCalls
    <2>1. PICK p \in N \X N : p = d[i]
      BY <1>4
    <2>2. p[1] \in N /\ p[2] \in N
      OBVIOUS
    <2>3. IsHeader(p[1], p[2])
      BY <1>2, <1>4, <2>1, TextAssumption, Zenon
    <2>4. Texts(p[1], p[2])
      BY <1>1, <2>2, <2>3, Zenon DEF Texts
    <2> QED BY <1>1, <2>1, <2>4, Zenon DEF HeaderCalls
  <1>6. PICK C : C = HeaderCalls
    OBVIOUS
  <1>7. \A i \in 1..n : d[i] \in C
    BY <1>5, <1>6, Zenon
  <1>8. d \in Seq(C)
    BY ONLY <1>3, <1>4, <1>7
  <1> QED BY <1>2, <1>6, <1>8, Zenon

(* A new response has no headers.                                          *)
LEMMA NoHeaders == IsHeaders(<<>>)
  <1>1. PICK z : z = <<>>
    OBVIOUS
  <1>2. z \in Seq(Nat) /\ Len(z) = 0
    BY <1>1
  <1>3. DOMAIN z = {} /\ z = [n \in DOMAIN z |-> z[n]]
    BY <1>2
  <1>4. IsFiniteSet(DOMAIN z)
    BY <1>3, FS_EmptySet
  <1>5. IsHeaders(z)
    BY <1>3, <1>4, Zenon DEF IsHeaders
  <1> QED BY <1>1, <1>5, Zenon

(* A response with a type, before and after the default headers.           *)
LEMMA ResponseIs ==
  ASSUME NEW c \in Nat, NEW b \in Seq(Nat), NEW t \in Nat, t \notin {CR, LF}, NEW u
  PROVE  /\ \E h : IsResponse(Response(c, b, <<Typed(t)>>), c, b, h)
         /\ \E h : /\ IsResponse(Routed(Response(c, b, <<Typed(t)>>), u).r, c, b, h)
                   /\ LastCalls(h, Defaults)
  <1>1. PICK q : q = <<Typed(t)>>
    OBVIOUS
  <1>2. PICK z : z = <<>>
    OBVIOUS
  <1>3. q \in Seq(HeaderCalls) /\ IsHeaders(z)
    BY <1>1, <1>2, TypedIs, NoHeaders, Zenon
  <1>4. PICK x : x = FoldLeft(SetHeader, z, q)
    BY Zenon
  <1>5. IsHeaders(x)
    BY ONLY <1>3, <1>4, LastCallWins
  <1>6. PICK r : r = [code |-> c, body |-> b, headers |-> x]
    OBVIOUS
  <1>7. Response(c, b, q) = r
    BY <1>2, <1>4, <1>6, Zenon DEF Response
  <1>8. PICK d : d = Defaults /\ d \in Seq(HeaderCalls)
    BY DefaultsAre, Zenon
  <1>9. PICK y : y = FoldLeft(SetHeader, x, d)
    BY Zenon
  <1>10. IsHeaders(y) /\ LastCalls(y, d)
    <2>1. d \in Seq(HeaderCalls)
      BY <1>8
    <2> QED BY ONLY <1>5, <2>1, <1>9, LastCallWins
  <1>11. r.headers = x
    BY <1>6
  <1>12. WithDefaults(r) = [r EXCEPT !.headers = y]
    BY <1>8, <1>9, <1>11, Zenon DEF WithDefaults
  <1>13. [r EXCEPT !.headers = y] = [code |-> c, body |-> b, headers |-> y]
    BY ONLY <1>6
  <1>14. IsResponse(r, c, b, x) /\ IsResponse(WithDefaults(r), c, b, y)
    BY <1>5, <1>6, <1>10, <1>12, <1>13, Zenon DEF IsResponse, IsHeaders
  <1>15. Routed(r, u).r = WithDefaults(r)
    <2>1. PICK w : w = WithDefaults(r)
      BY Zenon
    <2>2. Routed(r, u) = [r |-> w, used |-> u]
      BY <2>1, Zenon DEF Routed
    <2>3. [r |-> w, used |-> u].r = w
      OBVIOUS
    <2> QED BY <2>1, <2>2, <2>3, Zenon
  <1> QED BY <1>1, <1>7, <1>8, <1>10, <1>14, <1>15, Zenon

(* What std::string makes of the request is a text.                        *)
LEMMA CStringsAre ==
  ASSUME NEW raw \in Seq(Nat), NEW b \in CStrings(raw)
  PROVE  b \in Seq(Nat)
  <1>1. PICK Z : Z = {i \in DOMAIN raw : raw[i] = 0}
    OBVIOUS
  <1>2. PICK nul : nul = Least(Z, 0)
    OBVIOUS
  <1>3. Z \in SUBSET Nat /\ Z \subseteq 1..Len(raw) /\ Len(raw) \in Nat
    BY <1>1
  <1>4. nul = 0 \/ nul \in 1..Len(raw)
    BY <1>2, <1>3, LeastIs, Zenon
  <1>5. CASE nul # 0
    <2>1. b = SubSeq(raw, 1, nul - 1)
      BY <1>1, <1>2, <1>5, Zenon DEF CStrings
    <2> QED BY <1>4, <1>5, <2>1
  <1>6. CASE nul = 0
    <2>1. PICK c \in Behind : b = raw \o c
      BY <1>1, <1>2, <1>6, Zenon DEF CStrings
    <2>2. c \in Seq(Nat)
      BY TextAssumption, Zenon
    <2> QED BY <2>1, <2>2
  <1> QED BY <1>5, <1>6

(* A response made for the request in hand.                                *)
BuiltAs(r, c, b, h) ==
  /\ IsResponse(r, c, b, h)
  /\ req.valid /\ ~HandlerThrows => LastCalls(h, Defaults)
Built(r) == \E c, b, h : BuiltAs(r, c, b, h)

(* What a handler returns to the router.                                   *)
LEMMA RoutedBuilt ==
  ASSUME NEW c \in Nat, NEW b \in Seq(Nat), NEW t \in Nat, t \notin {CR, LF}, NEW u
  PROVE  Built(Routed(Response(c, b, <<Typed(t)>>), u).r)
  <1>1. PICK h : /\ IsResponse(Routed(Response(c, b, <<Typed(t)>>), u).r, c, b, h)
                 /\ LastCalls(h, Defaults)
    BY ResponseIs
  <1> QED BY <1>1, Zenon DEF Built, BuiltAs

(* Text, as a body and as a type, and the type of a file.                  *)
LEMMA Types ==
  /\ <<Text>> \in Seq(Nat) /\ Text \in Nat /\ Text \notin {CR, LF}
  /\ MimeType \in Nat /\ MimeType \notin {CR, LF}
  BY DEF Text, MimeType, CR, LF

(* What the handlers answer is built for the request.                      *)
LEMMA HandlersBuild ==
  ASSUME wire \in Seq(Nat),
         NEW x \in CASE ~req.valid -> BadRequest
                     [] req.valid /\ msg.handler = "echo"   -> Echo
                     [] req.valid /\ msg.handler = "static" -> {ServeFile}
                     [] req.valid /\ msg.handler = "meme"   -> CreateMeme,
         msg.handler \in {"echo", "static", "meme"}
  PROVE  Built(x.r)
  <1>0. PICK e : e = <<Text>> /\ e \in Seq(Nat)
    BY Types, Zenon
  <1>1. CASE ~req.valid
    <2>1. x \in BadRequest
      BY <1>1, Zenon
    <2>2. PICK b \in CStrings(wire) : x = [r |-> Response(400, b, <<Typed(Text)>>), used |-> <<>>]
      BY <2>1, ZenonT(60) DEF BadRequest
    <2>3. b \in Seq(Nat)
      BY CStringsAre
    <2>4. PICK c \in Nat : c = 400
      OBVIOUS
    <2>5. PICK w : w = Response(c, b, <<Typed(Text)>>)
      BY Zenon
    <2>6. PICK h : IsResponse(w, c, b, h)
      BY <2>3, <2>5, ResponseIs, Types, Zenon
    <2>7. PICK z : x = [r |-> w, used |-> z]
      BY <2>2, <2>4, <2>5, Zenon
    <2>8. x.r = w
      BY <2>7
    <2> QED BY <1>1, <2>6, <2>8, Zenon DEF Built, BuiltAs
  <1>2. CASE req.valid /\ msg.handler = "echo"
    <2>1. x \in Echo
      BY <1>2, Zenon
    <2>2. PICK b \in CStrings(wire) : x = Routed(Response(200, b, <<Typed(Text)>>), <<>>)
      BY <2>1, ZenonT(60) DEF Echo
    <2>3. b \in Seq(Nat)
      BY CStringsAre
    <2>4. PICK c \in Nat : c = 200
      OBVIOUS
    <2>5. Built(Routed(Response(c, b, <<Typed(Text)>>), <<>>).r)
      BY <2>3, RoutedBuilt, Types, Zenon
    <2> QED BY <2>2, <2>4, <2>5, Zenon
  <1>3. CASE req.valid /\ msg.handler = "static"
    <2>0. msg.handler # "echo"
      BY <1>3
    <2>1. x = ServeFile
      BY <1>3, <2>0, Zenon
    <2>2. ASSUME NEW c \in Nat, NEW b \in Seq(Nat), NEW t \in Nat, t \notin {CR, LF}, NEW u,
                 x = Routed(Response(c, b, <<Typed(t)>>), u)
          PROVE  Built(x.r)
      BY <1>3, <2>0, <2>2, RoutedBuilt, Zenon
    <2>4. PICK file : file = ParseFileInfo(req.uri)
      BY Zenon
    <2>5. PICK z : z = <<>>
      OBVIOUS
    <2>6. \A f \in Files : f \in Seq(Nat)
      BY TextAssumption
    <2>7. CASE req.method # <<GET>>
      <3>1. PICK c \in Nat : c = 405
        OBVIOUS
      <3>2. x = Routed(Response(c, e, <<Typed(Text)>>), z)
        BY <1>0, <2>1, <2>5, <2>7, <3>1, ZenonT(60) DEF ServeFile
      <3> QED BY <1>0, <2>2, <3>2, Types, Zenon
    <2>8. CASE req.method = <<GET>> /\ file \in Files
      <3>1. PICK c \in Nat : c = 200
        OBVIOUS
      <3>2. x = Routed(Response(c, file, <<Typed(MimeType)>>), file)
        BY <2>1, <2>4, <2>8, <3>1, ZenonT(60) DEF ServeFile
      <3> QED BY <2>2, <2>6, <2>8, <3>2, Types, Zenon
    <2>9. CASE req.method = <<GET>> /\ file \notin Files
      <3>1. PICK c \in Nat : c = 404
        OBVIOUS
      <3>2. x = Routed(Response(c, e, <<Typed(Text)>>), z)
        BY <1>0, <2>1, <2>4, <2>5, <2>9, <3>1, ZenonT(60) DEF ServeFile
      <3> QED BY <1>0, <2>2, <3>2, Types, Zenon
    <2> QED BY <2>7, <2>8, <2>9, Zenon
  <1>4. CASE req.valid /\ msg.handler = "meme"
    <2>0. msg.handler # "echo" /\ msg.handler # "static"
      BY <1>4
    <2>1. x \in CreateMeme
      BY <1>4, <2>0, Zenon
    <2>2. ASSUME NEW c \in Nat, NEW b \in Seq(Nat), NEW t \in Nat, t \notin {CR, LF}, NEW u,
                 x = Routed(Response(c, b, <<Typed(t)>>), u)
          PROVE  Built(x.r)
      BY <1>4, <2>0, <2>2, RoutedBuilt, Zenon
    <2>3. PICK z : z = <<>>
      OBVIOUS
    <2>4. PICK d : d = UriDecode(req.body)
      BY Zenon
    <2>5. PICK k : k = BodyCheck(d.text)
      BY Zenon
    <2>6. CASE ~d.ok
      <3>0. CreateMeme = {[r |-> Response(500, e, <<Typed(Text)>>), used |-> <<>>]}
        BY <1>0, <2>4, <2>6, ZenonT(60) DEF CreateMeme
      <3>1. x = [r |-> Response(500, e, <<Typed(Text)>>), used |-> <<>>]
        BY <2>1, <3>0, Zenon
      <3>2. PICK c \in Nat : c = 500
        OBVIOUS
      <3>3. PICK w : w = Response(c, e, <<Typed(Text)>>)
        BY Zenon
      <3>4. PICK h : IsResponse(w, c, e, h)
        BY <1>0, <3>3, ResponseIs, Types, Zenon
      <3>5. PICK y : x = [r |-> w, used |-> y]
        BY <3>1, <3>2, <3>3, Zenon
      <3>6. x.r = w
        BY <3>5
      <3>7. HandlerThrows
        BY <1>4, <2>4, <2>6, Zenon DEF HandlerThrows
      <3> QED BY <1>4, <2>0, <3>4, <3>6, <3>7, Zenon DEF Built, BuiltAs
    <2>7. CASE d.ok /\ k.ok
      <3>1. PICK c \in Nat : c = 201
        OBVIOUS
      <3>2. PICK f \in Nat : f = 500
        OBVIOUS
      <3>3. CreateMeme = {Routed(Response(c, e, <<Typed(MimeType)>>), k.params),
                          Routed(Response(f, e, <<Typed(Text)>>), k.params)}
        BY <1>0, <2>4, <2>5, <2>7, <3>1, <3>2, ZenonT(60) DEF CreateMeme
      <3>4. CASE x = Routed(Response(c, e, <<Typed(MimeType)>>), k.params)
        BY <1>0, <2>2, <3>4, Types, Zenon
      <3>5. CASE x = Routed(Response(f, e, <<Typed(Text)>>), k.params)
        BY <1>0, <2>2, <3>5, Types, Zenon
      <3> QED BY <2>1, <3>3, <3>4, <3>5, Zenon
    <2>8. CASE d.ok /\ ~k.ok
      <3>1. PICK c \in Nat : c = 400
        OBVIOUS
      <3>0. CreateMeme = {Routed(Response(c, e, <<Typed(Text)>>), z)}
        BY <1>0, <2>3, <2>4, <2>5, <2>8, <3>1, ZenonT(60) DEF CreateMeme
      <3>2. x = Routed(Response(c, e, <<Typed(Text)>>), z)
        BY <2>1, <3>0, Zenon
      <3> QED BY <1>0, <2>2, <3>2, Types, Zenon
    <2> QED BY <2>6, <2>7, <2>8, Zenon
  <1> QED BY <1>1, <1>2, <1>3, <1>4, Zenon

(* What the answer was made from: a response built for the request, and a  *)
(* text of it with the headers in some order.                              *)
AnswerInv ==
  /\ stage \in {"handled", "answered"} => Built(resp.r)
  /\ stage = "answered" =>
       \E order \in SetToSeqs(DOMAIN resp.r.headers) : answer = ResponseText(resp.r, order)

(* It holds at first.                                                      *)
LEMMA InitAnswer == Init => AnswerInv
  BY Zenon DEF Init, AnswerInv

(* Every step keeps it.                                                    *)
LEMMA NextAnswer == IInv /\ AnswerInv /\ [Next]_vars => AnswerInv'
  <1> SUFFICES ASSUME IInv, AnswerInv, [Next]_vars PROVE AnswerInv'
    OBVIOUS
  <1>1. CASE ParseRequest
    <2>1. stage' = "parsed"
      BY <1>1 DEF ParseRequest
    <2>2. stage' \notin {"handled", "answered"} /\ stage' # "answered"
      BY <2>1
    <2> QED BY <2>2, Zenon DEF AnswerInv
  <1>2. CASE HandleRequest
    <2>1. wire \in Seq(Nat) /\ msg.handler \in {"echo", "static", "meme"}
      BY TextAssumption, WireIsText, Zenon DEF IInv
    <2>2. PICK x : x = resp'
      OBVIOUS
    <2>3. Built(x.r)
      BY <1>2, <2>1, <2>2, HandlersBuild, Zenon DEF HandleRequest
    <2>4. req' = req /\ msg' = msg /\ wire' = wire /\ stage' = "handled"
      BY <1>2, Zenon DEF HandleRequest
    <2>5. Built(resp.r)'
      BY <2>2, <2>3, <2>4, Zenon DEF Built, BuiltAs, HandlerThrows
    <2>6. stage' # "answered"
      BY <2>4
    <2> QED BY <2>5, <2>6, Zenon DEF AnswerInv
  <1>3. CASE GenerateResponse
    <2>1. req' = req /\ msg' = msg /\ wire' = wire /\ resp' = resp /\ stage = "handled"
      BY <1>3, Zenon DEF GenerateResponse
    <2>2. Built(resp.r)
      BY <2>1, Zenon DEF AnswerInv
    <2>3. Built(resp.r)'
      BY <2>1, <2>2, Zenon DEF Built, BuiltAs, HandlerThrows
    <2> QED BY <1>3, <2>1, <2>3, Zenon DEF AnswerInv, GenerateResponse
  <1>4. CASE UNCHANGED vars
    <2>1. /\ req' = req /\ msg' = msg /\ wire' = wire /\ resp' = resp
          /\ stage' = stage /\ answer' = answer
      BY <1>4, Zenon DEF vars
    <2>2. Built(resp.r) => Built(resp.r)'
      BY <2>1, Zenon DEF Built, BuiltAs, HandlerThrows
    <2> QED BY <2>1, <2>2, Zenon DEF AnswerInv
  <1> QED BY <1>1, <1>2, <1>3, <1>4, Zenon DEF Next

(* The invariant of the answer.                                            *)
THEOREM AnswerInvariance == Spec => [](IInv /\ AnswerInv)
  BY InitIInv, NextIInv, InitAnswer, NextAnswer, PTL DEF Spec

(* What the client reads in an answer: the code, the body and the headers. *)
ReadAs(A, c, b, h) ==
  /\ A[3] = 1000 + c /\ ReadBody(A) = b
  /\ \A n \in DOMAIN h : ReadHeader(A, n) = h[n]

(* It is what the response was built from.                                 *)
LEMMA AnswerIsRead ==
  ASSUME IInv, AnswerInv, stage = "answered"
  PROVE  \E c, b, h : BuiltAs(resp.r, c, b, h) /\ ReadAs(answer, c, b, h)
  <1>1. PICK c, b, h : BuiltAs(resp.r, c, b, h)
    BY Zenon DEF AnswerInv, Built
  <1>2. PICK r : r = resp.r
    OBVIOUS
  <1>3. IsResponse(r, c, b, h)
    BY <1>1, <1>2, Zenon DEF BuiltAs
  <1>4. r.headers = h
    BY <1>3 DEF IsResponse
  <1>5. PICK order \in SetToSeqs(DOMAIN r.headers) : answer = ResponseText(r, order)
    BY <1>2, Zenon DEF AnswerInv
  <1>6. order \in SetToSeqs(DOMAIN h)
    BY <1>4, <1>5, Zenon
  <1>7. PICK A : A = answer
    OBVIOUS
  <1>8. A = ResponseText(r, order)
    BY <1>5, <1>7, Zenon
  <1>9. /\ A[3] = 1000 + c /\ ReadBody(A) = b
        /\ \A n \in DOMAIN h : ReadHeader(A, n) = h[n]
    BY ONLY <1>3, <1>6, <1>8, ResponseIsRead
  <1>10. ReadAs(A, c, b, h)
    BY ONLY <1>9 DEF ReadAs
  <1> QED BY <1>1, <1>7, <1>10, Zenon

(* In whatever order the headers are written, and whatever they and the    *)
(* body hold, the client reads the response the handler built: the first   *)
(* empty line ends the head, each header has its last value, and every     *)
(* response of a handler has the default headers.                          *)
THEOREM AnswersAreRead == Spec => []ResponseSurvives
  <1>1. IInv /\ AnswerInv => ResponseSurvives
    <2> SUFFICES ASSUME IInv, AnswerInv, stage = "answered" PROVE ResponseSurvives
      BY Zenon DEF ResponseSurvives
    <2>0. PICK c, b, h : BuiltAs(resp.r, c, b, h) /\ ReadAs(answer, c, b, h)
      BY AnswerIsRead, Zenon
    <2>1. BuiltAs(resp.r, c, b, h) /\ answer[3] = 1000 + c /\ ReadBody(answer) = b
      BY ONLY <2>0 DEF ReadAs
    <2>h. \A n \in DOMAIN h : ReadHeader(answer, n) = h[n]
      BY ONLY <2>0 DEF ReadAs
    <2>2. PICK r : r = resp.r
      OBVIOUS
    <2>3. r.code = c /\ r.body = b /\ r.headers = h
      <3>1. IsResponse(r, c, b, h)
        BY <2>1, <2>2, Zenon DEF BuiltAs
      <3> QED BY <3>1 DEF IsResponse
    <2>4. ASSUME req.valid, ~HandlerThrows, NEW i \in DOMAIN Defaults,
                 \A k \in (i + 1)..Len(Defaults) : Defaults[k][1] # Defaults[i][1]
          PROVE  ReadHeader(answer, Defaults[i][1]) = Defaults[i][2]
      <3>1. LastCalls(h, Defaults)
        BY <2>1, <2>4, Zenon DEF BuiltAs
      <3>2. Defaults[i][1] \in DOMAIN h /\ h[Defaults[i][1]] = Defaults[i][2]
        BY <2>4, <3>1, Zenon DEF LastCalls
      <3> QED BY <3>2, <2>h, Zenon
    <2>5. answer[3] = 1000 + resp.r.code
      BY ONLY <2>1, <2>2, <2>3
    <2>6. ReadBody(answer) = resp.r.body
      <3>1. ReadBody(answer) = b
        BY ONLY <2>0 DEF ReadAs
      <3> QED BY ONLY <2>2, <2>3, <3>1, Zenon
    <2>7. \A n \in DOMAIN resp.r.headers : ReadHeader(answer, n) = resp.r.headers[n]
      BY <2>2, <2>3, <2>h, Zenon
    <2> HIDE DEF ReadHeader, ReadBody
    <2> QED BY <2>4, <2>5, <2>6, <2>7, Zenon DEF ResponseSurvives
  <1> QED BY <1>1, AnswerInvariance, PTL

-----------------------------------------------------------------------------
(* request.cc: the recursions of parse_headers and of the query.         *)

(* r is the recursion of HeaderPairs(text).                                *)
ReadsLines(text, r) ==
  /\ r[Len(text) + 1] = <<>>
  /\ \A i \in 1..Len(text) :
       /\ IsLine(text, i) => r[i] = <<LinePair(text, i)>> \o r[LineEnd(text, i) + 1]
       /\ ~IsLine(text, i) => r[i] = r[i + 1]

(* A line ends behind its beginning.                                       *)
LEMMA LineEndBehind ==
  ASSUME NEW text \in Seq(Nat), NEW q \in 1..Len(text), IsLine(text, q)
  PROVE  LineEnd(text, q) \in (q + 1)..Len(text)
  <1>1. PICK n \in Nat : n = Len(text)
    OBVIOUS
  <1>2. PICK S : S = {k \in (q + 1)..n : text[k] \in {CR, LF}}
    OBVIOUS
  <1>3. PICK l : l = LineEnd(text, q) /\ l = Least(S, n + 1)
    BY <1>1, <1>2, Zenon DEF LineEnd
  <1>4. l <= n
    BY <1>1, <1>3, Zenon DEF IsLine
  <1>5. S \in SUBSET Nat /\ ~(n + 1 <= n)
    BY <1>1, <1>2
  <1>6. l \in S
    <2>1. S = {} => l = n + 1
      BY ONLY <1>3, <1>5, LeastIs
    <2>2. ASSUME S # {} PROVE l \in S
      <3>1. PICK d : d = n + 1
        OBVIOUS
      <3>2. S \in SUBSET Nat
        BY <1>5
      <3>3. Least(S, d) \in S
        BY ONLY <2>2, <3>2, LeastIs
      <3> QED BY <1>3, <3>1, <3>3, Zenon
    <2> QED BY <1>4, <1>5, <2>1, <2>2, Zenon
  <1> QED BY <1>1, <1>2, <1>3, <1>6, Zenon

(* The recursive definition in HeaderPairs obeys the recursion.            *)
LEMMA HeaderPairsIs ==
  ASSUME NEW text \in Seq(Nat)
  PROVE  \E r : ReadsLines(text, r) /\ HeaderPairs(text) = r[1]
  <1>1. PICK n \in Nat : n = Len(text)
    OBVIOUS
  <1>2. PICK D : D = 1..(n + 1) /\ D = 1..(Len(text) + 1)
    BY <1>1
  <1>3. PICK stop, take, nx, pr :
          /\ stop = {q \in D : q > n} /\ take = {q \in D : IsLine(text, q)}
          /\ nx = [q \in D |-> IF IsLine(text, q) THEN LineEnd(text, q) + 1 ELSE q + 1]
          /\ pr = [q \in D |-> LinePair(text, q)]
    OBVIOUS
  <1>4. ASSUME NEW q \in D, q \notin stop PROVE nx[q] \in D /\ q < nx[q]
    <2>1. q \in 1..n
      <3>1. ~(q > n)
        BY <1>3, <1>4, Zenon
      <3> QED BY ONLY <3>1, <1>2, q \in D, n \in Nat
    <2>2. q + 1 \in D /\ q < q + 1
      BY <1>2, <2>1
    <2>3. ASSUME IsLine(text, q) PROVE LineEnd(text, q) + 1 \in D /\ q < LineEnd(text, q) + 1
      <3>1. q \in 1..Len(text)
        BY <1>1, <2>1, Zenon
      <3>2. PICK l \in (q + 1)..Len(text) : l = LineEnd(text, q)
        BY ONLY <2>3, <3>1, text \in Seq(Nat), LineEndBehind
      <3>3. l + 1 \in D /\ q < l + 1
        BY <1>2, <2>1, <3>2
      <3> QED BY <3>2, <3>3, Zenon
    <2> QED BY <1>3, <2>2, <2>3, Zenon
  <1>5. PICK g : Scans(g, D, stop, take, nx, pr)
    BY <1>2, <1>4, ScanDefined
  <1> DEFINE B(f, i) == CASE i > Len(text) -> <<>>
               [] i <= Len(text) /\ IsLine(text, i) -> <<LinePair(text, i)>> \o f[LineEnd(text, i) + 1]
               [] OTHER -> f[i + 1]
  <1>6. \A i \in D : i <= n <=> ~(i > n)
    BY <1>2
  <1>7. ASSUME NEW q \in D
        PROVE  B(g, q) = IF q \in stop THEN <<>>
                         ELSE IF q \in take THEN <<pr[q]>> \o g[nx[q]] ELSE g[nx[q]]
    BY <1>1, <1>3, <1>6, Zenon
  <1>8. g = [q \in D |-> B(g, q)]
    <2> HIDE DEF B
    <2>1. g = [q \in D |-> IF q \in stop THEN <<>>
                           ELSE IF q \in take THEN <<pr[q]>> \o g[nx[q]] ELSE g[nx[q]]]
      BY <1>5, Zenon DEF Scans
    <2> QED BY <1>7, <2>1, Zenon
  <1>9. PICK r : r = CHOOSE any : any = [q \in D |-> B(any, q)]
    OBVIOUS
  <1>10. r = [q \in D |-> B(r, q)]
    <2> HIDE DEF B
    <2> QED BY <1>8, <1>9, Zenon
  <1>11. HeaderPairs(text) = r[1]
    BY <1>1, <1>2, <1>9, Zenon DEF HeaderPairs
  <1>12. ASSUME NEW q \in D PROVE r[q] = B(r, q)
    <2> HIDE DEF B
    <2> QED BY <1>10, Zenon
  <1>13. r[n + 1] = <<>>
    <2>1. n + 1 \in D /\ n + 1 > n
      BY <1>2
    <2> QED BY <1>1, <1>6, <1>12, <2>1, Zenon
  <1>14. ASSUME NEW i \in 1..n
         PROVE  /\ IsLine(text, i) => r[i] = <<LinePair(text, i)>> \o r[LineEnd(text, i) + 1]
                /\ ~IsLine(text, i) => r[i] = r[i + 1]
    <2>1. i \in D /\ ~(i > n) /\ i <= n
      BY <1>2
    <2> QED BY <1>1, <1>12, <2>1, Zenon
  <1>15. ReadsLines(text, r)
    BY <1>1, <1>13, <1>14, Zenon DEF ReadsLines
  <1> QED BY <1>11, <1>15

(* The equals sign of the pair that begins at p, Len(qs) if there is none, *)
(* and where the next pair begins.                                         *)
PairEnd(qs, p) == Least({i \in (p + 1)..(Len(qs) - 1) : qs[i] = EQ}, Len(qs))
PairNext(qs, e) == RunEnd(qs, e + 2, LAMBDA c : c = AMP) + 1
PairAt(qs, p) == [name |-> SubSeq(qs, p, PairEnd(qs, p) - 1), value |-> <<qs[PairEnd(qs, p) + 1]>>]

(* r is the recursion of QueryPairs(qs).                                   *)
ReadsPairs(qs, r) ==
  \A p \in 1..(Len(qs) + 1) :
    r[p] = IF p > Len(qs) \/ PairEnd(qs, p) = Len(qs) THEN <<>>
           ELSE <<PairAt(qs, p)>> \o r[PairNext(qs, PairEnd(qs, p))]

(* The recursive definition in QueryPairs obeys the recursion.             *)
LEMMA QueryPairsIs ==
  ASSUME NEW qs \in Seq(Nat)
  PROVE  \E r : ReadsPairs(qs, r) /\ QueryPairs(qs) = r[1]
  <1>1. PICK n \in Nat : n = Len(qs)
    OBVIOUS
  <1>2. PICK D : D = 1..(n + 1)
    OBVIOUS
  <1>3. PICK stop, nx, pr :
          /\ stop = {q \in D : q > n \/ PairEnd(qs, q) = n}
          /\ nx = [q \in D |-> PairNext(qs, PairEnd(qs, q))]
          /\ pr = [q \in D |-> PairAt(qs, q)]
    OBVIOUS
  <1>4. ASSUME NEW q \in D, q \notin stop PROVE nx[q] \in D /\ q < nx[q]
    <2>1. ~(q > n) /\ PairEnd(qs, q) # n
      BY <1>3, <1>4, Zenon
    <2>2. q \in 1..n
      BY ONLY <2>1, <1>2, q \in D, n \in Nat
    <2>3. PICK S : S = {i \in (q + 1)..(n - 1) : qs[i] = EQ}
      OBVIOUS
    <2>4. PICK e : e = PairEnd(qs, q) /\ e = Least(S, n)
      BY <1>1, <2>3, Zenon DEF PairEnd
    <2>5. S \in SUBSET Nat
      BY <2>2, <2>3
    <2>6. e \in S
      <3>1. S = {} => e = n
        BY ONLY <2>4, <2>5, LeastIs
      <3>2. S # {} => e \in S
        BY ONLY <2>4, <2>5, LeastIs
      <3> QED BY <2>1, <2>4, <3>1, <3>2, Zenon
    <2>7. e \in (q + 1)..(n - 1)
      BY <2>3, <2>6, Zenon
    <2>8. PICK T : T = {k \in (e + 2)..n : ~(qs[k] = AMP)}
      OBVIOUS
    <2>9. PICK l : l = Least(T, n + 1)
      OBVIOUS
    <2>10. PairNext(qs, e) = l - 1 + 1
      BY <1>1, <2>8, <2>9, Zenon DEF PairNext, RunEnd
    <2>11. T \in SUBSET Nat
      BY <2>2, <2>7, <2>8
    <2>12. l = n + 1 \/ l \in T
      BY <2>9, <2>11, LeastIs, Zenon
    <2>13. l = n + 1 \/ l \in (e + 2)..n
      BY <2>8, <2>12, Zenon
    <2>14. l - 1 + 1 \in D /\ q < l - 1 + 1
      BY ONLY <1>2, n \in Nat, <2>2, <2>7, <2>13
    <2> QED BY <1>3, <2>4, <2>10, <2>14, Zenon
  <1>5. PICK g : Scans(g, D, stop, D, nx, pr)
    BY <1>2, <1>4, ScanDefined
  <1> DEFINE B(f, p) == IF p > n \/ PairEnd(qs, p) = n THEN <<>>
                        ELSE <<PairAt(qs, p)>> \o f[PairNext(qs, PairEnd(qs, p))]
  <1>6. ASSUME NEW q \in D
        PROVE  B(g, q) = IF q \in stop THEN <<>>
                         ELSE IF q \in D THEN <<pr[q]>> \o g[nx[q]] ELSE g[nx[q]]
    BY <1>3, Zenon
  <1>7. g = [q \in D |-> B(g, q)]
    <2> HIDE DEF B
    <2>1. g = [q \in D |-> IF q \in stop THEN <<>>
                           ELSE IF q \in D THEN <<pr[q]>> \o g[nx[q]] ELSE g[nx[q]]]
      BY <1>5, Zenon DEF Scans
    <2> QED BY <1>6, <2>1, Zenon
  <1>8. PICK r : r = CHOOSE any : any = [q \in D |-> B(any, q)]
    OBVIOUS
  <1>9. r = [q \in D |-> B(r, q)]
    <2> HIDE DEF B
    <2> QED BY <1>7, <1>8, Zenon
  <1>10. QueryPairs(qs) = r[1]
    BY <1>1, <1>2, <1>8, Zenon DEF QueryPairs, PairEnd, PairNext, PairAt
  <1>11. ASSUME NEW q \in D PROVE r[q] = B(r, q)
    <2> HIDE DEF B
    <2> QED BY <1>9, Zenon
  <1>12. ReadsPairs(qs, r)
    BY <1>1, <1>2, <1>11, Zenon DEF ReadsPairs
  <1> QED BY <1>10, <1>12

-----------------------------------------------------------------------------
(* request.cc: the body and the request line.                            *)

(* Every text ends with the empty one.                                     *)
LEMMA EmptySuffix ==
  ASSUME NEW t \in Seq(Nat)
  PROVE  IsSuffix(<<>>, t)
  <1>1. PICK z \in Seq(Nat) : z = <<>> /\ Len(z) = 0 /\ 1..Len(z) = {}
    <2>1. <<>> \in Seq(Nat) /\ Len(<<>>) = 0
      OBVIOUS
    <2>2. 1..0 = {}
      OBVIOUS
    <2> QED BY <2>1, <2>2, Zenon
  <1>2. Len(z) <= Len(t) /\ \A i \in 1..Len(z) : z[i] = t[Len(t) - Len(z) + i]
    BY <1>1
  <1>3. IsSuffix(z, t)
    BY ONLY <1>2, z \in Seq(Nat), t \in Seq(Nat), SuffixIndex
  <1> QED BY <1>1, <1>3, Zenon

(* The pattern of the body reads the end of it, and all of it where it has *)
(* no line break.                                                          *)
LEMMA BodyReads ==
  ASSUME NEW t, NEW A, NEW W, NEW F, NEW B, NEW e, NEW T, Layout(t, A, W, F, B, e, T),
         t[T - 1] = CR, t[T] = LF
  PROVE  IsSuffix(Body(t), B) /\ (NoBreak(B) => Body(t) = B)
  <1>1. t \in Seq(Nat)
    BY DEF Layout
  <1>2. B \in Seq(Nat)
    BY DEF Layout
  <1>3. PICK n \in Nat, b \in Nat : n = Len(t) /\ b = Len(B)
    BY <1>1, <1>2
  <1>4. T \in Nat /\ n = T + 2 + b /\ 4 <= T
    <2>1. T \in Nat /\ n = T + 2 + b /\ e \in Nat /\ F \in Seq(Nat) /\ T = e + 4 + Len(F)
      BY <1>3, Zenon DEF Layout
    <2>2. PICK f \in Nat : f = Len(F)
      BY <2>1
    <2>3. T = e + 4 + f
      BY <2>1, <2>2, Zenon
    <2> QED BY ONLY <2>1, <2>3, f \in Nat
  <1>5. t[T + 1] = CR /\ t[T + 2] = LF
    <2>1. Holds(t, T, <<CR, LF>>)
      BY Zenon DEF Layout
    <2>2. \A j \in 1..Len(<<CR, LF>>) : t[T + j] = <<CR, LF>>[j]
      BY <2>1, Zenon DEF Holds
    <2>3. 1 \in 1..Len(<<CR, LF>>) /\ 2 \in 1..Len(<<CR, LF>>)
          /\ <<CR, LF>>[1] = CR /\ <<CR, LF>>[2] = LF
      OBVIOUS
    <2> QED BY <2>2, <2>3
  <1>6. \A j \in 1..b : t[T + 2 + j] = B[j]
    <2>1. Holds(t, T + 2, B)
      BY Zenon DEF Layout
    <2> QED BY <1>3, <2>1, Zenon DEF Holds
  <1>7. PICK q \in Seq(Nat) : /\ q = <<CR, LF, CR, LF>> /\ Len(q) = 4
                              /\ q[1] = CR /\ q[2] = LF /\ q[3] = CR /\ q[4] = LF
    <2>1. PICK c \in Nat, d \in Nat : c = CR /\ d = LF
      BY DEF CR, LF
    <2>2. /\ <<c, d, c, d>> \in Seq(Nat) /\ Len(<<c, d, c, d>>) = 4
          /\ <<c, d, c, d>>[1] = c /\ <<c, d, c, d>>[2] = d
          /\ <<c, d, c, d>>[3] = c /\ <<c, d, c, d>>[4] = d
      OBVIOUS
    <2> QED BY <2>1, <2>2, Zenon
  <1>8. PICK P : P = Places(q, t)
    OBVIOUS
  <1>9. P \in SUBSET Nat /\ \A i : i \in P <=> StandsAt(q, t, i)
    BY ONLY <1>1, <1>8, q \in Seq(Nat), PlacesIs
  <1>10. \A j \in 1..4 : j = 1 \/ j = 2 \/ j = 3 \/ j = 4
    OBVIOUS
  <1>11. T - 1 \in P
    <2>1. PICK i \in Nat \ {0} : i = T - 1 /\ i + 4 <= n + 1
      BY <1>4
    <2>2. i - 1 + 1 = T - 1 /\ i - 1 + 2 = T /\ i - 1 + 3 = T + 1 /\ i - 1 + 4 = T + 2
      BY <1>4, <2>1
    <2>3. \A j \in 1..4 : t[i - 1 + j] = q[j]
      BY <1>5, <1>7, <1>10, <2>2, Zenon
    <2>4. StandsAt(q, t, i)
      BY <1>3, <1>7, <2>1, <2>3, Zenon DEF StandsAt
    <2> QED BY <1>9, <2>1, <2>4, Zenon
  <1>12. ASSUME NEW i \in P PROVE i \in 1..n /\ i + 3 <= n /\ t[i + 3] = LF
    <2>1. i \in Nat \ {0} /\ i + 4 <= n + 1 /\ \A j \in 1..4 : t[i - 1 + j] = q[j]
      <3>1. StandsAt(q, t, i)
        BY <1>9, Zenon
      <3> QED BY <1>3, <1>7, <3>1, Zenon DEF StandsAt
    <2>2. i - 1 + 4 = i + 3 /\ 4 \in 1..4 /\ i \in 1..n /\ i + 3 <= n
      BY <2>1
    <2>3. t[i - 1 + 4] = q[4]
      BY <2>1, <2>2, Zenon
    <2> QED BY <1>7, <2>2, <2>3, Zenon
  <1>13. PICK at : at = Greatest(P, 0)
    OBVIOUS
  <1>14. at \in P /\ \A k \in P : k <= at
    <2>1. P \in SUBSET (1..n) /\ P # {}
      BY <1>11, <1>12, Zenon
    <2> QED BY ONLY <1>13, <2>1, n \in Nat, GreatestIs
  <1>15. at \in Nat /\ T - 1 <= at /\ at + 3 <= n /\ at # 0
    <2>1. T - 1 <= at /\ at \in 1..n /\ at + 3 <= n
      BY <1>11, <1>12, <1>14, Zenon
    <2> QED BY <1>4, <2>1
  <1>16. PICK rest : rest = SubSeq(t, at + 4, n)
    OBVIOUS
  <1>17. /\ rest \in Seq(Nat) /\ Len(rest) = n - (at + 3)
         /\ \A j \in 1..(n - (at + 3)) : rest[j] = t[at + 3 + j]
    <2>1. PICK k \in Nat : k = at + 4
      BY <1>15
    <2>a. 1 <= k /\ k <= n + 1
      BY ONLY <1>15, <2>1, n \in Nat, k \in Nat
    <2>b. n + 1 - k = n - (at + 3) /\ \A j \in Nat : k + j - 1 = at + 3 + j
      BY ONLY <1>15, <2>1, n \in Nat, k \in Nat
    <2>2. n <= Len(t)
      BY <1>3
    <2>3. /\ rest \in Seq(Nat) /\ Len(rest) = n + 1 - k
          /\ \A j \in 1..(n + 1 - k) : rest[j] = t[k + j - 1]
      <3>1. rest = SubSeq(t, k, n)
        BY <1>16, <2>1, Zenon
      <3> QED BY ONLY <1>1, <2>a, <2>2, <3>1, n \in Nat, k \in Nat, SubSeqIndex
    <2>4. \A j \in 1..(n - (at + 3)) : j \in Nat
      OBVIOUS
    <2> QED BY <2>b, <2>3, <2>4, Zenon
  <1>18. Body(t) = IF at = 0 \/ ~NoBreak(rest) THEN <<>> ELSE rest
    BY <1>3, <1>7, <1>8, <1>13, <1>16, Zenon DEF Body
  <1>19. PICK l \in Nat : l = Len(rest) /\ l = n - (at + 3) /\ l <= b
    <2>1. n - (at + 3) \in Nat /\ n - (at + 3) <= b
      BY ONLY <1>4, <1>15, n \in Nat, b \in Nat
    <2> QED BY <1>17, <2>1, Zenon
  <1>20. ASSUME NEW j \in 1..l PROVE rest[j] = B[b - l + j]
    <2>1. rest[j] = t[at + 3 + j]
      BY <1>17, <1>19, Zenon
    <2>2. b - l + j \in 1..b /\ at + 3 + j = T + 2 + (b - l + j)
      BY ONLY <1>4, <1>15, <1>19, n \in Nat, b \in Nat, l \in Nat, j \in 1..l
    <2>3. t[T + 2 + (b - l + j)] = B[b - l + j]
      BY <1>6, <2>2, Zenon
    <2> QED BY <2>1, <2>2, <2>3, Zenon
  <1>21. IsSuffix(rest, B)
    <2>1. rest \in Seq(Nat) /\ Len(rest) <= Len(B)
          /\ \A i \in 1..Len(rest) : rest[i] = B[Len(B) - Len(rest) + i]
      BY <1>3, <1>17, <1>19, <1>20, Zenon
    <2> QED BY ONLY <1>2, <2>1, SuffixIndex
  <1>22. IsSuffix(<<>>, B)
    BY <1>2, EmptySuffix
  <1>23. ASSUME NoBreak(B) PROVE Body(t) = B
    <2>1. at = T - 1
      <3> SUFFICES ASSUME at # T - 1 PROVE FALSE
        OBVIOUS
      <3>1. at + 3 - (T + 2) \in 1..b /\ T + 2 + (at + 3 - (T + 2)) = at + 3
        BY ONLY <1>4, <1>15, n \in Nat, b \in Nat, at # T - 1
      <3>2. PICK j \in 1..b : T + 2 + j = at + 3
        BY <3>1, Zenon
      <3>3. B[j] = LF
        BY <1>6, <1>12, <1>14, <3>2, Zenon
      <3>4. DOMAIN B = 1..b
        BY <1>2, <1>3
      <3> QED BY <1>23, <3>3, <3>4, Zenon DEF NoBreak
    <2>2. l = b /\ \A j \in 1..b : b - b + j = j
      BY ONLY <1>4, <1>19, <2>1, n \in Nat, b \in Nat
    <2>3. \A j \in 1..b : rest[j] = B[j]
      BY <1>20, <2>2, Zenon
    <2>4. rest = B
      <3>1. rest \in Seq(Nat) /\ Len(rest) = Len(B) /\ \A j \in 1..Len(rest) : rest[j] = B[j]
        BY <1>3, <1>17, <1>19, <2>2, <2>3, Zenon
      <3> QED BY ONLY <1>2, <3>1, SameSeq
    <2> QED BY <1>15, <1>18, <1>23, <2>4, Zenon
  <1> QED BY <1>18, <1>21, <1>22, <1>23, Zenon

(* The request line of a message: a word, and a URI without a line break.  *)
LineOK(A, W) ==
  /\ A # <<>> /\ \A i \in DOMAIN A : Word(A[i])
  /\ W # <<>> /\ NoBreak(W)

(* No line break is a word character, nor are the spaces and HTTP breaks.  *)
LEMMA CodesDiffer ==
  /\ \A c : Word(c) => c \notin {CR, LF}
  /\ ~Word(SP) /\ SP \notin {CR, LF} /\ HTTP \notin {CR, LF} /\ SP # HTTP /\ CR # LF
  BY DEF Word, WordCodes, CR, LF, SP, HTTP

(* The end of a request line.                                              *)
LEMMA LineCode ==
  /\ Len(<<SP, HTTP, CR, LF>>) = 4
  /\ <<SP, HTTP, CR, LF>>[1] = SP /\ <<SP, HTTP, CR, LF>>[2] = HTTP
  /\ <<SP, HTTP, CR, LF>>[3] = CR /\ <<SP, HTTP, CR, LF>>[4] = LF
  OBVIOUS

(* Its characters: the first line break is behind the version.             *)
LEMMA FirstLine ==
  ASSUME NEW t, NEW A, NEW W, NEW F, NEW B, NEW e, NEW T, Layout(t, A, W, F, B, e, T),
         LineOK(A, W)
  PROVE  /\ t[Len(A) + 1] = SP
         /\ t[e + 1] = SP /\ t[e + 2] = HTTP /\ t[e + 3] = CR /\ t[e + 4] = LF
         /\ \A i \in 1..Len(A) : Word(t[i])
         /\ \A i \in 1..(e + 2) : t[i] \notin {CR, LF}
         /\ Len(A) \in Nat \ {0} /\ Len(W) \in Nat \ {0} /\ e + 4 <= Len(t) /\ Len(t) \in Nat
  <1>1. t \in Seq(Nat) /\ A \in Seq(Nat) /\ W \in Seq(Nat) /\ F \in Seq(Nat) /\ B \in Seq(Nat)
    BY Zenon DEF Layout
  <1>2. PICK a \in Nat : a = Len(A) /\ DOMAIN A = 1..a /\ a # 0
    <2>1. A # <<>>
      BY DEF LineOK
    <2>2. A \in Seq(Nat)
      BY <1>1
    <2> QED BY <2>1, <2>2
  <1>3. PICK w \in Nat : w = Len(W) /\ DOMAIN W = 1..w /\ w # 0
    <2>1. W # <<>>
      BY DEF LineOK
    <2>2. W \in Seq(Nat)
      BY <1>1
    <2> QED BY <2>1, <2>2
  <1>4. PICK f \in Nat, b \in Nat, n \in Nat : f = Len(F) /\ b = Len(B) /\ n = Len(t)
    <2>1. \A x \in Seq(Nat) : Len(x) \in Nat
      OBVIOUS
    <2> QED BY <1>1, <2>1, Zenon
  <1>5. e \in Nat /\ e = a + 1 + w /\ T = e + 4 + f /\ n = T + 2 + b
    BY <1>2, <1>3, <1>4, Zenon DEF Layout
  <1>6. e + 4 <= n
    BY ONLY <1>5, f \in Nat, b \in Nat, n \in Nat
  <1>7. t[a + 1] = SP
    <2>1. Holds(t, a, <<SP>>)
      BY <1>2, Zenon DEF Layout
    <2>2. 1 \in 1..Len(<<SP>>) /\ <<SP>>[1] = SP
      OBVIOUS
    <2> QED BY <2>1, <2>2, Zenon DEF Holds
  <1>8. t[e + 1] = SP /\ t[e + 2] = HTTP /\ t[e + 3] = CR /\ t[e + 4] = LF
    <2>1. Holds(t, e, <<SP, HTTP, CR, LF>>)
      BY Zenon DEF Layout
    <2>2. PICK l : /\ l = <<SP, HTTP, CR, LF>> /\ Len(l) = 4
                   /\ l[1] = SP /\ l[2] = HTTP /\ l[3] = CR /\ l[4] = LF
      BY LineCode, Zenon
    <2>3. 1 \in 1..4 /\ 2 \in 1..4 /\ 3 \in 1..4 /\ 4 \in 1..4
      OBVIOUS
    <2>4. \A j \in 1..4 : t[e + j] = l[j]
      BY <2>1, <2>2, Zenon DEF Holds
    <2> QED BY <2>2, <2>3, <2>4, Zenon
  <1>9. ASSUME NEW i \in 1..a PROVE Word(t[i])
    <2>1. Holds(t, 0, A)
      BY Zenon DEF Layout
    <2>2. t[0 + i] = A[i]
      BY <1>2, <2>1, Zenon DEF Holds
    <2>3. 0 + i = i
      OBVIOUS
    <2>4. Word(A[i])
      BY <1>2, Zenon DEF LineOK
    <2> QED BY <2>2, <2>3, <2>4, Zenon
  <1>10. ASSUME NEW i \in 1..w PROVE t[a + 1 + i] \notin {CR, LF}
    <2>1. Holds(t, a + 1, W)
      BY <1>2, Zenon DEF Layout
    <2>2. t[a + 1 + i] = W[i]
      BY <1>3, <2>1, Zenon DEF Holds
    <2>3. W[i] \notin {CR, LF}
      BY <1>3, Zenon DEF LineOK, NoBreak
    <2> QED BY <2>2, <2>3, Zenon
  <1>11. ASSUME NEW i \in 1..(e + 2) PROVE t[i] \notin {CR, LF}
    <2>1. i \in 1..a \/ i = a + 1 \/ i - (a + 1) \in 1..w \/ i = e + 1 \/ i = e + 2
      BY ONLY <1>5, a \in Nat, w \in Nat, i \in 1..(e + 2)
    <2>2. CASE i \in 1..a
      BY <1>9, <2>2, CodesDiffer, Zenon
    <2>3. CASE i = a + 1
      BY <1>7, <2>3, CodesDiffer, Zenon
    <2>4. CASE i - (a + 1) \in 1..w
      <3>1. a + 1 + (i - (a + 1)) = i
        BY ONLY a \in Nat, i \in 1..(e + 2), <1>5
      <3>2. t[a + 1 + (i - (a + 1))] \notin {CR, LF}
        BY <1>10, <2>4, Zenon
      <3> QED BY <3>1, <3>2, Zenon
    <2>5. CASE i = e + 1
      BY <1>8, <2>5, CodesDiffer, Zenon
    <2>6. CASE i = e + 2
      BY <1>8, <2>6, CodesDiffer, Zenon
    <2> QED BY <2>1, <2>2, <2>3, <2>4, <2>5, <2>6, Zenon
  <1>12. a \in Nat \ {0} /\ w \in Nat \ {0}
    BY <1>2, <1>3
  <1> QED BY <1>2, <1>3, <1>4, <1>6, <1>7, <1>8, <1>9, <1>11, <1>12, Zenon

(* The pattern of the request line reads the method and the URI.           *)
LEMMA StatusLineReads ==
  ASSUME NEW t, NEW A, NEW W, NEW F, NEW B, NEW e, NEW T, Layout(t, A, W, F, B, e, T),
         LineOK(A, W)
  PROVE  StatusLine(t) = [ok |-> TRUE, method |-> A, uri |-> W]
  <1>1. t \in Seq(Nat)
    BY DEF Layout
  <1>2. PICK a \in Nat \ {0}, w \in Nat \ {0}, n \in Nat : a = Len(A) /\ w = Len(W) /\ n = Len(t)
    BY FirstLine, Zenon
  <1>3. e \in Nat /\ e = a + 1 + w /\ e + 4 <= n
    <2>1. e + 4 <= n
      BY <1>2, FirstLine, Zenon
    <2> QED BY <1>2, <2>1, Zenon DEF Layout
  <1>4. /\ t[a + 1] = SP /\ \A i \in 1..a : Word(t[i])
        /\ t[e + 1] = SP /\ t[e + 2] = HTTP /\ t[e + 3] = CR /\ t[e + 4] = LF
        /\ \A i \in 1..(e + 2) : t[i] \notin {CR, LF}
    BY <1>2, FirstLine, Zenon
  <1>5. PICK m : m = RunEnd(t, 1, Word)
    OBVIOUS
  <1>6. m = a
    <2>1. 1 \in 1..(n + 1) /\ 1 <= a + 1 /\ a <= n /\ a \in Nat
      BY <1>3
    <2>2. WordsTo(t, 1, m)
      BY <1>1, <1>2, <1>5, <2>1, RunEndIs, Zenon
    <2>3. WordsTo(t, 1, a)
      BY <1>2, <1>4, <2>1, CodesDiffer, Zenon DEF WordsTo
    <2>4. 1 \in 1..(Len(t) + 1)
      BY <1>2, <2>1, Zenon
    <2> QED BY ONLY <1>1, <2>2, <2>3, <2>4, OneEnd
  <1>7. PICK l \in Seq(Nat) : /\ l = <<SP, HTTP, CR, LF>> /\ Len(l) = 4
                              /\ l[1] = SP /\ l[2] = HTTP /\ l[3] = CR /\ l[4] = LF
    BY LineCode, CodesAre, Zenon
  <1>8. PICK ends : ends = {k \in Places(l, t) : k > m + 2 /\ NoBreak(SubSeq(t, 1, k))}
    OBVIOUS
  <1>9. \A k : k \in Places(l, t) <=> StandsAt(l, t, k)
    BY ONLY <1>1, l \in Seq(Nat), PlacesIs
  <1>10. \A j \in 1..4 : j = 1 \/ j = 2 \/ j = 3 \/ j = 4
    OBVIOUS
  <1>11. ASSUME NEW k \in 1..n
         PROVE  NoBreak(SubSeq(t, 1, k)) <=> \A i \in 1..k : t[i] \notin {CR, LF}
    <2>1. PICK u : u = SubSeq(t, 1, k)
      OBVIOUS
    <2>2. DOMAIN u = 1..k /\ \A i \in 1..k : u[i] = t[i]
      BY ONLY <1>1, <1>2, <2>1, k \in 1..n
    <2> QED BY <2>1, <2>2, Zenon DEF NoBreak
  <1>12. e + 1 \in ends
    <2>1. PICK k \in Nat \ {0} : k = e + 1 /\ k + 4 <= n + 1 /\ k > a + 2 /\ k \in 1..n
      BY ONLY <1>3, a \in Nat \ {0}, w \in Nat \ {0}, n \in Nat
    <2>2. k - 1 + 1 = e + 1 /\ k - 1 + 2 = e + 2 /\ k - 1 + 3 = e + 3 /\ k - 1 + 4 = e + 4
      BY <1>3, <2>1
    <2>3. \A j \in 1..4 : t[k - 1 + j] = l[j]
      BY <1>4, <1>7, <1>10, <2>2, Zenon
    <2>4. StandsAt(l, t, k)
      BY <1>2, <1>7, <2>1, <2>3, Zenon DEF StandsAt
    <2>5. \A i \in 1..k : i \in 1..(e + 2)
      BY <1>3, <2>1
    <2>6. NoBreak(SubSeq(t, 1, k))
      BY <1>4, <1>11, <2>1, <2>5, Zenon
    <2> QED BY <1>6, <1>8, <1>9, <2>1, <2>4, <2>6, Zenon
  <1>13. ASSUME NEW k \in ends PROVE k = e + 1
    <2>1. StandsAt(l, t, k) /\ NoBreak(SubSeq(t, 1, k))
      BY <1>8, <1>9, Zenon
    <2>2. k \in Nat \ {0} /\ k + 4 <= n + 1 /\ \A j \in 1..4 : t[k - 1 + j] = l[j]
      BY <1>2, <1>7, <2>1, Zenon DEF StandsAt
    <2>3. 1 \in 1..4 /\ 3 \in 1..4 /\ k - 1 + 1 = k /\ k - 1 + 3 = k + 2 /\ k \in 1..n
      BY <2>2
    <2>4. t[k] = SP /\ t[k + 2] = CR
      BY <1>7, <2>2, <2>3, Zenon
    <2>5. k + 2 \notin 1..(e + 2)
      BY <1>4, <2>4, Zenon
    <2>6. \A i \in 1..k : t[i] \notin {CR, LF}
      BY <1>11, <2>1, <2>3, Zenon
    <2>7. e + 3 \notin 1..k
      BY <1>4, <2>6, Zenon
    <2>8. k = e + 1 \/ k = e + 2
      BY ONLY <1>3, <2>2, <2>5, <2>7
    <2>9. k # e + 2
      BY <1>4, <2>4, CodesDiffer, Zenon
    <2> QED BY <2>8, <2>9
  <1>14. Greatest(ends, 0) = e + 1
    <2>1. ends \in SUBSET (1..n) /\ ends # {}
      <3>1. e + 1 \in 1..n
        BY <1>3
      <3> QED BY <1>12, <1>13, <3>1, Zenon
    <2>2. Greatest(ends, 0) \in ends
      BY ONLY <2>1, n \in Nat, GreatestIs
    <2> QED BY <1>13, <2>2, Zenon
  <1>15. StatusLine(t) =
          IF m = 0 \/ ends = {} \/ t[m + 1] # SP
          THEN [ok |-> FALSE, method |-> <<>>, uri |-> <<>>]
          ELSE [ok |-> TRUE, method |-> SubSeq(t, 1, m),
                uri |-> SubSeq(t, m + 2, Greatest(ends, 0) - 1)]
    BY <1>5, <1>7, <1>8, Zenon DEF StatusLine
  <1>16. ~(m = 0 \/ ends = {} \/ t[m + 1] # SP)
    BY <1>4, <1>6, <1>12, Zenon
  <1>17. SubSeq(t, 1, m) = A
    <2>1. Holds(t, 0, A)
      BY DEF Layout
    <2>2. SubSeq(t, 0 + 1, 0 + Len(A)) = A
      BY <2>1, HoldsPart, Zenon
    <2>3. 0 + 1 = 1 /\ 0 + a = a
      OBVIOUS
    <2> QED BY <1>2, <1>6, <2>2, <2>3, Zenon
  <1>18. SubSeq(t, m + 2, Greatest(ends, 0) - 1) = W
    <2>1. Holds(t, Len(A) + 1, W)
      BY DEF Layout
    <2>2. SubSeq(t, Len(A) + 1 + 1, Len(A) + 1 + Len(W)) = W
      BY <2>1, HoldsPart, Zenon
    <2>3. a + 1 + 1 = a + 2 /\ a + 1 + w = e + 1 - 1
      BY <1>3
    <2>4. SubSeq(t, a + 1 + 1, a + 1 + w) = W
      BY <1>2, <2>2, Zenon
    <2>5. m + 2 = a + 1 + 1
      BY <1>6, <2>3, Zenon
    <2>6. Greatest(ends, 0) - 1 = a + 1 + w
      <3>1. PICK g : g = Greatest(ends, 0)
        OBVIOUS
      <3>2. g = e + 1
        BY <1>14, <3>1, Zenon
      <3>3. g - 1 = a + 1 + w
        BY ONLY <1>3, <3>2, a \in Nat \ {0}, w \in Nat \ {0}
      <3> QED BY <3>1, <3>3, Zenon
    <2> QED BY <2>4, <2>5, <2>6, Zenon
  <1> QED BY <1>15, <1>16, <1>17, <1>18, Zenon

-----------------------------------------------------------------------------
(* request.cc: the headers.                                              *)

(* A header that the pattern of a line reads as it was meant.              *)
CleanHeader(n, v) ==
  /\ Texts(n, v) /\ n # <<>> /\ v # <<>>
  /\ Places(<<COLON, SP>>, v) = {}

(* The pattern of a header reads it where it stands.                       *)
LEMMA LineReads ==
  ASSUME NEW t \in Seq(Nat), NEW p, NEW q, NEW n, NEW v, LineAt(t, p, q, n, v),
         CleanHeader(n, v), p # 0, q <= Len(t), t[p] = LF
  PROVE  /\ IsLine(t, p) /\ LineEnd(t, p) + 1 = q
         /\ LinePair(t, p) = [name |-> n, value |-> v]
  <1>1. n \in Seq(Nat)
    BY DEF CleanHeader, Texts
  <1>2. v \in Seq(Nat)
    BY DEF CleanHeader, Texts
  <1>3. PICK l \in Nat : l = Len(n) /\ DOMAIN n = 1..l /\ l # 0
    <2>1. n # <<>>
      BY DEF CleanHeader
    <2> QED BY <1>1, <2>1
  <1>4. PICK x \in Nat : x = Len(v) /\ DOMAIN v = 1..x /\ x # 0
    <2>1. v # <<>>
      BY DEF CleanHeader
    <2> QED BY <1>2, <2>1
  <1>5. PICK N \in Nat : N = Len(t)
    OBVIOUS
  <1>6. p \in Nat /\ q = p + l + x + 4 /\ q <= N
    BY <1>3, <1>4, <1>5, Zenon DEF LineAt
  <1>7. /\ \A j \in 1..l : t[p + j] = n[j]
        /\ t[p + l + 1] = COLON /\ t[p + l + 2] = SP
        /\ \A j \in 1..x : t[p + l + 2 + j] = v[j]
        /\ t[q - 1] = CR /\ t[q] = LF
    BY <1>3, <1>4, Zenon DEF LineAt
  <1>8. LineEnd(t, p) = q - 1
    <2>1. PICK S : S = {k \in (p + 1)..N : t[k] \in {CR, LF}}
      OBVIOUS
    <2>2. PICK e : e = LineEnd(t, p) /\ e = Least(S, N + 1)
      BY <1>5, <2>1, Zenon DEF LineEnd
    <2>3. q - 1 \in S
      <3>1. q - 1 \in (p + 1)..N
        BY ONLY <1>6, l \in Nat, x \in Nat, N \in Nat
      <3> QED BY <1>7, <2>1, <3>1, Zenon
    <2>4. S \in SUBSET Nat /\ S # {}
      <3>1. \A k \in (p + 1)..N : k \in Nat
        BY <1>6
      <3> QED BY <2>1, <2>3, <3>1, Zenon
    <2>5. e \in S /\ e <= q - 1
      <3>1. e \in S /\ \A k \in S : e <= k
        BY ONLY <2>2, <2>4, LeastIs
      <3> QED BY <2>3, <3>1, Zenon
    <2>6. e \in (p + 1)..N /\ t[e] \in {CR, LF}
      BY <2>1, <2>5, Zenon
    <2>7. e \in (p + 1)..q /\ e # q
      BY ONLY <1>6, <2>5, <2>6, l \in Nat, x \in Nat, N \in Nat
    <2>8. Texts(n, v)
      BY DEF CleanHeader
    <2>9. (e = q /\ t[e] = LF) \/ (e = q - 1 /\ t[e] = CR)
      BY ONLY <2>6, <2>7, <2>8, LineAt(t, p, q, n, v), LineBreaks
    <2> QED BY <2>2, <2>7, <2>9, Zenon
  <1>9. PICK s \in Nat : s = p + l + 1
    BY <1>6
  <1>10. LineSplit(t, p) = s
    <2>1. PICK K : K = {k \in (p + 2)..(q - 1 - 3) : t[k] = COLON /\ t[k + 1] = SP}
      OBVIOUS
    <2>2. LineSplit(t, p) = Greatest(K, 0)
      BY <1>8, <2>1, Zenon DEF LineSplit
    <2>3. s \in K
      <3>1. s \in (p + 2)..(q - 1 - 3) /\ s + 1 = p + l + 2
        BY ONLY <1>3, <1>4, <1>6, <1>9, l \in Nat, x \in Nat
      <3>2. t[s] = COLON /\ t[s + 1] = SP
        BY <1>7, <1>9, <3>1, Zenon
      <3> QED BY <2>1, <3>1, <3>2, Zenon
    <2>4. ASSUME NEW k \in K PROVE k = s
      <3>1. k \in (p + 2)..(q - 1 - 3) /\ t[k] = COLON /\ t[k + 1] = SP
        BY <2>1, Zenon
      <3>2. COLON # SP
        BY DEF COLON, SP
      <3>3. k # p + l + 2
        BY <1>7, <3>1, <3>2, Zenon
      <3>4. ~(k <= p + l)
        <4> SUFFICES ASSUME k <= p + l PROVE FALSE
          OBVIOUS
        <4>1. k - p \in 1..l /\ p + (k - p) = k
          BY ONLY <1>6, <3>1, l \in Nat, x \in Nat, k <= p + l
        <4>2. PICK j \in 1..l : p + j = k
          BY <4>1, Zenon
        <4>3. n[j] = COLON
          BY <1>7, <3>1, <4>2, Zenon
        <4> QED BY <1>3, <4>3, Zenon DEF CleanHeader, Texts, IsHeader
      <3>5. ~(k >= p + l + 3)
        <4> SUFFICES ASSUME k >= p + l + 3 PROVE FALSE
          OBVIOUS
        <4>1. /\ k - (p + l + 2) \in 1..x /\ p + l + 2 + (k - (p + l + 2)) = k
              /\ k - (p + l + 2) + 1 \in 1..x /\ p + l + 2 + (k - (p + l + 2) + 1) = k + 1
          BY ONLY <1>6, <3>1, l \in Nat, x \in Nat, k >= p + l + 3
        <4>2. PICK j \in 1..x : p + l + 2 + j = k /\ j + 1 \in 1..x /\ p + l + 2 + (j + 1) = k + 1
          BY <4>1, Zenon
        <4>3. v[j] = COLON /\ v[j + 1] = SP
          BY <1>7, <3>1, <4>2, Zenon
        <4>4. PICK c \in Seq(Nat) : c = <<COLON, SP>> /\ Len(c) = 2 /\ c[1] = COLON /\ c[2] = SP
          <5>1. <<COLON, SP>>[1] = COLON /\ <<COLON, SP>>[2] = SP
            OBVIOUS
          <5> QED BY <5>1, CodesAre, Zenon
        <4>5. j \in Nat \ {0} /\ j + 2 <= x + 1 /\ j - 1 + 1 = j /\ j - 1 + 2 = j + 1
          BY ONLY <4>2, x \in Nat
        <4>6. \A i \in 1..2 : i = 1 \/ i = 2
          OBVIOUS
        <4>7. \A i \in 1..2 : v[j - 1 + i] = c[i]
          BY <4>3, <4>4, <4>5, <4>6, Zenon
        <4>8. StandsAt(c, v, j)
          BY <1>4, <4>4, <4>5, <4>7, Zenon DEF StandsAt
        <4>9. j \in Places(c, v)
          BY ONLY <1>2, c \in Seq(Nat), <4>8, PlacesIs
        <4> QED BY <4>4, <4>9, Zenon DEF CleanHeader
      <3> QED BY ONLY <1>6, <1>9, <3>1, <3>3, <3>4, <3>5, l \in Nat, x \in Nat
    <2>5. K \in SUBSET (1..N) /\ K # {}
      <3>1. s \in 1..N
        BY ONLY <1>6, <1>9, l \in Nat, x \in Nat, N \in Nat
      <3> QED BY <2>3, <2>4, <3>1, Zenon
    <2>6. Greatest(K, 0) \in K
      BY ONLY <2>5, N \in Nat, GreatestIs
    <2> QED BY <2>2, <2>4, <2>6, Zenon
  <1>11. s # 0 /\ q - 1 <= N /\ q - 1 + 1 = q
    BY ONLY <1>6, <1>9, l \in Nat, x \in Nat, N \in Nat
  <1>12. IsLine(t, p)
    BY <1>5, <1>7, <1>8, <1>10, <1>11, Zenon DEF IsLine
  <1>13. Holds(t, p, n)
    <2>1. p + l <= N
      BY ONLY <1>6, l \in Nat, x \in Nat, N \in Nat
    <2> QED BY <1>1, <1>3, <1>5, <1>6, <1>7, <2>1, Zenon DEF Holds
  <1>14. Holds(t, p + l + 2, v)
    <2>1. p + l + 2 + x <= N /\ p + l + 2 \in Nat
      BY ONLY <1>6, l \in Nat, x \in Nat, N \in Nat
    <2> QED BY <1>2, <1>4, <1>5, <1>7, <2>1, Zenon DEF Holds
  <1>15. SubSeq(t, p + 1, p + l) = n
    BY <1>3, <1>13, HoldsPart, Zenon
  <1>16. SubSeq(t, p + l + 2 + 1, p + l + 2 + x) = v
    BY <1>4, <1>14, HoldsPart, Zenon
  <1>17. s - 1 = p + l /\ s + 2 = p + l + 2 + 1 /\ q - 1 - 1 = p + l + 2 + x
    BY ONLY <1>6, <1>9, l \in Nat, x \in Nat
  <1>18. LinePair(t, p) = [name |-> n, value |-> v]
    BY <1>8, <1>10, <1>15, <1>16, <1>17, Zenon DEF LinePair
  <1> QED BY <1>8, <1>11, <1>12, <1>18, Zenon

(* The lines of the headers u stand in t behind c: the k-th ends at b[k].  *)
LinesAt(t, c, u, b) ==
  /\ b \in [0..Len(u) -> Nat] /\ b[0] = c /\ \A k \in 0..Len(u) : c <= b[k]
  /\ \A k \in 1..Len(u) : LineAt(t, b[k - 1], b[k], u[k].name, u[k].value) /\ b[k] <= Len(t)

(* So they do where their texts do.                                        *)
LEMMA LinesStand ==
  ASSUME NEW u \in Seq(Texted), NEW F, F = FlattenSeq([i \in DOMAIN u |-> HeaderPart(u, i)]),
         NEW t, NEW c, Holds(t, c, F)
  PROVE  \E b : LinesAt(t, c, u, b) /\ b[Len(u)] = c + Len(F)
  <1>1. PICK m \in Nat : m = Len(u) /\ DOMAIN u = 1..m /\ \A k \in 1..m : u[k] \in Texted
    OBVIOUS
  <1>2. PICK ss : ss = [i \in 1..m |-> HeaderPart(u, i)]
    OBVIOUS
  <1>3. ss \in Seq(Seq(Nat)) /\ F = FlattenSeq(ss)
    BY <1>1, <1>2, PartsAre, Zenon
  <1>4. Len(ss) = m /\ \A k \in 1..m : ss[k] = HeaderPart(u, k)
    <2>1. DOMAIN ss = 1..m
      BY <1>2, Zenon
    <2>2. Len(ss) = m
      BY ONLY <1>3, <2>1, m \in Nat
    <2> QED BY <1>2, <2>2, Zenon
  <1>5. PICK at : Laid(F, ss, at)
    BY <1>3, FlattenLays
  <1>6. /\ at \in [0..m -> 0..Len(F)] /\ at[0] = 0 /\ at[m] = Len(F)
        /\ \A k \in 1..m : /\ at[k] = at[k - 1] + Len(ss[k])
                           /\ \A j \in 1..Len(ss[k]) : F[at[k - 1] + j] = ss[k][j]
    BY <1>4, <1>5, Zenon DEF Laid
  <1>7. PICK f \in Nat, n \in Nat : f = Len(F) /\ n = Len(t)
    <2>1. t \in Seq(Nat) /\ F \in Seq(Nat)
      BY Zenon DEF Holds
    <2>2. \A x \in Seq(Nat) : Len(x) \in Nat
      OBVIOUS
    <2> QED BY <2>1, <2>2, Zenon
  <1>8. c \in Nat /\ c + f <= n /\ \A j \in 1..f : t[c + j] = F[j]
    BY <1>7, Zenon DEF Holds
  <1>9. PICK b : b = [k \in 0..m |-> c + at[k]]
    OBVIOUS
  <1>10. ASSUME NEW k \in 0..m 
         PROVE  at[k] \in 0..f /\ b[k] = c + at[k] /\ b[k] \in Nat /\ b[k] <= n /\ c <= b[k]
    <2>1. at[k] \in 0..f /\ b[k] = c + at[k]
      BY <1>6, <1>7, <1>9, Zenon
    <2>2. b[k] \in Nat /\ b[k] <= n /\ c <= b[k]
      BY ONLY <1>8, <2>1, f \in Nat, n \in Nat
    <2> QED BY <2>1, <2>2, Zenon
  <1>11. b \in [0..m -> Nat]
    <2>1. \A k \in 0..m : c + at[k] \in Nat
      BY <1>10, Zenon
    <2> QED BY <1>9, <2>1, Zenon
  <1>12. b[0] = c /\ b[m] = c + f
    <2>1. 0 \in 0..m /\ m \in 0..m
      BY <1>1
    <2>2. c + 0 = c
      BY <1>8
    <2> QED BY <1>6, <1>7, <1>10, <2>1, <2>2, Zenon
  <1>13. ASSUME NEW k \in 1..m
         PROVE  LineAt(t, b[k - 1], b[k], u[k].name, u[k].value) /\ b[k] <= n
    <2>1. k - 1 \in 0..m /\ k \in 0..m
      BY <1>1
    <2>2. PICK x \in Seq(Nat) : x = u[k].name
      BY <1>1 DEF Texted
    <2>3. PICK y \in Seq(Nat) : y = u[k].value
      BY <1>1 DEF Texted
    <2>4. PICK s : s = ss[k]
      OBVIOUS
    <2>5. s = x \o <<COLON, SP>> \o y \o <<CR, LF>>
      BY <1>4, <2>2, <2>3, <2>4, Zenon DEF HeaderPart
    <2>6. s \in Seq(Nat) /\ LineAt(s, 0, Len(s), x, y)
      BY ONLY <2>5, x \in Seq(Nat), y \in Seq(Nat), LineIs
    <2>7. PICK d \in Nat, q \in Nat : d = b[k - 1] /\ q = b[k] /\ q <= n
      BY <1>10, <2>1, Zenon
    <2>8. PICK a \in 0..f, z \in 0..f : a = at[k - 1] /\ z = at[k] /\ d = c + a /\ q = c + z
      BY <1>10, <2>1, <2>7, Zenon
    <2>9. PICK l \in Nat : l = Len(s)
      BY <2>6
    <2>10. z = a + l /\ \A j \in 1..l : F[a + j] = s[j]
      BY <1>6, <2>4, <2>8, <2>9, Zenon
    <2>11. q = d + l
      <3>1. z = a + l /\ d = c + a /\ q = c + z /\ c \in Nat
        BY <1>8, <2>8, <2>10, Zenon
      <3> QED BY ONLY <3>1, a \in 0..f, l \in Nat, f \in Nat
    <2>12. ASSUME NEW j \in 1..l PROVE t[d + j] = s[j]
      <3>1. a + j \in 1..f /\ c + (a + j) = d + j
        <4>1. z = a + l /\ d = c + a /\ c \in Nat
          BY <1>8, <2>8, <2>10, Zenon
        <4> QED BY ONLY <4>1, a \in 0..f, z \in 0..f, l \in Nat, f \in Nat, j \in 1..l
      <3>2. t[c + (a + j)] = F[a + j]
        BY <1>8, <3>1, Zenon
      <3> QED BY <2>10, <3>1, <3>2, Zenon
    <2>13. q = d + Len(s) /\ \A j \in 1..Len(s) : t[d + j] = s[j]
      BY <2>9, <2>11, <2>12, Zenon
    <2>14. LineAt(t, d, q, x, y)
      BY ONLY <2>6, <2>13, d \in Nat, x \in Seq(Nat), y \in Seq(Nat), LineMoves
    <2> QED BY <2>2, <2>3, <2>7, <2>14, Zenon
  <1>14. LinesAt(t, c, u, b)
    BY <1>1, <1>7, <1>10, <1>11, <1>12, <1>13, Zenon DEF LinesAt
  <1> QED BY <1>1, <1>7, <1>12, <1>14, Zenon

(* The headers end with a line break.                                      *)
LEMMA LinesEnd ==
  ASSUME NEW t, NEW A, NEW W, NEW F, NEW B, NEW e, NEW T, Layout(t, A, W, F, B, e, T),
         NEW u \in Seq(Texted), NEW b, LinesAt(t, e + 4, u, b), NEW k \in 0..Len(u)
  PROVE  t[b[k] - 1] = CR /\ t[b[k]] = LF
  <1>1. PICK m \in Nat : m = Len(u)
    OBVIOUS
  <1>2. CASE k = 0
    <2>1. b[k] = e + 4
      BY <1>2, Zenon DEF LinesAt
    <2>2. Holds(t, e, <<SP, HTTP, CR, LF>>) /\ e \in Nat
      BY Zenon DEF Layout
    <2>3. 3 \in 1..4 /\ 4 \in 1..4 /\ e + 4 - 1 = e + 3
      BY <2>2
    <2>4. t[e + 3] = CR /\ t[e + 4] = LF
      BY <2>2, <2>3, LineCode, Zenon DEF Holds
    <2>5. PICK x : x = b[k]
      OBVIOUS
    <2>6. x - 1 = e + 3 /\ x = e + 4
      BY ONLY <2>1, <2>2, <2>5
    <2> QED BY <2>4, <2>5, <2>6, Zenon
  <1>3. CASE k # 0
    <2>1. k \in 1..Len(u)
      BY <1>1, <1>3
    <2>2. LineAt(t, b[k - 1], b[k], u[k].name, u[k].value)
      BY <2>1, Zenon DEF LinesAt
    <2> QED BY <2>2, Zenon DEF LineAt
  <1> QED BY <1>2, <1>3, Zenon

(* Where no line begins, the pattern of headers goes on.                   *)
LEMMA NoLines ==
  ASSUME NEW t \in Seq(Nat), NEW r, ReadsLines(t, r), NEW i \in Nat, NEW j \in Nat,
         1 <= i, i <= j, j <= Len(t) + 1, \A k \in i..(j - 1) : ~IsLine(t, k)
  PROVE  r[i] = r[j]
  <1>1. PICK n \in Nat : n = Len(t)
    OBVIOUS
  <1>2. PICK Bad : Bad = {k \in i..j : r[k] # r[i]}
    OBVIOUS
  <1>3. CASE Bad = {}
    <2>1. j \in i..j
      OBVIOUS
    <2> QED BY <1>2, <1>3, <2>1, Zenon
  <1>4. CASE Bad # {}
    <2>1. Bad \in SUBSET Nat
      BY <1>2
    <2>2. PICK k \in Bad : \A c \in Bad : k <= c
      BY ONLY <1>4, <2>1, FirstIndex
    <2>3. k \in i..j /\ r[k] # r[i]
      BY <1>2, <2>2, Zenon
    <2>4. k # i
      BY <2>3, Zenon
    <2>5. PICK p \in i..(j - 1) : p + 1 = k /\ p \in i..j /\ p \in 1..n /\ ~(k <= p)
      <3>1. /\ k - 1 \in i..(j - 1) /\ k - 1 + 1 = k /\ k - 1 \in i..j /\ k - 1 \in 1..n
            /\ ~(k <= k - 1)
        BY ONLY <1>1, <2>3, <2>4, i \in Nat, j \in Nat, n \in Nat, 1 <= i, j <= Len(t) + 1
      <3> QED BY <3>1, Zenon
    <2>6. r[p] = r[i]
      BY <1>2, <2>2, <2>5, Zenon
    <2>7. r[p] = r[p + 1]
      BY <1>1, <2>5, Zenon DEF ReadsLines
    <2> QED BY <2>3, <2>5, <2>6, <2>7, Zenon
  <1> QED BY <1>3, <1>4

(* What is read behind any place is a row of lines.                        *)
LEMMA LinesTyped ==
  ASSUME NEW t \in Seq(Nat), NEW r, ReadsLines(t, r), NEW R,
         \A i \in 1..Len(t) : LinePair(t, i) \in R, NEW i \in 1..(Len(t) + 1)
  PROVE  r[i] \in Seq(R)
  <1>1. PICK n \in Nat : n = Len(t)
    OBVIOUS
  <1>2. PICK Bad : Bad = {k \in 1..(n + 1) : r[k] \notin Seq(R)}
    OBVIOUS
  <1>3. CASE Bad = {}
    BY <1>1, <1>2, <1>3, Zenon
  <1>4. CASE Bad # {}
    <2>1. Bad \in SUBSET (1..(n + 1)) /\ n + 1 \in Nat
      BY <1>2
    <2>2. PICK k \in Bad : \A c \in Bad : c <= k
      BY ONLY <1>4, <2>1, LastIndex
    <2>3. k \in 1..(n + 1) /\ r[k] \notin Seq(R)
      BY <1>2, <2>2, Zenon
    <2>4. \A c \in 1..(n + 1) : ~(c <= k) => r[c] \in Seq(R)
      BY <1>2, <2>2, Zenon
    <2>5. k # n + 1
      <3>1. <<>> \in Seq(R)
        OBVIOUS
      <3> QED BY <1>1, <2>3, <3>1, Zenon DEF ReadsLines
    <2>6. k \in 1..n /\ k + 1 \in 1..(n + 1) /\ ~(k + 1 <= k)
      BY ONLY <2>3, <2>5, n \in Nat
    <2>7. CASE IsLine(t, k)
      <3>1. k \in 1..Len(t)
        BY <1>1, <2>6, Zenon
      <3>2. PICK l \in (k + 1)..Len(t) : l = LineEnd(t, k)
        BY ONLY <2>7, <3>1, t \in Seq(Nat), LineEndBehind
      <3>3. l + 1 \in 1..(n + 1) /\ ~(l + 1 <= k)
        BY <1>1, <2>6, <3>2
      <3>4. PICK w \in Seq(R) : w = r[LineEnd(t, k) + 1]
        BY <2>4, <3>2, <3>3, Zenon
      <3>5. PICK c \in R : c = LinePair(t, k)
        BY <3>1, Zenon
      <3>6. <<c>> \o w \in Seq(R)
        BY ONLY w \in Seq(R), c \in R
      <3>7. r[k] = <<c>> \o w
        BY <2>7, <3>1, <3>4, <3>5, Zenon DEF ReadsLines
      <3> QED BY <2>3, <3>6, <3>7, Zenon
    <2>8. CASE ~IsLine(t, k)
      <3>1. r[k] = r[k + 1]
        BY <1>1, <2>6, <2>8, Zenon DEF ReadsLines
      <3> QED BY <2>3, <2>4, <2>6, <3>1, Zenon
    <2> QED BY <2>7, <2>8
  <1> QED BY <1>3, <1>4

(* What is behind the pairs of u does not replace one of them.             *)
LEMMA FirstStays ==
  ASSUME NEW R, NEW u \in Seq(R), NEW v \in Seq(R), NEW k \in DOMAIN u
  PROVE  FirstOf(u \o v, u[k].name) = FirstOf(u, u[k].name)
  <1>1. PICK m \in Nat, n \in Nat : m = Len(u) /\ n = Len(v)
    OBVIOUS
  <1> PICK w : w = u \o v
    OBVIOUS
  <1>2. DOMAIN u = 1..m /\ DOMAIN w = 1..(m + n) /\ \A i \in 1..m : w[i] = u[i]
    BY <1>1
  <1>3. PICK x : x = u[k].name
    OBVIOUS
  <1>4. PICK S, D : S = {i \in DOMAIN u : u[i].name = x} /\ D = {i \in DOMAIN w : w[i].name = x}
    OBVIOUS
  <1>5. k \in S /\ k \in 1..m
    BY <1>2, <1>3, <1>4, Zenon
  <1>6. S \subseteq D /\ S \in SUBSET (1..m)
    <2>1. \A i \in 1..m : i \in 1..(m + n)
      OBVIOUS
    <2> QED BY <1>2, <1>4, <2>1, Zenon
  <1>7. D \in SUBSET Nat /\ S \in SUBSET Nat
    BY <1>2, <1>4
  <1>8. PICK l, d : l = Least(S, 0) /\ d = Least(D, 0)
    OBVIOUS
  <1>9. l \in S /\ \A i \in S : l <= i
    <2>1. S # {}
      BY <1>5, Zenon
    <2> QED BY ONLY <1>7, <1>8, <2>1, LeastIs
  <1>10. d \in D /\ \A i \in D : d <= i
    <2>1. D # {}
      BY <1>5, <1>6, Zenon
    <2> QED BY ONLY <1>7, <1>8, <2>1, LeastIs
  <1>11. d <= l /\ l \in 1..m
    BY <1>6, <1>9, <1>10, Zenon
  <1>12. d \in 1..m
    <2>1. d \in 1..(m + n)
      BY <1>2, <1>4, <1>10, Zenon
    <2> QED BY ONLY <1>11, <2>1, m \in Nat, n \in Nat
  <1>13. d \in S
    BY <1>2, <1>4, <1>10, <1>12, Zenon
  <1>14. l <= d
    BY <1>9, <1>13, Zenon
  <1>15. d = l
    BY <1>11, <1>12, <1>14
  <1>16. FirstOf(u, x) = u[l].value
    BY <1>4, <1>5, <1>8, Zenon DEF FirstOf
  <1>17. FirstOf(w, x) = w[d].value
    BY <1>4, <1>5, <1>6, <1>8, Zenon DEF FirstOf
  <1> QED BY <1>1, <1>2, <1>3, <1>12, <1>15, <1>16, <1>17, Zenon

(* The pattern of headers reads them all, and what it takes for a header   *)
(* in the body behind them.                                                *)
LEMMA HeadersRead ==
  ASSUME NEW t, NEW A, NEW W, NEW F, NEW B, NEW e, NEW T, Layout(t, A, W, F, B, e, T),
         LineOK(A, W), NEW u \in Seq(Texted),
         F = FlattenSeq([i \in DOMAIN u |-> HeaderPart(u, i)]),
         \A k \in DOMAIN u : CleanHeader(u[k].name, u[k].value)
  PROVE  \A k \in DOMAIN u : FirstOf(HeaderPairs(t), u[k].name) = FirstOf(u, u[k].name)
  <1>1. t \in Seq(Nat)
    BY DEF Layout
  <1>2. PICK n \in Nat : n = Len(t)
    BY <1>1
  <1>3. PICK m \in Nat : m = Len(u) /\ DOMAIN u = 1..m /\ \A k \in 1..m : u[k] \in Texted
    OBVIOUS
  <1>4. e \in Nat /\ T \in Nat /\ T = e + 4 + Len(F) /\ Holds(t, e + 4, F)
    BY Zenon DEF Layout
  <1>5. PICK b : LinesAt(t, e + 4, u, b) /\ b[m] = T
    <2>1. PICK b : LinesAt(t, e + 4, u, b) /\ b[Len(u)] = e + 4 + Len(F)
      <3>1. PICK c : c = e + 4
        OBVIOUS
      <3>2. Holds(t, c, F)
        BY <1>4, <3>1, Zenon
      <3>3. \E d : LinesAt(t, c, u, d) /\ d[Len(u)] = c + Len(F)
        BY ONLY <3>2, u \in Seq(Texted), F = FlattenSeq([i \in DOMAIN u |-> HeaderPart(u, i)]),
                LinesStand
      <3> QED BY <3>1, <3>3, Zenon
    <2> QED BY <1>3, <1>4, <2>1, Zenon
  <1>6. /\ b \in [0..m -> Nat] /\ b[0] = e + 4
        /\ \A k \in 1..m : LineAt(t, b[k - 1], b[k], u[k].name, u[k].value) /\ b[k] <= n
    BY <1>2, <1>3, <1>5, Zenon DEF LinesAt
  <1>7. PICK r : ReadsLines(t, r) /\ HeaderPairs(t) = r[1]
    BY <1>1, HeaderPairsIs
  <1>8. e + 4 <= n /\ T <= n
    <2>1. e + 4 <= n
      BY <1>2, FirstLine, Zenon
    <2>2. n = T + 2 + Len(B) /\ B \in Seq(Nat)
      BY <1>2, Zenon DEF Layout
    <2>3. PICK c \in Nat : c = Len(B)
      BY <2>2
    <2>4. n = T + 2 + c
      BY <2>2, <2>3, Zenon
    <2> QED BY ONLY <1>4, <2>1, <2>4, c \in Nat, n \in Nat
  <1>9. r[1] = r[b[0]]
    <2>1. ASSUME NEW k \in 1..(e + 4 - 1) PROVE ~IsLine(t, k)
      <3>1. k \in 1..(e + 2) \/ k = e + 3
        BY <1>4
      <3>2. t[k] # LF
        BY <3>1, FirstLine, CodesDiffer, Zenon
      <3> QED BY <3>2, Zenon DEF IsLine
    <2>2. PICK i \in Nat, j \in Nat : i = 1 /\ j = e + 4 /\ 1 <= i /\ i <= j
      BY <1>4
    <2>3. j <= Len(t) + 1 /\ \A k \in i..(j - 1) : ~IsLine(t, k)
      <3>1. j <= n + 1
        BY ONLY <1>8, <2>2, n \in Nat
      <3>2. \A k \in i..(j - 1) : k \in 1..(e + 4 - 1)
        BY ONLY <2>2, <1>4
      <3> QED BY <1>2, <2>1, <3>1, <3>2, Zenon
    <2>4. r[i] = r[j]
      BY ONLY <1>1, <1>7, <2>2, <2>3, i \in Nat, j \in Nat, NoLines
    <2> QED BY <1>6, <2>2, <2>4, Zenon
  <1>10. PICK R : R = Texted \cup {LinePair(t, i) : i \in 1..Len(t)}
    OBVIOUS
  <1>11. PICK v \in Seq(R) : v = r[b[m]]
    <2>1. \A i \in 1..Len(t) : LinePair(t, i) \in R
      BY <1>10, Zenon
    <2>2. T \in 1..(Len(t) + 1)
      <3>1. 1 <= T
        <4>1. F \in Seq(Nat)
          BY DEF Layout
        <4>2. PICK f \in Nat : f = Len(F)
          BY ONLY <4>1
        <4>3. T = e + 4 + f
          BY <1>4, <4>2, Zenon
        <4> QED BY ONLY <1>4, <4>3, f \in Nat
      <3>2. T \in 1..(n + 1)
        BY ONLY <1>4, <1>8, <3>1, n \in Nat
      <3> QED BY <1>2, <3>2, Zenon
    <2>3. r[T] \in Seq(R)
      BY ONLY <1>1, <1>7, <2>1, <2>2, LinesTyped
    <2> QED BY <1>5, <2>3, Zenon
  <1>12. ASSUME NEW k \in 1..m PROVE r[b[k - 1]] = <<u[k]>> \o r[b[k]]
    <2>1. k - 1 \in 0..m /\ k \in 0..m
      OBVIOUS
    <2>2. PICK p \in Nat, q \in Nat : p = b[k - 1] /\ q = b[k]
      BY <1>6, <2>1, Zenon
    <2>3. PICK x, y : x = u[k].name /\ y = u[k].value
      OBVIOUS
    <2>4. LineAt(t, p, q, x, y) /\ q <= Len(t) /\ CleanHeader(x, y)
      BY <1>2, <1>3, <1>6, <2>2, <2>3, Zenon
    <2>5. t[p] = LF
      <3>1. k - 1 \in 0..Len(u)
        BY <1>3, <2>1, Zenon
      <3>2. t[b[k - 1]] = LF
        BY ONLY <1>5, <3>1, u \in Seq(Texted), Layout(t, A, W, F, B, e, T), LinesEnd
      <3> QED BY <2>2, <3>2, Zenon
    <2>6. p # 0 /\ p \in 1..n
      <3>2. e + 4 <= p
        BY <1>3, <1>5, <2>1, <2>2, Zenon DEF LinesAt
      <3>3. x \in Seq(Nat) /\ y \in Seq(Nat)
        BY <2>4, Zenon DEF CleanHeader, Texts
      <3>4. PICK c \in Nat, d \in Nat : c = Len(x) /\ d = Len(y)
        <4>1. \A w \in Seq(Nat) : Len(w) \in Nat
          OBVIOUS
        <4> QED BY <3>3, <4>1, Zenon
      <3>5. q = p + c + d + 4 /\ q <= n
        BY <1>2, <2>4, <3>4, Zenon DEF LineAt
      <3> QED BY ONLY <1>4, <3>2, <3>5, c \in Nat, d \in Nat, n \in Nat, p \in Nat
    <2>7. /\ IsLine(t, p) /\ LineEnd(t, p) + 1 = q
          /\ LinePair(t, p) = [name |-> x, value |-> y]
      BY ONLY <1>1, <2>4, <2>5, <2>6, LineReads
    <2>8. [name |-> x, value |-> y] = u[k]
      <3>1. u[k] \in [name : Seq(Nat), value : Seq(Nat)]
        BY <1>3, Zenon DEF Texted
      <3> QED BY <2>3, <3>1
    <2>9. r[p] = <<LinePair(t, p)>> \o r[LineEnd(t, p) + 1]
      BY <1>2, <1>7, <2>6, <2>7, Zenon DEF ReadsLines
    <2> QED BY <2>2, <2>7, <2>8, <2>9, Zenon
  <1>13. u \in Seq(R)
    <2>1. \A S, D : S \subseteq D => Seq(S) \subseteq Seq(D)
      OBVIOUS
    <2> QED BY <1>10, <2>1, Zenon
  <1>14. r[b[0]] = u \o v
    <2>1. Finds(r, b, u, v)
      BY <1>3, <1>12, <1>11, Zenon DEF Finds
    <2> QED BY <1>13, <2>1, ScanReads, Zenon
  <1>15. HeaderPairs(t) = u \o v
    BY <1>7, <1>9, <1>14, Zenon
  <1>16. \A k \in DOMAIN u : FirstOf(u \o v, u[k].name) = FirstOf(u, u[k].name)
    BY ONLY <1>13, v \in Seq(R), FirstStays
  <1> QED BY <1>15, <1>16, Zenon

-----------------------------------------------------------------------------
(* request.cc: the URI and its query.                                    *)

(* A pair that the pattern of a query reads as it was meant.               *)
CleanPair(x, y) ==
  /\ x \in Seq(Nat) /\ y \in Seq(Nat) /\ x # <<>> /\ Len(y) = 1
  /\ \A i \in DOMAIN x : x[i] \notin {CR, LF, QMARK, EQ, AMP}
  /\ y[1] \notin {CR, LF, QMARK}

(* The pair stands in U behind a, after h, and ends at z.                  *)
PairStands(U, a, z, h, x, y) ==
  /\ a \in Nat /\ z = a + Len(x) + 3 /\ U[a + 1] = h
  /\ \A j \in 1..Len(x) : U[a + 1 + j] = x[j]
  /\ U[a + Len(x) + 2] = EQ /\ U[a + Len(x) + 3] = y[1]

(* A pair, by itself.                                                      *)
PairText(s, h, c, x, y) ==
  /\ s \in Seq(Nat) /\ Len(s) = Len(x) + 3 /\ s[1] = h
  /\ \A j \in 1..Len(x) : s[1 + j] = x[j]
  /\ s[Len(x) + 2] = c /\ s[Len(x) + 3] = y[1]

LEMMA PairIs ==
  ASSUME NEW h \in Nat, NEW c \in Nat, NEW x \in Seq(Nat), NEW y \in Seq(Nat), Len(y) = 1,
         NEW s, s = <<h>> \o x \o <<c>> \o y
  PROVE  PairText(s, h, c, x, y)
  <1>1. PICK l \in Nat : l = Len(x)
    OBVIOUS
  <1>2. PICK u : u = <<h>> \o x
    OBVIOUS
  <1>3. u \in Seq(Nat) /\ Len(u) = l + 1 /\ u[1] = h /\ \A j \in 1..l : u[1 + j] = x[j]
    BY ONLY <1>1, <1>2, h \in Nat, x \in Seq(Nat)
  <1>4. PICK v : v = u \o <<c>>
    OBVIOUS
  <1>5. /\ v \in Seq(Nat) /\ Len(v) = l + 2 /\ v[l + 2] = c
        /\ \A j \in 1..(l + 1) : v[j] = u[j]
    BY ONLY <1>3, <1>4, l \in Nat, c \in Nat
  <1>6. s = v \o y
    BY <1>2, <1>4, Zenon
  <1>7. /\ s \in Seq(Nat) /\ Len(s) = l + 3 /\ s[l + 3] = y[1]
        /\ \A j \in 1..(l + 2) : s[j] = v[j]
    <2>1. /\ s \in Seq(Nat) /\ Len(s) = Len(v) + Len(y)
          /\ \A j \in 1..Len(v) : s[j] = v[j]
          /\ \A j \in 1..Len(y) : s[Len(v) + j] = y[j]
      <3>1. v \in Seq(Nat)
        BY <1>5
      <3>2. PICK w : w = v \o y
        OBVIOUS
      <3>3. /\ w \in Seq(Nat) /\ Len(w) = Len(v) + Len(y)
            /\ \A j \in 1..Len(v) : w[j] = v[j]
            /\ \A j \in 1..Len(y) : w[Len(v) + j] = y[j]
        BY ONLY <3>1, <3>2, y \in Seq(Nat), ConcatIndex
      <3>4. s = w
        BY <1>6, <3>2, Zenon
      <3> QED BY <3>3, <3>4, Zenon
    <2>2. l + 2 + 1 = l + 3 /\ 1 \in 1..1
      OBVIOUS
    <2> QED BY <1>5, <2>1, <2>2, Zenon
  <1>8. 1 \in 1..(l + 1) /\ 1 \in 1..(l + 2) /\ l + 2 \in 1..(l + 2)
    OBVIOUS
  <1>9. \A j \in 1..l : 1 + j \in 1..(l + 1) /\ 1 + j \in 1..(l + 2)
    OBVIOUS
  <1> QED BY <1>1, <1>3, <1>5, <1>7, <1>8, <1>9, Zenon DEF PairText

(* The pairs q stand in the text U of a query: the k-th ends at at[k].     *)
PairsAt(U, q, at) ==
  /\ U \in Seq(Nat) /\ at \in [0..Len(q) -> 0..Len(U)] /\ at[0] = 0 /\ at[Len(q)] = Len(U)
  /\ \A k \in 1..Len(q) :
       /\ CleanPair(q[k].name, q[k].value)
       /\ PairStands(U, at[k - 1], at[k], IF k = 1 THEN QMARK ELSE AMP, q[k].name, q[k].value)

(* So they do in QueryText.                                                *)
LEMMA PairsStand ==
  ASSUME NEW q \in Seq(Texted), \A k \in DOMAIN q : CleanPair(q[k].name, q[k].value)
  PROVE  \E at : PairsAt(QueryText(q), q, at)
  <1>1. PICK m \in Nat : m = Len(q) /\ DOMAIN q = 1..m
    OBVIOUS
  <1>2. PICK ss : ss = [i \in 1..m |-> QueryPart(q, i)]
    OBVIOUS
  <1>3. PICK U : U = QueryText(q)
    OBVIOUS
  <1>4. ss \in Seq(Seq(Nat)) /\ U = FlattenSeq(ss)
    BY <1>1, <1>2, <1>3, PartsAre, Zenon DEF QueryText, QueryPart
  <1>5. Len(ss) = m /\ \A k \in 1..m : ss[k] = QueryPart(q, k)
    <2>1. DOMAIN ss = 1..m
      BY <1>2, Zenon
    <2>2. Len(ss) = m
      BY ONLY <1>4, <2>1, m \in Nat
    <2> QED BY <1>2, <2>2, Zenon
  <1>6. PICK at : Laid(U, ss, at)
    BY <1>4, FlattenLays
  <1>7. U \in Seq(Nat)
    BY <1>4, FlattenLays
  <1>8. /\ at \in [0..m -> 0..Len(U)] /\ at[0] = 0 /\ at[m] = Len(U)
        /\ \A k \in 1..m : /\ at[k] = at[k - 1] + Len(ss[k])
                           /\ \A j \in 1..Len(ss[k]) : U[at[k - 1] + j] = ss[k][j]
    BY <1>5, <1>6, Zenon DEF Laid
  <1>9. ASSUME NEW k \in 1..m
        PROVE  PairStands(U, at[k - 1], at[k], IF k = 1 THEN QMARK ELSE AMP, q[k].name, q[k].value)
    <2>1. PICK x \in Seq(Nat), y \in Seq(Nat) : x = q[k].name /\ y = q[k].value /\ Len(y) = 1
      BY <1>1, Zenon DEF CleanPair
    <2>2. PICK h \in Nat : h = IF k = 1 THEN QMARK ELSE AMP
      BY DEF QMARK, AMP
    <2>3. PICK c \in Nat : c = EQ
      BY DEF EQ
    <2>4. PICK s : s = ss[k]
      OBVIOUS
    <2>5. s = <<h>> \o x \o <<c>> \o y
      BY <1>5, <2>1, <2>2, <2>3, <2>4, Zenon DEF QueryPart
    <2>6. /\ Len(s) = Len(x) + 3 /\ s[1] = h
          /\ \A j \in 1..Len(x) : s[1 + j] = x[j]
          /\ s[Len(x) + 2] = c /\ s[Len(x) + 3] = y[1]
      <3>1. Len(y) = 1
        BY <2>1
      <3>2. PairText(s, h, c, x, y)
        BY ONLY <2>5, <3>1, x \in Seq(Nat), y \in Seq(Nat), h \in Nat, c \in Nat, PairIs
      <3> QED BY <3>2, Zenon DEF PairText
    <2>7. PICK l \in Nat : l = Len(x)
      OBVIOUS
    <2>8. PICK a \in Nat : a = at[k - 1]
      <3>1. k - 1 \in 0..m
        OBVIOUS
      <3>2. at[k - 1] \in 0..Len(U)
        BY <1>8, <3>1, Zenon
      <3>3. \A i \in 0..Len(U) : i \in Nat
        BY <1>7
      <3> QED BY <3>2, <3>3, Zenon
    <2>9. at[k] = a + (l + 3) /\ \A j \in 1..(l + 3) : U[a + j] = s[j]
      BY <1>8, <2>4, <2>6, <2>7, <2>8, Zenon
    <2>10. a + (l + 3) = a + l + 3 /\ a + (l + 2) = a + l + 2
           /\ 1 \in 1..(l + 3) /\ l + 2 \in 1..(l + 3) /\ l + 3 \in 1..(l + 3)
      OBVIOUS
    <2>11. \A j \in 1..l : 1 + j \in 1..(l + 3) /\ a + (1 + j) = a + 1 + j
      OBVIOUS
    <2>12. U[a + 1] = h /\ U[a + l + 2] = c /\ U[a + l + 3] = y[1]
      BY <2>6, <2>7, <2>9, <2>10, Zenon
    <2>13. \A j \in 1..l : U[a + 1 + j] = x[j]
      BY <2>6, <2>7, <2>9, <2>11, Zenon
    <2>14. PairStands(U, a, at[k], h, x, y)
      BY <2>3, <2>7, <2>9, <2>10, <2>12, <2>13, Zenon DEF PairStands
    <2> QED BY <2>1, <2>2, <2>8, <2>14, Zenon
  <1>10. PairsAt(U, q, at)
    BY <1>1, <1>7, <1>8, <1>9, Zenon DEF PairsAt
  <1> QED BY <1>3, <1>10, Zenon

(* A text with neither a line break nor a question mark.                   *)
MarkFree(s) == \A i \in DOMAIN s : s[i] \notin {CR, LF, QMARK}

(* A text with none of them behind its first character, which is h.        *)
Headed(s, h) ==
  /\ s \in Seq(Nat) /\ Len(s) # 0 /\ s[1] = h
  /\ \A j \in 2..Len(s) : s[j] \notin {CR, LF, QMARK}

(* A part of a query is such a text.                                       *)
LEMMA PartChars ==
  ASSUME NEW h \in Nat, NEW c \in Nat, NEW x \in Seq(Nat), NEW y \in Seq(Nat),
         MarkFree(x), MarkFree(y), c \notin {CR, LF, QMARK},
         NEW s, s = <<h>> \o x \o <<c>> \o y
  PROVE  Headed(s, h)
  <1>1. PICK l \in Nat, m \in Nat : l = Len(x) /\ DOMAIN x = 1..l /\ m = Len(y) /\ DOMAIN y = 1..m
    OBVIOUS
  <1>2. PICK u : u = <<h>> \o x
    OBVIOUS
  <1>3. u \in Seq(Nat) /\ Len(u) = l + 1 /\ u[1] = h /\ \A j \in 1..l : u[1 + j] = x[j]
    BY ONLY <1>1, <1>2, h \in Nat, x \in Seq(Nat)
  <1>4. PICK v : v = u \o <<c>>
    OBVIOUS
  <1>5. /\ v \in Seq(Nat) /\ Len(v) = l + 2 /\ v[l + 2] = c
        /\ \A j \in 1..(l + 1) : v[j] = u[j]
    BY ONLY <1>3, <1>4, l \in Nat, c \in Nat
  <1>6. s = v \o y
    BY <1>2, <1>4, Zenon
  <1>7. /\ s \in Seq(Nat) /\ Len(s) = l + 2 + m
        /\ \A j \in 1..(l + 2) : s[j] = v[j]
        /\ \A j \in 1..m : s[l + 2 + j] = y[j]
    <2>1. PICK w : w = v \o y
      OBVIOUS
    <2>2. v \in Seq(Nat)
      BY <1>5
    <2>3. /\ w \in Seq(Nat) /\ Len(w) = Len(v) + Len(y)
          /\ \A j \in 1..Len(v) : w[j] = v[j]
          /\ \A j \in 1..Len(y) : w[Len(v) + j] = y[j]
      BY ONLY <2>1, <2>2, y \in Seq(Nat), ConcatIndex
    <2>4. s = w
      BY <1>6, <2>1, Zenon
    <2> QED BY <1>1, <1>5, <2>3, <2>4, Zenon
  <1>8. s[1] = h /\ Len(s) # 0
    <2>1. 1 \in 1..(l + 1) /\ 1 \in 1..(l + 2) /\ l + 2 + m # 0
      OBVIOUS
    <2> QED BY <1>3, <1>5, <1>7, <2>1, Zenon
  <1>9. ASSUME NEW j \in 2..Len(s) PROVE s[j] \notin {CR, LF, QMARK}
    <2>1. j - 1 \in 1..l \/ j = l + 2 \/ j - (l + 2) \in 1..m
      BY <1>7, <1>9
    <2>2. ASSUME NEW i \in 1..l, j = 1 + i PROVE s[j] \notin {CR, LF, QMARK}
      <3>1. j \in 1..(l + 1) /\ j \in 1..(l + 2)
        BY <2>2
      <3>2. s[j] = x[i]
        BY <1>3, <1>5, <1>7, <2>2, <3>1, Zenon
      <3> QED BY <1>1, <3>2, Zenon DEF MarkFree
    <2>3. CASE j = l + 2
      <3>1. l + 2 \in 1..(l + 2)
        OBVIOUS
      <3> QED BY <1>5, <1>7, <2>3, <3>1, Zenon
    <2>4. ASSUME NEW i \in 1..m, j = l + 2 + i PROVE s[j] \notin {CR, LF, QMARK}
      BY <1>1, <1>7, <2>4, Zenon DEF MarkFree
    <2>5. j = 1 + (j - 1) /\ j = l + 2 + (j - (l + 2))
      BY <1>7, <1>9
    <2> QED BY <2>1, <2>2, <2>3, <2>4, <2>5, Zenon
  <1> QED BY <1>7, <1>8, <1>9, Zenon DEF Headed

(* The query's mark is its first character and the only one, and no line   *)
(* break is in it.                                                         *)
LEMMA QueryChars ==
  ASSUME NEW q \in Seq(Texted), \A k \in DOMAIN q : MarkFree(q[k].name) /\ MarkFree(q[k].value),
         NEW U, U = QueryText(q)
  PROVE  /\ U \in Seq(Nat) /\ (Len(U) = 0 <=> q = <<>>)
         /\ \A i \in 1..Len(U) : U[i] \notin {CR, LF} /\ (U[i] = QMARK <=> i = 1)
  <1>1. PICK m \in Nat : m = Len(q) /\ DOMAIN q = 1..m /\ \A k \in 1..m : q[k] \in Texted
    OBVIOUS
  <1>2. PICK ss : ss = [i \in 1..m |-> QueryPart(q, i)]
    OBVIOUS
  <1>3. ss \in Seq(Seq(Nat)) /\ U = FlattenSeq(ss)
    BY <1>1, <1>2, PartsAre, Zenon DEF QueryText, QueryPart
  <1>4. Len(ss) = m /\ \A k \in 1..m : ss[k] = QueryPart(q, k)
    <2>1. DOMAIN ss = 1..m
      BY <1>2, Zenon
    <2>2. Len(ss) = m
      BY ONLY <1>3, <2>1, m \in Nat
    <2> QED BY <1>2, <2>2, Zenon
  <1>5. PICK at : Laid(U, ss, at)
    BY <1>3, FlattenLays
  <1>6. U \in Seq(Nat)
    BY <1>3, FlattenLays
  <1>7. PICK n \in Nat : n = Len(U)
    BY <1>6
  <1>8. /\ at \in [0..m -> 0..n] /\ at[0] = 0 /\ at[m] = n
        /\ \A k \in 1..m : /\ at[k] = at[k - 1] + Len(ss[k])
                           /\ \A j \in 1..Len(ss[k]) : U[at[k - 1] + j] = ss[k][j]
    BY <1>4, <1>5, <1>7, Zenon DEF Laid
  <1>9. ASSUME NEW k \in 1..m
        PROVE  /\ ss[k] \in Seq(Nat) /\ Len(ss[k]) # 0
               /\ ss[k][1] = (IF k = 1 THEN QMARK ELSE AMP)
               /\ \A j \in 2..Len(ss[k]) : ss[k][j] \notin {CR, LF, QMARK}
    <2>1. q[k] \in [name : Seq(Nat), value : Seq(Nat)]
      BY <1>1, Zenon DEF Texted
    <2>2. PICK x \in Seq(Nat), y \in Seq(Nat) : x = q[k].name /\ y = q[k].value
      BY <2>1
    <2>3. MarkFree(x) /\ MarkFree(y)
      BY <1>1, <2>2, Zenon
    <2>4. PICK h \in Nat : h = IF k = 1 THEN QMARK ELSE AMP
      BY DEF QMARK, AMP
    <2>5. PICK c \in Nat : c = EQ /\ c \notin {CR, LF, QMARK}
      BY DEF EQ, CR, LF, QMARK
    <2>6. PICK s : s = ss[k]
      OBVIOUS
    <2>7. s = <<h>> \o x \o <<c>> \o y
      BY <1>4, <2>2, <2>4, <2>5, <2>6, Zenon DEF QueryPart
    <2>8. Headed(s, h)
      BY <2>3, <2>5, <2>7, PartChars, Zenon
    <2> QED BY <2>4, <2>6, <2>8, Zenon DEF Headed
  <1>10. ASSUME NEW k \in 1..m
         PROVE  /\ k \in 0..m /\ k - 1 \in 0..m /\ at[k] \in 0..n /\ at[k - 1] \in 0..n
                /\ Len(ss[k]) \in Nat /\ at[k] # 0
    <2>1. k \in 0..m /\ k - 1 \in 0..m
      OBVIOUS
    <2>2. PICK a \in 0..n, z \in 0..n : a = at[k - 1] /\ z = at[k]
      BY <1>8, <2>1, Zenon
    <2>3. PICK l \in Nat : l = Len(ss[k])
      <3>1. \A w \in Seq(Nat) : Len(w) \in Nat
        OBVIOUS
      <3> QED BY <1>9, <3>1, Zenon
    <2>4. l # 0 /\ z = a + l
      BY <1>8, <1>9, <2>2, <2>3, Zenon
    <2>5. z # 0
      BY ONLY <2>4, a \in 0..n, n \in Nat, l \in Nat
    <2> QED BY <2>1, <2>2, <2>3, <2>5, Zenon
  <1>11. n = 0 <=> q = <<>>
    <2>1. q = <<>> <=> m = 0
      BY <1>1
    <2>2. ASSUME m # 0 PROVE at[m] # 0
      <3>1. m \in 1..m
        BY <2>2
      <3> QED BY <1>10, <3>1, Zenon
    <2> QED BY <1>8, <2>1, <2>2, Zenon
  <1>12. ASSUME NEW i \in 1..n PROVE U[i] \notin {CR, LF} /\ (U[i] = QMARK <=> i = 1)
    <2>1. PICK K : K = {k \in 0..m : i <= at[k]}
      OBVIOUS
    <2>2. K \in SUBSET Nat /\ m \in K
      BY <1>8, <2>1
    <2>3. PICK k \in K : \A c \in K : k <= c
      BY ONLY <2>2, FirstIndex
    <2>4. k \in 0..m /\ i <= at[k]
      BY <2>1, <2>3, Zenon
    <2>5. k # 0
      BY <1>8, <2>4
    <2>6. k \in 1..m /\ k - 1 \in 0..m /\ ~(k <= k - 1)
      BY <2>4, <2>5
    <2>7. ~(i <= at[k - 1])
      BY <2>1, <2>3, <2>6, Zenon
    <2>8. PICK a \in 0..n, l \in Nat : a = at[k - 1] /\ l = Len(ss[k])
      BY <1>10, <2>6, Zenon
    <2>9. at[k] = a + l
      BY <1>8, <2>6, <2>8, Zenon
    <2>10. PICK j \in 1..l : i = a + j
      <3>1. i <= a + l /\ ~(i <= a)
        BY <2>4, <2>7, <2>8, <2>9, Zenon
      <3>2. i - a \in 1..l /\ i = a + (i - a)
        BY ONLY <3>1, i \in 1..n, n \in Nat, a \in 0..n, l \in Nat
      <3> QED BY <3>2, Zenon
    <2>11. U[i] = ss[k][j]
      BY <1>8, <2>6, <2>8, <2>10, Zenon
    <2>12. CASE j # 1
      <3>1. j \in 2..l /\ i # 1
        BY <2>10, <2>12
      <3>2. ss[k][j] \notin {CR, LF, QMARK}
        BY <1>9, <2>6, <2>8, <3>1, Zenon
      <3> QED BY <2>11, <3>1, <3>2, Zenon
    <2>13. CASE j = 1 /\ k = 1
      <3>1. k - 1 = 0
        BY <2>13
      <3>2. a = 0
        BY <1>8, <2>8, <3>1, Zenon
      <3>3. i = 1
        BY <2>10, <2>13, <3>2
      <3>4. QMARK \notin {CR, LF}
        BY DEF QMARK, CR, LF
      <3> QED BY <1>9, <2>6, <2>11, <2>13, <3>3, <3>4, Zenon
    <2>14. CASE j = 1 /\ k # 1
      <3>1. k - 1 \in 1..m
        BY <2>6, <2>14
      <3>2. a # 0
        BY <1>10, <2>8, <3>1, Zenon
      <3>3. i # 1
        BY <2>10, <2>14, <3>2
      <3>4. AMP \notin {CR, LF} /\ AMP # QMARK
        BY DEF QMARK, CR, LF, AMP
      <3> QED BY <1>9, <2>6, <2>11, <2>14, <3>3, <3>4, Zenon
    <2> QED BY <2>12, <2>13, <2>14, Zenon
  <1> QED BY <1>6, <1>7, <1>11, <1>12, Zenon

(* qs is the query U behind its mark.                                      *)
BehindMark(qs, U) ==
  /\ qs \in Seq(Nat) /\ U \in Seq(Nat) /\ Len(U) = Len(qs) + 1
  /\ \A i \in 1..Len(qs) : qs[i] = U[i + 1]

(* The pattern of a query reads a pair where it stands,                    *)
LEMMA PairReads ==
  ASSUME NEW U, NEW qs, BehindMark(qs, U), NEW a, NEW z, NEW h, NEW x, NEW y,
         PairStands(U, a, z, h, x, y), CleanPair(x, y), z <= Len(U)
  PROVE  /\ a + 1 \in 1..Len(qs) /\ PairEnd(qs, a + 1) # Len(qs)
         /\ PairEnd(qs, a + 1) + 2 = z /\ PairEnd(qs, a + 1) \in Nat
         /\ PairAt(qs, a + 1) = [name |-> x, value |-> y]
  <1>1. qs \in Seq(Nat)
    BY DEF BehindMark
  <1>2. PICK n \in Nat : n = Len(qs) /\ Len(U) = n + 1
    <2>1. Len(qs) \in Nat
      BY <1>1
    <2> QED BY <2>1, Zenon DEF BehindMark
  <1>3. x \in Seq(Nat)
    BY DEF CleanPair
  <1>4. y \in Seq(Nat) /\ Len(y) = 1
    BY DEF CleanPair
  <1>5. PICK l \in Nat : l = Len(x) /\ DOMAIN x = 1..l /\ l # 0
    <2>1. x # <<>>
      BY DEF CleanPair
    <2> QED BY <1>3, <2>1
  <1>6. a \in Nat /\ z = a + l + 3 /\ z <= n + 1
    BY <1>2, <1>5, Zenon DEF PairStands
  <1>7. /\ \A j \in 1..l : U[a + 1 + j] = x[j]
        /\ U[a + l + 2] = EQ /\ U[a + l + 3] = y[1]
    BY <1>5, Zenon DEF PairStands
  <1>8. \A i \in 1..n : qs[i] = U[i + 1]
    BY <1>2, Zenon DEF BehindMark
  <1>9. PICK p \in Nat, d \in Nat : p = a + 1 /\ d = a + 1 + l
    BY <1>6
  <1>10. ASSUME NEW j \in 1..l PROVE p - 1 + j \in 1..n /\ qs[p - 1 + j] = x[j]
    <2>1. PICK i \in 1..n : i = p - 1 + j /\ i + 1 = a + 1 + j
      <3>1. p - 1 + j \in 1..n /\ p - 1 + j + 1 = a + 1 + j
        BY ONLY <1>6, <1>9, n \in Nat, l \in Nat, j \in 1..l
      <3> QED BY <3>1, Zenon
    <2>2. qs[i] = x[j]
      BY <1>7, <1>8, <2>1, Zenon
    <2> QED BY <2>1, <2>2, Zenon
  <1>11. d \in 1..n /\ d + 1 \in 1..n /\ qs[d] = EQ /\ qs[d + 1] = y[1]
    <2>1. d \in 1..n /\ d + 1 \in 1..n /\ d + 1 = a + l + 2 /\ d + 1 + 1 = a + l + 3
      BY ONLY <1>6, <1>9, n \in Nat, l \in Nat
    <2> QED BY <1>7, <1>8, <2>1, Zenon
  <1>12. PairEnd(qs, p) = d
    <2>1. PICK S : S = {i \in (p + 1)..(n - 1) : qs[i] = EQ}
      OBVIOUS
    <2>2. PICK e : e = PairEnd(qs, p) /\ e = Least(S, n)
      BY <1>2, <2>1, Zenon DEF PairEnd
    <2>3. d \in S
      <3>1. d \in (p + 1)..(n - 1)
        BY ONLY <1>5, <1>6, <1>9, n \in Nat, l \in Nat
      <3> QED BY <1>11, <2>1, <3>1, Zenon
    <2>4. S \in SUBSET Nat /\ S # {}
      <3>1. \A i \in (p + 1)..(n - 1) : i \in Nat
        OBVIOUS
      <3> QED BY <2>1, <2>3, <3>1, Zenon
    <2>5. e \in S /\ \A i \in S : e <= i
      BY ONLY <2>2, <2>4, LeastIs
    <2>6. e \in (p + 1)..(n - 1) /\ qs[e] = EQ /\ e <= d
      BY <2>1, <2>3, <2>5, Zenon
    <2>7. e = d
      <3> SUFFICES ASSUME e # d PROVE FALSE
        BY Zenon
      <3>1. e - p + 1 \in 1..l /\ p - 1 + (e - p + 1) = e
        BY ONLY <1>6, <1>9, <2>6, n \in Nat, l \in Nat, e # d
      <3>2. PICK j \in 1..l : p - 1 + j = e
        BY <3>1, Zenon
      <3>3. x[j] = EQ
        BY <1>10, <2>6, <3>2, Zenon
      <3> QED BY <1>5, <3>3, Zenon DEF CleanPair
    <2> QED BY <2>2, <2>7, Zenon
  <1>13. p \in 1..n /\ d # n /\ d + 2 = z
    BY ONLY <1>6, <1>9, n \in Nat, l \in Nat
  <1>14. SubSeq(qs, p, d - 1) = x
    <2>1. PICK f \in Nat : f = d - 1
      BY <1>11
    <2>2. 1 <= p /\ p <= f + 1 /\ f <= n /\ f + 1 - p = l
      BY ONLY <1>6, <1>9, <2>1, n \in Nat, l \in Nat
    <2>3. PICK u : u = SubSeq(qs, p, f)
      OBVIOUS
    <2>4. f <= Len(qs)
      BY <1>2, <2>2
    <2>5. /\ u \in Seq(Nat) /\ Len(u) = f + 1 - p
          /\ \A j \in 1..(f + 1 - p) : u[j] = qs[p + j - 1]
      BY ONLY <1>1, <2>2, <2>3, <2>4, p \in Nat, f \in Nat, SubSeqIndex
    <2>6. \A j \in 1..l : p + j - 1 = p - 1 + j
      OBVIOUS
    <2>7. \A j \in 1..l : u[j] = x[j]
      BY <1>10, <2>2, <2>5, <2>6, Zenon
    <2>8. u \in Seq(Nat) /\ Len(u) = Len(x) /\ \A j \in 1..Len(u) : u[j] = x[j]
      BY <1>5, <2>2, <2>5, <2>7, Zenon
    <2>9. u = x
      BY ONLY <1>3, <2>8, SameSeq
    <2> QED BY <2>1, <2>3, <2>9, Zenon
  <1>15. <<qs[d + 1]>> = y
    <2>1. <<y[1]>> = y
      BY ONLY <1>4
    <2> QED BY <1>11, <2>1, Zenon
  <1>16. PairAt(qs, p) = [name |-> x, value |-> y]
    BY <1>12, <1>14, <1>15, Zenon DEF PairAt
  <1>17. /\ p \in 1..Len(qs) /\ PairEnd(qs, p) # Len(qs)
         /\ PairEnd(qs, p) + 2 = z /\ PairEnd(qs, p) \in Nat
    BY <1>2, <1>12, <1>13, Zenon
  <1> QED BY <1>9, <1>16, <1>17, Zenon

(* and goes on behind the ampersand, if another follows.                   *)
LEMMA PairEnds ==
  ASSUME NEW U, NEW qs, BehindMark(qs, U), NEW e \in Nat, NEW z, z = e + 2,
         \/ z = Len(U)
         \/ z + 2 <= Len(U) /\ U[z + 1] = AMP /\ U[z + 2] # AMP
  PROVE  PairNext(qs, e) = IF z = Len(U) THEN z ELSE z + 1
  <1>1. qs \in Seq(Nat)
    BY DEF BehindMark
  <1>2. PICK n \in Nat : n = Len(qs) /\ Len(U) = n + 1
    <2>1. Len(qs) \in Nat
      BY <1>1
    <2> QED BY <2>1, Zenon DEF BehindMark
  <1>3. \A i \in 1..n : qs[i] = U[i + 1]
    BY <1>2, Zenon DEF BehindMark
  <1>4. PICK S : S = {i \in z..n : ~(qs[i] = AMP)}
    OBVIOUS
  <1>5. PICK w : w = Least(S, n + 1)
    OBVIOUS
  <1>6. PairNext(qs, e) = w - 1 + 1
    BY <1>2, <1>4, <1>5, Zenon DEF PairNext, RunEnd
  <1>7. z \in Nat /\ z # 0
    OBVIOUS
  <1>8. S \in SUBSET Nat
    <2>1. \A i \in z..n : i \in Nat
      BY <1>7
    <2> QED BY <1>4, <2>1, Zenon
  <1>9. CASE z = Len(U)
    <2>1. \A i \in z..n : FALSE
      BY ONLY <1>2, <1>9, n \in Nat
    <2>2. S = {}
      BY <1>4, <2>1, Zenon
    <2>3. w = n + 1
      BY <1>5, <2>2, Zenon DEF Least
    <2>4. w - 1 + 1 = z
      BY ONLY <1>2, <1>9, <2>3, n \in Nat
    <2> QED BY <1>6, <1>9, <2>4, Zenon
  <1>10. CASE z # Len(U)
    <2>1. z + 2 <= n + 1 /\ U[z + 1] = AMP /\ U[z + 2] # AMP
      BY <1>2, <1>10, Zenon
    <2>2. z \in 1..n /\ z + 1 \in 1..n /\ z + 1 + 1 = z + 2 /\ z + 1 \in z..n
      BY ONLY <1>7, <2>1, n \in Nat
    <2>3. qs[z] = AMP /\ qs[z + 1] # AMP
      BY <1>3, <2>1, <2>2, Zenon
    <2>4. z + 1 \in S
      BY <1>4, <2>2, <2>3, Zenon
    <2>5. w \in S /\ \A i \in S : w <= i
      <3>1. S # {}
        BY <2>4
      <3> QED BY ONLY <1>5, <1>8, <3>1, LeastIs
    <2>6. w \in z..n /\ w <= z + 1 /\ w # z
      BY <1>4, <2>3, <2>4, <2>5, Zenon
    <2>7. w - 1 + 1 = z + 1
      BY ONLY <1>7, <2>6, n \in Nat
    <2> QED BY <1>6, <1>10, <2>7, Zenon
  <1> QED BY <1>9, <1>10, Zenon

(* So it reads the pairs of a query, one by one.                           *)
LEMMA QueryReads ==
  ASSUME NEW U, NEW qs, BehindMark(qs, U), NEW q \in Seq(Texted), q # <<>>,
         NEW at, PairsAt(U, q, at)
  PROVE  QueryPairs(qs) = q
  <1>1. PICK m \in Nat : m = Len(q) /\ m # 0 /\ DOMAIN q = 1..m /\ \A k \in 1..m : q[k] \in Texted
    OBVIOUS
  <1>2. qs \in Seq(Nat)
    BY DEF BehindMark
  <1>3. PICK n \in Nat : n = Len(qs) /\ Len(U) = n + 1
    <2>1. Len(qs) \in Nat
      BY <1>2
    <2> QED BY <2>1, Zenon DEF BehindMark
  <1>4. /\ at \in [0..m -> 0..(n + 1)] /\ at[0] = 0 /\ at[m] = n + 1
        /\ \A k \in 1..m :
             /\ CleanPair(q[k].name, q[k].value)
             /\ PairStands(U, at[k - 1], at[k], IF k = 1 THEN QMARK ELSE AMP, q[k].name, q[k].value)
    BY <1>1, <1>3, Zenon DEF PairsAt
  <1>5. PICK r : ReadsPairs(qs, r) /\ QueryPairs(qs) = r[1]
    BY <1>2, QueryPairsIs
  <1>6. PICK b : b = [k \in 0..m |-> IF k = m THEN n + 1 ELSE at[k] + 1]
    OBVIOUS
  <1>7. b[0] = 1 /\ b[m] = n + 1
    <2>1. 0 \in 0..m /\ m \in 0..m /\ 0 + 1 = 1
      BY <1>1
    <2> QED BY <1>1, <1>4, <1>6, <2>1, Zenon
  <1>8. r[b[m]] = <<>>
    <2>1. n + 1 \in 1..(n + 1) /\ n + 1 > n
      OBVIOUS
    <2> QED BY <1>3, <1>5, <1>7, <2>1, Zenon DEF ReadsPairs
  <1>9. ASSUME NEW k \in 1..m PROVE r[b[k - 1]] = <<q[k]>> \o r[b[k]]
    <2>1. k - 1 \in 0..m /\ k \in 0..m /\ k - 1 # m
      OBVIOUS
    <2>2. PICK a \in 0..(n + 1), z \in 0..(n + 1) : a = at[k - 1] /\ z = at[k]
      BY <1>4, <2>1, Zenon
    <2>3. PICK x, y, h : x = q[k].name /\ y = q[k].value /\ h = IF k = 1 THEN QMARK ELSE AMP
      OBVIOUS
    <2>4. PairStands(U, a, z, h, x, y) /\ CleanPair(x, y)
      BY <1>4, <2>2, <2>3, Zenon
    <2>5. z <= Len(U)
      BY <1>3
    <2>6. /\ a + 1 \in 1..Len(qs) /\ PairEnd(qs, a + 1) # Len(qs)
          /\ PairEnd(qs, a + 1) + 2 = z /\ PairEnd(qs, a + 1) \in Nat
          /\ PairAt(qs, a + 1) = [name |-> x, value |-> y]
      BY ONLY <2>4, <2>5, BehindMark(qs, U), PairReads
    <2>7. PICK e \in Nat : e = PairEnd(qs, a + 1) /\ z = e + 2
      BY <2>6, Zenon
    <2>8. b[k - 1] = a + 1
      BY <1>6, <2>1, <2>2, Zenon
    <2>9. a + 1 \in 1..(n + 1) /\ ~(a + 1 > n)
      <3>1. a + 1 \in 1..n
        BY <1>3, <2>6, Zenon
      <3> QED BY ONLY <3>1, n \in Nat
    <2>10. r[a + 1] = <<PairAt(qs, a + 1)>> \o r[PairNext(qs, e)]
      BY <1>3, <1>5, <2>6, <2>7, <2>9, Zenon DEF ReadsPairs
    <2>11. [name |-> x, value |-> y] = q[k]
      <3>1. q[k] \in [name : Seq(Nat), value : Seq(Nat)]
        BY <1>1, Zenon DEF Texted
      <3> QED BY <2>3, <3>1
    <2>12. PairNext(qs, e) = b[k]
      <3>1. CASE k = m
        <4>1. z = Len(U)
          BY <1>3, <1>4, <2>2, <3>1, Zenon
        <4>2. PairNext(qs, e) = IF z = Len(U) THEN z ELSE z + 1
          BY ONLY <2>7, <4>1, e \in Nat, BehindMark(qs, U), PairEnds
        <4> QED BY <1>3, <1>7, <3>1, <4>1, <4>2, Zenon
      <3>2. CASE k # m
        <4>a. PICK j \in 1..m : j = k + 1
          BY <3>2
        <4>1. j - 1 = k /\ j # 1 /\ j \in 0..m
          BY <4>a
        <4>2. PICK u, v : u = q[j].name /\ v = q[j].value
          OBVIOUS
        <4>3. CleanPair(u, v) /\ PairStands(U, z, at[j], AMP, u, v)
          <5>1. PairStands(U, at[j - 1], at[j], IF j = 1 THEN QMARK ELSE AMP, u, v)
            BY <1>4, <4>2, Zenon
          <5>2. CleanPair(u, v)
            BY <1>4, <4>2, Zenon
          <5> QED BY <2>2, <4>1, <5>1, <5>2, Zenon
        <4>4. PICK l \in Nat : l = Len(u) /\ l # 0 /\ DOMAIN u = 1..l
          <5>1. u \in Seq(Nat)
            BY <4>3 DEF CleanPair
          <5>2. u # <<>>
            BY <4>3 DEF CleanPair
          <5> QED BY <5>1, <5>2
        <4>5. at[j] = z + l + 3 /\ U[z + 1] = AMP /\ U[z + 1 + 1] = u[1]
          <5>1. 1 \in 1..l
            BY <4>4
          <5> QED BY <4>3, <4>4, <5>1, Zenon DEF PairStands
        <4>6. z + l + 3 <= n + 1
          <5>1. at[j] \in 0..(n + 1)
            BY <1>4, <4>1, Zenon
          <5> QED BY <4>5, <5>1
        <4>7. z + 1 + 1 = z + 2 /\ z + 2 <= n + 1 /\ z # n + 1
          BY ONLY <4>4, <4>6, z \in 0..(n + 1), n \in Nat, l \in Nat
        <4>8. U[z + 2] # AMP
          <5>1. u[1] \notin {CR, LF, QMARK, EQ, AMP}
            <6>1. 1 \in 1..l
              BY <4>4
            <6> QED BY <4>3, <4>4, <6>1, Zenon DEF CleanPair
          <5> QED BY <4>5, <4>7, <5>1, Zenon
        <4>9. z + 2 <= Len(U) /\ U[z + 1] = AMP /\ U[z + 2] # AMP /\ z # Len(U)
          BY <1>3, <4>5, <4>7, <4>8, Zenon
        <4>10. PairNext(qs, e) = IF z = Len(U) THEN z ELSE z + 1
          BY ONLY <2>7, <4>9, e \in Nat, BehindMark(qs, U), PairEnds
        <4>11. b[k] = z + 1
          BY <1>6, <2>1, <2>2, <3>2, Zenon
        <4> QED BY <4>9, <4>10, <4>11, Zenon
      <3> QED BY <3>1, <3>2, Zenon
    <2> QED BY <2>6, <2>8, <2>10, <2>11, <2>12, Zenon
  <1>10. r[b[0]] = q
    <2>1. PICK v \in Seq(Texted) : v = <<>> /\ q \o v = q
      <3>1. <<>> \in Seq(Texted) /\ q \o <<>> = q
        OBVIOUS
      <3> QED BY <3>1, Zenon
    <2>2. Finds(r, b, q, v)
      BY <1>1, <1>8, <1>9, <2>1, Zenon DEF Finds
    <2>3. r[b[0]] = q \o v
      BY <2>2, ScanReads, Zenon
    <2> QED BY <2>1, <2>3, Zenon
  <1> QED BY <1>5, <1>7, <1>10, Zenon

(* The pattern of the URI splits it at the query's mark.                   *)
LEMMA UriSplits ==
  ASSUME NEW P \in Seq(Nat), P # <<>>, \A i \in DOMAIN P : P[i] \notin {CR, LF, QMARK},
         NEW q \in Seq(Texted), \A k \in DOMAIN q : MarkFree(q[k].name) /\ MarkFree(q[k].value),
         NEW W, W = P \o QueryText(q)
  PROVE  /\ W \in Seq(Nat) /\ W # <<>> /\ NoBreak(W)
         /\ SubSeq(W, 1, QueryMark(W) - 1) = P
         /\ (\A k \in DOMAIN q : CleanPair(q[k].name, q[k].value)) =>
              QueryPairs(SubSeq(W, QueryMark(W) + 1, Len(W))) = q
  <1>1. PICK U : U = QueryText(q)
    OBVIOUS
  <1>2. /\ U \in Seq(Nat) /\ (Len(U) = 0 <=> q = <<>>)
        /\ \A i \in 1..Len(U) : U[i] \notin {CR, LF} /\ (U[i] = QMARK <=> i = 1)
    BY <1>1, QueryChars, Zenon
  <1>3. U \in Seq(Nat)
    BY <1>2
  <1>4. PICK p \in Nat : p = Len(P) /\ DOMAIN P = 1..p /\ p # 0
    OBVIOUS
  <1>5. PICK n \in Nat : n = Len(U)
    BY <1>3
  <1>6. W = P \o U
    BY <1>1, Zenon
  <1>7. /\ W \in Seq(Nat) /\ Len(W) = Len(P) + Len(U)
        /\ \A i \in 1..Len(P) : W[i] = P[i]
        /\ \A i \in 1..Len(U) : W[Len(P) + i] = U[i]
    BY ONLY <1>3, <1>6, P \in Seq(Nat), ConcatIndex
  <1>8. W \in Seq(Nat)
    BY <1>7
  <1>9. PICK l \in Nat : l = Len(W) /\ l = p + n /\ DOMAIN W = 1..l
    <2>1. Len(W) \in Nat /\ DOMAIN W = 1..Len(W)
      BY ONLY <1>8
    <2> QED BY <1>4, <1>5, <1>7, <2>1, Zenon
  <1>10. /\ \A i \in 1..p : W[i] = P[i] /\ P[i] \notin {CR, LF, QMARK}
         /\ \A i \in 1..n : W[p + i] = U[i]
    BY <1>4, <1>5, <1>7, Zenon
  <1>11. \A i \in 1..n : U[i] \notin {CR, LF} /\ (U[i] = QMARK <=> i = 1)
    BY <1>2, <1>5, Zenon
  <1>12. ASSUME NEW i \in 1..l PROVE i \in 1..p \/ \E j \in 1..n : i = p + j
    <2>1. i \in 1..p \/ (i - p \in 1..n /\ i = p + (i - p))
      BY <1>9
    <2> QED BY <2>1, Zenon
  <1>13. NoBreak(W)
    <2>1. ASSUME NEW i \in 1..l PROVE W[i] \notin {CR, LF}
      <3>1. CASE i \in 1..p
        BY <1>10, <3>1, Zenon
      <3>2. ASSUME NEW j \in 1..n, i = p + j PROVE W[i] \notin {CR, LF}
        BY <1>10, <1>11, <3>2, Zenon
      <3> QED BY <1>12, <3>1, <3>2, Zenon
    <2> QED BY <1>9, <2>1, Zenon DEF NoBreak
  <1>14. W # <<>>
    <2>1. l # 0
      BY <1>4, <1>9
    <2>2. Len(<<>>) = 0
      OBVIOUS
    <2> QED BY <1>9, <2>1, <2>2, Zenon
  <1>15. PICK S : S = {i \in 2..l : W[i] = QMARK}
    OBVIOUS
  <1>16. QueryMark(W) = Greatest(S, l + 1)
    BY <1>9, <1>15, Zenon DEF QueryMark
  <1>17. ASSUME NEW i \in S PROVE i = p + 1 /\ n # 0
    <2>1. i \in 2..l /\ W[i] = QMARK
      BY <1>15, Zenon
    <2>2. i \in 1..l
      BY <2>1
    <2>3. PICK j \in 1..n : i = p + j
      BY <1>10, <1>12, <2>1, <2>2, Zenon
    <2>4. j = 1
      BY <1>10, <1>11, <2>1, <2>3, Zenon
    <2> QED BY <2>3, <2>4
  <1>18. SubSeq(W, 1, p) = P
    <2>1. Holds(W, 0, W)
      BY <1>8, HoldsAll, Zenon
    <2>2. Holds(W, 0, P)
      BY ONLY <1>3, <1>6, <2>1, P \in Seq(Nat), HoldsParts
    <2>3. SubSeq(W, 0 + 1, 0 + Len(P)) = P
      BY <2>2, HoldsPart, Zenon
    <2>4. 0 + 1 = 1 /\ 0 + p = p
      OBVIOUS
    <2> QED BY <1>4, <2>3, <2>4, Zenon
  <1>19. CASE q = <<>>
    <2>1. n = 0
      BY <1>2, <1>5, <1>19, Zenon
    <2>2. S = {}
      BY <1>17, <2>1, Zenon
    <2>3. QueryMark(W) = l + 1
      BY <1>16, <2>2, Zenon DEF Greatest
    <2>4. l + 1 - 1 = p /\ l + 1 + 1 = l + 2
      BY ONLY <1>9, <2>1, p \in Nat, n \in Nat
    <2>5. PICK z : z = <<>>
      OBVIOUS
    <2>6. SubSeq(W, l + 2, l) = z
      BY ONLY <1>8, <1>9, <2>5, l \in Nat
    <2>7. QueryPairs(z) = z
      <3>1. z \in Seq(Nat) /\ Len(z) = 0
        BY <2>5
      <3>2. PICK r : ReadsPairs(z, r) /\ QueryPairs(z) = r[1]
        BY <3>1, QueryPairsIs
      <3>3. 1 \in 1..(0 + 1) /\ 1 > 0
        OBVIOUS
      <3> QED BY <2>5, <3>1, <3>2, <3>3, Zenon DEF ReadsPairs
    <2>8. SubSeq(W, 1, QueryMark(W) - 1) = P
      <3>1. QueryMark(W) - 1 = l + 1 - 1
        BY <2>3
      <3> QED BY <1>18, <2>4, <3>1, Zenon
    <2>9. QueryPairs(SubSeq(W, QueryMark(W) + 1, Len(W))) = q
      BY <1>9, <1>19, <2>3, <2>4, <2>5, <2>6, <2>7, Zenon
    <2> QED BY <1>8, <1>13, <1>14, <2>8, <2>9, Zenon
  <1>20. CASE q # <<>>
    <2>1. n # 0
      BY <1>2, <1>5, <1>20, Zenon
    <2>2. p + 1 \in S
      <3>1. 1 \in 1..n /\ p + 1 \in 2..l
        BY ONLY <1>4, <1>9, <2>1, p \in Nat, n \in Nat
      <3>2. W[p + 1] = QMARK
        BY <1>10, <1>11, <3>1, Zenon
      <3> QED BY <1>15, <3>1, <3>2, Zenon
    <2>3. QueryMark(W) = p + 1
      <3>1. S \in SUBSET (1..l) /\ S # {}
        <4>1. p + 1 \in 1..l
          BY ONLY <1>9, <2>1, p \in Nat, n \in Nat
        <4> QED BY <1>17, <2>2, <4>1, Zenon
      <3>2. Greatest(S, l + 1) \in S
        BY ONLY <3>1, l \in Nat, GreatestIs
      <3> QED BY <1>16, <1>17, <3>2, Zenon
    <2>4. p + 1 - 1 = p /\ p + 1 + 1 = p + 2
      OBVIOUS
    <2>5. PICK qs : qs = SubSeq(W, p + 2, l)
      OBVIOUS
    <2>6. BehindMark(qs, U)
      <3>1. PICK k \in Nat, c \in Nat : k = p + 2 /\ c = n - 1
        BY <2>1
      <3>2. 1 <= k /\ k <= l + 1 /\ l + 1 - k = c /\ c + 1 = n
        BY ONLY <1>9, <2>1, <3>1, p \in Nat, n \in Nat
      <3>3. l <= Len(W) /\ qs = SubSeq(W, k, l)
        BY <1>9, <2>5, <3>1
      <3>4. /\ qs \in Seq(Nat) /\ Len(qs) = l + 1 - k
            /\ \A j \in 1..(l + 1 - k) : qs[j] = W[k + j - 1]
        BY ONLY <1>8, <3>2, <3>3, k \in Nat, l \in Nat, SubSeqIndex
      <3>5. ASSUME NEW j \in 1..c PROVE qs[j] = U[j + 1]
        <4>1. j + 1 \in 1..n /\ k + j - 1 = p + (j + 1)
          BY ONLY <3>1, <3>2, p \in Nat, n \in Nat, c \in Nat, j \in 1..c
        <4>2. qs[j] = W[k + j - 1]
          BY <3>2, <3>4, Zenon
        <4>3. W[p + (j + 1)] = U[j + 1]
          BY <1>10, <4>1, Zenon
        <4> QED BY <4>1, <4>2, <4>3, Zenon
      <3> QED BY <1>3, <1>5, <3>2, <3>4, <3>5, Zenon DEF BehindMark
    <2>7. ASSUME \A k \in DOMAIN q : CleanPair(q[k].name, q[k].value)
          PROVE  QueryPairs(qs) = q
      <3>1. PICK at : PairsAt(U, q, at)
        BY <1>1, <2>7, PairsStand, Zenon
      <3> QED BY ONLY <1>20, <2>6, <3>1, q \in Seq(Texted), QueryReads
    <2>8. SubSeq(W, 1, QueryMark(W) - 1) = P
      <3>1. QueryMark(W) - 1 = p + 1 - 1
        BY <2>3
      <3> QED BY <1>18, <2>4, <3>1, Zenon
    <2>9. (\A k \in DOMAIN q : CleanPair(q[k].name, q[k].value)) =>
            QueryPairs(SubSeq(W, QueryMark(W) + 1, Len(W))) = q
      BY <1>9, <2>3, <2>4, <2>5, <2>7, Zenon
    <2> QED BY <1>8, <1>13, <1>14, <2>8, <2>9, Zenon
  <1> QED BY <1>19, <1>20, Zenon

(* The end of the body is read, behind whatever headers.                   *)
LEMMA BodyBehindHeaders ==
  ASSUME NEW t, NEW A, NEW W, NEW F, NEW B, NEW e, NEW T, Layout(t, A, W, F, B, e, T),
         NEW u \in Seq(Texted), F = FlattenSeq([i \in DOMAIN u |-> HeaderPart(u, i)])
  PROVE  IsSuffix(Body(t), B) /\ (NoBreak(B) => Body(t) = B)
  <1>1. PICK c : c = e + 4
    OBVIOUS
  <1>2. Holds(t, c, F) /\ T = c + Len(F)
    BY <1>1, Zenon DEF Layout
  <1>3. PICK b : LinesAt(t, c, u, b) /\ b[Len(u)] = c + Len(F)
    BY ONLY <1>2, u \in Seq(Texted), F = FlattenSeq([i \in DOMAIN u |-> HeaderPart(u, i)]),
            LinesStand
  <1>4. LinesAt(t, e + 4, u, b) /\ b[Len(u)] = T
    BY <1>1, <1>2, <1>3, Zenon
  <1>5. Len(u) \in 0..Len(u)
    <2>1. Len(u) \in Nat
      BY ONLY u \in Seq(Texted)
    <2> QED BY ONLY <2>1
  <1>6. t[b[Len(u)] - 1] = CR /\ t[b[Len(u)]] = LF
    BY ONLY <1>4, <1>5, u \in Seq(Texted), Layout(t, A, W, F, B, e, T), LinesEnd
  <1>7. t[T - 1] = CR /\ t[T] = LF
    BY <1>4, <1>6, Zenon
  <1> QED BY <1>7, BodyReads, Zenon

(* A clean message is read as it was sent, as far as RequestSurvives says. *)
LEMMA CleanReads ==
  ASSUME NEW m, IsMessage(m), Clean(m), NEW got, got = ParsedRequest(RequestText(m))
  PROVE  /\ got.valid /\ got.method = m.method /\ got.uri = m.path
         /\ \A k \in DOMAIN m.headers :
              FirstOf(got.headers, m.headers[k].name) = FirstOf(m.headers, m.headers[k].name)
         /\ ShortValues(m.query) => got.query = m.query
         /\ NoBreak(BodyText(m)) => got.body = BodyText(m)
  <1>1. PICK F : F = FlattenSeq([i \in DOMAIN m.headers |-> HeaderPart(m.headers, i)])
    OBVIOUS
  <1>2. PICK A, P, B, q, u : /\ A = m.method /\ P = m.path /\ B = BodyText(m)
                             /\ q = m.query /\ u = m.headers
    OBVIOUS
  <1>3. PICK W, t : W = P \o QueryText(q) /\ t = RequestText(m)
    OBVIOUS
  <1>4. PICK e, T : Layout(t, A, W, F, B, e, T)
    BY <1>1, <1>2, <1>3, RequestLayout, Zenon
  <1>5. P \in Seq(Nat) /\ q \in Seq(Texted) /\ u \in Seq(Texted)
    BY <1>2, Zenon DEF IsMessage, Texted
  <1>6. /\ A # <<>> /\ \A i \in DOMAIN A : Word(A[i])
        /\ P # <<>> /\ \A i \in DOMAIN P : P[i] \notin {CR, LF, QMARK}
    BY <1>2, Zenon DEF Clean
  <1>7. ASSUME NEW k \in DOMAIN q
        PROVE  /\ MarkFree(q[k].name) /\ MarkFree(q[k].value)
               /\ ShortValues(q) => CleanPair(q[k].name, q[k].value)
    <2>1. q[k] \in [name : Seq(Nat), value : Seq(Nat)]
      <3>1. \A Z : \A s \in Seq(Z) : \A i \in DOMAIN s : s[i] \in Z
        OBVIOUS
      <3> QED BY <1>5, <3>1, Zenon DEF Texted
    <2>2. PICK x \in Seq(Nat), y \in Seq(Nat) : x = q[k].name /\ y = q[k].value
      BY <2>1
    <2>3. MarkFree(x) /\ MarkFree(y)
      BY <1>2, <2>2, Zenon DEF Clean, MarkFree
    <2>4. ASSUME ShortValues(q) PROVE CleanPair(x, y)
      <3>1. x # <<>> /\ Len(y) = 1 /\ \A i \in DOMAIN x : x[i] \notin {EQ, AMP}
        BY <2>2, <2>4, Zenon DEF ShortValues
      <3>2. 1 \in DOMAIN y
        BY <3>1
      <3>3. y[1] \notin {CR, LF, QMARK}
        BY <2>3, <3>2, Zenon DEF MarkFree
      <3>4. \A i \in DOMAIN x : x[i] \notin {CR, LF, QMARK, EQ, AMP}
        BY <2>3, <3>1, Zenon DEF MarkFree
      <3> QED BY <3>1, <3>3, <3>4, Zenon DEF CleanPair
    <2> QED BY <2>2, <2>3, <2>4, Zenon
  <1>8. ASSUME NEW k \in DOMAIN u PROVE CleanHeader(u[k].name, u[k].value)
    <2>1. u[k] \in [name : Seq(Nat), value : Seq(Nat)]
      <3>1. \A Z : \A s \in Seq(Z) : \A i \in DOMAIN s : s[i] \in Z
        OBVIOUS
      <3> QED BY <1>5, <3>1, Zenon DEF Texted
    <2>2. u[k].name \in Seq(Nat) /\ u[k].value \in Seq(Nat)
      BY <2>1
    <2> QED BY <1>2, <2>2, Zenon DEF Clean, CleanHeader, Texts
  <1>9. /\ W # <<>> /\ NoBreak(W)
        /\ SubSeq(W, 1, QueryMark(W) - 1) = P
        /\ ShortValues(q) => QueryPairs(SubSeq(W, QueryMark(W) + 1, Len(W))) = q
    BY <1>3, <1>5, <1>6, <1>7, UriSplits, Zenon
  <1>10. LineOK(A, W)
    BY <1>6, <1>9, Zenon DEF LineOK
  <1>11. StatusLine(t) = [ok |-> TRUE, method |-> A, uri |-> W]
    BY <1>4, <1>10, StatusLineReads, Zenon
  <1>12. F = FlattenSeq([i \in DOMAIN u |-> HeaderPart(u, i)])
    BY <1>1, <1>2, Zenon
  <1>13. \A k \in DOMAIN u : FirstOf(HeaderPairs(t), u[k].name) = FirstOf(u, u[k].name)
    BY <1>4, <1>5, <1>8, <1>10, <1>12, HeadersRead, Zenon
  <1>14. NoBreak(B) => Body(t) = B
    BY <1>4, <1>5, <1>12, BodyBehindHeaders, Zenon
  <1>15. PICK line : line = StatusLine(t)
    OBVIOUS
  <1>16. line.ok = TRUE /\ line.method = A /\ line.uri = W
    BY ONLY <1>11, <1>15
  <1>17. got =
           [valid |-> line.ok, method |-> line.method,
            uri |-> SubSeq(line.uri, 1, QueryMark(line.uri) - 1),
            query |-> IF line.ok THEN QueryPairs(SubSeq(line.uri, QueryMark(line.uri) + 1, Len(line.uri)))
                      ELSE <<>>,
            headers |-> IF line.ok THEN HeaderPairs(t) ELSE <<>>,
            body |-> IF line.ok THEN Body(t) ELSE <<>>]
    BY <1>3, <1>15, Zenon DEF ParsedRequest
  <1>18. /\ got.valid /\ got.method = A /\ got.uri = P
         /\ got.query = QueryPairs(SubSeq(W, QueryMark(W) + 1, Len(W)))
         /\ got.headers = HeaderPairs(t) /\ got.body = Body(t)
    <2>1. got = [valid |-> TRUE, method |-> A, uri |-> P,
                 query |-> QueryPairs(SubSeq(W, QueryMark(W) + 1, Len(W))),
                 headers |-> HeaderPairs(t), body |-> Body(t)]
      BY <1>9, <1>16, <1>17, Zenon
    <2> QED BY ONLY <2>1, Zenon
  <1> QED BY <1>2, <1>9, <1>13, <1>14, <1>18, Zenon

(* A clean request is valid, its method, path and headers are read as they *)
(* were sent whatever its query and its body hold, and so are a query of   *)
(* short values and a body without line break: RequestSurvives holds of    *)
(* whatever text parse_request is given.                                   *)
THEOREM RequestsAreRead == Spec => []RequestSurvives
  <1>1. IInv => RequestSurvives
    <2> SUFFICES ASSUME IInv, stage = "parsed", Clean(msg)
                 PROVE  /\ req.valid /\ req.method = msg.method /\ req.uri = msg.path
                        /\ \A k \in DOMAIN msg.headers :
                             FirstOf(req.headers, msg.headers[k].name)
                               = FirstOf(msg.headers, msg.headers[k].name)
                        /\ ShortValues(msg.query) => req.query = msg.query
                        /\ NoBreak(BodyText(msg)) => req.body = BodyText(msg)
      BY Zenon DEF RequestSurvives
    <2>1. IsMessage(msg) /\ req = ParsedRequest(RequestText(msg))
      <3>1. msg \in Messages /\ wire = RequestText(msg) /\ req = ParsedRequest(wire)
        BY Zenon DEF IInv
      <3> QED BY <3>1, TextAssumption, Zenon
    <2> QED BY <2>1, CleanReads, Zenon
  <1> QED BY <1>1, Invariance, PTL

=============================================================================
