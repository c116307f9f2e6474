------------------------- MODULE ReverseProxyProofs -------------------------
(***************************************************************************)
(* Proofs about the reverse proxy handler.  The invariant says where the   *)
(* buffer is in the reply the host set out to send: nothing is consumed    *)
(* before the first line, then exactly that line, then exactly the head.   *)
(* Most lemmas say that what the handler finds in the part it has read is  *)
(* what is in the whole reply, wherever a read ended.                      *)
(***************************************************************************)
EXTENDS ReverseProxy, IndexLemmas, TLAPS

-----------------------------------------------------------------------------
(* The places of a text in a buffer.                                       *)

(* All places of s in buf.                                                 *)
At(s, buf) == {i \in 1..(Len(buf) + 1 - Len(s)) : SubSeq(buf, i, i + Len(s) - 1) = s}

(* PlaceOf is the first place of a text, if the buffer holds it.           *)
LEMMA PlaceIs ==
  ASSUME NEW s, NEW buf, Len(buf) \in Nat, Len(s) \in Nat \ {0}
  PROVE  /\ At(s, buf) \subseteq 1..Len(buf)
         /\ At(s, buf) = {} => PlaceOf(s, buf) = Len(buf) + 1
         /\ At(s, buf) # {} => /\ PlaceOf(s, buf) \in At(s, buf)
                               /\ \A k \in At(s, buf) : PlaceOf(s, buf) <= k
         /\ Holds(buf, s) <=> At(s, buf) # {}
  <1> DEFINE A == At(s, buf)
  <1>1. A \subseteq 1..Len(buf)
    BY DEF At
  <1>2. PlaceOf(s, buf) = IF A = {} THEN Len(buf) + 1
                          ELSE CHOOSE i \in A : \A k \in A : i <= k
    BY Zenon DEF PlaceOf, At
  <1> HIDE DEF A
  <1>3. ASSUME A # {} PROVE PlaceOf(s, buf) \in A /\ \A k \in A : PlaceOf(s, buf) <= k
    <2>1. \E b \in A : \A k \in A : b <= k
      BY <1>1, <1>3, FirstIndex
    <2> QED BY <1>2, <1>3, <2>1, Zenon
  <1>4. A = {} => PlaceOf(s, buf) = Len(buf) + 1
    BY <1>2
  <1>5. Holds(buf, s) <=> A # {}
    <2>1. ASSUME A # {} PROVE PlaceOf(s, buf) <= Len(buf)
      <3>1. PlaceOf(s, buf) \in 1..Len(buf)
        BY <1>1, <1>3, <2>1
      <3> QED BY <3>1
    <2>2. ~(Len(buf) + 1 <= Len(buf))
      OBVIOUS
    <2> QED BY <1>4, <2>1, <2>2 DEF Holds
  <1> QED BY <1>1, <1>3, <1>4, <1>5 DEF A

(* The two ends of a line.                                                 *)
LEMMA PairPlaces ==
  ASSUME NEW S, NEW buf \in Seq(S)
  PROVE  /\ Len(CRLF) = 2
         /\ At(CRLF, buf) = {i \in 1..(Len(buf) - 1) : buf[i] = "\r" /\ buf[i + 1] = "\n"}
  <1>1. Len(CRLF) = 2
    BY DEF CRLF
  <1>2. ASSUME NEW i \in 1..(Len(buf) - 1)
        PROVE  SubSeq(buf, i, i + 1) = CRLF <=> buf[i] = "\r" /\ buf[i + 1] = "\n"
    <2>0. i \in Nat /\ i + 1 \in Nat /\ 1 <= i /\ i <= i + 1 + 1 /\ i + 1 <= Len(buf)
      OBVIOUS
    <2>1. PICK a \in Seq(S) : a = SubSeq(buf, i, i + 1)
      BY <2>0, SubSeqIndex
    <2>2. Len(a) = i + 1 + 1 - i /\ \A k \in 1..(i + 1 + 1 - i) : a[k] = buf[i + k - 1]
      BY <2>0, <2>1, SubSeqIndex
    <2>3. Len(a) = 2 /\ a[1] = buf[i] /\ a[2] = buf[i + 1]
      BY <2>0, <2>2
    <2>4. ASSUME a = CRLF PROVE a[1] = "\r" /\ a[2] = "\n"
      BY <2>4 DEF CRLF
    <2>5. ASSUME a[1] = "\r", a[2] = "\n" PROVE a = CRLF
      <3>1. a = <<a[1], a[2]>>
        BY <2>3
      <3> QED BY <2>5, <3>1 DEF CRLF
    <2> QED BY <2>1, <2>3, <2>4, <2>5
  <1>3. Len(buf) + 1 - 2 = Len(buf) - 1 /\ \A i \in 1..(Len(buf) - 1) : i + 2 - 1 = i + 1
    OBVIOUS
  <1>4. At(CRLF, buf) = {i \in 1..(Len(buf) - 1) : SubSeq(buf, i, i + 1) = CRLF}
    BY <1>1, <1>3 DEF At
  <1> QED BY <1>1, <1>2, <1>4

(* The end of a line and the empty line after it.                          *)
LEMMA LinePlaces ==
  ASSUME NEW S, NEW buf \in Seq(S)
  PROVE  /\ Len(<<"\n">> \o CRLF) = 3
         /\ At(<<"\n">> \o CRLF, buf) =
              {i \in 1..(Len(buf) - 2) :
                 buf[i] = "\n" /\ buf[i + 1] = "\r" /\ buf[i + 2] = "\n"}
  <1>0. PICK e : e = <<"\n", "\r", "\n">>
    OBVIOUS
  <1>1. <<"\n">> \o CRLF = e /\ Len(e) = 3
    <2>1. Len(e) = 3
      BY <1>0
    <2>2. <<"\n">> \o <<"\r", "\n">> = <<"\n", "\r", "\n">>
      BY TupleOfThree
    <2> QED BY <1>0, <2>1, <2>2 DEF CRLF
  <1>2. ASSUME NEW i \in 1..(Len(buf) - 2)
        PROVE  SubSeq(buf, i, i + 2) = e
                 <=> buf[i] = "\n" /\ buf[i + 1] = "\r" /\ buf[i + 2] = "\n"
    <2>0. i \in Nat /\ i + 2 \in Nat /\ 1 <= i /\ i <= i + 2 + 1 /\ i + 2 <= Len(buf)
      OBVIOUS
    <2>1. PICK a \in Seq(S) : a = SubSeq(buf, i, i + 2)
      BY <2>0, SubSeqIndex
    <2>2. Len(a) = i + 2 + 1 - i /\ \A k \in 1..(i + 2 + 1 - i) : a[k] = buf[i + k - 1]
      BY <2>0, <2>1, SubSeqIndex
    <2>3. Len(a) = 3 /\ a[1] = buf[i] /\ a[2] = buf[i + 1] /\ a[3] = buf[i + 2]
      BY <2>0, <2>2
    <2>4. ASSUME a = e PROVE a[1] = "\n" /\ a[2] = "\r" /\ a[3] = "\n"
      BY <1>0, <2>4
    <2>5. ASSUME a[1] = "\n", a[2] = "\r", a[3] = "\n" PROVE a = e
      <3>1. a = <<a[1], a[2], a[3]>>
        BY <2>3
      <3> QED BY <1>0, <2>5, <3>1
    <2> QED BY <2>1, <2>3, <2>4, <2>5
  <1>3. Len(buf) + 1 - 3 = Len(buf) - 2 /\ \A i \in 1..(Len(buf) - 2) : i + 3 - 1 = i + 2
    OBVIOUS
  <1>4. At(e, buf) = {i \in 1..(Len(buf) - 2) : SubSeq(buf, i, i + 2) = e}
    BY <1>1, <1>3 DEF At
  <1> QED BY <1>1, <1>2, <1>4

(* An empty line.                                                          *)
LEMMA BlankPlaces ==
  ASSUME NEW S, NEW buf \in Seq(S)
  PROVE  /\ Len(CRLF \o CRLF) = 4
         /\ At(CRLF \o CRLF, buf) =
              {i \in 1..(Len(buf) - 3) : /\ buf[i] = "\r" /\ buf[i + 1] = "\n"
                                         /\ buf[i + 2] = "\r" /\ buf[i + 3] = "\n"}
  <1>0. PICK e : e = <<"\r", "\n", "\r", "\n">>
    OBVIOUS
  <1>1. CRLF \o CRLF = e /\ Len(e) = 4
    <2>1. Len(e) = 4
      BY <1>0
    <2>2. <<"\r", "\n">> \o <<"\r", "\n">> = <<"\r", "\n", "\r", "\n">>
      BY TupleOfFour
    <2> QED BY <1>0, <2>1, <2>2 DEF CRLF
  <1>2. ASSUME NEW i \in 1..(Len(buf) - 3)
        PROVE  SubSeq(buf, i, i + 3) = e
                 <=> /\ buf[i] = "\r" /\ buf[i + 1] = "\n"
                     /\ buf[i + 2] = "\r" /\ buf[i + 3] = "\n"
    <2>0. i \in Nat /\ i + 3 \in Nat /\ 1 <= i /\ i <= i + 3 + 1 /\ i + 3 <= Len(buf)
      OBVIOUS
    <2>1. PICK a \in Seq(S) : a = SubSeq(buf, i, i + 3)
      BY <2>0, SubSeqIndex
    <2>2. Len(a) = i + 3 + 1 - i /\ \A k \in 1..(i + 3 + 1 - i) : a[k] = buf[i + k - 1]
      BY <2>0, <2>1, SubSeqIndex
    <2>3. /\ Len(a) = 4 /\ a[1] = buf[i] /\ a[2] = buf[i + 1]
          /\ a[3] = buf[i + 2] /\ a[4] = buf[i + 3]
      <3>1. /\ i + 3 + 1 - i = 4 /\ i + 1 - 1 = i /\ i + 2 - 1 = i + 1
            /\ i + 3 - 1 = i + 2 /\ i + 4 - 1 = i + 3
        BY <2>0
      <3>2. a[1] = buf[i + 1 - 1] /\ a[2] = buf[i + 2 - 1]
        BY <2>2, <3>1
      <3>3. a[3] = buf[i + 3 - 1] /\ a[4] = buf[i + 4 - 1]
        BY <2>2, <3>1
      <3> QED BY <2>2, <3>1, <3>2, <3>3
    <2>4. ASSUME a = e PROVE a[1] = "\r" /\ a[2] = "\n" /\ a[3] = "\r" /\ a[4] = "\n"
      BY <1>0, <2>4
    <2>5. ASSUME a[1] = "\r", a[2] = "\n", a[3] = "\r", a[4] = "\n" PROVE a = e
      <3>1. a = <<a[1], a[2], a[3], a[4]>>
        BY <2>3
      <3> QED BY <1>0, <2>5, <3>1
    <2> QED BY <2>1, <2>3, <2>4, <2>5
  <1>3. Len(buf) + 1 - 4 = Len(buf) - 3 /\ \A i \in 1..(Len(buf) - 3) : i + 4 - 1 = i + 3
    OBVIOUS
  <1>4. At(e, buf) = {i \in 1..(Len(buf) - 3) : SubSeq(buf, i, i + 3) = e}
    BY <1>1, <1>3 DEF At
  <1> QED BY <1>1, <1>2, <1>4

-----------------------------------------------------------------------------
(* The constructor's table and the first segment of the URI.               *)

(* The location statement i of the block b is the one that is meant by the *)
(* URI u: one segment, u goes on behind it with a slash if at all, and it  *)
(* is the first of its value, with a root behind it.                       *)
Fits(b, u, i) ==
  LET l == b[i].value
  IN  /\ l[1] = "/" /\ Len(l) > 1 /\ \A k \in 2..Len(l) : l[k] # "/"
      /\ IsPrefix(l, u)
      /\ Len(u) = Len(l) \/ u[Len(l) + 1] = "/"
      /\ \A k \in Statements(b, "location") : b[k].value = l => i <= k
      /\ i + 1 \in Statements(b, "root")

(* A URI closed by a slash.                                                *)
LEMMA ClosedIndex ==
  ASSUME NEW S, NEW u \in Seq(S), "/" \in S, Len(u) > 0
  PROVE  /\ Closed(u) \in Seq(S) /\ Closed(u) \in {u, Append(u, "/")}
         /\ Len(Closed(u)) \in {Len(u), Len(u) + 1}
         /\ \A k \in 1..Len(u) : Closed(u)[k] = u[k]
         /\ u[Len(u)] # "/" => Len(Closed(u)) = Len(u) + 1 /\ Closed(u)[Len(u) + 1] = "/"
  <1>1. Last(u) = u[Len(u)]
    BY DEF Last
  <1>2. /\ Append(u, "/") \in Seq(S) /\ Len(Append(u, "/")) = Len(u) + 1
        /\ \A k \in 1..Len(u) : Append(u, "/")[k] = u[k]
        /\ Append(u, "/")[Len(u) + 1] = "/"
    OBVIOUS
  <1>3. CASE u[Len(u)] = "/"
    BY <1>1, <1>3 DEF Closed
  <1>4. CASE u[Len(u)] # "/"
    <2>1. Closed(u) = Append(u, "/")
      BY <1>1, <1>4 DEF Closed
    <2> QED BY <1>2, <1>4, <2>1
  <1> QED BY <1>3, <1>4

(* constructGetRequest splits such a URI behind its location.              *)
LEMMA SegmentIs ==
  ASSUME NEW l \in Seq(STRING), NEW u \in Seq(STRING), Len(l) > 1,
         \A k \in 2..Len(l) : l[k] # "/", IsPrefix(l, u),
         Len(u) = Len(l) \/ u[Len(l) + 1] = "/"
  PROVE  /\ Len(u) > 1 /\ FirstSegment(u) = l
         /\ l \o PathOf(u) \in {u, Append(u, "/")}
  <1>0. PICK S : S = STRING \cup {"/"}
    OBVIOUS
  <1>1. u \in Seq(S) /\ l \in Seq(S) /\ "/" \in S
    BY <1>0
  <1>2. Len(l) <= Len(u) /\ \A k \in 1..Len(l) : l[k] = u[k]
    BY PrefixIndex
  <1>3. Len(u) > 1 /\ Len(u) > 0 /\ Len(l) \in Nat /\ Len(u) \in Nat
    BY <1>2
  <1>4. PICK v \in Seq(S) : v = Closed(u)
    BY <1>1, <1>3, ClosedIndex
  <1>5. /\ v \in {u, Append(u, "/")} /\ Len(v) \in {Len(u), Len(u) + 1}
        /\ \A k \in 1..Len(u) : v[k] = u[k]
        /\ u[Len(u)] # "/" => Len(v) = Len(u) + 1 /\ v[Len(u) + 1] = "/"
    BY <1>1, <1>3, <1>4, ClosedIndex
  <1> DEFINE n == Len(l) + 1
             slashes == {i \in 2..Len(v) : v[i] = "/"}
  <1>6. n \in slashes
    <2>1. CASE Len(u) = Len(l)
      <3>1. u[Len(u)] # "/"
        BY <1>2, <1>3, <2>1
      <3> QED BY <1>3, <1>5, <2>1, <3>1
    <2>2. CASE Len(u) # Len(l)
      BY <1>2, <1>3, <1>5, <2>2
    <2> QED BY <2>1, <2>2
  <1>7. \A k \in slashes : n <= k
    <2>1. \A k \in 2..Len(l) : v[k] # "/"
      BY <1>2, <1>3, <1>5
    <2> QED BY <1>3, <2>1
  <1>8. slashes \subseteq Nat /\ n \in Nat
    BY <1>3
  <1>9. SegmentEnd(v) = n
    <2>1. SegmentEnd(v) = CHOOSE i \in slashes : \A k \in slashes : i <= k
      BY Zenon DEF SegmentEnd
    <2> HIDE DEF slashes, n
    <2>2. \A i \in slashes : (\A k \in slashes : i <= k) => i = n
      BY <1>6, <1>7, <1>8
    <2> QED BY <1>6, <1>7, <2>1, <2>2
  <1>10. n \in 1..Len(v) + 1 /\ Len(l) \in 0..Len(v) /\ n - 1 = Len(l) /\ Len(v) \in Nat
         /\ Len(l) <= Len(v) /\ Len(l) \in 1 - 1 .. Len(v) /\ Len(v) \in Len(l) .. Len(v)
         /\ 1 \in 1 .. Len(v) + 1
    BY <1>3, <1>6
  <1>11. SubSeq(v, 1, Len(l)) = l
    <2>0. 1 \in Nat /\ 1 <= 1 /\ 1 <= Len(l) + 1
      BY <1>3
    <2>1. PICK a \in Seq(S) : a = SubSeq(v, 1, Len(l))
      BY <1>3, <1>10, <2>0, SubSeqIndex
    <2>2. Len(a) = Len(l) + 1 - 1 /\ \A k \in 1..Len(l) + 1 - 1 : a[k] = v[1 + k - 1]
      BY <1>3, <1>10, <2>1, SubSeqIndex
    <2>3. \A k \in 1..Len(l) : a[k] = l[k]
      BY <1>2, <1>3, <1>5, <2>2
    <2>4. a = l
      BY <1>1, <1>3, <2>2, <2>3, SameSeq
    <2> QED BY <2>1, <2>4
  <1>12. FirstSegment(u) = l
    BY <1>4, <1>9, <1>10, <1>11 DEF FirstSegment
  <1>13. PathOf(u) = SubSeq(v, Len(l) + 1, Len(v))
    BY <1>4, <1>9 DEF PathOf
  <1>14. SubSeq(v, 1, Len(l)) \o SubSeq(v, Len(l) + 1, Len(v)) = SubSeq(v, 1, Len(v))
    BY <1>10, ConcatAdjacentSubSeq
  <1>15. SubSeq(v, 1, Len(v)) = v
    OBVIOUS
  <1> QED BY <1>3, <1>5, <1>11, <1>12, <1>13, <1>14, <1>15, Zenon

(* location2proxy has the root behind the first statement of a location.   *)
LEMMA ProxyIs ==
  ASSUME NEW b \in Blocks, NEW i \in Statements(b, "location"),
         b[i].value # <<>>,
         \A k \in Statements(b, "location") : b[k].value = b[i].value => i <= k,
         i + 1 \in Statements(b, "root")
  PROVE  /\ b[i].value \in DOMAIN LocationToProxy(b)
         /\ LocationToProxy(b)[b[i].value] = b[i + 1].value
  <1> DEFINE l == b[i].value
             own == {j \in Statements(b, "root") : LocationOf(b, j) = l}
  <1>1. /\ Statements(b, "location") \subseteq Nat /\ Statements(b, "root") \subseteq Nat
        /\ Statements(b, "location") \subseteq 1..Len(b) /\ Len(b) \in Nat
    BY ProxyAssumption DEF Statements
  <1>2. ASSUME NEW j \in Statements(b, "root")
        PROVE  \/ LocationOf(b, j) = <<>>
               \/ \E k \in Statements(b, "location") :
                    /\ k < j /\ LocationOf(b, j) = b[k].value
                    /\ \A m \in Statements(b, "location") : m < j => m <= k
    <2> DEFINE before == {k \in Statements(b, "location") : k < j}
    <2>1. LocationOf(b, j) = IF before = {} THEN <<>>
                             ELSE b[CHOOSE k \in before : \A m \in before : m <= k].value
      BY Zenon DEF LocationOf
    <2>2. before \in SUBSET (1..Len(b))
      BY <1>1
    <2>3. ASSUME before # {} PROVE \E k \in before : \A m \in before : m <= k
      BY <1>1, <2>2, <2>3, LastIndex
    <2>4. ASSUME before # {}
          PROVE  \E k \in before : LocationOf(b, j) = b[k].value /\ \A m \in before : m <= k
      <3> HIDE DEF before
      <3> QED BY <2>1, <2>3, <2>4, Zenon
    <2> QED BY <2>1, <2>4
  <1>3. i + 1 \in own
    <2> DEFINE before == {m \in Statements(b, "location") : m < i + 1}
    <2>1. LocationOf(b, i + 1) = IF before = {} THEN <<>>
                                 ELSE b[CHOOSE m \in before : \A q \in before : q <= m].value
      BY Zenon DEF LocationOf
    <2>2. before \in SUBSET (1..Len(b)) /\ i \in before /\ \A q \in before : q <= i
      BY <1>1
    <2>3. \A m \in before : (\A q \in before : q <= m) => m = i
      BY <1>1, <2>2
    <2> HIDE DEF before
    <2>4. (CHOOSE m \in before : \A q \in before : q <= m) = i
      BY <2>2, <2>3
    <2> QED BY <2>1, <2>2, <2>4
  <1>4. \A j \in own : i + 1 <= j
    <2> SUFFICES ASSUME NEW j \in own PROVE i + 1 <= j
      OBVIOUS
    <2>1. PICK k \in Statements(b, "location") : k < j /\ b[k].value = l
      BY <1>2
    <2>2. i <= k
      BY <2>1
    <2> QED BY <1>1, <2>1, <2>2
  <1>5. own \subseteq Nat
    BY <1>1
  <1>6. LocationToProxy(b)[l] = b[CHOOSE j \in own : \A k \in own : j <= k].value
        /\ l \in DOMAIN LocationToProxy(b)
    <2>1. l \in {LocationOf(b, j) : j \in Statements(b, "root")}
      BY <1>3
    <2> QED BY <2>1 DEF LocationToProxy
  <1>7. \A j \in own : (\A k \in own : j <= k) => j = i + 1
    BY <1>1, <1>3, <1>4, <1>5
  <1>8. (CHOOSE j \in own : \A k \in own : j <= k) = i + 1
    <2> HIDE DEF own
    <2> QED BY <1>3, <1>4, <1>7
  <1> QED BY <1>6, <1>8

-----------------------------------------------------------------------------
(* The first line of a reply.                                              *)

(* LineFrom is the first line feed from a place on, if there is one.       *)
LEMMA LineIs ==
  ASSUME NEW S, NEW buf \in Seq(S), NEW i \in Nat, 1 <= i,
         NEW e \in i..Len(buf), buf[e] = "\n"
  PROVE  /\ LineFrom(buf, i) \in i..Len(buf) /\ buf[LineFrom(buf, i)] = "\n"
         /\ \A k \in i..Len(buf) : buf[k] = "\n" => LineFrom(buf, i) <= k
  <1> DEFINE ends == {k \in i..Len(buf) : buf[k] = "\n"}
  <1>1. LineFrom(buf, i) = IF ends = {} THEN Len(buf)
                           ELSE CHOOSE k \in ends : \A m \in ends : k <= m
    BY Zenon DEF LineFrom
  <1>2. ends # {} /\ ends \in SUBSET Nat
    OBVIOUS
  <1> HIDE DEF ends
  <1>3. \E k \in ends : \A m \in ends : k <= m
    BY <1>2, FirstIndex
  <1>4. LineFrom(buf, i) \in ends /\ \A m \in ends : LineFrom(buf, i) <= m
    BY <1>1, <1>2, <1>3, Zenon
  <1> QED BY <1>4 DEF ends

(* WordFrom is a place in the buffer or just behind it, and where a word   *)
(* begins it is that place.                                                *)
LEMMA WordIs ==
  ASSUME NEW S, NEW buf \in Seq(S), NEW i \in Nat, 1 <= i
  PROVE  /\ WordFrom(buf, i) \in 1..Len(buf) + 1
         /\ i <= Len(buf) /\ buf[i] \notin Blank => WordFrom(buf, i) = i
  <1> DEFINE words == {k \in i..Len(buf) : buf[k] \notin Blank}
  <1>1. WordFrom(buf, i) = IF words = {} THEN Len(buf) + 1
                           ELSE CHOOSE k \in words : \A m \in words : k <= m
    BY Zenon DEF WordFrom
  <1>2. words \in SUBSET Nat /\ words \subseteq i..Len(buf)
    OBVIOUS
  <1>3. i <= Len(buf) /\ buf[i] \notin Blank => i \in words
    OBVIOUS
  <1> HIDE DEF words
  <1>4. ASSUME words # {}
        PROVE  WordFrom(buf, i) \in words /\ \A m \in words : WordFrom(buf, i) <= m
    <2>1. \E k \in words : \A m \in words : k <= m
      BY <1>2, <1>4, FirstIndex
    <2> QED BY <1>1, <1>4, <2>1, Zenon
  <1>5. WordFrom(buf, i) \in 1..Len(buf) + 1
    <2>1. CASE words = {}
      <3>1. WordFrom(buf, i) = Len(buf) + 1
        BY <1>1, <2>1
      <3> QED BY <3>1
    <2>2. CASE words # {}
      <3>1. WordFrom(buf, i) \in i..Len(buf)
        BY <1>2, <1>4, <2>2
      <3> QED BY <3>1
    <2> QED BY <2>1, <2>2
  <1>6. ASSUME i \in words PROVE WordFrom(buf, i) = i
    <2>1. WordFrom(buf, i) \in words /\ WordFrom(buf, i) <= i
      BY <1>4, <1>6
    <2>2. WordFrom(buf, i) \in i..Len(buf)
      BY <1>2, <2>1
    <2> QED BY <2>1, <2>2
  <1> QED BY <1>3, <1>5, <1>6

(* What has been read of a reply.                                          *)
LEMMA ReadPart ==
  ASSUME NEW w \in Seq(STRING), NEW g \in 0..Len(w), NEW c \in 0..g
  PROVE  /\ SubSeq(w, c + 1, g) \in Seq(STRING)
         /\ Len(SubSeq(w, c + 1, g)) = g - c
         /\ \A i \in 1..(g - c) : SubSeq(w, c + 1, g)[i] = w[c + i]
  <1>1. /\ c + 1 \in Nat /\ g \in Nat /\ 1 <= c + 1 /\ c + 1 <= g + 1 /\ g <= Len(w)
        /\ g + 1 - (c + 1) = g - c
    OBVIOUS
  <1>2. PICK a : a = SubSeq(w, c + 1, g)
    OBVIOUS
  <1>3. /\ a \in Seq(STRING) /\ Len(a) = g + 1 - (c + 1)
        /\ \A i \in 1 .. g + 1 - (c + 1) : a[i] = w[c + 1 + i - 1]
    BY <1>1, <1>2, SubSeqIndex
  <1>4. \A i \in 1..(g - c) : c + 1 + i - 1 = c + i
    OBVIOUS
  <1>5. /\ a \in Seq(STRING) /\ Len(a) = g - c
        /\ \A i \in 1..(g - c) : a[i] = w[c + i]
    BY <1>1, <1>3, <1>4
  <1> QED BY <1>2, <1>5

(* All that has been read of a reply.                                      *)
LEMMA PartRead ==
  ASSUME NEW w \in Seq(STRING), NEW g \in 0..Len(w)
  PROVE  /\ SubSeq(w, 1, g) \in Seq(STRING) /\ Len(SubSeq(w, 1, g)) = g
         /\ \A i \in 1..g : SubSeq(w, 1, g)[i] = w[i]
  <1>1. 0 \in 0..g /\ 0 + 1 = 1 /\ g - 0 = g
    OBVIOUS
  <1>2. \A i \in 1..g : 0 + i = i
    OBVIOUS
  <1> QED BY <1>1, <1>2, ReadPart

(* A first line with a number is consumed up to its line feed, wherever    *)
(* the read that brought it ended.                                         *)
LEMMA StatusRead ==
  ASSUME NEW w \in Seq(STRING), NEW g \in 0..Len(w), HasStatus(w),
         NEW r \in Seq(STRING), r = SubSeq(w, 1, g), Holds(r, CRLF)
  PROVE  /\ WordFrom(r, WordFrom(r, 1) + 1) = 2
         /\ 2 < Len(r) /\ Len(r) = g /\ r[2] = w[2]
         /\ LineFrom(r, 2) = LineFrom(w, 2)
         /\ LineFrom(w, 2) \in 3..g /\ w[LineFrom(w, 2)] = "\n"
         /\ \A k \in 1..Len(w) : w[k] = "\n" => LineFrom(w, 2) <= k
  <1>1. Len(r) = g /\ g \in Nat /\ g <= Len(w) /\ \A i \in 1..g : r[i] = w[i]
    <2>1. 0 \in 0..g /\ 0 + 1 = 1 /\ g - 0 = g
      OBVIOUS
    <2>2. \A i \in 1..g : 0 + i = i
      OBVIOUS
    <2> QED BY <2>1, <2>2, ReadPart
  <1>2. PICK p \in 1..(Len(r) - 1) : r[p] = "\r" /\ r[p + 1] = "\n"
    <2>1. Len(CRLF) = 2 /\ At(CRLF, r) =
            {i \in 1..(Len(r) - 1) : r[i] = "\r" /\ r[i + 1] = "\n"}
      BY PairPlaces
    <2>2. At(CRLF, r) # {}
      <3>1. Len(r) \in Nat /\ Len(CRLF) \in Nat \ {0}
        BY <2>1
      <3> QED BY <3>1, PlaceIs
    <2> QED BY <2>1, <2>2
  <1>3. Len(w) > 1 /\ w[1] \notin Blank /\ w[2] \in DOMAIN StatusCode /\ w[2] \notin Blank
    BY ProxyAssumption DEF HasStatus, Blank
  <1>4. p + 1 \in 1..g /\ p + 1 >= 3
    <2>1. w[p] = "\r" /\ w[p + 1] = "\n" /\ p \in Nat /\ p + 1 <= g
      BY <1>1, <1>2
    <2>2. p # 1 /\ p # 2
      BY <1>3, <2>1 DEF Blank
    <2> QED BY <1>2, <2>1, <2>2
  <1>5. 2 < Len(r) /\ r[1] = w[1] /\ r[2] = w[2]
    BY <1>1, <1>4
  <1>a. 1 \in Nat /\ 1 <= 1 /\ 1 <= Len(r) /\ 2 \in Nat /\ 1 <= 2 /\ 2 <= Len(r)
    BY <1>1, <1>5
  <1>6. WordFrom(r, 1) = 1
    BY <1>3, <1>5, <1>a, WordIs
  <1>7. WordFrom(r, 2) = 2
    BY <1>3, <1>5, <1>a, WordIs
  <1>8. /\ LineFrom(r, 2) \in 2..Len(r) /\ r[LineFrom(r, 2)] = "\n"
        /\ \A k \in 2..Len(r) : r[k] = "\n" => LineFrom(r, 2) <= k
    <2>1. p + 1 \in 2..Len(r)
      BY <1>1, <1>4
    <2> QED BY <1>2, <1>a, <2>1, LineIs
  <1>9. /\ LineFrom(w, 2) \in 2..Len(w) /\ w[LineFrom(w, 2)] = "\n"
        /\ \A k \in 2..Len(w) : w[k] = "\n" => LineFrom(w, 2) <= k
    <2>1. p + 1 \in 2..Len(w) /\ w[p + 1] = "\n"
      BY <1>1, <1>2, <1>4
    <2> QED BY <1>a, <2>1, LineIs
  <1>10. LineFrom(r, 2) = LineFrom(w, 2)
    <2>1. LineFrom(r, 2) \in 2..Len(w) /\ w[LineFrom(r, 2)] = "\n"
      BY <1>1, <1>8
    <2>2. LineFrom(w, 2) <= LineFrom(r, 2)
      BY <1>9, <2>1
    <2>3. LineFrom(w, 2) \in 2..Len(r) /\ r[LineFrom(w, 2)] = "\n"
      BY <1>1, <1>8, <1>9, <2>2
    <2>4. LineFrom(r, 2) <= LineFrom(w, 2)
      BY <1>8, <2>3
    <2> QED BY <2>1, <2>2, <2>3, <2>4
  <1>11. LineFrom(w, 2) # 2
    BY <1>3, <1>9 DEF Blank
  <1>12. LineFrom(w, 2) \in 3..g
    BY <1>1, <1>8, <1>10, <1>11
  <1>13. \A k \in 1..Len(w) : w[k] = "\n" => LineFrom(w, 2) <= k
    <2>1. w[1] # "\n"
      BY <1>3 DEF Blank
    <2> QED BY <1>9, <2>1
  <1>14. WordFrom(r, WordFrom(r, 1) + 1) = 2
    <2>1. 1 + 1 = 2
      OBVIOUS
    <2> QED BY <1>6, <1>7, <2>1
  <1> QED BY <1>1, <1>5, <1>9, <1>10, <1>12, <1>13, <1>14

-----------------------------------------------------------------------------
(* The headers of a reply.                                                 *)

Empty(w, i) == /\ w[i] = "\r" /\ w[i + 1] = "\n"
               /\ w[i + 2] = "\r" /\ w[i + 3] = "\n"

(* The lines of the head of a reply end with both symbols, and a header    *)
(* begins a line.  The body may hold anything.                             *)
WellFormed(w) ==
  \A i \in 1..Len(w) : i <= PlaceOf(CRLF \o CRLF, w) + 1 =>
    /\ w[i] = "\n" => i > 1 /\ w[i - 1] = "\r"
    /\ w[i] \in DOMAIN MimeType => i > 1 /\ w[i - 1] = "\n"

(* PlaceOf(CRLF \o CRLF, buf) is the first empty line.                     *)
LEMMA BlankIs ==
  ASSUME NEW S, NEW buf \in Seq(S)
  PROVE  /\ Holds(buf, CRLF \o CRLF) <=> \E i \in 1..(Len(buf) - 3) : Empty(buf, i)
         /\ Holds(buf, CRLF \o CRLF) =>
              /\ PlaceOf(CRLF \o CRLF, buf) \in 1..(Len(buf) - 3)
              /\ Empty(buf, PlaceOf(CRLF \o CRLF, buf))
              /\ \A i \in 1..(Len(buf) - 3) :
                   Empty(buf, i) => PlaceOf(CRLF \o CRLF, buf) <= i
  <1>0. PICK e : e = CRLF \o CRLF
    OBVIOUS
  <1>1. Len(e) = 4 /\ At(e, buf) = {i \in 1..(Len(buf) - 3) : Empty(buf, i)}
    BY <1>0, BlankPlaces DEF Empty
  <1>2. Len(buf) \in Nat /\ Len(e) \in Nat \ {0}
    BY <1>1
  <1>3. /\ At(e, buf) # {} => /\ PlaceOf(e, buf) \in At(e, buf)
                              /\ \A k \in At(e, buf) : PlaceOf(e, buf) <= k
        /\ Holds(buf, e) <=> At(e, buf) # {}
    BY <1>2, PlaceIs
  <1>4. Holds(buf, e) <=> \E i \in 1..(Len(buf) - 3) : Empty(buf, i)
    BY <1>1, <1>3
  <1>5. Holds(buf, e) => /\ PlaceOf(e, buf) \in 1..(Len(buf) - 3)
                         /\ Empty(buf, PlaceOf(e, buf))
                         /\ \A i \in 1..(Len(buf) - 3) : Empty(buf, i) => PlaceOf(e, buf) <= i
    BY <1>1, <1>3
  <1> QED BY <1>0, <1>4, <1>5

(* The first empty line stays the first as more is read.                   *)
LEMMA PlaceKept ==
  ASSUME NEW w \in Seq(STRING), NEW g \in 0..Len(w), Holds(SubSeq(w, 1, g), CRLF \o CRLF)
  PROVE  /\ Holds(w, CRLF \o CRLF)
         /\ PlaceOf(CRLF \o CRLF, SubSeq(w, 1, g)) = PlaceOf(CRLF \o CRLF, w)
         /\ PlaceOf(CRLF \o CRLF, w) \in 1..(g - 3)
  <1>0. PICK r : r = SubSeq(w, 1, g)
    OBVIOUS
  <1>1. r \in Seq(STRING) /\ Len(r) = g /\ g \in Nat /\ g <= Len(w) /\ \A i \in 1..g : r[i] = w[i]
    <2>1. 0 \in 0..g /\ 0 + 1 = 1 /\ g - 0 = g
      OBVIOUS
    <2>2. \A i \in 1..g : 0 + i = i
      OBVIOUS
    <2> QED BY <1>0, <2>1, <2>2, ReadPart
  <1>2. PICK e : e = CRLF \o CRLF
    OBVIOUS
  <1>3. /\ PlaceOf(e, r) \in 1..(g - 3) /\ Empty(r, PlaceOf(e, r))
        /\ \A i \in 1..(g - 3) : Empty(r, i) => PlaceOf(e, r) <= i
    BY <1>0, <1>1, <1>2, BlankIs
  <1>4. \A i \in 1..(g - 3) : Empty(r, i) <=> Empty(w, i)
    BY <1>1 DEF Empty
  <1>5. PlaceOf(e, r) \in 1..(Len(w) - 3) /\ Empty(w, PlaceOf(e, r))
    BY <1>1, <1>3, <1>4
  <1>6. Holds(w, e)
    BY <1>2, <1>5, BlankIs
  <1>7. /\ PlaceOf(e, w) \in 1..(Len(w) - 3) /\ Empty(w, PlaceOf(e, w))
        /\ \A i \in 1..(Len(w) - 3) : Empty(w, i) => PlaceOf(e, w) <= i
    BY <1>2, <1>6, BlankIs
  <1>8. PlaceOf(e, w) <= PlaceOf(e, r)
    BY <1>5, <1>7
  <1>9. PlaceOf(e, w) \in 1..(g - 3)
    BY <1>1, <1>3, <1>7, <1>8
  <1>10. PlaceOf(e, r) <= PlaceOf(e, w)
    BY <1>3, <1>4, <1>7, <1>9
  <1>11. PlaceOf(e, r) = PlaceOf(e, w)
    BY <1>3, <1>8, <1>9, <1>10
  <1> QED BY <1>0, <1>2, <1>6, <1>9, <1>11

(* The place of the line "\r" alone, with the line feed before the headers. *)
EndLine(r) == PlaceOf(<<"\n">> \o CRLF, <<"\n">> \o r)

(* q is the first line of the headers r that holds "\r" alone.             *)
EndsAt(r, q) ==
  /\ q \in 1..(Len(r) - 1)
  /\ q = 1 \/ r[q - 1] = "\n"
  /\ r[q] = "\r" /\ r[q + 1] = "\n"
  /\ \A k \in 1..(Len(r) - 1) :
       (k = 1 \/ r[k - 1] = "\n") /\ r[k] = "\r" /\ r[k + 1] = "\n" => q <= k

(* getline stops behind the first line that holds "\r" alone.              *)
LEMMA EndIs ==
  ASSUME NEW r \in Seq(STRING), Holds(r, CRLF \o CRLF)
  PROVE  EndsAt(r, EndLine(r))
  <1> DEFINE q == EndLine(r)
  <1>1. PICK S : S = STRING \cup {"\n"}
    OBVIOUS
  <1>2. r \in Seq(S) /\ <<"\n">> \in Seq(S) /\ Len(<<"\n">>) = 1 /\ <<"\n">>[1] = "\n"
    BY <1>1
  <1>3. PICK h \in Seq(S) : h = <<"\n">> /\ Len(h) = 1 /\ h[1] = "\n"
    BY <1>2, Zenon
  <1>4. PICK x : x = h \o r
    OBVIOUS
  <1>5. /\ x \in Seq(S) /\ Len(x) = Len(h) + Len(r)
        /\ \A i \in 1 .. Len(h) : x[i] = h[i]
        /\ \A i \in 1 .. Len(r) : x[Len(h) + i] = r[i]
    BY <1>2, <1>4, ConcatIndex
  <1>6. /\ Len(r) \in Nat /\ Len(x) = Len(r) + 1 /\ x[1] = "\n"
        /\ \A i \in 1 .. Len(r) : x[i + 1] = r[i]
    BY <1>2, <1>3, <1>5
  <1>7. PICK e : e = <<"\n">> \o CRLF
    OBVIOUS
  <1>8. /\ Len(e) = 3
        /\ At(e, x) = {i \in 1..(Len(x) - 2) : x[i] = "\n" /\ x[i + 1] = "\r" /\ x[i + 2] = "\n"}
    BY <1>5, <1>7, LinePlaces
  <1>9. ASSUME NEW i \in 1..(Len(r) - 1)
        PROVE  i \in At(e, x) <=> (i = 1 \/ r[i - 1] = "\n") /\ r[i] = "\r" /\ r[i + 1] = "\n"
    <2>1. i \in 1..(Len(x) - 2) /\ i \in 1..Len(r) /\ i + 1 \in 1..Len(r)
      BY <1>6
    <2>2. x[i + 1] = r[i] /\ x[i + 1 + 1] = r[i + 1] /\ i + 1 + 1 = i + 2
      BY <1>6, <2>1
    <2>3. x[i] = "\n" <=> i = 1 \/ r[i - 1] = "\n"
      <3>1. CASE i = 1
        BY <1>6, <3>1
      <3>2. CASE i # 1
        <4>1. i - 1 \in 1..Len(r) /\ i - 1 + 1 = i
          BY <2>1, <3>2
        <4> QED BY <1>6, <3>2, <4>1
      <3> QED BY <3>1, <3>2
    <2> QED BY <1>8, <2>1, <2>2, <2>3
  <1>10. At(e, x) \subseteq 1..(Len(r) - 1)
    BY <1>6, <1>8
  <1>11. At(e, x) # {}
    <2>1. PICK j \in 1..(Len(r) - 3) : Empty(r, j)
      BY BlankIs
    <2>2. /\ j + 2 \in 1..(Len(r) - 1) /\ j + 2 - 1 = j + 1 /\ j + 2 + 1 = j + 3
      BY <1>6
    <2>3. r[j + 2 - 1] = "\n" /\ r[j + 2] = "\r" /\ r[j + 2 + 1] = "\n"
      BY <2>1, <2>2 DEF Empty
    <2>4. j + 2 \in At(e, x)
      BY <1>9, <2>2, <2>3
    <2> QED BY <2>4
  <1>12. q \in At(e, x) /\ \A k \in At(e, x) : q <= k
    <2>1. Len(x) \in Nat /\ Len(e) \in Nat \ {0}
      BY <1>6, <1>8
    <2>2. q = PlaceOf(e, x)
      BY <1>3, <1>4, <1>7 DEF EndLine
    <2> QED BY <1>11, <2>1, <2>2, PlaceIs
  <1> HIDE DEF q
  <1>13. EndsAt(r, q)
    BY <1>9, <1>10, <1>12 DEF EndsAt
  <1> QED BY <1>13 DEF q

(* The first line of w ends at L, and r is what was read of w behind it.   *)
FirstLine(w, L) == 3 <= L /\ w[L] = "\n" /\ \A k \in 1..Len(w) : w[k] = "\n" => L <= k
Behind(r, w, L, g) == Len(r) = g - L /\ \A i \in 1..(g - L) : r[i] = w[L + i]

(* In a well-formed reply the line that holds "\r" alone is the first      *)
(* empty line.                                                             *)
LEMMA EndOfHead ==
  ASSUME NEW w \in Seq(STRING), WellFormed(w), NEW g \in Nat, g <= Len(w), NEW L \in Nat,
         FirstLine(w, L), NEW r \in Seq(STRING), Behind(r, w, L, g),
         Holds(r, CRLF \o CRLF), NEW q \in Nat, EndsAt(r, q)
  PROVE  /\ L + (q + 1) = PlaceOf(CRLF \o CRLF, w) + 3
         /\ PlaceOf(CRLF \o CRLF, w) \in 1..(Len(w) - 3)
         /\ Empty(w, PlaceOf(CRLF \o CRLF, w))
  <1> USE DEF FirstLine, Behind
  <1>1. /\ 1 <= q /\ L + q + 1 <= g
        /\ q = 1 \/ r[q - 1] = "\n"
        /\ r[q] = "\r" /\ r[q + 1] = "\n"
        /\ \A k \in 1..(g - L - 1) :
             (k = 1 \/ r[k - 1] = "\n") /\ r[k] = "\r" /\ r[k + 1] = "\n" => q <= k
    BY DEF EndsAt
  <1> DEFINE p == PlaceOf(CRLF \o CRLF, w)
  <1>2. p \in 1..(Len(w) - 3) /\ Empty(w, p) /\ p + 3 <= g
    <2>1. PICK j \in 1..(Len(r) - 3) : Empty(r, j)
      BY BlankIs
    <2>2. PICK n \in Nat : n = L + j /\ n + 3 <= g
      OBVIOUS
    <2>3. /\ j \in 1..(g - L) /\ j + 1 \in 1..(g - L)
          /\ j + 2 \in 1..(g - L) /\ j + 3 \in 1..(g - L)
          /\ L + (j + 1) = n + 1 /\ L + (j + 2) = n + 2 /\ L + (j + 3) = n + 3
      BY <2>2
    <2>4. r[j] = w[n] /\ r[j + 1] = w[n + 1] /\ r[j + 2] = w[n + 2] /\ r[j + 3] = w[n + 3]
      BY <2>2, <2>3
    <2>5. n \in 1..(Len(w) - 3) /\ Empty(w, n)
      <3>1. n \in 1..(Len(w) - 3)
        BY <2>2
      <3> QED BY <2>1, <2>4, <3>1 DEF Empty
    <2>6. Holds(w, CRLF \o CRLF)
      BY <2>5, BlankIs
    <2>7. p \in 1..(Len(w) - 3) /\ Empty(w, p) /\ p <= n
      BY <2>5, <2>6, BlankIs
    <2> HIDE DEF p
    <2> QED BY <2>2, <2>7
  <1>3. \A i \in 1..Len(w) : i <= p + 1 /\ w[i] = "\n" => w[i - 1] = "\r"
    BY DEF WellFormed
  <1> HIDE DEF p
  <1>4. p \in Nat /\ p + 1 \in 1..Len(w) /\ L <= p + 1
    <2>1. p \in Nat /\ p + 1 \in 1..Len(w)
      BY <1>2
    <2>2. w[p + 1] = "\n"
      BY <1>2 DEF Empty
    <2> QED BY <2>1, <2>2
  <1>5. PICK m : m = L + q - 2
    OBVIOUS
  <1>6. m \in Nat /\ m \in 1..(Len(w) - 3)
    BY <1>1, <1>5
  <1>7. m <= p
    <2> DEFINE k == p + 2 - L
    <2>1. k \in 1..(g - L - 1) /\ k \in 1..(g - L) /\ k + 1 \in 1..(g - L)
          /\ L + k = p + 2 /\ L + (k + 1) = p + 3
      BY <1>2, <1>4
    <2>2. r[k] = "\r" /\ r[k + 1] = "\n"
      <3>1. r[k] = w[L + k] /\ r[k + 1] = w[L + (k + 1)]
        BY <2>1
      <3> QED BY <1>2, <2>1, <3>1 DEF Empty
    <2>3. k = 1 \/ r[k - 1] = "\n"
      <3>1. ASSUME k # 1 PROVE k - 1 \in 1..(g - L) /\ L + (k - 1) = p + 1
        BY <1>4, <2>1, <3>1
      <3>2. ASSUME k # 1 PROVE r[k - 1] = w[p + 1]
        BY <3>1, <3>2
      <3> QED BY <1>2, <3>2 DEF Empty
    <2>4. q <= k
      BY <1>1, <2>1, <2>2, <2>3
    <2> QED BY <1>4, <1>5, <1>6, <2>4
  <1>8. Empty(w, m)
    <2>1. /\ m + 1 = L + q - 1 /\ m + 2 = L + q /\ m + 3 = L + (q + 1)
          /\ m + 1 \in 1..Len(w) /\ m + 1 - 1 = m
      BY <1>1, <1>5, <1>6
    <2>2. w[L + q] = "\r" /\ w[L + (q + 1)] = "\n"
      <3>1. q \in 1..(g - L) /\ q + 1 \in 1..(g - L)
        BY <1>1
      <3> QED BY <1>1, <3>1
    <2>3. w[L + q - 1] = "\n"
      <3>1. CASE q = 1
        <4>1. L + q - 1 = L
          BY <3>1
        <4> QED BY <4>1
      <3>2. CASE q # 1
        <4>1. q - 1 \in 1..(g - L) /\ L + (q - 1) = L + q - 1
          BY <1>1, <3>2
        <4> QED BY <1>1, <3>2, <4>1
      <3> QED BY <3>1, <3>2
    <2>4. w[m] = "\r"
      <3>1. w[m + 1] = "\n"
        BY <2>1, <2>3
      <3>2. PICK n \in 1..Len(w) : n = m + 1 /\ n - 1 = m /\ n <= p + 1
        BY <1>4, <1>6, <1>7, <2>1
      <3>3. w[n - 1] = "\r"
        BY <1>3, <3>1, <3>2
      <3> QED BY <3>2, <3>3
    <2> QED BY <2>1, <2>2, <2>3, <2>4 DEF Empty
  <1>9. p <= m
    <2>1. Holds(w, CRLF \o CRLF)
      BY <1>6, <1>8, BlankIs
    <2> QED BY <1>6, <1>8, <2>1, BlankIs DEF p
  <1>10. L + (q + 1) = p + 3
    <2>1. m = p
      BY <1>4, <1>6, <1>7, <1>9
    <2> QED BY <1>5, <1>6, <2>1
  <1> QED BY <1>2, <1>10 DEF p

(* The lines of the headers that name a type, all places before p that do, *)
(* and the type the last of them names.                                    *)
HeaderTypes(r, q) ==
  {i \in 1..(q + 1) : (i = 1 \/ r[i - 1] = "\n") /\ r[i] \in DOMAIN MimeType}
TypesTo(w, p) == {i \in 1..p : i <= Len(w) /\ w[i] \in DOMAIN MimeType}
LastOf(T) == CHOOSE i \in T : \A k \in T : k <= i
LastIn(s, T) == IF T = {} THEN <<>> ELSE TypeIn(s[LastOf(T)])

(* The headers behind L end with the line at q, the empty line p of w.     *)
HeadEnds(w, g, L, p, q) ==
  /\ p = PlaceOf(CRLF \o CRLF, w)
  /\ p \in 1..(Len(w) - 3) /\ Empty(w, p) /\ p + 3 <= g
  /\ L + (q + 1) = p + 3 /\ L <= p + 1

(* Two sequences with the same last header name the same type.             *)
LEMMA SameLast ==
  ASSUME NEW s, NEW T, NEW r, NEW U, U = {} <=> T = {},
         T # {} => s[LastOf(T)] = r[LastOf(U)]
  PROVE  LastIn(s, T) = LastIn(r, U)
  BY DEF LastIn

(* The type the handler takes from the head of r.                          *)
LastTypeIn(r) == LastIn(r, TypesIn(r))

(* LastTypeIn is LastIn of the places before the first empty line.         *)
LEMMA LastTypeIs ==
  ASSUME NEW w
  PROVE  LastTypeIn(w) = LastIn(w, TypesTo(w, PlaceOf(CRLF \o CRLF, w)))
  BY DEF LastTypeIn, TypesIn, TypesTo

(* The header lines with a type are those of the whole head.               *)
LEMMA TypesOfHead ==
  ASSUME NEW w \in Seq(STRING), WellFormed(w), NEW g \in Nat, g <= Len(w), NEW L \in Nat,
         FirstLine(w, L), NEW r, Behind(r, w, L, g),
         NEW p \in Nat, NEW q \in Nat, HeadEnds(w, g, L, p, q)
  PROVE  LastIn(w, TypesTo(w, p)) = LastIn(r, HeaderTypes(r, q))
  <1>1. \A j \in 1..Len(w) : j <= p + 1 /\ w[j] \in DOMAIN MimeType => j > 1 /\ w[j - 1] = "\n"
    BY DEF WellFormed, HeadEnds
  <1>2. /\ p \in 1..(Len(w) - 3) /\ Empty(w, p) /\ p + 3 <= g
        /\ L + (q + 1) = p + 3 /\ L <= p + 1
    BY DEF HeadEnds
  <1> USE <1>2 DEF FirstLine, Behind
  <1> DEFINE types == {i \in 1..(q + 1) : /\ i = 1 \/ r[i - 1] = "\n"
                                         /\ r[i] \in DOMAIN MimeType}
             T == {i \in 1..p : i <= Len(w) /\ w[i] \in DOMAIN MimeType}
  <1>10. ASSUME NEW i \in types PROVE L + i \in T /\ w[L + i] = r[i]
    <2>1. i \in 1..(q + 1) /\ r[i] \in DOMAIN MimeType
      OBVIOUS
    <2>2. i \in 1..(g - L) /\ L + i \in Nat /\ L + i <= p + 3 /\ L + i >= 1 /\ L + i <= Len(w)
      BY <2>1
    <2>3. w[L + i] = r[i]
      BY <2>2
    <2>4. w[L + i] \notin {"\r", "\n"}
      BY <2>1, <2>3, ProxyAssumption
    <2>5. L + i # p /\ L + i # p + 1 /\ L + i # p + 2 /\ L + i # p + 3
      BY <2>4 DEF Empty
    <2>6. L + i \in 1..p
      BY <2>2, <2>5
    <2> QED BY <2>1, <2>2, <2>3, <2>6
  <1>11. ASSUME NEW j \in T PROVE j - L \in types /\ L + (j - L) = j
    <2>1. j \in Nat /\ j \in 1..Len(w) /\ j <= p /\ w[j] \in DOMAIN MimeType
      OBVIOUS
    <2>2. j > 1 /\ w[j - 1] = "\n"
      BY <1>1, <2>1
    <2>3. j - 1 \in 1..Len(w)
      BY <2>1, <2>2
    <2>4. L <= j - 1
      BY <2>2, <2>3
    <2>5. /\ j - L \in 1..(q + 1) /\ j - L \in 1..(g - L) /\ L + (j - L) = j
      BY <2>1, <2>4
    <2>6. r[j - L] \in DOMAIN MimeType
      BY <2>1, <2>5
    <2>7. j - L = 1 \/ r[j - L - 1] = "\n"
      <3>1. ASSUME j - L # 1 PROVE j - L - 1 \in 1..(g - L) /\ L + (j - L - 1) = j - 1
        BY <2>1, <2>5, <3>1
      <3>2. ASSUME j - L # 1 PROVE r[j - L - 1] = w[j - 1]
        BY <3>1, <3>2
      <3> QED BY <2>2, <3>2
    <2> QED BY <2>5, <2>6, <2>7
  <1>13. types = {} <=> T = {}
    BY <1>10, <1>11
  <1>14. ASSUME T # {}
         PROVE  LastOf(T) = L + LastOf(types) /\ LastOf(types) \in types
    <2>1. types \in SUBSET (1..(q + 1)) /\ q + 1 \in Nat /\ types # {} /\ T \subseteq Nat
      <3>1. T \subseteq Nat
        OBVIOUS
      <3>2. types \in SUBSET (1..(q + 1))
        OBVIOUS
      <3>3. types # {}
        BY <1>13, <1>14
      <3> HIDE DEF T, types
      <3> QED BY <3>1, <3>2, <3>3
    <2> HIDE DEF T, types
    <2>2. PICK b : b = LastOf(types)
      OBVIOUS
    <2>3. b \in types /\ \A k \in types : k <= b
      <3>1. \E i \in types : \A k \in types : k <= i
        BY <2>1, LastIndex
      <3> QED BY <2>2, <3>1, Zenon DEF LastOf
    <2>4. L + b \in T
      BY <1>10, <2>3
    <2>5. \A k \in T : k <= L + b
      <3> TAKE k \in T
      <3>1. k - L <= b /\ L + (k - L) = k
        BY <1>11, <2>3
      <3>2. b \in Nat /\ k \in Nat
        BY <2>1, <2>3
      <3> QED BY <3>1, <3>2
    <2>6. \A i \in T : (\A k \in T : k <= i) => i = L + b
      <3>1. L + b \in Nat
        BY <2>1, <2>4
      <3> QED BY <2>1, <2>4, <2>5, <3>1
    <2>7. LastOf(T) = L + b
      BY <2>4, <2>5, <2>6 DEF LastOf
    <2> QED BY <2>2, <2>3, <2>7
  <1>15. T # {} => w[LastOf(T)] = r[LastOf(types)]
    <2> HIDE DEF T, types
    <2> QED BY <1>10, <1>14
  <1>16. TypesTo(w, p) = T /\ HeaderTypes(r, q) = types
    BY Zenon DEF TypesTo, HeaderTypes
  <1> HIDE DEF T, types
  <1>17. LastIn(w, T) = LastIn(r, types)
    BY <1>13, <1>15, SameLast
  <1> QED BY <1>16, <1>17

(* So wherever the read that brought the headers ended, the headers end    *)
(* with the first empty line, and the last type is that of the whole head. *)
LEMMA HeadersRead ==
  ASSUME NEW w \in Seq(STRING), WellFormed(w), NEW g \in Nat, g <= Len(w), NEW L \in Nat,
         FirstLine(w, L), NEW r \in Seq(STRING), Behind(r, w, L, g), Holds(r, CRLF \o CRLF)
  PROVE  /\ L + (EndLine(r) + 1) = PlaceOf(CRLF \o CRLF, w) + 3
         /\ LastTypeIn(w) = LastIn(r, HeaderTypes(r, EndLine(r)))
  <1>1. PICK q : q = EndLine(r)
    OBVIOUS
  <1>2. EndsAt(r, q)
    BY <1>1, EndIs
  <1>3. q \in Nat /\ L + q + 1 <= g /\ 1 <= q
    BY <1>2 DEF EndsAt, Behind
  <1>4. PICK p : p = PlaceOf(CRLF \o CRLF, w)
    OBVIOUS
  <1>5. L + (q + 1) = p + 3 /\ p \in 1..(Len(w) - 3) /\ Empty(w, p)
    BY <1>2, <1>3, <1>4, EndOfHead, Zenon
  <1>6. p \in Nat /\ p + 3 <= g /\ L <= p + 1
    BY <1>3, <1>5
  <1>7. LastIn(w, TypesTo(w, p)) = LastIn(r, HeaderTypes(r, q))
    <2>1. HeadEnds(w, g, L, p, q)
      BY <1>4, <1>5, <1>6, Zenon DEF HeadEnds
    <2> QED BY <1>3, <1>6, <2>1, TypesOfHead
  <1>8. LastTypeIn(w) = LastIn(w, TypesTo(w, p))
    BY <1>4, LastTypeIs, Zenon
  <1> QED BY <1>1, <1>4, <1>5, <1>7, <1>8, Zenon

-----------------------------------------------------------------------------
(* The inductive invariant.                                                *)

(* The URI names a host of the block.                                      *)
Named == Len(uri) > 1 /\ FirstSegment(uri) \in DOMAIN LocationToProxy(block)

(* What the handler asks for is what its block and the URI say.            *)
Asks ==
  /\ pc # "construct" => proxies = LocationToProxy(block) /\ port_num \in PortNums(block)
  /\ pc \in {"construct", "lookup", "undefined"} => asked.host = None
  /\ pc = "undefined" => ~Named
  /\ pc \notin {"construct", "lookup", "undefined"} =>
       /\ Named
       /\ asked = [host |-> proxies[FirstSegment(uri)], port |-> port_num,
                   path |-> PathOf(uri)]

(* The buffer is what was read of the reply and not consumed: behind c.    *)
Rest(c) == response = SubSeq(wanted, c + 1, got)

NotReadYet ==
  /\ pc \in {"construct", "lookup", "connect"} => line = "none"
  /\ pc \in {"construct", "lookup", "connect", "write", "status"} =>
       Rest(0) /\ mime_type = <<>>

StatusKnown == HasStatus(wanted) => status_code = StatusCode[wanted[2]]

(* The first line has been consumed, and nothing behind it.                *)
InHeaders ==
  pc = "headers" =>
    /\ mime_type = <<>> /\ StatusKnown
    /\ \E c \in 0..got : Rest(c) /\ (HasStatus(wanted) => FirstLine(wanted, c) /\ stream)

(* The head has been consumed, and nothing behind it.                      *)
InBody ==
  pc = "body" =>
    /\ Holds(SubSeq(wanted, 1, got), CRLF \o CRLF) /\ StatusKnown
    /\ \E c \in 0..got :
         /\ Rest(c)
         /\ HasStatus(wanted) /\ WellFormed(wanted) =>
              /\ c = PlaceOf(CRLF \o CRLF, wanted) + 3
              /\ mime_type = LastTypeIn(wanted)

(* The response is made of the whole reply.                                *)
Returned ==
  pc = "returned" =>
    /\ line = "closed" /\ got = sent /\ Holds(SubSeq(wanted, 1, got), CRLF \o CRLF)
    /\ HasStatus(wanted) => (redirect <=> StatusCode[wanted[2]] \in {301, 302})
    /\ HasStatus(wanted) /\ WellFormed(wanted) =>
         /\ mime_type = LastTypeIn(wanted)
         /\ body = IF redirect THEN <<"request">>
                   ELSE SubSeq(wanted, PlaceOf(CRLF \o CRLF, wanted) + 4, got)

(* The head of r does not end.                                             *)
Headless(r) ==
  ~\E i \in 4..(Len(r) - 3) :
     (\E k \in 1..i : r[k] = "\n") /\ SubSeq(r, i, i + 3) = CRLF \o CRLF

Thrown ==
  pc = "thrown" => line \in {"none", "reset"} \/ (HasStatus(Arrived) => Headless(Arrived))

Inputs == block \in Blocks /\ uri \in Uris /\ wanted \in Replies

IInv ==
  /\ TypeOK /\ Inputs /\ Asks /\ NotReadYet
  /\ InHeaders /\ InBody /\ Returned /\ Thrown

(* What is read is added to the buffer, what is consumed leaves it.        *)
LEMMA RestGrows ==
  ASSUME NEW w \in Seq(STRING), NEW g \in Nat, NEW n \in Nat, g + n <= Len(w), NEW c \in 0..g
  PROVE  SubSeq(w, c + 1, g) \o SubSeq(w, g + 1, g + n) = SubSeq(w, c + 1, g + n)
  <1>1. c + 1 \in 1..Len(w) + 1 /\ g \in (c + 1) - 1 .. Len(w) /\ g + n \in g..Len(w)
    OBVIOUS
  <1> QED BY <1>1, ConcatAdjacentSubSeq

(* Consuming the first m symbols of the buffer moves its place in the      *)
(* reply by m.                                                             *)
LEMMA RestShrinks ==
  ASSUME NEW w \in Seq(STRING), NEW g \in 0..Len(w), NEW c \in 0..g,
         NEW r, r = SubSeq(w, c + 1, g), NEW m \in Nat, m <= Len(r)
  PROVE  c + m \in 0..g /\ SubSeq(r, m + 1, Len(r)) = SubSeq(w, c + m + 1, g)
  <1>1. Len(r) = g - c
    BY ReadPart
  <1>2. /\ c + 1 \in Nat /\ g \in Nat /\ m + 1 \in Nat /\ g - c \in Nat
        /\ 1 <= c + 1 /\ c + 1 <= g + 1 /\ g <= Len(w) /\ 1 <= m + 1
        /\ m + 1 <= (g - c) + 1 /\ g - c <= g + 1 - (c + 1)
        /\ c + 1 + (m + 1) - 1 = c + m + 1 /\ c + 1 + (g - c) - 1 = g
    BY <1>1
  <1>3. SubSeq(SubSeq(w, c + 1, g), m + 1, g - c) =
          SubSeq(w, c + 1 + (m + 1) - 1, c + 1 + (g - c) - 1)
    BY <1>2, SubSeqTwice
  <1> QED BY <1>1, <1>2, <1>3

(* An empty line in the buffer is one in what was read.                    *)
LEMMA HeldBehind ==
  ASSUME NEW w \in Seq(STRING), NEW g \in 0..Len(w), NEW c \in 0..g,
         Holds(SubSeq(w, c + 1, g), CRLF \o CRLF)
  PROVE  Holds(SubSeq(w, 1, g), CRLF \o CRLF)
  <1>1. PICK r \in Seq(STRING) : /\ r = SubSeq(w, c + 1, g) /\ Len(r) = g - c
                                 /\ \A i \in 1..(g - c) : r[i] = w[c + i]
    BY ReadPart
  <1>2. PICK a \in Seq(STRING) : /\ a = SubSeq(w, 1, g) /\ Len(a) = g
                                 /\ \A i \in 1..g : a[i] = w[i]
    BY PartRead
  <1>3. PICK j \in 1..(Len(r) - 3) : Empty(r, j)
    BY <1>1, BlankIs
  <1>4. PICK n \in Nat : n = c + j /\ n \in 1..(g - 3)
    BY <1>1
  <1>5. Empty(a, n)
    <2>1. /\ j \in 1..(g - c) /\ j + 1 \in 1..(g - c)
          /\ j + 2 \in 1..(g - c) /\ j + 3 \in 1..(g - c)
          /\ c + (j + 1) = n + 1 /\ c + (j + 2) = n + 2 /\ c + (j + 3) = n + 3
          /\ n \in 1..g /\ n + 1 \in 1..g /\ n + 2 \in 1..g /\ n + 3 \in 1..g
      BY <1>1, <1>4
    <2>2. /\ r[j] = a[n] /\ r[j + 1] = a[n + 1]
          /\ r[j + 2] = a[n + 2] /\ r[j + 3] = a[n + 3]
      BY <1>1, <1>2, <1>4, <2>1
    <2> QED BY <1>3, <2>2 DEF Empty
  <1>6. Holds(a, CRLF \o CRLF)
    BY <1>2, <1>4, <1>5, BlankIs
  <1> QED BY <1>2, <1>6

(* It stays there when more is read.                                       *)
LEMMA HeldLater ==
  ASSUME NEW w \in Seq(STRING), NEW g \in 0..Len(w), NEW h \in g..Len(w),
         Holds(SubSeq(w, 1, g), CRLF \o CRLF)
  PROVE  Holds(SubSeq(w, 1, h), CRLF \o CRLF)
  <1>1. PICK a \in Seq(STRING) : /\ a = SubSeq(w, 1, g) /\ Len(a) = g
                                 /\ \A i \in 1..g : a[i] = w[i]
    BY PartRead
  <1>2. PICK b \in Seq(STRING) : /\ b = SubSeq(w, 1, h) /\ Len(b) = h
                                 /\ \A i \in 1..h : b[i] = w[i]
    <2>1. h \in 0..Len(w)
      OBVIOUS
    <2> QED BY <2>1, PartRead
  <1>3. PICK j \in 1..(Len(a) - 3) : Empty(a, j)
    BY <1>1, BlankIs
  <1>4. j \in 1..(h - 3) /\ Empty(b, j)
    BY <1>1, <1>2, <1>3 DEF Empty
  <1>5. Holds(b, CRLF \o CRLF)
    BY <1>2, <1>4, BlankIs
  <1> QED BY <1>2, <1>5

(* Headless says that no empty line follows a line feed.                   *)
LEMMA HeadlessIs ==
  ASSUME NEW r \in Seq(STRING),
         \A i \in 4..(Len(r) - 3) : \A k \in 1..i : ~(r[k] = "\n" /\ Empty(r, i))
  PROVE  Headless(r)
  <1>1. PICK e : e = CRLF \o CRLF
    OBVIOUS
  <1>2. /\ Len(e) = 4
        /\ At(e, r) = {i \in 1..(Len(r) - 3) : Empty(r, i)}
    BY <1>1, BlankPlaces DEF Empty
  <1>3. ASSUME NEW i \in 4..(Len(r) - 3), SubSeq(r, i, i + 3) = e PROVE Empty(r, i)
    <2>1. i + Len(e) - 1 = i + 3 /\ i \in 1..(Len(r) + 1 - Len(e))
      BY <1>2
    <2>2. i \in At(e, r)
      BY <1>3, <2>1 DEF At
    <2> QED BY <1>2, <2>2
  <1> QED BY <1>1, <1>3 DEF Headless

(* A read that never saw the end of the first line, or of the headers, has *)
(* read a reply whose head does not end.                                   *)
LEMMA NoLineNoHead ==
  ASSUME NEW w \in Seq(STRING), NEW g \in 0..Len(w), ~Holds(SubSeq(w, 1, g), CRLF)
  PROVE  Headless(SubSeq(w, 1, g))
  <1>1. PICK a \in Seq(STRING) : a = SubSeq(w, 1, g)
    BY PartRead
  <1>2. Len(CRLF) = 2 /\ At(CRLF, a) =
          {i \in 1..(Len(a) - 1) : a[i] = "\r" /\ a[i + 1] = "\n"}
    BY PairPlaces
  <1>3. At(CRLF, a) = {}
    <2>1. Len(a) \in Nat /\ Len(CRLF) \in Nat \ {0}
      BY <1>2
    <2> QED BY <1>1, <2>1, PlaceIs
  <1>4. ASSUME NEW i \in 4..(Len(a) - 3), Empty(a, i) PROVE FALSE
    <2>1. i \in 1..(Len(a) - 1)
      OBVIOUS
    <2> QED BY <1>2, <1>3, <1>4, <2>1 DEF Empty
  <1>5. Headless(a)
    BY <1>4, HeadlessIs
  <1> QED BY <1>1, <1>5

(* Nor does the head of a reply of which no empty line was read behind its *)
(* first line.                                                             *)
LEMMA NoBlankNoHead ==
  ASSUME NEW w \in Seq(STRING), NEW g \in 0..Len(w), NEW c \in 0..g, FirstLine(w, c),
         ~Holds(SubSeq(w, c + 1, g), CRLF \o CRLF)
  PROVE  Headless(SubSeq(w, 1, g))
  <1>1. PICK r \in Seq(STRING) : /\ r = SubSeq(w, c + 1, g) /\ Len(r) = g - c
                                 /\ \A i \in 1..(g - c) : r[i] = w[c + i]
    BY ReadPart
  <1>2. PICK a \in Seq(STRING) : /\ a = SubSeq(w, 1, g) /\ Len(a) = g
                                 /\ \A i \in 1..g : a[i] = w[i]
    BY PartRead
  <1>3. ASSUME NEW i \in 4..(Len(a) - 3), NEW k \in 1..i, a[k] = "\n", Empty(a, i) PROVE FALSE
    <2>1. i \in 1..g /\ k \in 1..g /\ w[k] = "\n" /\ w[i] = "\r"
      <3>1. i \in 1..g /\ k \in 1..g
        BY <1>2
      <3> QED BY <1>2, <1>3, <3>1 DEF Empty
    <2>2. w[c] = "\n" /\ c <= k
      BY <2>1 DEF FirstLine
    <2>3. c < i
      BY <2>1, <2>2
    <2>4. PICK j \in Nat : j = i - c /\ j \in 1..(Len(r) - 3)
      BY <1>1, <1>2, <2>3
    <2>5. /\ j \in 1..(g - c) /\ j + 1 \in 1..(g - c)
          /\ j + 2 \in 1..(g - c) /\ j + 3 \in 1..(g - c)
          /\ c + j = i /\ c + (j + 1) = i + 1 /\ c + (j + 2) = i + 2 /\ c + (j + 3) = i + 3
          /\ i + 1 \in 1..g /\ i + 2 \in 1..g /\ i + 3 \in 1..g
      BY <1>1, <1>2, <2>4
    <2>6. /\ r[j] = a[i] /\ r[j + 1] = a[i + 1]
          /\ r[j + 2] = a[i + 2] /\ r[j + 3] = a[i + 3]
      BY <1>1, <1>2, <2>1, <2>5
    <2>7. Empty(r, j)
      BY <1>3, <2>6 DEF Empty
    <2> QED BY <1>1, <2>4, <2>7, BlankIs
  <1>4. Headless(a)
    BY <1>3, HeadlessIs
  <1> QED BY <1>2, <1>4

(* What arrived of a reply has the status, the type and the body of all    *)
(* that was wanted, cut where it ended.                                    *)
LEMMA StatusOfPart ==
  ASSUME NEW w \in Seq(STRING), NEW g \in 0..Len(w), HasStatus(SubSeq(w, 1, g))
  PROVE  HasStatus(w) /\ SubSeq(w, 1, g)[2] = w[2]
  <1>1. PICK a \in Seq(STRING) : /\ a = SubSeq(w, 1, g) /\ Len(a) = g
                                 /\ \A i \in 1..g : a[i] = w[i]
    BY PartRead
  <1>2. Len(a) > 1 /\ a[1] \notin Blank /\ a[2] \in DOMAIN StatusCode
    BY <1>1 DEF HasStatus
  <1>3. 1 \in 1..g /\ 2 \in 1..g /\ Len(w) > 1
    BY <1>1, <1>2
  <1> QED BY <1>1, <1>2, <1>3 DEF HasStatus

(* The type named by the head is the same once the head has arrived.       *)
LEMMA TypeOfPart ==
  ASSUME NEW w \in Seq(STRING), NEW g \in 0..Len(w), Holds(SubSeq(w, 1, g), CRLF \o CRLF)
  PROVE  LastTypeIn(SubSeq(w, 1, g)) = LastTypeIn(w)
  <1>1. PICK a \in Seq(STRING) : /\ a = SubSeq(w, 1, g) /\ Len(a) = g
                                 /\ \A i \in 1..g : a[i] = w[i]
    BY PartRead
  <1>2. PICK p : p = PlaceOf(CRLF \o CRLF, w)
    OBVIOUS
  <1>3. p = PlaceOf(CRLF \o CRLF, a) /\ p \in 1..(g - 3)
    BY <1>1, <1>2, PlaceKept
  <1>4. TypesTo(a, p) = TypesTo(w, p) /\ TypesTo(w, p) \subseteq 1..g
    BY <1>1, <1>3 DEF TypesTo
  <1>5. PICK T : T = TypesTo(w, p)
    OBVIOUS
  <1>6. T # {} => a[LastOf(T)] = w[LastOf(T)]
    <2> SUFFICES ASSUME T # {} PROVE LastOf(T) \in T
      BY <1>1, <1>4, <1>5
    <2>1. T \in SUBSET (1..g) /\ g \in Nat
      BY <1>4, <1>5
    <2>2. \E i \in T : \A k \in T : k <= i
      BY <2>1, LastIndex
    <2> QED BY <2>2, Zenon DEF LastOf
  <1>7. LastIn(a, T) = LastIn(w, T)
    BY <1>6, SameLast
  <1>8. LastTypeIn(a) = LastIn(a, TypesTo(a, p))
    BY <1>3, LastTypeIs, Zenon
  <1>9. LastTypeIn(w) = LastIn(w, TypesTo(w, p))
    BY <1>2, LastTypeIs, Zenon
  <1> QED BY <1>1, <1>4, <1>5, <1>7, <1>8, <1>9, Zenon

(* The body is what arrived behind the first empty line.                   *)
LEMMA BodyOfPart ==
  ASSUME NEW w \in Seq(STRING), NEW g \in 0..Len(w), Holds(SubSeq(w, 1, g), CRLF \o CRLF)
  PROVE  AfterBlankLine(SubSeq(w, 1, g)) = SubSeq(w, PlaceOf(CRLF \o CRLF, w) + 4, g)
  <1>1. Len(SubSeq(w, 1, g)) = g
    BY PartRead
  <1>2. PICK p : p = PlaceOf(CRLF \o CRLF, w)
    OBVIOUS
  <1>3. p = PlaceOf(CRLF \o CRLF, SubSeq(w, 1, g)) /\ p \in 1..(g - 3)
    BY <1>2, PlaceKept
  <1>4. AfterBlankLine(SubSeq(w, 1, g)) = SubSeq(SubSeq(w, 1, g), p + 4, g)
    BY <1>1, <1>3, Zenon DEF AfterBlankLine
  <1>5. /\ 1 \in Nat /\ g \in Nat /\ p + 4 \in Nat /\ 1 <= 1 /\ 1 <= g + 1 /\ g <= Len(w)
        /\ 1 <= p + 4 /\ p + 4 <= g + 1 /\ g <= g + 1 - 1
        /\ 1 + (p + 4) - 1 = p + 4 /\ 1 + g - 1 = g
    BY <1>3
  <1>6. SubSeq(SubSeq(w, 1, g), p + 4, g) = SubSeq(w, 1 + (p + 4) - 1, 1 + g - 1)
    BY <1>5, SubSeqTwice
  <1> QED BY <1>2, <1>4, <1>5, <1>6

-----------------------------------------------------------------------------
(* Every step keeps the invariant.                                         *)

(* The reply is a sequence, and what is in the buffer came from the host.  *)
LEMMA Basics ==
  ASSUME TypeOK, Inputs
  PROVE  /\ wanted \in Seq(STRING) /\ uri \in Seq(STRING)
         /\ got \in Nat /\ sent \in Nat /\ Len(wanted) \in Nat
         /\ got <= sent /\ sent <= Len(wanted) /\ got \in 0..Len(wanted)
  BY ProxyAssumption DEF TypeOK, Inputs

(* Every symbol in the buffer is one of those read.                        *)
LEMMA FromTheHost ==
  ASSUME NEW w \in Seq(STRING), NEW g \in 0..Len(w), NEW c \in 0..g,
         NEW i \in DOMAIN SubSeq(w, c + 1, g)
  PROVE  \E k \in 1..g : SubSeq(w, c + 1, g)[i] = w[k]
  <1>1. PICK r \in Seq(STRING) : /\ r = SubSeq(w, c + 1, g) /\ Len(r) = g - c
                                 /\ \A j \in 1..(g - c) : r[j] = w[c + j]
    BY ReadPart
  <1>2. i \in 1..(g - c)
    BY <1>1
  <1>3. c + i \in 1..g /\ r[i] = w[c + i]
    BY <1>1, <1>2
  <1> QED BY <1>1, <1>3

(* The handler starts with an empty buffer and nothing asked.              *)
LEMMA InitIInv == Init => IInv
  <1> SUFFICES ASSUME Init PROVE IInv
    OBVIOUS
  <1> USE DEF Init
  <1>1. Inputs
    BY DEF Inputs
  <1>2. TypeOK
    <2>1. wanted \in Seq(STRING) /\ Len(wanted) \in Nat
      BY ProxyAssumption
    <2>2. \A i \in DOMAIN response : \E k \in 1..got : response[i] = wanted[k]
      OBVIOUS
    <2>3. got \in 0..sent /\ sent \in 0..Len(wanted) /\ status_code \in Nat
      BY <2>1
    <2>4. pc \in PCs /\ line \in {"none", "open", "closed", "reset"}
      BY Zenon DEF PCs
    <2>5. stream \in BOOLEAN /\ redirect \in BOOLEAN
      BY Zenon
    <2> QED BY <2>2, <2>3, <2>4, <2>5, Zenon DEF TypeOK
  <1>3. Asks
    <2>1. asked.host = None
      BY Zenon
    <2> QED BY <2>1 DEF Asks
  <1>4. Rest(0)
    <2>1. wanted \in Seq(STRING)
      BY ProxyAssumption
    <2> QED BY <2>1 DEF Rest
  <1>5. NotReadYet
    BY <1>4 DEF NotReadYet
  <1> QED BY <1>1, <1>2, <1>3, <1>5 DEF IInv, InHeaders, InBody, Returned, Thrown

(* The host only moves while the handler waits for it.                     *)
LEMMA HostStep == IInv /\ (Send \/ Close \/ Reset) => IInv'
  <1> SUFFICES ASSUME IInv, Send \/ Close \/ Reset PROVE IInv'
    OBVIOUS
  <1>1. /\ UNCHANGED <<block, uri, proxies, port_num, asked, wanted, got, response,
                       stream, status_code, mime_type, redirect, pc, body>>
        /\ pc \notin {"returned", "thrown", "undefined"} /\ line # "none"
    BY DEF Send, Close, Reset, Over, environment, members
  <1>2. TypeOK'
    BY <1>1, Basics DEF IInv, TypeOK, Send, Close, Reset
  <1>3. Inputs' /\ Asks'
    BY <1>1 DEF IInv, Inputs, Asks, Named
  <1>4. NotReadYet'
    BY <1>1 DEF IInv, NotReadYet, Rest
  <1>5. InHeaders'
    BY <1>1 DEF IInv, InHeaders, StatusKnown, Rest
  <1>6. InBody'
    BY <1>1 DEF IInv, InBody, StatusKnown, Rest
  <1>7. Returned' /\ Thrown'
    BY <1>1 DEF Returned, Thrown
  <1> QED BY <1>2, <1>3, <1>4, <1>5, <1>6, <1>7 DEF IInv

(* The constructor.                                                        *)
LEMMA ConstructStep == IInv /\ Construct => IInv'
  <1> SUFFICES ASSUME IInv, Construct PROVE IInv'
    OBVIOUS
  <1>1. /\ UNCHANGED <<block, uri, asked, wanted, sent, line, got, response,
                       stream, status_code, mime_type, redirect, body>>
        /\ pc = "construct" /\ pc' = "lookup"
        /\ proxies' = LocationToProxy(block) /\ port_num' \in PortNums(block)
    BY DEF Construct, members
  <1>2. TypeOK' /\ Inputs'
    BY <1>1 DEF IInv, TypeOK, Inputs, PCs
  <1>3. Asks'
    BY <1>1 DEF IInv, Asks
  <1>4. NotReadYet'
    BY <1>1 DEF IInv, NotReadYet, Rest
  <1> QED BY <1>1, <1>2, <1>3, <1>4 DEF IInv, InHeaders, InBody, Returned, Thrown

(* The host is looked up.                                                  *)
LEMMA LookupStep == IInv /\ Lookup => IInv'
  <1> SUFFICES ASSUME IInv, Lookup PROVE IInv'
    OBVIOUS
  <1>1. /\ UNCHANGED <<block, uri, proxies, port_num, wanted, sent, line, got, response,
                       stream, status_code, mime_type, redirect, body>>
        /\ pc = "lookup" /\ pc' \in {"connect", "undefined"}
    BY DEF Lookup, members
  <1>2. TypeOK' /\ Inputs'
    BY <1>1 DEF IInv, TypeOK, Inputs, PCs
  <1>3. /\ proxies = LocationToProxy(block) /\ port_num \in PortNums(block)
        /\ asked.host = None
    BY <1>1 DEF IInv, Asks
  <1>4. /\ pc' = "connect" => /\ Named
                              /\ asked' = [host |-> proxies[FirstSegment(uri)],
                                           port |-> port_num, path |-> PathOf(uri)]
        /\ pc' = "undefined" => ~Named /\ asked' = asked
    BY <1>3 DEF Lookup, Named
  <1>5. Asks'
    BY <1>1, <1>3, <1>4 DEF Asks, Named
  <1>6. NotReadYet'
    BY <1>1 DEF IInv, NotReadYet, Rest
  <1> QED BY <1>1, <1>2, <1>5, <1>6 DEF IInv, InHeaders, InBody, Returned, Thrown

(* The connection comes up and the request is written.                     *)
LEMMA ConnectStep == IInv /\ (Connect \/ Write) => IInv'
  <1> SUFFICES ASSUME IInv, Connect \/ Write PROVE IInv'
    OBVIOUS
  <1>1. /\ UNCHANGED <<block, uri, proxies, port_num, asked, wanted, sent, got, response,
                       stream, status_code, mime_type, redirect, body>>
        /\ pc \in {"connect", "write"} /\ pc' \in {"write", "status"}
        /\ line' \in {"open", line}
    BY DEF Connect, Write, members, environment
  <1>2. TypeOK' /\ Inputs'
    BY <1>1 DEF IInv, TypeOK, Inputs, PCs
  <1>3. Asks'
    BY <1>1 DEF IInv, Asks, Named
  <1>4. NotReadYet'
    BY <1>1 DEF IInv, NotReadYet, Rest
  <1> QED BY <1>1, <1>2, <1>3, <1>4 DEF IInv, InHeaders, InBody, Returned, Thrown

(* An exception leaves the handler: the connection failed, or it ended     *)
(* before the headers did.                                                 *)
LEMMA ThrowStep == IInv /\ (ConnectFails \/ WriteFails \/ ReadFails) => IInv'
  <1> SUFFICES ASSUME IInv, ConnectFails \/ WriteFails \/ ReadFails PROVE IInv'
    OBVIOUS
  <1>1. /\ UNCHANGED <<block, uri, proxies, port_num, asked, wanted, sent, line, got,
                       response, stream, status_code, mime_type, redirect, body>>
        /\ pc \in {"connect", "write", "status", "headers", "body"} /\ pc' = "thrown"
    BY DEF ConnectFails, WriteFails, ReadFails, Reading, Throw, members, environment
  <1>2. TypeOK' /\ Inputs'
    BY <1>1 DEF IInv, TypeOK, Inputs, PCs
  <1>3. Asks'
    BY <1>1 DEF IInv, Asks, Named
  <1>4. line \in {"none", "reset"} \/ (HasStatus(Arrived) => Headless(Arrived))
    <2>1. CASE ConnectFails \/ WriteFails
      BY <2>1 DEF ConnectFails, WriteFails, IInv, NotReadYet
    <2>2. CASE ReadFails /\ line # "reset"
      <3>1. /\ got = sent
            /\ \/ pc = "status" /\ ~Holds(response, CRLF)
               \/ pc = "headers" /\ ~Holds(response, CRLF \o CRLF)
        BY <2>2 DEF ReadFails, Reading
      <3>2. wanted \in Seq(STRING) /\ got \in 0..Len(wanted) /\ got \in Nat
        BY Basics DEF IInv
      <3>3. Arrived = SubSeq(wanted, 1, got)
        BY <3>1 DEF Arrived
      <3>4. CASE pc = "status"
        <4>1. response = SubSeq(wanted, 1, got)
          BY <3>4 DEF IInv, NotReadYet, Rest
        <4>2. Headless(SubSeq(wanted, 1, got))
          BY <3>1, <3>2, <3>4, <4>1, NoLineNoHead
        <4> QED BY <3>3, <4>2
      <3>5. CASE pc = "headers"
        <4> SUFFICES ASSUME HasStatus(Arrived) PROVE Headless(Arrived)
          OBVIOUS
        <4>1. HasStatus(wanted)
          BY <3>2, <3>3, StatusOfPart
        <4>2. PICK c \in 0..got : response = SubSeq(wanted, c + 1, got) /\ FirstLine(wanted, c)
          BY <3>5, <4>1 DEF IInv, InHeaders, Rest
        <4>3. ~Holds(SubSeq(wanted, c + 1, got), CRLF \o CRLF)
          BY <3>1, <3>5, <4>2
        <4>4. Headless(SubSeq(wanted, 1, got))
          BY <3>2, <4>2, <4>3, NoBlankNoHead
        <4> QED BY <3>3, <4>4
      <3> QED BY <3>1, <3>4, <3>5
    <2>3. CASE ReadFails /\ line = "reset"
      BY <2>3
    <2> QED BY <2>1, <2>2, <2>3
  <1>5. Thrown'
    <2>1. Arrived' = Arrived
      BY <1>1 DEF Arrived
    <2> QED BY <1>1, <1>4, <2>1 DEF Thrown
  <1> QED BY <1>1, <1>2, <1>3, <1>5 DEF IInv, NotReadYet, InHeaders, InBody, Returned

(* A piece of the reply is added to the buffer.                            *)
LEMMA ReceiveStep == IInv /\ Receive => IInv'
  <1> SUFFICES ASSUME IInv, Receive PROVE IInv'
    OBVIOUS
  <1>1. /\ UNCHANGED <<block, uri, proxies, port_num, asked, wanted, sent, line,
                       stream, status_code, mime_type, redirect, pc, body>>
        /\ pc \in {"status", "headers", "body"}
    BY DEF Receive, Reading, members, environment
  <1>2. PICK n \in 1..(sent - got) :
          /\ response' = response \o SubSeq(wanted, got + 1, got + n)
          /\ got' = got + n
    BY DEF Receive
  <1>3. /\ wanted \in Seq(STRING) /\ got \in Nat /\ sent \in Nat /\ got \in 0..Len(wanted)
        /\ Len(wanted) \in Nat /\ got <= sent /\ sent <= Len(wanted)
    BY Basics DEF IInv
  <1>4. /\ n \in Nat /\ got + n <= Len(wanted) /\ got' \in 0..sent /\ got' \in got..Len(wanted)
        /\ got' \in 0..Len(wanted) /\ 0..got \subseteq 0..got'
    BY <1>2, <1>3
  <1>5. ASSUME NEW c \in 0..got, Rest(c) PROVE Rest(c)'
    <2>1. SubSeq(wanted, c + 1, got) \o SubSeq(wanted, got + 1, got + n) =
            SubSeq(wanted, c + 1, got + n)
      BY <1>3, <1>4, RestGrows
    <2> QED BY <1>1, <1>2, <1>5, <2>1 DEF Rest
  <1>6. \E c \in 0..got : Rest(c)
    <2>1. 0 \in 0..got
      BY <1>3
    <2> QED BY <1>1, <2>1 DEF IInv, NotReadYet, InHeaders, InBody
  <1>7. TypeOK' /\ Inputs'
    <2>1. PICK c \in 0..got' : response' = SubSeq(wanted, c + 1, got')
      BY <1>1, <1>4, <1>5, <1>6 DEF Rest
    <2>2. \A i \in DOMAIN response' : \E k \in 1..got' : response'[i] = wanted[k]
      BY <1>3, <1>4, <2>1, FromTheHost
    <2> QED BY <1>1, <1>4, <2>2 DEF IInv, TypeOK, Inputs
  <1>8. Asks'
    BY <1>1 DEF IInv, Asks, Named
  <1>9. NotReadYet'
    <2>1. 0 \in 0..got
      BY <1>3
    <2> QED BY <1>1, <1>5, <2>1 DEF IInv, NotReadYet
  <1>10. StatusKnown <=> StatusKnown'
    BY <1>1 DEF StatusKnown
  <1>11. InHeaders'
    BY <1>1, <1>4, <1>5, <1>10 DEF IInv, InHeaders
  <1>12. InBody'
    <2> SUFFICES ASSUME pc = "body" PROVE InBody'
      BY <1>1 DEF InBody
    <2>1. Holds(SubSeq(wanted, 1, got), CRLF \o CRLF)
      BY DEF IInv, InBody
    <2>2. Holds(SubSeq(wanted, 1, got'), CRLF \o CRLF)
      BY <1>3, <1>4, <2>1, HeldLater
    <2>3. PICK c \in 0..got :
            /\ Rest(c)
            /\ HasStatus(wanted) /\ WellFormed(wanted) =>
                 /\ c = PlaceOf(CRLF \o CRLF, wanted) + 3
                 /\ mime_type = LastTypeIn(wanted)
      BY DEF IInv, InBody
    <2>4. c \in 0..got' /\ Rest(c)'
      BY <1>4, <1>5, <2>3
    <2> QED BY <1>1, <1>10, <2>2, <2>3, <2>4 DEF IInv, InBody
  <1> QED BY <1>1, <1>7, <1>8, <1>9, <1>11, <1>12 DEF IInv, Returned, Thrown

(* getline ends inside the buffer.                                         *)
LEMMA LineBound ==
  ASSUME NEW S, NEW buf \in Seq(S), NEW i \in Nat, 1 <= i
  PROVE  LineFrom(buf, i) \in 0..Len(buf)
  <1>1. CASE \E e \in i..Len(buf) : buf[e] = "\n"
    <2>1. LineFrom(buf, i) \in i..Len(buf)
      BY <1>1, LineIs
    <2> QED BY <2>1
  <1>2. CASE ~\E e \in i..Len(buf) : buf[e] = "\n"
    <2>1. {k \in i..Len(buf) : buf[k] = "\n"} = {}
      BY <1>2
    <2>2. LineFrom(buf, i) = Len(buf)
      BY <2>1, Zenon DEF LineFrom
    <2> QED BY <2>2
  <1> QED BY <1>1, <1>2

(* The first line is consumed: in a reply with a status all of it.         *)
LEMMA ReadStatusStep == IInv /\ ReadStatus => IInv'
  <1> SUFFICES ASSUME IInv, ReadStatus PROVE IInv'
    OBVIOUS
  <1> DEFINE number == WordFrom(response, WordFrom(response, 1) + 1)
             good == number <= Len(response) /\ response[number] \in DOMAIN StatusCode
             m == IF good THEN LineFrom(response, number) ELSE number - 1
  <1>1. /\ UNCHANGED <<block, uri, proxies, port_num, asked, wanted, sent, line, got,
                       mime_type, redirect, body>>
        /\ pc = "status" /\ pc' = "headers" /\ Holds(response, CRLF)
    BY DEF ReadStatus, environment
  <1>2. stream' = (good /\ number < Len(response))
    BY DEF ReadStatus
  <1>3. /\ status_code' \in CASE good -> {StatusCode[response[number]]}
                               [] ~good /\ number <= Len(response) -> {0}
                               [] OTHER -> Garbage
        /\ response' = SubSeq(response,
                              IF good THEN LineFrom(response, number) + 1 ELSE number,
                              Len(response))
    BY Zenon DEF ReadStatus
  <1>4. /\ wanted \in Seq(STRING) /\ got \in Nat /\ sent \in Nat /\ got \in 0..Len(wanted)
        /\ Len(wanted) \in Nat /\ got <= sent /\ sent <= Len(wanted)
    BY Basics DEF IInv
  <1>5. response = SubSeq(wanted, 1, got) /\ mime_type = <<>>
    BY <1>1 DEF IInv, NotReadYet, Rest
  <1>6. response \in Seq(STRING) /\ Len(response) = got
    BY <1>4, <1>5, PartRead
  <1>7. number \in 1..Len(response) + 1
    <2>1. 1 \in Nat /\ 1 <= 1
      OBVIOUS
    <2>2. WordFrom(response, 1) \in 1..Len(response) + 1
      BY <1>6, <2>1, WordIs
    <2>3. WordFrom(response, 1) + 1 \in Nat /\ 1 <= WordFrom(response, 1) + 1
      BY <1>4, <1>6, <2>2
    <2> QED BY <1>6, <2>3, WordIs
  <1>8. status_code' \in Nat
    <2>1. CASE good
      BY <1>3, <2>1, ProxyAssumption
    <2>2. CASE ~good
      BY <1>3, <2>2, ProxyAssumption
    <2> QED BY <2>1, <2>2
  <1>9. ASSUME HasStatus(wanted)
        PROVE  /\ status_code' = StatusCode[wanted[2]] /\ stream'
               /\ m = LineFrom(wanted, 2) /\ FirstLine(wanted, LineFrom(wanted, 2))
    <2>1. /\ number = 2 /\ 2 < Len(response) /\ response[2] = wanted[2]
          /\ LineFrom(response, 2) = LineFrom(wanted, 2)
          /\ LineFrom(wanted, 2) \in 3..got /\ wanted[LineFrom(wanted, 2)] = "\n"
          /\ \A k \in 1..Len(wanted) : wanted[k] = "\n" => LineFrom(wanted, 2) <= k
      BY <1>1, <1>4, <1>5, <1>6, <1>9, StatusRead
    <2>2. wanted[2] \in DOMAIN StatusCode
      BY <1>9 DEF HasStatus
    <2> HIDE DEF number
    <2>3. good /\ number < Len(response)
      BY <1>4, <1>6, <2>1, <2>2
    <2>4. status_code' = StatusCode[wanted[2]]
      BY <1>3, <2>1, <2>3
    <2>5. FirstLine(wanted, LineFrom(wanted, 2))
      BY <2>1 DEF FirstLine
    <2> QED BY <1>2, <2>1, <2>3, <2>4, <2>5
  <1>10. m \in Nat /\ m <= Len(response) /\ response' = SubSeq(response, m + 1, Len(response))
    <2>1. number \in Nat /\ 1 <= number
      BY <1>4, <1>6, <1>7
    <2>2. LineFrom(response, number) \in 0..Len(response)
      BY <1>6, <2>1, LineBound
    <2> HIDE DEF number
    <2>3. CASE good
      <3>1. m = LineFrom(response, number)
        BY <2>3
      <3>2. response' = SubSeq(response, LineFrom(response, number) + 1, Len(response))
        BY <1>3, <2>3
      <3>3. m \in Nat /\ m <= Len(response)
        BY <1>4, <1>6, <2>2, <3>1
      <3> QED BY <3>1, <3>2, <3>3
    <2>4. CASE ~good
      <3>1. m = number - 1 /\ m \in Nat /\ m <= Len(response) /\ m + 1 = number
        BY <1>4, <1>6, <1>7, <2>1, <2>4
      <3>2. response' = SubSeq(response, number, Len(response))
        BY <1>3, <2>4
      <3> QED BY <3>1, <3>2
    <2> QED BY <2>3, <2>4
  <1> HIDE DEF m, number, good
  <1>11. PICK n \in 0..got : n = m /\ response' = SubSeq(wanted, n + 1, got)
    <2>1. 0 \in 0..got /\ 0 + 1 = 1 /\ 0 + m = m /\ 0 + m + 1 = m + 1
      BY <1>4, <1>10
    <2>2. response = SubSeq(wanted, 0 + 1, got)
      BY <1>5, <2>1
    <2>3. 0 + m \in 0..got /\ SubSeq(response, m + 1, Len(response)) = SubSeq(wanted, 0 + m + 1, got)
      BY <1>4, <1>10, <2>1, <2>2, RestShrinks
    <2> QED BY <1>10, <2>1, <2>3
  <1>12. TypeOK' /\ Inputs'
    <2>1. \A i \in DOMAIN response' : \E k \in 1..got : response'[i] = wanted[k]
      BY <1>4, <1>11, FromTheHost
    <2>2. stream' \in BOOLEAN
      BY <1>2, Zenon
    <2> QED BY <1>1, <1>8, <2>1, <2>2 DEF IInv, TypeOK, Inputs, PCs
  <1>13. Asks'
    BY <1>1 DEF IInv, Asks, Named
  <1>14. InHeaders'
    <2>1. StatusKnown'
      BY <1>1, <1>9 DEF StatusKnown
    <2>2. HasStatus(wanted) => FirstLine(wanted, n) /\ stream'
      BY <1>9, <1>11
    <2>3. Rest(n)'
      BY <1>1, <1>11 DEF Rest
    <2> QED BY <1>1, <1>5, <2>1, <2>2, <2>3 DEF InHeaders
  <1> QED BY <1>1, <1>12, <1>13, <1>14 DEF IInv, NotReadYet, InBody, Returned, Thrown

(* The headers are consumed: in a reply with a status up to the first      *)
(* empty line.                                                             *)
LEMMA ReadHeadersStep == IInv /\ ReadHeaders => IInv'
  <1> SUFFICES ASSUME IInv, ReadHeaders PROVE IInv'
    OBVIOUS
  <1> DEFINE end == IF stream THEN EndLine(response) + 1 ELSE 0
  <1>1. /\ UNCHANGED <<block, uri, proxies, port_num, asked, wanted, sent, line, got,
                       stream, status_code, redirect, body>>
        /\ pc = "headers" /\ pc' = "body" /\ Holds(response, CRLF \o CRLF)
    BY DEF ReadHeaders, environment
  <1>2. response' = SubSeq(response, end + 1, Len(response))
    BY DEF ReadHeaders, EndLine
  <1>3. stream /\ mime_type = <<>> =>
          mime_type' = LastIn(response, HeaderTypes(response, EndLine(response)))
    BY DEF ReadHeaders, EndLine, LastIn, LastOf, HeaderTypes
  <1>4. /\ wanted \in Seq(STRING) /\ got \in Nat /\ sent \in Nat /\ got \in 0..Len(wanted)
        /\ Len(wanted) \in Nat /\ got <= sent /\ sent <= Len(wanted) /\ got <= Len(wanted)
    BY Basics DEF IInv
  <1>5. PICK c \in 0..got : /\ response = SubSeq(wanted, c + 1, got)
                            /\ HasStatus(wanted) => FirstLine(wanted, c) /\ stream
    BY <1>1 DEF IInv, InHeaders, Rest
  <1>6. mime_type = <<>> /\ StatusKnown
    BY <1>1 DEF IInv, InHeaders
  <1>7. response \in Seq(STRING) /\ Len(response) = got - c /\ Behind(response, wanted, c, got)
    BY <1>4, <1>5, ReadPart DEF Behind
  <1>8. end \in Nat /\ end <= Len(response)
    <2>1. EndLine(response) \in 1..(Len(response) - 1)
      BY <1>1, <1>7, EndIs DEF EndsAt
    <2> QED BY <1>4, <1>7, <2>1
  <1>9. ASSUME HasStatus(wanted), WellFormed(wanted)
        PROVE  /\ c + end = PlaceOf(CRLF \o CRLF, wanted) + 3
               /\ mime_type' = LastTypeIn(wanted)
    <2>1. c \in Nat
      BY <1>4
    <2>2. FirstLine(wanted, c) /\ stream
      BY <1>5, <1>9
    <2>3. /\ c + (EndLine(response) + 1) = PlaceOf(CRLF \o CRLF, wanted) + 3
          /\ LastTypeIn(wanted) = LastIn(response, HeaderTypes(response, EndLine(response)))
      BY <1>1, <1>4, <1>7, <1>9, <2>1, <2>2, HeadersRead, Zenon
    <2> QED BY <1>3, <1>6, <2>2, <2>3
  <1> HIDE DEF end
  <1>10. PICK n \in 0..got : n = c + end /\ response' = SubSeq(wanted, n + 1, got)
    <2>1. c + end \in 0..got /\ SubSeq(response, end + 1, Len(response)) =
                                   SubSeq(wanted, c + end + 1, got)
      BY <1>4, <1>5, <1>8, RestShrinks
    <2> QED BY <1>2, <2>1
  <1>11. TypeOK' /\ Inputs'
    <2>1. \A i \in DOMAIN response' : \E k \in 1..got : response'[i] = wanted[k]
      BY <1>4, <1>10, FromTheHost
    <2> QED BY <1>1, <2>1 DEF IInv, TypeOK, Inputs, PCs
  <1>12. Asks'
    BY <1>1 DEF IInv, Asks, Named
  <1>13. InBody'
    <2>1. StatusKnown'
      BY <1>1, <1>6 DEF StatusKnown
    <2>2. Holds(SubSeq(wanted, 1, got), CRLF \o CRLF)
      BY <1>1, <1>4, <1>5, HeldBehind
    <2>3. Rest(n)'
      BY <1>1, <1>10 DEF Rest
    <2>4. HasStatus(wanted) /\ WellFormed(wanted) =>
            n = PlaceOf(CRLF \o CRLF, wanted) + 3 /\ mime_type' = LastTypeIn(wanted)
      BY <1>9, <1>10
    <2> QED BY <1>1, <2>1, <2>2, <2>3, <2>4 DEF InBody
  <1> QED BY <1>1, <1>11, <1>12, <1>13 DEF IInv, NotReadYet, InHeaders, Returned, Thrown

(* The end of the reply makes the response.                                *)
LEMMA EndOfReplyStep == IInv /\ EndOfReply => IInv'
  <1> SUFFICES ASSUME IInv, EndOfReply PROVE IInv'
    OBVIOUS
  <1>1. /\ UNCHANGED <<block, uri, proxies, port_num, asked, wanted, sent, line, got,
                       stream, status_code, mime_type>>
        /\ pc = "body" /\ pc' = "returned" /\ line = "closed" /\ got = sent
        /\ response' = <<>>
    BY DEF EndOfReply, environment
  <1>2. redirect' \in BOOLEAN /\ (redirect' <=> status_code \in {301, 302})
    <2>1. PICK moved : moved = {301, 302}
      OBVIOUS
    <2>2. redirect' = (status_code \in moved)
      BY <2>1, Zenon DEF EndOfReply
    <2>3. redirect' \in BOOLEAN
      BY <2>2, SMT
    <2>4. redirect' <=> status_code \in moved
      BY <2>2, Zenon
    <2> QED BY <2>1, <2>3, <2>4, Zenon
  <1>3. body' = IF redirect' THEN <<"request">> ELSE response
    BY DEF EndOfReply
  <1>4. TypeOK' /\ Inputs'
    <2>1. \A i \in DOMAIN response' : \E k \in 1..got : response'[i] = wanted[k]
      BY <1>1
    <2>2. pc' \in PCs
      BY <1>1, Zenon DEF PCs
    <2>3. line' \in {"none", "open", "closed", "reset"} /\ got' \in 0..sent'
          /\ sent' \in 0..Len(wanted') /\ status_code' \in Nat /\ stream' \in BOOLEAN
      BY <1>1, Zenon DEF IInv, TypeOK
    <2>4. \A i \in DOMAIN response' : \E k \in 1..got' : response'[i] = wanted'[k]
      BY <1>1, <2>1, Zenon
    <2>5. TypeOK'
      BY <1>2, <2>2, <2>3, <2>4, Zenon DEF TypeOK
    <2>6. Inputs'
      BY <1>1 DEF IInv, Inputs
    <2> QED BY <2>5, <2>6
  <1>5. Asks'
    BY <1>1 DEF IInv, Asks, Named
  <1>6. Returned'
    <2>1. Holds(SubSeq(wanted, 1, got), CRLF \o CRLF) /\ StatusKnown
      BY <1>1 DEF IInv, InBody
    <2>2. HasStatus(wanted) => (redirect' <=> StatusCode[wanted[2]] \in {301, 302})
      <3>1. HasStatus(wanted) => status_code = StatusCode[wanted[2]]
        BY <2>1 DEF StatusKnown
      <3>2. HasStatus(wanted) =>
              (status_code \in {301, 302} <=> StatusCode[wanted[2]] \in {301, 302})
        BY <3>1
      <3> QED BY <1>2, <3>2, Zenon
    <2>3. ASSUME HasStatus(wanted), WellFormed(wanted)
          PROVE  /\ mime_type = LastTypeIn(wanted)
                 /\ response = SubSeq(wanted, PlaceOf(CRLF \o CRLF, wanted) + 4, got)
      <3>1. PICK c \in 0..got : /\ response = SubSeq(wanted, c + 1, got)
                                /\ c = PlaceOf(CRLF \o CRLF, wanted) + 3
                                /\ mime_type = LastTypeIn(wanted)
        BY <1>1, <2>3 DEF IInv, InBody, Rest
      <3>2. wanted \in Seq(STRING) /\ got \in 0..Len(wanted)
        BY Basics DEF IInv
      <3>3. PlaceOf(CRLF \o CRLF, wanted) \in 1..(got - 3)
        BY <2>1, <3>2, PlaceKept
      <3>4. c + 1 = PlaceOf(CRLF \o CRLF, wanted) + 4
        BY <3>1, <3>3
      <3> QED BY <3>1, <3>4
    <2> QED BY <1>1, <1>3, <2>1, <2>2, <2>3 DEF Returned
  <1> QED BY <1>1, <1>4, <1>5, <1>6 DEF IInv, NotReadYet, InHeaders, InBody, Thrown

(* Every step of the handler and of its host keeps the invariant.          *)
LEMMA NextIInv == IInv /\ [Next]_vars => IInv'
  <1>1. IInv /\ UNCHANGED vars => IInv'
    <2> SUFFICES ASSUME IInv, UNCHANGED vars PROVE IInv'
      OBVIOUS
    <2> USE DEF vars, IInv
    <2>1. TypeOK' /\ Inputs'
      BY DEF TypeOK, Inputs
    <2>2. Asks'
      BY DEF Asks, Named
    <2>3. NotReadYet'
      BY DEF NotReadYet, Rest
    <2>4. InHeaders'
      BY DEF InHeaders, StatusKnown, Rest
    <2>5. InBody'
      BY DEF InBody, StatusKnown, Rest
    <2>6. Returned'
      BY DEF Returned
    <2>7. Thrown'
      BY DEF Thrown, Arrived
    <2> QED BY <2>1, <2>2, <2>3, <2>4, <2>5, <2>6, <2>7
  <1> QED BY <1>1, HostStep, ConstructStep, LookupStep, ConnectStep, ThrowStep, ReceiveStep,
             ReadStatusStep, ReadHeadersStep, EndOfReplyStep DEF Next, Handler

-----------------------------------------------------------------------------
(* The theorems.                                                           *)

(* The invariant holds in every state, however the host cuts its reply.    *)
THEOREM Invariance == Spec => []IInv
  BY InitIInv, NextIInv, PTL DEF Spec

(* The type invariant: the handler never counts or buffers more than the   *)
(* host has sent, and every symbol in its buffer is one the host sent.     *)
THEOREM TypeCorrect == Spec => []TypeOK
  <1>1. IInv => TypeOK
    BY DEF IInv
  <1> QED BY <1>1, Invariance, PTL

(* A reply is served only if the host ended it in order behind its         *)
(* headers.  A reply with a status that the host ended in order is given   *)
(* up only if it has no empty line behind a header: it was cut short, or   *)
(* has no header.  For every reply, well formed or not, in every cut.      *)
THEOREM RepliesServedIffEnded == Spec => []ServedIffEnded
  <1>1. IInv => ServedIffEnded
    <2> SUFFICES ASSUME IInv PROVE ServedIffEnded
      OBVIOUS
    <2>1. pc = "returned" => line = "closed" /\ got = sent /\ Holds(Arrived, CRLF \o CRLF)
      BY DEF IInv, Returned, Arrived
    <2>2. pc = "thrown" /\ line \notin {"none", "reset"} /\ HasStatus(Arrived) =>
            Headless(Arrived)
      BY DEF IInv, Thrown
    <2>3. ASSUME HasStatus(Arrived), HeadersEnd(Arrived)
          PROVE  ~Headless(Arrived)
      <3>1. PICK i \in 1..(Len(Arrived) - 3) :
              /\ \E k \in 1..i : Arrived[k] = "\n"
              /\ SubSeq(Arrived, i, i + 3) = CRLF \o CRLF
        BY <2>3 DEF HeadersEnd
      <3>2. PICK k \in 1..i : Arrived[k] = "\n"
        BY <3>1
      <3>3. Arrived[1] # "\n" /\ Arrived[2] # "\n"
        BY <2>3, ProxyAssumption DEF HasStatus, Blank
      <3>4. Arrived \in Seq(STRING)
        <4>1. wanted \in Seq(STRING) /\ sent \in 0..Len(wanted)
          BY Basics DEF IInv, Inputs, TypeOK
        <4> QED BY <4>1 DEF Arrived
      <3>5. i # 3
        <4>1. i = 3 => Arrived[3] = "\r"
          BY <3>1, <3>4 DEF CRLF
        <4> QED BY <3>2, <3>3, <4>1
      <3>6. i \in 4..(Len(Arrived) - 3)
        BY <3>2, <3>3, <3>4, <3>5
      <3> QED BY <3>1, <3>6 DEF Headless
    <2> QED BY <2>1, <2>2, <2>3 DEF ServedIffEnded
  <1> QED BY <1>1, Invariance, PTL

(* When the head of every reply is well formed, the response is made from  *)
(* the whole reply, however the host cut it and whatever its body holds:   *)
(* its body, the type its last Content-Type header begins with, and the    *)
(* answer to a redirection exactly when its status is one.                 *)
THEOREM ResponseIsTheReply ==
  ASSUME \A w \in Replies : WellFormed(w)
  PROVE  Spec => []AnswerIsTheReply
  <1>1. IInv => AnswerIsTheReply
    <2> SUFFICES ASSUME IInv, pc = "returned", HasStatus(Arrived)
                 PROVE  /\ redirect <=> StatusCode[Arrived[2]] \in {301, 302}
                        /\ body = IF redirect THEN <<"request">> ELSE AfterBlankLine(Arrived)
                        /\ TypesIn(Arrived) = {} => mime_type = <<>>
                        /\ \A i \in TypesIn(Arrived) :
                             IsLastType(Arrived, i) =>
                               /\ mime_type # <<>>
                               /\ mime_type[1] = MimeType[Arrived[i]].type
      BY DEF AnswerIsTheReply
    <2>1. wanted \in Seq(STRING) /\ got \in 0..Len(wanted) /\ WellFormed(wanted)
      BY Basics DEF IInv, Inputs
    <2>2. /\ got = sent /\ Holds(SubSeq(wanted, 1, got), CRLF \o CRLF)
          /\ HasStatus(wanted) => (redirect <=> StatusCode[wanted[2]] \in {301, 302})
          /\ HasStatus(wanted) =>
               /\ mime_type = LastTypeIn(wanted)
               /\ body = IF redirect THEN <<"request">>
                         ELSE SubSeq(wanted, PlaceOf(CRLF \o CRLF, wanted) + 4, got)
      BY <2>1 DEF IInv, Returned
    <2>3. Arrived = SubSeq(wanted, 1, got)
      BY <2>2 DEF Arrived
    <2>4. HasStatus(wanted) /\ Arrived[2] = wanted[2]
      BY <2>1, <2>3, StatusOfPart
    <2>5. LastTypeIn(Arrived) = LastTypeIn(wanted)
      BY <2>1, <2>2, <2>3, TypeOfPart
    <2>6. AfterBlankLine(Arrived) = SubSeq(wanted, PlaceOf(CRLF \o CRLF, wanted) + 4, got)
      BY <2>1, <2>2, <2>3, BodyOfPart
    <2>7. TypesIn(Arrived) = {} => mime_type = <<>>
      BY <2>2, <2>4, <2>5 DEF LastTypeIn, LastIn
    <2>8. ASSUME NEW i \in TypesIn(Arrived), IsLastType(Arrived, i)
          PROVE  mime_type # <<>> /\ mime_type[1] = MimeType[Arrived[i]].type
      <3>1. LastOf(TypesIn(Arrived)) = i
        <4>1. TypesIn(Arrived) \subseteq Nat
          BY DEF TypesIn
        <4>2. \A j \in TypesIn(Arrived) : (\A k \in TypesIn(Arrived) : k <= j) => j = i
          BY <2>8, <4>1 DEF IsLastType
        <4> QED BY <2>8, <4>2 DEF LastOf, IsLastType
      <3>2. mime_type = TypeIn(Arrived[i])
        BY <2>2, <2>4, <2>5, <2>8, <3>1 DEF LastTypeIn, LastIn
      <3> QED BY <3>2 DEF TypeIn
    <2> QED BY <2>2, <2>4, <2>6, <2>7, <2>8
  <1> QED BY <1>1, Invariance, PTL

(* For every block and every URI, a location of one segment that the URI   *)
(* names is found by the look-up and asked at the root behind its first    *)
(* statement, with the rest of the URI as the path, and at the last port   *)
(* of the block if it has one.                                             *)
THEOREM AsksTheHostOfItsBlock == Spec => []AsksTheConfiguredHost
  <1>1. IInv => AsksTheConfiguredHost
    <2> SUFFICES ASSUME IInv, NEW i \in Statements(block, "location"), Fits(block, uri, i)
                 PROVE  /\ pc # "undefined"
                        /\ asked.host # None =>
                             /\ asked.host = block[i + 1].value
                             /\ block[i].value \o asked.path \in {uri, Append(uri, "/")}
                             /\ \A p \in Statements(block, "port") :
                                  (\A k \in Statements(block, "port") : k <= p) =>
                                    asked.port = block[p].value
      BY Zenon DEF AsksTheConfiguredHost, Fits
    <2> DEFINE l == block[i].value
    <2>1. block \in Blocks /\ uri \in Seq(STRING) /\ l \in Seq(STRING)
      <3>1. block \in Blocks /\ uri \in Seq(STRING)
        BY Basics DEF IInv, Inputs
      <3>2. i \in DOMAIN block /\ block[i].key = "location"
        BY DEF Statements
      <3> QED BY <3>1, <3>2, ProxyAssumption
    <2>2. /\ Len(l) > 1 /\ \A k \in 2..Len(l) : l[k] # "/"
          /\ IsPrefix(l, uri) /\ (Len(uri) = Len(l) \/ uri[Len(l) + 1] = "/")
          /\ \A k \in Statements(block, "location") : block[k].value = l => i <= k
          /\ i + 1 \in Statements(block, "root")
      BY Zenon DEF Fits
    <2>3. l # <<>>
      BY <2>1, <2>2
    <2>4. /\ l \in DOMAIN LocationToProxy(block)
          /\ LocationToProxy(block)[l] = block[i + 1].value
      BY <2>1, <2>2, <2>3, ProxyIs
    <2>5. /\ Len(uri) > 1 /\ FirstSegment(uri) = l
          /\ l \o PathOf(uri) \in {uri, Append(uri, "/")}
      <3> HIDE DEF l
      <3> QED BY <2>1, <2>2, SegmentIs
    <2>6. Named
      BY <2>4, <2>5 DEF Named
    <2>7. pc # "undefined"
      BY <2>6 DEF IInv, Asks
    <2>8. ASSUME asked.host # None
          PROVE  /\ asked.host = block[i + 1].value
                 /\ l \o asked.path \in {uri, Append(uri, "/")}
                 /\ \A p \in Statements(block, "port") :
                      (\A k \in Statements(block, "port") : k <= p) =>
                        asked.port = block[p].value
      <3>1. /\ proxies = LocationToProxy(block) /\ port_num \in PortNums(block)
            /\ asked = [host |-> proxies[FirstSegment(uri)], port |-> port_num,
                        path |-> PathOf(uri)]
        BY <2>7, <2>8 DEF IInv, Asks
      <3>2. /\ asked.host = proxies[FirstSegment(uri)] /\ asked.port = port_num
            /\ asked.path = PathOf(uri)
        BY <3>1, Zenon
      <3>3. ASSUME NEW p \in Statements(block, "port"),
                   \A k \in Statements(block, "port") : k <= p
            PROVE  port_num = block[p].value
        <4>1. PICK ports : ports = Statements(block, "port")
          OBVIOUS
        <4>2. ports \subseteq Nat /\ p \in ports
          BY <2>1, <4>1, ProxyAssumption DEF Statements
        <4>3. (CHOOSE j \in ports : \A k \in ports : k <= j) = p
          <5>1. \A j \in ports : (\A k \in ports : k <= j) => j = p
            BY <3>3, <4>1, <4>2
          <5> QED BY <3>3, <4>1, <4>2, <5>1
        <4>4. PortNums(block) = {block[CHOOSE j \in ports : \A k \in ports : k <= j].value}
          BY <4>1, <4>2, Zenon DEF PortNums
        <4> QED BY <3>1, <4>3, <4>4
      <3> QED BY <2>4, <2>5, <3>1, <3>2, <3>3, Zenon
    <2> QED BY <2>7, <2>8
  <1> QED BY <1>1, Invariance, PTL

=============================================================================
