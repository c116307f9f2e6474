------------------------- MODULE ConfigParserProofs -------------------------
(***************************************************************************)
(* Proofs about the configuration parser, for every file: the stack of     *)
(* open blocks and the tree, that Parse accepts exactly the grammar, and   *)
(* that ParseStatements takes the port and the thread count the file       *)
(* gives.                                                                  *)
(***************************************************************************)
EXTENDS ConfigParser, IndexLemmas, FiniteSetTheorems, TLAPS

-----------------------------------------------------------------------------
(* ParseToken.                                                             *)

(* NextIn and NextNotIn stay between their start and the end of the file,  *)
(* just behind it if nothing is found.                                     *)
LEMMA NextInBound ==
  ASSUME NEW f \in Seq(STRING), NEW p \in Nat \ {0}, NEW C
  PROVE  /\ NextIn(f, p, C) \in Nat
         /\ NextIn(f, p, C) <= Len(f) => NextIn(f, p, C) >= p
         /\ NextIn(f, p, C) <= Len(f) + 1
  <1> DEFINE hits == {q \in p..Len(f) : f[q] \in C}
  <1>1. NextIn(f, p, C) = IF hits = {} THEN Len(f) + 1
                          ELSE CHOOSE q \in hits : \A r \in hits : q <= r
    BY Zenon DEF NextIn
  <1>2. hits \in SUBSET Nat /\ hits \subseteq p..Len(f)
    OBVIOUS
  <1> HIDE DEF hits
  <1>3. CASE hits = {}
    <2>1. NextIn(f, p, C) = Len(f) + 1
      BY <1>1, <1>3
    <2> QED BY <2>1
  <1>4. CASE hits # {}
    <2>1. \E q \in hits : \A r \in hits : q <= r
      BY <1>2, <1>4, FirstIndex
    <2>2. NextIn(f, p, C) \in hits
      BY <1>1, <1>4, <2>1, Zenon
    <2>3. NextIn(f, p, C) \in p..Len(f)
      BY <1>2, <2>2
    <2> QED BY <2>3
  <1> QED BY <1>3, <1>4

(* The same for the first character outside a class.                       *)
LEMMA NextNotInBound ==
  ASSUME NEW f \in Seq(STRING), NEW p \in Nat \ {0}, NEW C
  PROVE  /\ NextNotIn(f, p, C) \in Nat
         /\ NextNotIn(f, p, C) <= Len(f) => NextNotIn(f, p, C) >= p
         /\ NextNotIn(f, p, C) <= Len(f) + 1
  <1> DEFINE hits == {q \in p..Len(f) : f[q] \notin C}
  <1>1. NextNotIn(f, p, C) = IF hits = {} THEN Len(f) + 1
                             ELSE CHOOSE q \in hits : \A r \in hits : q <= r
    BY Zenon DEF NextNotIn
  <1>2. hits \in SUBSET Nat /\ hits \subseteq p..Len(f)
    OBVIOUS
  <1> HIDE DEF hits
  <1>3. CASE hits = {}
    <2>1. NextNotIn(f, p, C) = Len(f) + 1
      BY <1>1, <1>3
    <2> QED BY <2>1
  <1>4. CASE hits # {}
    <2>1. \E q \in hits : \A r \in hits : q <= r
      BY <1>2, <1>4, FirstIndex
    <2>2. NextNotIn(f, p, C) \in hits
      BY <1>1, <1>4, <2>1, Zenon
    <2>3. NextNotIn(f, p, C) \in p..Len(f)
      BY <1>2, <2>2
    <2> QED BY <2>3
  <1> QED BY <1>3, <1>4

(* What the tree takes from a token: a token that the loop goes on after   *)
(* moves the position on, at most just behind the end of the file, and a   *)
(* word is a part of the file.                                             *)
TokenSound(f, p, t) ==
  /\ t.type \in TokenType
  /\ t.type \notin {"EOF", "ERROR"} => t.next \in (p + 1)..(Len(f) + 1)
  /\ t.type = "NORMAL" => t.value \in Seq(STRING)

(* Token puts together a record.                                           *)
LEMMA TokenIs ==
  ASSUME NEW ty, NEW v, NEW n
  PROVE  Token(ty, v, n).type = ty /\ Token(ty, v, n).value = v /\ Token(ty, v, n).next = n
  BY Zenon DEF Token

(* A quoted word ends behind its closing quote, or is an error.            *)
LEMMA QuotedTokenSound ==
  ASSUME NEW f \in Seq(STRING), NEW p \in Nat \ {0}, NEW s \in Nat, p <= s, s <= Len(f)
  PROVE  TokenSound(f, p, QuotedToken(f, s))
  <1>1. PICK e : e = NextIn(f, s + 1, {f[s]})
    OBVIOUS
  <1>2. e \in Nat /\ (e <= Len(f) => e >= s + 1) /\ e <= Len(f) + 1
    BY <1>1, NextInBound
  <1>3. CASE e > Len(f)
    <2>1. QuotedToken(f, s) = Token("ERROR", <<>>, e)
      BY <1>1, <1>3, Zenon DEF QuotedToken
    <2>2. QuotedToken(f, s).type = "ERROR"
      BY <2>1, TokenIs
    <2> QED BY <2>2 DEF TokenSound, TokenType
  <1>4. CASE ~(e > Len(f))
    <2>0. PICK v : v = SubSeq(f, s, e)
      OBVIOUS
    <2>1. QuotedToken(f, s) = Token("NORMAL", v, e + 1)
      BY <1>1, <1>4, <2>0, Zenon DEF QuotedToken
    <2>2. /\ QuotedToken(f, s).type = "NORMAL" /\ QuotedToken(f, s).next = e + 1
          /\ QuotedToken(f, s).value = v
      BY <2>1, TokenIs
    <2>3. v \in Seq(STRING)
      BY <1>2, <1>4, <2>0, SubSeqIndex
    <2>4. e + 1 \in (p + 1)..(Len(f) + 1)
      BY <1>2, <1>4
    <2> QED BY <2>2, <2>3, <2>4 DEF TokenSound, TokenType
  <1> QED BY <1>3, <1>4

(* A comment ends behind its line, or with the file.                       *)
LEMMA CommentTokenSound ==
  ASSUME NEW f \in Seq(STRING), NEW p \in Nat \ {0}, NEW s \in Nat, p <= s, s <= Len(f)
  PROVE  TokenSound(f, p, CommentToken(f, s))
  <1>1. PICK e : e = NextIn(f, s + 1, LineEnd)
    OBVIOUS
  <1>2. e \in Nat /\ (e <= Len(f) => e >= s + 1) /\ e <= Len(f) + 1
    BY <1>1, NextInBound
  <1>3. CASE e > Len(f)
    <2>1. CommentToken(f, s) = Token("EOF", <<>>, e)
      BY <1>1, <1>3, Zenon DEF CommentToken
    <2>2. CommentToken(f, s).type = "EOF"
      BY <2>1, TokenIs
    <2> QED BY <2>2 DEF TokenSound, TokenType
  <1>4. CASE ~(e > Len(f))
    <2>1. CommentToken(f, s) = Token("COMMENT", SubSeq(f, s, e - 1), e + 1)
      BY <1>1, <1>4, Zenon DEF CommentToken
    <2>2. CommentToken(f, s).type = "COMMENT" /\ CommentToken(f, s).next = e + 1
      BY <2>1, TokenIs
    <2>3. e + 1 \in (p + 1)..(Len(f) + 1)
      BY <1>2, <1>4
    <2> QED BY <2>2, <2>3 DEF TokenSound, TokenType
  <1> QED BY <1>3, <1>4

(* A word ends before a delimiter, or with the file.                       *)
LEMMA WordTokenSound ==
  ASSUME NEW f \in Seq(STRING), NEW p \in Nat \ {0}, NEW s \in Nat, p <= s, s <= Len(f)
  PROVE  TokenSound(f, p, WordToken(f, s))
  <1>1. PICK e : e = NextIn(f, s + 1, Delimiter)
    OBVIOUS
  <1>2. e \in Nat /\ (e <= Len(f) => e >= s + 1) /\ e <= Len(f) + 1
    BY <1>1, NextInBound
  <1>3. CASE e > Len(f)
    <2>1. WordToken(f, s) = Token("EOF", <<>>, e)
      BY <1>1, <1>3, Zenon DEF WordToken
    <2>2. WordToken(f, s).type = "EOF"
      BY <2>1, TokenIs
    <2> QED BY <2>2 DEF TokenSound, TokenType
  <1>4. CASE ~(e > Len(f))
    <2>0. PICK v : v = SubSeq(f, s, e - 1)
      OBVIOUS
    <2>1. WordToken(f, s) = Token("NORMAL", v, e)
      BY <1>1, <1>4, <2>0, Zenon DEF WordToken
    <2>2. /\ WordToken(f, s).type = "NORMAL" /\ WordToken(f, s).next = e
          /\ WordToken(f, s).value = v
      BY <2>1, TokenIs
    <2>3. e - 1 \in Nat /\ s <= (e - 1) + 1 /\ e - 1 <= Len(f) /\ 1 <= s
      BY <1>2, <1>4
    <2>4. v \in Seq(STRING)
      BY <2>0, <2>3, SubSeqIndex
    <2>5. e \in (p + 1)..(Len(f) + 1)
      BY <1>2, <1>4
    <2> QED BY <2>2, <2>4, <2>5 DEF TokenSound, TokenType
  <1> QED BY <1>3, <1>4

(* Every token that ParseToken reports.                                    *)
LEMMA ParseTokenSound ==
  ASSUME NEW f \in Seq(STRING), NEW p \in Nat \ {0}
  PROVE  TokenSound(f, p, ParseToken(f, p))
  <1>1. PICK s : s = NextNotIn(f, p, White)
    OBVIOUS
  <1>2. s \in Nat /\ (s <= Len(f) => s >= p) /\ s <= Len(f) + 1
    BY <1>1, NextNotInBound
  <1>3. \/ s > Len(f) /\ ParseToken(f, p) = Token("EOF", <<>>, s)
        \/ s <= Len(f) /\ \E ty \in {"START_BLOCK", "END_BLOCK", "STATEMENT_END"} :
                            \E v : ParseToken(f, p) = Token(ty, v, s + 1)
        \/ s <= Len(f) /\ ParseToken(f, p) \in {CommentToken(f, s), QuotedToken(f, s),
                                               WordToken(f, s)}
    <2>1. ParseToken(f, p) =
            CASE s > Len(f)           -> Token("EOF", <<>>, s)
              [] s <= Len(f) /\ f[s] = "{" -> Token("START_BLOCK", <<"{">>, s + 1)
              [] s <= Len(f) /\ f[s] = "}" -> Token("END_BLOCK", <<"}">>, s + 1)
              [] s <= Len(f) /\ f[s] = ";" -> Token("STATEMENT_END", <<";">>, s + 1)
              [] s <= Len(f) /\ f[s] = "#" -> CommentToken(f, s)
              [] s <= Len(f) /\ f[s] \in {"\"", "'"} -> QuotedToken(f, s)
              [] OTHER                -> WordToken(f, s)
      BY <1>1, Zenon DEF ParseToken
    <2>2. CASE s > Len(f)
      BY <1>2, <2>1, <2>2
    <2>3. CASE s <= Len(f)
      BY <1>2, <2>1, <2>3
    <2> QED BY <1>2, <2>2, <2>3
  <1>4. CASE s > Len(f) /\ ParseToken(f, p) = Token("EOF", <<>>, s)
    <2>1. ParseToken(f, p).type = "EOF"
      BY <1>4, TokenIs
    <2> QED BY <2>1 DEF TokenSound, TokenType
  <1>5. ASSUME s <= Len(f), NEW ty \in {"START_BLOCK", "END_BLOCK", "STATEMENT_END"}, NEW v,
               ParseToken(f, p) = Token(ty, v, s + 1)
        PROVE  TokenSound(f, p, ParseToken(f, p))
    <2>1. ParseToken(f, p).type = ty /\ ParseToken(f, p).next = s + 1
      BY <1>5, TokenIs
    <2>2. s + 1 \in (p + 1)..(Len(f) + 1)
      BY <1>2, <1>5
    <2> QED BY <2>1, <2>2 DEF TokenSound, TokenType
  <1>6. CASE s <= Len(f) /\ ParseToken(f, p) \in {CommentToken(f, s), QuotedToken(f, s),
                                                 WordToken(f, s)}
    BY <1>2, <1>6, CommentTokenSound, QuotedTokenSound, WordTokenSound
  <1> QED BY <1>3, <1>4, <1>5, <1>6

-----------------------------------------------------------------------------
(* The tree and the stack of open blocks.                                  *)

StatementRecords == [tokens : Seq(Seq(STRING)), child : Nat]

(* A block is a sequence of statements, and so is the empty one.           *)
LEMMA StatementsAre == Statements = Seq(StatementRecords) /\ <<>> \in Statements
  BY EmptySeq, Zenon DEF Statements, StatementRecords

(* The newest statement of a block has the child c.                        *)
Newest(st, c) == st # <<>> /\ Last(st).child = c

(* t has the children of s, and statements without a child behind them.    *)
SameKids(s, t) ==
  /\ Len(s) <= Len(t)
  /\ \A i \in 1..Len(s) : t[i].child = s[i].child
  /\ \A i \in (Len(s) + 1)..Len(t) : t[i].child = 0

(* A token is added to the newest statement of a block.                    *)
LEMMA AddToken ==
  ASSUME NEW st \in Statements, NEW c, Newest(st, c), NEW v \in Seq(STRING)
  PROVE  /\ [st EXCEPT ![Len(st)].tokens = Append(@, v)] \in Statements
         /\ Newest([st EXCEPT ![Len(st)].tokens = Append(@, v)], c)
         /\ SameKids(st, [st EXCEPT ![Len(st)].tokens = Append(@, v)])
  <1>1. PICK n \in Nat : n = Len(st) /\ n \in 1..Len(st) /\ n \in DOMAIN st
    BY DEF Newest, Statements
  <1>2. PICK r \in StatementRecords : r = st[n]
    BY <1>1, StatementsAre
  <1>3. PICK q : q = [r EXCEPT !.tokens = Append(@, v)]
    OBVIOUS
  <1>4. q \in StatementRecords /\ q.child = r.child
    <2>1. PICK tk : tk = Append(r.tokens, v)
      OBVIOUS
    <2>2. tk \in Seq(Seq(STRING))
      BY <2>1 DEF StatementRecords
    <2>3. q = [r EXCEPT !.tokens = tk]
      BY <1>3, <2>1, Zenon
    <2> QED BY <2>2, <2>3 DEF StatementRecords
  <1>5. PICK u : u = [st EXCEPT ![n] = q]
    OBVIOUS
  <1>6. [st EXCEPT ![Len(st)].tokens = Append(@, v)] = u
    BY <1>1, <1>2, <1>3, <1>5
  <1>7. u \in Statements /\ Len(u) = n /\ u[n] = q
    BY <1>1, <1>4, <1>5 DEF Statements, StatementRecords
  <1>8. r.child = c
    BY <1>1, <1>2 DEF Newest, Last
  <1>9. Newest(u, c)
    BY <1>1, <1>4, <1>7, <1>8 DEF Newest, Last, Statements
  <1>10. SameKids(st, u)
    <2>1. \A i \in 1..n : i # n => u[i] = st[i]
      BY <1>1, <1>5
    <2> QED BY <1>1, <1>2, <1>4, <1>7, <2>1 DEF SameKids
  <1> QED BY <1>6, <1>7, <1>9, <1>10

(* The newest statement gets its child.                                    *)
LEMMA AddChild ==
  ASSUME NEW st \in Statements, NEW c, Newest(st, c), NEW d \in Nat
  PROVE  /\ [st EXCEPT ![Len(st)].child = d] \in Statements
         /\ Newest([st EXCEPT ![Len(st)].child = d], d)
         /\ Len([st EXCEPT ![Len(st)].child = d]) = Len(st)
         /\ \A i \in 1..(Len(st) - 1) : [st EXCEPT ![Len(st)].child = d][i] = st[i]
  <1>1. PICK n \in Nat : n = Len(st) /\ n \in 1..Len(st) /\ n \in DOMAIN st
    BY DEF Newest, Statements
  <1>2. PICK r \in StatementRecords : r = st[n]
    BY <1>1, StatementsAre
  <1>3. PICK q : q = [r EXCEPT !.child = d]
    OBVIOUS
  <1>4. q \in StatementRecords /\ q.child = d
    BY <1>2, <1>3 DEF StatementRecords
  <1>5. PICK u : u = [st EXCEPT ![n] = q]
    OBVIOUS
  <1>6. [st EXCEPT ![Len(st)].child = d] = u
    BY <1>1, <1>2, <1>3, <1>5
  <1>7. u \in Statements /\ Len(u) = n /\ u[n] = q
    BY <1>1, <1>4, <1>5 DEF Statements, StatementRecords
  <1>8. Newest(u, d)
    BY <1>1, <1>4, <1>7 DEF Newest, Last, Statements
  <1>9. \A i \in 1..(n - 1) : u[i] = st[i]
    BY <1>1, <1>5
  <1> QED BY <1>1, <1>6, <1>7, <1>8, <1>9

(* A statement is added to a block.                                        *)
LEMMA AddStatement ==
  ASSUME NEW st \in Statements, NEW v \in Seq(STRING)
  PROVE  /\ Append(st, [tokens |-> <<v>>, child |-> 0]) \in Statements
         /\ Newest(Append(st, [tokens |-> <<v>>, child |-> 0]), 0)
         /\ SameKids(st, Append(st, [tokens |-> <<v>>, child |-> 0]))
  <1>1. PICK q : q = [tokens |-> <<v>>, child |-> 0]
    OBVIOUS
  <1>2. q \in StatementRecords /\ q.child = 0
    <2>1. <<v>> \in Seq(Seq(STRING))
      OBVIOUS
    <2> QED BY <1>1, <2>1 DEF StatementRecords
  <1>3. PICK u : u = Append(st, q)
    OBVIOUS
  <1>4. u \in Statements /\ Len(u) = Len(st) + 1 /\ u[Len(u)] = q
    BY <1>2, <1>3 DEF Statements, StatementRecords
  <1>5. Newest(u, 0)
    BY <1>2, <1>4 DEF Newest, Last, Statements
  <1>6. SameKids(st, u)
    <2>1. Len(st) \in Nat /\ \A i \in 1..Len(st) : u[i] = st[i]
      BY <1>3 DEF Statements
    <2> QED BY <1>2, <1>4, <2>1 DEF SameKids
  <1> QED BY <1>1, <1>3, <1>4, <1>5, <1>6

(* The blocks on the stack: each was created after the one below and is    *)
(* the child of its newest statement.                                      *)
Chain(cs, bs) ==
  /\ cs[1] = 1
  /\ \A d \in 1..Len(cs) : \A e \in 1..Len(cs) : d < e => cs[d] < cs[e]
  /\ \A d \in 1..(Len(cs) - 1) : Newest(bs[cs[d]], cs[d + 1])

(* What happens to the block on top leaves the chain below as it is.       *)
LEMMA TopChanges ==
  ASSUME NEW bs \in Seq(Statements), NEW cs \in Seq(1..Len(bs)), Len(cs) > 0, Chain(cs, bs),
         NEW st \in Statements
  PROVE  /\ [bs EXCEPT ![Last(cs)] = st] \in Seq(Statements)
         /\ Len([bs EXCEPT ![Last(cs)] = st]) = Len(bs)
         /\ Last(cs) \in 1..Len(bs) /\ [bs EXCEPT ![Last(cs)] = st][Last(cs)] = st
         /\ Chain(cs, [bs EXCEPT ![Last(cs)] = st])
  <1>1. PICK k \in 1..Len(bs) : k = cs[Len(cs)] /\ k = Last(cs) /\ k \in DOMAIN bs
    BY DEF Last
  <1>2. PICK x : x = [bs EXCEPT ![k] = st]
    OBVIOUS
  <1>3. /\ x \in Seq(Statements) /\ Len(x) = Len(bs) /\ x[k] = st
        /\ \A j \in 1..Len(bs) : j # k => x[j] = bs[j]
    BY <1>1, <1>2
  <1>4. ASSUME NEW d \in 1..(Len(cs) - 1) PROVE x[cs[d]] = bs[cs[d]]
    <2>1. d \in 1..Len(cs) /\ Len(cs) \in 1..Len(cs) /\ d < Len(cs)
      OBVIOUS
    <2>2. cs[d] < cs[Len(cs)] /\ cs[d] \in 1..Len(bs)
      BY <2>1 DEF Chain
    <2> QED BY <1>1, <1>3, <2>2
  <1>5. Chain(cs, x)
    BY <1>4 DEF Chain
  <1> QED BY <1>1, <1>2, <1>3, <1>5

(* A new block goes on the tree and on the stack.                          *)
LEMMA ChainGrows ==
  ASSUME NEW bs \in Seq(Statements), NEW cs \in Seq(1..Len(bs)), Len(cs) > 0, Chain(cs, bs),
         Newest(bs[Last(cs)], Len(bs) + 1)
  PROVE  /\ Append(bs, <<>>) \in Seq(Statements)
         /\ Len(Append(bs, <<>>)) = Len(bs) + 1
         /\ Append(cs, Len(bs) + 1) \in Seq(1..(Len(bs) + 1))
         /\ Len(Append(cs, Len(bs) + 1)) = Len(cs) + 1
         /\ Chain(Append(cs, Len(bs) + 1), Append(bs, <<>>))
  <1>1. PICK z : z = <<>> /\ z \in Statements
    BY StatementsAre, Zenon
  <1>2. PICK x : x = Append(bs, z)
    OBVIOUS
  <1>3. /\ x \in Seq(Statements) /\ Len(x) = Len(bs) + 1
        /\ \A j \in 1..Len(bs) : x[j] = bs[j]
    BY <1>1, <1>2
  <1>4. PICK n \in Nat : n = Len(bs) + 1
    OBVIOUS
  <1>5. PICK y : y = Append(cs, n)
    OBVIOUS
  <1>6. /\ y \in Seq(1..n) /\ Len(y) = Len(cs) + 1 /\ y[Len(cs) + 1] = n
        /\ \A d \in 1..Len(cs) : y[d] = cs[d]
    <2>1. cs \in Seq(1..n) /\ n \in 1..n
      BY <1>4
    <2> QED BY <1>5, <2>1
  <1>7. y[1] = 1
    BY <1>6 DEF Chain
  <1>8. ASSUME NEW d \in 1..Len(y), NEW e \in 1..Len(y), d < e PROVE y[d] < y[e]
    <2>1. d \in 1..Len(cs) /\ cs[d] \in 1..Len(bs) /\ y[d] = cs[d]
      BY <1>6, <1>8
    <2>2. CASE e = Len(cs) + 1
      BY <1>4, <1>6, <2>1, <2>2
    <2>3. CASE e # Len(cs) + 1
      <3>1. e \in 1..Len(cs)
        BY <1>6, <2>3
      <3> QED BY <1>6, <1>8, <2>1, <3>1 DEF Chain
    <2> QED BY <2>2, <2>3
  <1>9. ASSUME NEW d \in 1..(Len(y) - 1) PROVE Newest(x[y[d]], y[d + 1])
    <2>1. d \in 1..Len(cs) /\ cs[d] \in 1..Len(bs) /\ y[d] = cs[d] /\ x[y[d]] = bs[cs[d]]
      BY <1>3, <1>6
    <2>2. CASE d = Len(cs)
      BY <1>4, <1>6, <2>1, <2>2 DEF Last
    <2>3. CASE d # Len(cs)
      <3>1. d \in 1..(Len(cs) - 1) /\ d + 1 \in 1..Len(cs)
        BY <2>1, <2>3
      <3> QED BY <1>6, <2>1, <3>1 DEF Chain
    <2> QED BY <2>2, <2>3
  <1>10. Chain(y, x)
    BY <1>7, <1>8, <1>9 DEF Chain
  <1> QED BY <1>1, <1>2, <1>3, <1>4, <1>5, <1>6, <1>10

(* A closed block leaves the stack.                                        *)
LEMMA ChainShrinks ==
  ASSUME NEW bs, NEW S, NEW cs \in Seq(S), Len(cs) > 1, Chain(cs, bs)
  PROVE  /\ Front(cs) \in Seq(S) /\ Len(Front(cs)) = Len(cs) - 1 /\ Chain(Front(cs), bs)
  <1>1. PICK y : y = Front(cs)
    OBVIOUS
  <1>2. /\ y \in Seq(S) /\ Len(y) = Len(cs) - 1 /\ \A d \in 1..(Len(cs) - 1) : y[d] = cs[d]
    BY <1>1 DEF Front
  <1>3. Chain(y, bs)
    <2>1. y[1] = 1
      BY <1>2 DEF Chain
    <2>2. \A d \in 1..Len(y) : \A e \in 1..Len(y) : d < e => y[d] < y[e]
      BY <1>2 DEF Chain
    <2>3. ASSUME NEW d \in 1..(Len(y) - 1) PROVE Newest(bs[y[d]], y[d + 1])
      <3>1. d \in 1..(Len(cs) - 1) /\ d + 1 \in 1..(Len(cs) - 1)
        BY <1>2
      <3>2. Newest(bs[cs[d]], cs[d + 1]) /\ y[d] = cs[d] /\ y[d + 1] = cs[d + 1]
        BY <1>2, <3>1 DEF Chain
      <3> QED BY <3>2
    <2> QED BY <2>1, <2>2, <2>3 DEF Chain
  <1> QED BY <1>1, <1>2, <1>3

-----------------------------------------------------------------------------
(* The heap is a tree.                                                     *)

Child(bs, b, i) == bs[b][i].child

(* A child was created after its parent, and every block but the outermost *)
(* is the child of exactly one statement.                                  *)
Tree(bs) ==
  /\ \A b \in 1..Len(bs) : \A i \in 1..Len(bs[b]) :
       Child(bs, b, i) = 0 \/ Child(bs, b, i) \in (b + 1)..Len(bs)
  /\ \A k \in 2..Len(bs) : \E b \in 1..Len(bs) : \E i \in 1..Len(bs[b]) :
       /\ Child(bs, b, i) = k
       /\ \A c \in 1..Len(bs) : \A j \in 1..Len(bs[c]) :
            Child(bs, c, j) = k => c = b /\ j = i

(* A token or a statement that is added leaves the tree a tree.            *)
LEMMA TreeStays ==
  ASSUME NEW bs \in Seq(Statements), NEW a \in 1..Len(bs), NEW st \in Statements,
         SameKids(bs[a], st), Tree(bs)
  PROVE  Tree([bs EXCEPT ![a] = st])
  <1>1. PICK x : x = [bs EXCEPT ![a] = st]
    OBVIOUS
  <1>2. /\ Len(x) = Len(bs) /\ Len(bs) \in Nat /\ x[a] = st
        /\ \A b \in 1..Len(bs) : b # a => x[b] = bs[b]
    BY <1>1
  <1>3. \A b \in 1..Len(bs) : bs[b] \in Statements /\ Len(bs[b]) \in Nat
    BY DEF Statements
  <1>4. Len(st) \in Nat
    BY DEF Statements
  <1>5. ASSUME NEW b \in 1..Len(bs), NEW i \in 1..Len(bs[b])
        PROVE  i \in 1..Len(x[b]) /\ Child(x, b, i) = Child(bs, b, i)
    <2>1. CASE b = a
      BY <1>2, <1>3, <1>4, <2>1 DEF SameKids, Child
    <2>2. CASE b # a
      BY <1>2, <2>2 DEF Child
    <2> QED BY <2>1, <2>2
  <1>6. ASSUME NEW b \in 1..Len(bs), NEW i \in 1..Len(x[b])
        PROVE  i \in 1..Len(bs[b]) \/ Child(x, b, i) = 0
    <2>1. CASE b = a
      BY <1>2, <1>3, <1>4, <2>1 DEF SameKids, Child
    <2>2. CASE b # a
      BY <1>2, <2>2
    <2> QED BY <2>1, <2>2
  <1>7. ASSUME NEW b \in 1..Len(x), NEW i \in 1..Len(x[b])
        PROVE  Child(x, b, i) = 0 \/ Child(x, b, i) \in (b + 1)..Len(x)
    BY <1>2, <1>5, <1>6 DEF Tree
  <1>8. ASSUME NEW k \in 2..Len(x)
        PROVE  \E b \in 1..Len(x) : \E i \in 1..Len(x[b]) :
                 /\ Child(x, b, i) = k
                 /\ \A c \in 1..Len(x) : \A j \in 1..Len(x[c]) :
                      Child(x, c, j) = k => c = b /\ j = i
    <2>0. PICK b \in 1..Len(bs) : \E i \in 1..Len(bs[b]) :
            /\ Child(bs, b, i) = k
            /\ \A c \in 1..Len(bs) : \A j \in 1..Len(bs[c]) :
                 Child(bs, c, j) = k => c = b /\ j = i
      BY <1>2 DEF Tree
    <2>1. PICK i \in 1..Len(bs[b]) :
            /\ Child(bs, b, i) = k
            /\ \A c \in 1..Len(bs) : \A j \in 1..Len(bs[c]) :
                 Child(bs, c, j) = k => c = b /\ j = i
      BY <2>0
    <2>2. ASSUME NEW c \in 1..Len(bs), NEW j \in 1..Len(x[c]), Child(x, c, j) = k
          PROVE  c = b /\ j = i
      <3>1. k # 0
        BY <1>2
      <3>2. j \in 1..Len(bs[c])
        BY <1>6, <2>2, <3>1
      <3> QED BY <1>5, <2>1, <2>2, <3>2
    <2>3. i \in 1..Len(x[b]) /\ Child(x, b, i) = k
      BY <1>5, <2>1
    <2> QED BY <1>2, <2>2, <2>3
  <1>9. Tree(x)
    BY <1>7, <1>8, Zenon DEF Tree
  <1> QED BY <1>1, <1>9

(* So does a new block, the child of a statement that had none.            *)
LEMMA TreeGrows ==
  ASSUME NEW bs \in Seq(Statements), NEW a \in 1..Len(bs), NEW st \in Statements,
         Newest(bs[a], 0), Newest(st, Len(bs) + 1), Len(st) = Len(bs[a]),
         \A i \in 1..(Len(st) - 1) : st[i] = bs[a][i], Tree(bs)
  PROVE  Tree(Append([bs EXCEPT ![a] = st], <<>>))
  <1>1. PICK z : z = <<>> /\ z \in Statements /\ Len(z) = 0
    <2>1. PICK z : z = <<>> /\ z \in Statements
      BY StatementsAre, Zenon
    <2>2. Len(z) = 0
      BY <2>1
    <2> QED BY <2>1, <2>2
  <1>2. PICK x : x = Append([bs EXCEPT ![a] = st], z)
    OBVIOUS
  <1>3. /\ Len(x) = Len(bs) + 1 /\ Len(bs) \in Nat /\ x[a] = st /\ x[Len(bs) + 1] = z
        /\ \A b \in 1..Len(bs) : b # a => x[b] = bs[b]
    <2>1. PICK y : y = [bs EXCEPT ![a] = st]
      OBVIOUS
    <2>2. /\ y \in Seq(Statements) /\ Len(y) = Len(bs) /\ y[a] = st
          /\ \A b \in 1..Len(bs) : b # a => y[b] = bs[b]
      BY <2>1
    <2> QED BY <1>1, <1>2, <2>1, <2>2
  <1>4. \A b \in 1..Len(bs) : bs[b] \in Statements /\ Len(bs[b]) \in Nat
    BY DEF Statements
  <1>5. PICK n \in Nat : n = Len(st) /\ n \in 1..Len(st) /\ n \in 1..Len(bs[a])
    BY DEF Statements, Newest
  <1>6. Child(bs, a, n) = 0 /\ Child(x, a, n) = Len(bs) + 1
    BY <1>3, <1>5 DEF Child, Newest, Last
  <1>7. ASSUME NEW b \in 1..Len(bs)
        PROVE  Len(x[b]) = Len(bs[b]) /\ Len(x[b]) \in Nat
    <2>1. CASE b = a
      BY <1>3, <1>4, <2>1
    <2>2. CASE b # a
      BY <1>3, <1>4, <2>2
    <2> QED BY <2>1, <2>2
  <1>8. ASSUME NEW b \in 1..Len(bs), NEW i \in 1..Len(x[b]), ~(b = a /\ i = n)
        PROVE  Child(x, b, i) = Child(bs, b, i)
    <2>1. CASE b = a
      <3>1. i \in 1..(n - 1)
        BY <1>3, <1>5, <1>8, <2>1
      <3> QED BY <1>3, <1>5, <2>1, <3>1 DEF Child
    <2>2. CASE b # a
      BY <1>3, <2>2 DEF Child
    <2> QED BY <2>1, <2>2
  <1>9. ASSUME NEW b \in 1..Len(x), NEW i \in 1..Len(x[b])
        PROVE  b \in 1..Len(bs) /\ i \in 1..Len(bs[b])
    <2>1. b # Len(bs) + 1
      BY <1>1, <1>3
    <2>2. b \in 1..(Len(bs) + 1) /\ Len(bs) \in Nat
      BY <1>3
    <2>3. b \in 1..Len(bs)
      BY ONLY <2>1, <2>2
    <2> QED BY <1>7, <2>3
  <1>10. ASSUME NEW b \in 1..Len(x), NEW i \in 1..Len(x[b])
         PROVE  Child(x, b, i) = 0 \/ Child(x, b, i) \in (b + 1)..Len(x)
    <2>1. CASE b = a /\ i = n
      BY <1>3, <1>6, <2>1
    <2>2. CASE ~(b = a /\ i = n)
      <3>1. b \in 1..Len(bs) /\ i \in 1..Len(bs[b])
        BY <1>9
      <3>2. Child(bs, b, i) = 0 \/ Child(bs, b, i) \in (b + 1)..Len(bs)
        BY <3>1 DEF Tree
      <3>3. Child(x, b, i) = Child(bs, b, i)
        BY <1>8, <2>2, <3>1
      <3> QED BY <1>3, <3>2, <3>3
    <2> QED BY <2>1, <2>2
  <1>11. ASSUME NEW k \in 2..Len(x)
         PROVE  \E b \in 1..Len(x) : \E i \in 1..Len(x[b]) :
                  /\ Child(x, b, i) = k
                  /\ \A c \in 1..Len(x) : \A j \in 1..Len(x[c]) :
                       Child(x, c, j) = k => c = b /\ j = i
    <2>1. CASE k = Len(bs) + 1
      <3>1. ASSUME NEW c \in 1..Len(x), NEW j \in 1..Len(x[c]), Child(x, c, j) = k
            PROVE  c = a /\ j = n
        <4> SUFFICES ASSUME ~(c = a /\ j = n) PROVE FALSE
          OBVIOUS
        <4>1. c \in 1..Len(bs) /\ j \in 1..Len(bs[c])
          BY <1>9
        <4>2. Child(bs, c, j) = k
          BY <1>8, <3>1, <4>1
        <4>3. Child(bs, c, j) = 0 \/ Child(bs, c, j) \in (c + 1)..Len(bs)
          BY <4>1 DEF Tree
        <4> QED BY <1>3, <2>1, <4>2, <4>3
      <3>2. a \in 1..Len(x) /\ n \in 1..Len(x[a]) /\ Child(x, a, n) = k
        BY <1>3, <1>5, <1>6, <2>1
      <3> QED BY <3>1, <3>2
    <2>2. CASE k # Len(bs) + 1
      <3>1. k \in 2..Len(bs) /\ k # 0
        <4>1. k \in 2..(Len(bs) + 1) /\ Len(bs) \in Nat
          BY <1>3
        <4> QED BY ONLY <2>2, <4>1
      <3>0. PICK b \in 1..Len(bs) : \E i \in 1..Len(bs[b]) :
              /\ Child(bs, b, i) = k
              /\ \A c \in 1..Len(bs) : \A j \in 1..Len(bs[c]) :
                   Child(bs, c, j) = k => c = b /\ j = i
        BY <3>1 DEF Tree
      <3>2. PICK i \in 1..Len(bs[b]) :
              /\ Child(bs, b, i) = k
              /\ \A c \in 1..Len(bs) : \A j \in 1..Len(bs[c]) :
                   Child(bs, c, j) = k => c = b /\ j = i
        BY <3>0
      <3>3. ~(b = a /\ i = n)
        BY <1>6, <3>1, <3>2
      <3>4. b \in 1..Len(x) /\ i \in 1..Len(x[b]) /\ Child(x, b, i) = k
        BY <1>3, <1>7, <1>8, <3>2, <3>3
      <3>5. ASSUME NEW c \in 1..Len(x), NEW j \in 1..Len(x[c]), Child(x, c, j) = k
            PROVE  c = b /\ j = i
        <4>1. c \in 1..Len(bs) /\ j \in 1..Len(bs[c])
          BY <1>9
        <4>2. ~(c = a /\ j = n)
          BY <1>6, <2>2, <3>5
        <4>3. Child(bs, c, j) = k
          BY <1>8, <3>5, <4>1, <4>2
        <4> QED BY <3>2, <4>1, <4>3
      <3> QED BY <3>4, <3>5
    <2> QED BY <2>1, <2>2
  <1>12. Tree(x)
    BY <1>10, <1>11, Zenon DEF Tree
  <1> QED BY <1>1, <1>2, <1>12

-----------------------------------------------------------------------------
(* The inductive invariant.                                                *)

(* Where the parser is in the file.                                        *)
Place ==
  /\ file \in Seq(STRING) \/ file = NoFile
  /\ phase \in {"open", "parse", "statements", "serve", "exit"}
  /\ phase = "open" => pos = 1
  /\ phase = "parse" => file \in Seq(STRING) /\ pos \in 1..(Len(file) + 1)
  /\ last_token_type \in TokenType /\ accepted \in BOOLEAN

(* The stack of open blocks is as high as the open braces and a chain of   *)
(* newest children; while a statement is open it is the newest one.        *)
Stack ==
  /\ blocks \in Seq(Statements) /\ config_stack \in Seq(1..Len(blocks))
  /\ start_block \in Nat /\ Len(config_stack) = start_block + 1
  /\ Chain(config_stack, blocks)
  /\ last_token_type = "NORMAL" => Newest(blocks[top], 0)

(* Every block has one parent, created before it.                          *)
BlocksFormATree == Tree(blocks)

IInv == Place /\ Stack /\ BlocksFormATree

(* A file that is parsed is a sequence of characters; Parse starts with    *)
(* the outermost block alone.                                              *)
LEMMA InitIInv == Init => IInv
  <1> SUFFICES ASSUME Init PROVE IInv
    OBVIOUS
  <1>1. Place
    BY ConfigAssumption DEF Init, Place, TokenType
  <1>2. PICK z : z = <<>> /\ z \in Statements
    BY StatementsAre, Zenon
  <1>3. blocks = <<z>> /\ config_stack = <<1>> /\ start_block = 0 /\ last_token_type = "START"
    BY <1>2, Zenon DEF Init
  <1>4. /\ blocks \in Seq(Statements) /\ Len(blocks) = 1 /\ blocks[1] = z
        /\ config_stack \in Seq(1..1) /\ Len(config_stack) = 1 /\ config_stack[1] = 1
    BY <1>2, <1>3
  <1>5. Len(z) = 0
    BY <1>2
  <1>6. Chain(config_stack, blocks)
    BY <1>4 DEF Chain
  <1>7. Stack
    BY <1>3, <1>4, <1>6 DEF Stack
  <1>8. Tree(blocks)
    BY <1>4, <1>5 DEF Tree
  <1> QED BY <1>1, <1>7, <1>8 DEF IInv, BlocksFormATree

(* The token that is read.                                                 *)
LEMMA ReadsOn ==
  ASSUME IInv, NEW ty, Reads(ty), ty \notin {"EOF", "ERROR"}
  PROVE  /\ Place' /\ phase = "parse" /\ phase' = "parse"
         /\ pos' \in (pos + 1)..(Len(file) + 1)
         /\ ty = "NORMAL" => ParseToken(file, pos).value \in Seq(STRING)
  <1>1. /\ phase = "parse" /\ phase' = phase /\ file' = file /\ accepted' = accepted
        /\ ParseToken(file, pos).type = ty /\ pos' = ParseToken(file, pos).next
        /\ last_token_type' \in {last_token_type, ty}
    BY DEF Reads
  <1>2. file \in Seq(STRING) /\ pos \in 1..(Len(file) + 1)
    BY <1>1 DEF IInv, Place
  <1>3. pos \in Nat \ {0}
    BY <1>2
  <1>4. PICK t : t = ParseToken(file, pos)
    OBVIOUS
  <1>5. TokenSound(file, pos, t)
    BY <1>2, <1>3, <1>4, ParseTokenSound
  <1>6. /\ ty \in TokenType /\ pos' \in (pos + 1)..(Len(file) + 1)
        /\ ty = "NORMAL" => t.value \in Seq(STRING)
    BY <1>1, <1>4, <1>5 DEF TokenSound
  <1>7. pos' \in 1..(Len(file) + 1)
    BY <1>2, <1>6
  <1>8. Place'
    BY <1>1, <1>2, <1>6, <1>7 DEF IInv, Place
  <1> QED BY <1>1, <1>4, <1>6, <1>8

(* Comments and semicolons leave the tree and the stack alone.             *)
LEMMA PlainTokenStep == IInv /\ (SkipComment \/ StatementEnd) => IInv'
  <1> SUFFICES ASSUME IInv, SkipComment \/ StatementEnd PROVE IInv'
    OBVIOUS
  <1>1. PICK ty \in {"COMMENT", "STATEMENT_END"} : Reads(ty)
    BY DEF SkipComment, StatementEnd
  <1>2. Place'
    BY <1>1, ReadsOn
  <1>3. UNCHANGED <<start_block, config_stack, blocks>>
    BY DEF SkipComment, StatementEnd
  <1>4. last_token_type' \in {last_token_type, "STATEMENT_END"}
    BY <1>1 DEF Reads
  <1> QED BY <1>2, <1>3, <1>4 DEF IInv, Stack, BlocksFormATree, top

(* A word goes to the newest statement of the block on top, or begins one. *)
LEMMA NormalTokenStep == IInv /\ NormalToken => IInv'
  <1> SUFFICES ASSUME IInv, NormalToken PROVE IInv'
    OBVIOUS
  <1>1. Reads("NORMAL") /\ UNCHANGED <<start_block, config_stack>>
    BY DEF NormalToken
  <1>2. PICK v : v = ParseToken(file, pos).value
    OBVIOUS
  <1>3. Place' /\ v \in Seq(STRING) /\ last_token_type' = "NORMAL"
    BY <1>1, <1>2, ReadsOn DEF Reads
  <1>4. /\ blocks \in Seq(Statements) /\ config_stack \in Seq(1..Len(blocks))
        /\ start_block \in Nat /\ Len(config_stack) = start_block + 1
        /\ Chain(config_stack, blocks) /\ Tree(blocks)
        /\ last_token_type = "NORMAL" => Newest(blocks[top], 0)
    BY DEF IInv, Stack, BlocksFormATree
  <1>5. Len(config_stack) > 0
    BY <1>4
  <1>6. PICK a \in 1..Len(blocks) : a = top
    BY <1>4, <1>5 DEF top, Last
  <1>7. PICK old \in Statements : old = blocks[a]
    BY <1>4
  <1>8. PICK new \in Statements :
          /\ blocks' = [blocks EXCEPT ![top] = new]
          /\ Newest(new, 0) /\ SameKids(old, new)
    <2>1. CASE last_token_type = "NORMAL"
      <3>1. PICK new : new = [old EXCEPT ![Len(old)].tokens = Append(@, v)]
        OBVIOUS
      <3>2. blocks' = [blocks EXCEPT ![top] = new]
        BY <1>2, <1>6, <1>7, <2>1, <3>1 DEF NormalToken
      <3>3. new \in Statements /\ Newest(new, 0) /\ SameKids(old, new)
        BY <1>3, <1>4, <1>6, <1>7, <2>1, <3>1, AddToken
      <3> QED BY <3>2, <3>3
    <2>2. CASE last_token_type # "NORMAL"
      <3>1. PICK new : new = Append(old, [tokens |-> <<v>>, child |-> 0])
        OBVIOUS
      <3>2. blocks' = [blocks EXCEPT ![top] = new]
        BY <1>2, <1>6, <1>7, <2>2, <3>1 DEF NormalToken
      <3>3. new \in Statements /\ Newest(new, 0) /\ SameKids(old, new)
        BY <1>3, <1>7, <3>1, AddStatement
      <3> QED BY <3>2, <3>3
    <2> QED BY <2>1, <2>2
  <1>9. /\ blocks' \in Seq(Statements) /\ Len(blocks') = Len(blocks)
        /\ blocks'[top] = new /\ Chain(config_stack, blocks')
    BY <1>4, <1>5, <1>8, TopChanges DEF top
  <1>10. Tree(blocks')
    BY <1>4, <1>6, <1>7, <1>8, TreeStays
  <1>11. Stack'
    <2>1. top' = top
      BY <1>1 DEF top
    <2> QED BY <1>1, <1>4, <1>8, <1>9, <2>1 DEF Stack
  <1> QED BY <1>3, <1>10, <1>11 DEF IInv, BlocksFormATree

(* A block opens: the child of the newest statement goes on the stack.     *)
LEMMA StartBlockStep == IInv /\ StartBlock => IInv'
  <1> SUFFICES ASSUME IInv, StartBlock PROVE IInv'
    OBVIOUS
  <1>1. /\ Reads("START_BLOCK") /\ last_token_type = "NORMAL"
        /\ start_block' = start_block + 1
        /\ config_stack' = Append(config_stack, Len(blocks) + 1)
    BY DEF StartBlock
  <1>2. Place' /\ last_token_type' = "START_BLOCK"
    BY <1>1, ReadsOn DEF Reads
  <1>3. /\ blocks \in Seq(Statements) /\ config_stack \in Seq(1..Len(blocks))
        /\ start_block \in Nat /\ Len(config_stack) = start_block + 1
        /\ Chain(config_stack, blocks) /\ Tree(blocks) /\ Newest(blocks[top], 0)
    BY <1>1 DEF IInv, Stack, BlocksFormATree
  <1>4. Len(config_stack) > 0 /\ Len(blocks) + 1 \in Nat
    BY <1>3
  <1>5. PICK a \in 1..Len(blocks) : a = top
    BY <1>3, <1>4 DEF top, Last
  <1>6. PICK old \in Statements : old = blocks[a]
    BY <1>3
  <1>7. PICK new : new = [old EXCEPT ![Len(old)].child = Len(blocks) + 1]
    OBVIOUS
  <1>8. /\ new \in Statements /\ Newest(new, Len(blocks) + 1) /\ Len(new) = Len(old)
        /\ \A i \in 1..(Len(old) - 1) : new[i] = old[i]
    <2>1. PICK d \in Nat : d = Len(blocks) + 1
      BY <1>4
    <2>2. new = [old EXCEPT ![Len(old)].child = d] /\ Newest(old, 0)
      BY <1>3, <1>5, <1>6, <1>7, <2>1, Zenon
    <2>3. /\ new \in Statements /\ Newest(new, d) /\ Len(new) = Len(old)
          /\ \A i \in 1..(Len(old) - 1) : new[i] = old[i]
      BY <2>2, AddChild
    <2> QED BY <2>1, <2>3, Zenon
  <1>9. PICK x : x = [blocks EXCEPT ![top] = new]
    OBVIOUS
  <1>10. blocks' = Append(x, <<>>)
    BY <1>5, <1>6, <1>7, <1>9 DEF StartBlock
  <1>11. /\ x \in Seq(Statements) /\ Len(x) = Len(blocks) /\ x[top] = new
         /\ Chain(config_stack, x)
    BY <1>3, <1>4, <1>8, <1>9, TopChanges DEF top
  <1>12. /\ blocks' \in Seq(Statements) /\ Len(blocks') = Len(blocks) + 1
         /\ config_stack' \in Seq(1..Len(blocks'))
         /\ Len(config_stack') = Len(config_stack) + 1
         /\ Chain(config_stack', blocks')
    <2>1. Newest(x[Last(config_stack)], Len(x) + 1)
      BY <1>8, <1>11 DEF top
    <2>2. config_stack \in Seq(1..Len(x))
      BY <1>3, <1>11
    <2> QED BY <1>1, <1>4, <1>10, <1>11, <2>1, <2>2, ChainGrows
  <1>13. Tree(blocks')
    <2>1. /\ Newest(blocks[a], 0) /\ Len(new) = Len(blocks[a])
          /\ \A i \in 1..(Len(new) - 1) : new[i] = blocks[a][i]
      BY <1>3, <1>5, <1>6, <1>8
    <2>2. blocks' = Append([blocks EXCEPT ![a] = new], <<>>)
      BY <1>5, <1>9, <1>10
    <2> QED BY <1>3, <1>8, <2>1, <2>2, TreeGrows
  <1>14. Stack'
    BY <1>1, <1>2, <1>3, <1>12 DEF Stack
  <1> QED BY <1>2, <1>13, <1>14 DEF IInv, BlocksFormATree

(* A block closes and leaves the stack, never the outermost one.           *)
LEMMA EndBlockStep == IInv /\ EndBlock => IInv'
  <1> SUFFICES ASSUME IInv, EndBlock PROVE IInv'
    OBVIOUS
  <1>1. /\ Reads("END_BLOCK") /\ start_block > 0 /\ start_block' = start_block - 1
        /\ config_stack' = Front(config_stack) /\ blocks' = blocks
    BY DEF EndBlock
  <1>2. Place' /\ last_token_type' = "END_BLOCK"
    BY <1>1, ReadsOn DEF Reads
  <1>3. /\ blocks \in Seq(Statements) /\ config_stack \in Seq(1..Len(blocks))
        /\ start_block \in Nat /\ Len(config_stack) = start_block + 1
        /\ Chain(config_stack, blocks) /\ Tree(blocks)
    BY DEF IInv, Stack, BlocksFormATree
  <1>4. /\ config_stack' \in Seq(1..Len(blocks)) /\ Len(config_stack') = Len(config_stack) - 1
        /\ Chain(config_stack', blocks)
    <2>1. Len(config_stack) > 1
      BY <1>1, <1>3
    <2> QED BY <1>1, <1>3, <2>1, ChainShrinks
  <1>5. Stack'
    BY <1>1, <1>2, <1>3, <1>4 DEF Stack
  <1> QED BY <1>1, <1>2, <1>3, <1>5 DEF IInv, BlocksFormATree

(* The steps of main around the loop.                                      *)
LEMMA MainStep == IInv /\ (Open \/ EndOfFile \/ BadTransition \/ ParseStatements) => IInv'
  <1> SUFFICES ASSUME IInv, Open \/ EndOfFile \/ BadTransition \/ ParseStatements PROVE IInv'
    OBVIOUS
  <1>1. UNCHANGED <<file, pos, last_token_type, start_block, config_stack, blocks>>
    BY DEF Open, EndOfFile, BadTransition, Returns, ParseStatements
  <1>2. /\ phase' \in {"parse", "statements", "serve", "exit"}
        /\ phase' = "parse" => phase = "open" /\ file # NoFile
        /\ accepted' = accepted \/ accepted' = TRUE \/ accepted' = FALSE
    BY DEF Open, EndOfFile, BadTransition, Returns, ParseStatements
  <1>3. Place'
    <2>1. accepted' \in BOOLEAN
      BY <1>2, Zenon DEF IInv, Place
    <2>2. phase' = "parse" => file' \in Seq(STRING) /\ pos' \in 1..(Len(file') + 1)
      BY <1>1, <1>2 DEF IInv, Place
    <2> QED BY <1>1, <1>2, <2>1, <2>2 DEF IInv, Place
  <1>4. Stack' /\ BlocksFormATree'
    BY <1>1 DEF IInv, Stack, BlocksFormATree, top
  <1> QED BY <1>3, <1>4 DEF IInv

(* Every step keeps the invariant.                                         *)
LEMMA NextIInv == IInv /\ [Next]_vars => IInv'
  <1>1. IInv /\ UNCHANGED vars => IInv'
    BY DEF vars, IInv, Place, Stack, BlocksFormATree, top
  <1> QED BY <1>1, PlainTokenStep, NormalTokenStep, StartBlockStep, EndBlockStep, MainStep DEF Next

-----------------------------------------------------------------------------
(* The theorems.                                                           *)

(* The invariant holds for every file.                                     *)
THEOREM Invariance == Spec => []IInv
  BY InitIInv, NextIInv, PTL DEF Spec

(* Parse never takes top() or back() of something empty: whatever the file *)
(* holds, the stack is as high as the open braces, each block on it is the *)
(* child of the newest statement of the one below, and an open statement   *)
(* is the newest one of the block on top.                                  *)
THEOREM StackIsBraces == Spec => []StackFollowsBraces
  <1>1. IInv => StackFollowsBraces
    <2> SUFFICES ASSUME IInv PROVE StackFollowsBraces
      OBVIOUS
    <2>1. /\ Len(config_stack) = start_block + 1 /\ start_block \in Nat
          /\ Chain(config_stack, blocks)
          /\ last_token_type = "NORMAL" => Newest(blocks[top], 0)
      BY DEF IInv, Stack
    <2>2. config_stack[1] = 1
      BY <2>1 DEF Chain
    <2>3. \A d \in 1..start_block : Newest(blocks[config_stack[d]], config_stack[d + 1])
      BY <2>1 DEF Chain
    <2> QED BY <2>1, <2>2, <2>3, Zenon DEF StackFollowsBraces, Newest
  <1> QED BY <1>1, Invariance, PTL

(* The heap Parse builds is a tree at every moment: no block is lost or    *)
(* owned twice when a unique_ptr is moved into a statement, and a child is *)
(* created after its parent, so that ToString ends.                        *)
THEOREM TreeIsOwnedOnce == Spec => []BlocksFormATree
  <1>1. IInv => BlocksFormATree
    BY DEF IInv
  <1> QED BY <1>1, Invariance, PTL

(* A step of main: the position moves on inside the file, or a phase ends  *)
(* for good.                                                               *)
Advances ==
  \/ phase = "parse" /\ phase' = "parse" /\ pos' \in (pos + 1)..(Len(file) + 1)
  \/ phase = "open" /\ phase' \in {"parse", "statements"}
  \/ phase = "parse" /\ phase' = "statements"
  \/ phase = "statements" /\ phase' \in {"serve", "exit"}

(* No turn of the parse loop stays where it is, whatever the file holds:   *)
(* a file of n characters is parsed in at most n turns.                    *)
THEOREM EveryStepAdvances == Spec => [][Advances]_vars
  <1>1. IInv /\ [Next]_vars => [Advances]_vars
    <2> SUFFICES ASSUME IInv, Next PROVE Advances
      BY DEF vars
    <2>1. ASSUME NEW ty \in {"COMMENT", "NORMAL", "STATEMENT_END", "START_BLOCK", "END_BLOCK"},
                 Reads(ty)
          PROVE  Advances
      <3>1. phase = "parse" /\ phase' = "parse" /\ pos' \in (pos + 1)..(Len(file) + 1)
        BY <2>1, ReadsOn
      <3> QED BY <3>1 DEF Advances
    <2>2. CASE SkipComment \/ NormalToken \/ StatementEnd \/ StartBlock \/ EndBlock
      BY <2>1, <2>2 DEF SkipComment, NormalToken, StatementEnd, StartBlock, EndBlock
    <2>3. CASE Open \/ EndOfFile \/ BadTransition \/ ParseStatements
      BY <2>3 DEF Open, EndOfFile, BadTransition, Returns, ParseStatements, Advances
    <2> QED BY <2>2, <2>3 DEF Next
  <1> QED BY <1>1, Invariance, PTL DEF Spec

-----------------------------------------------------------------------------
(* The tokens before a position.                                           *)

(* The loop ends at the token at q; what it adds to the tokens; the  *)
(* tokens of f.                                                            *)
Stops(f, q) == ParseToken(f, q).type \in {"EOF", "ERROR"}
TokenAt(f, q) == [type |-> ParseToken(f, q).type, value |-> ParseToken(f, q).value]
Adds(f, q) == IF ParseToken(f, q).type = "COMMENT" THEN <<>> ELSE <<TokenAt(f, q)>>
TokensOf(f) == {TokenAt(f, q) : q \in Nat \ {0}}

(* The positions of a file, one behind each of them for the recursions.    *)
LEMMA NextInside ==
  ASSUME NEW f \in Seq(STRING), NEW q \in 1..(Len(f) + 2), ~Stops(f, q)
  PROVE  ParseToken(f, q).next \in (q + 1)..(Len(f) + 1)
  <1>1. TokenSound(f, q, ParseToken(f, q))
    BY ParseTokenSound
  <1> QED BY <1>1 DEF TokenSound, Stops

(* The loop adds tokens of the file, one or none.                          *)
LEMMA AddsTokens ==
  ASSUME NEW f \in Seq(STRING), NEW q \in Nat \ {0}
  PROVE  Adds(f, q) \in Seq(TokensOf(f))
  <1>1. TokenAt(f, q) \in TokensOf(f)
    BY DEF TokensOf
  <1>2. PICK t \in TokensOf(f) : t = TokenAt(f, q)
    BY <1>1
  <1>3. <<t>> \in Seq(TokensOf(f))
    OBVIOUS
  <1> QED BY <1>2, <1>3, EmptySeq, Zenon DEF Adds

(* r is the recursion of TokensBefore(f, p).                               *)
Rests(f, p, r) ==
  /\ r \in [1..(Len(f) + 2) -> Seq(TokensOf(f))]
  /\ \A q \in 1..(Len(f) + 2) :
       r[q] = IF q >= p \/ Stops(f, q) THEN <<>>
              ELSE Adds(f, q) \o r[ParseToken(f, q).next]

(* TokensBefore is defined by its recursion, which ends because a token    *)
(* moves the position on.                                                  *)
LEMMA TokensBeforeIs ==
  ASSUME NEW f \in Seq(STRING), NEW p \in Nat
  PROVE  \E r : Rests(f, p, r) /\ TokensBefore(f, p) = r[1]
  <1>1. PICK n \in Nat : n = Len(f) + 2
    OBVIOUS
  <1>2. PICK D : D = 1..(Len(f) + 2)
    OBVIOUS
  <1>3. PICK A : A = Seq(TokensOf(f))
    OBVIOUS
  <1> DEFINE B(g, q) == IF q >= p \/ Stops(f, q) THEN <<>>
                        ELSE Adds(f, q) \o g[ParseToken(f, q).next]
  <1>4. PICK m : m = [q \in D |-> n - q]
    OBVIOUS
  <1>5. Measure(m, D, n)
    BY <1>1, <1>2, <1>4 DEF Measure
  <1>6. ASSUME NEW q \in D, ~Stops(f, q)
        PROVE  ParseToken(f, q).next \in D /\ m[ParseToken(f, q).next] < m[q]
    <2>1. ParseToken(f, q).next \in (q + 1)..(Len(f) + 1)
      BY <1>2, <1>6, NextInside
    <2> QED BY <1>1, <1>2, <1>4, <2>1
  <1>7. ASSUME NEW g, NEW h, NEW q \in D, \A y \in D : m[y] < m[q] => g[y] = h[y]
        PROVE  B(g, q) = B(h, q)
    BY <1>6, <1>7, Zenon
  <1>8. ASSUME NEW g \in [D -> A], NEW q \in D PROVE B(g, q) \in A
    <2>1. CASE q >= p \/ Stops(f, q)
      <3>1. B(g, q) = <<>>
        BY <2>1, Zenon
      <3> QED BY <1>3, <3>1, EmptySeq
    <2>2. CASE ~(q >= p \/ Stops(f, q))
      <3>1. PICK x : x = g[ParseToken(f, q).next]
        OBVIOUS
      <3>2. x \in A
        BY <1>6, <2>2, <3>1
      <3>3. PICK y : y = Adds(f, q)
        OBVIOUS
      <3>4. q \in Nat \ {0}
        BY <1>2
      <3>5. y \in A
        BY <1>3, <3>3, <3>4, AddsTokens
      <3>6. y \o x \in A
        BY <1>3, <3>2, <3>5, ConcatIndex
      <3>7. B(g, q) = y \o x
        BY <2>2, <3>1, <3>3, Zenon
      <3> QED BY <3>6, <3>7
    <2> QED BY <2>1, <2>2
  <1>9. PICK F : F = [g \in [D -> A] |-> [q \in D |-> B(g, q)]]
    OBVIOUS
  <1>10. Recursion(F, D, A, m, n)
    <2>1. F \in [[D -> A] -> [D -> A]]
      BY <1>8, <1>9, Zenon
    <2>2. ASSUME NEW g \in [D -> A], NEW q \in D PROVE F[g][q] = B(g, q)
      BY <1>9, Zenon
    <2>3. A # {}
      BY <1>3, EmptySeq
    <2> HIDE DEF B
    <2>4. ASSUME NEW g \in [D -> A], NEW h \in [D -> A], NEW q \in D,
                 \A y \in D : m[y] < m[q] => g[y] = h[y]
          PROVE  F[g][q] = F[h][q]
      <3>1. B(g, q) = B(h, q)
        BY <1>7, <2>4
      <3> QED BY <2>2, <3>1
    <2> QED BY <1>5, <2>1, <2>3, <2>4, Zenon DEF Recursion
  <1>11. PICK g \in [D -> A] : g = F[g]
    BY <1>10, RecursionDefines, SMT
  <1>12. g = [q \in D |-> B(g, q)]
    BY <1>9, <1>11, Zenon
  <1>13. PICK r : r = CHOOSE any : any = [q \in D |-> B(any, q)]
    OBVIOUS
  <1>14. r = [q \in D |-> B(r, q)]
    BY <1>12, <1>13, Zenon
  <1>15. TokensBefore(f, p) = r[1]
    BY <1>2, <1>13, Zenon DEF TokensBefore, Stops, Adds, TokenAt
  <1>16. r = g
    <2> HIDE DEF B
    <2>1. r = [q \in D |-> r[q]] /\ g = [q \in D |-> g[q]]
      BY <1>11, <1>14, Zenon
    <2>2. \A q \in D : (\A y \in D : m[y] < m[q] => r[y] = g[y]) => r[q] = g[q]
      BY <1>7, <1>12, <1>14
    <2>3. Agree(r, g, D, m)
      BY <2>1, <2>2, Zenon DEF Agree
    <2> QED BY <1>5, <2>3, RecursionUnique, SMT
  <1>17. Rests(f, p, r)
    BY <1>2, <1>3, <1>11, <1>12, <1>16, Zenon DEF Rests
  <1> QED BY <1>15, <1>17

(* Reading f token by token from its beginning, the loop comes to p.       *)
Comes(f, p, K) ==
  /\ K \in SUBSET (1..p) /\ 1 \in K /\ p \in K
  /\ \A q \in K : q # p => ~Stops(f, q) /\ ParseToken(f, q).next \in K
Reached(f, p) == \E K : Comes(f, p, K)

(* The tokens before a later position are those before p and then those    *)
(* the recursion finds from p on.                                          *)
LEMMA TokensSplit ==
  ASSUME NEW f \in Seq(STRING), NEW p \in 1..(Len(f) + 1), Reached(f, p),
         NEW r \in Nat, p <= r, NEW s, Rests(f, r, s)
  PROVE  s[1] = TokensBefore(f, p) \o s[p]
  <1>1. PICK K : Comes(f, p, K)
    BY DEF Reached
  <1>2. PICK u : Rests(f, p, u) /\ TokensBefore(f, p) = u[1]
    BY TokensBeforeIs
  <1>3. p \in Nat /\ Len(f) \in Nat
    OBVIOUS
  <1> DEFINE Bad == {q \in K : s[q] # u[q] \o s[p]}
  <1>4. Bad = {}
    <2> SUFFICES ASSUME Bad # {} PROVE FALSE
      OBVIOUS
    <2>1. Bad \in SUBSET (1..p)
      BY <1>1 DEF Comes
    <2> HIDE DEF Bad
    <2>2. PICK q \in Bad : \A c \in Bad : c <= q
      BY <1>3, <2>1, LastIndex
    <2>3. q \in K /\ s[q] # u[q] \o s[p]
      BY DEF Bad
    <2>4. q \in 1..p /\ q \in 1..(Len(f) + 2)
      BY <1>3, <2>1
    <2>5. PICK A : A = Seq(TokensOf(f))
      OBVIOUS
    <2>6. p \in 1..(Len(f) + 2) /\ s[p] \in A
      BY <1>3, <2>5 DEF Rests
    <2>7. CASE q = p
      <3>1. u[q] = <<>>
        BY <1>2, <1>3, <2>4, <2>7 DEF Rests
      <3>2. <<>> \o s[p] = s[p]
        BY <2>5, <2>6
      <3> QED BY <2>3, <2>7, <3>1, <3>2
    <2>8. CASE q # p
      <3>1. PICK y : y = ParseToken(f, q).next
        OBVIOUS
      <3>2. ~Stops(f, q) /\ y \in K
        BY <1>1, <2>3, <2>8, <3>1 DEF Comes
      <3>3. y \in (q + 1)..(Len(f) + 1)
        BY <2>4, <3>1, <3>2, NextInside
      <3>4. y \notin Bad
        BY <2>2, <2>4, <3>3
      <3>5. s[y] = u[y] \o s[p]
        BY <3>2, <3>4 DEF Bad
      <3>6. ~(q >= p) /\ ~(q >= r) /\ y \in 1..(Len(f) + 2) /\ q \in Nat \ {0}
        BY <1>3, <2>4, <2>8, <3>3
      <3>7. u[q] = Adds(f, q) \o u[y]
        BY <1>2, <2>4, <3>1, <3>2, <3>6, Zenon DEF Rests
      <3>8. s[q] = Adds(f, q) \o s[y]
        BY <2>4, <3>1, <3>2, <3>6, Zenon DEF Rests
      <3>9. PICK a \in A : a = Adds(f, q)
        BY <2>5, <3>6, AddsTokens
      <3>10. PICK b \in A : b = u[y]
        BY <1>2, <2>5, <3>6 DEF Rests
      <3>11. PICK c \in A : c = s[p]
        BY <2>6
      <3>12. (a \o b) \o c = a \o (b \o c)
        BY <2>5
      <3>13. s[q] = u[q] \o s[p]
        BY <3>5, <3>7, <3>8, <3>9, <3>10, <3>11, <3>12, Zenon
      <3> QED BY <2>3, <3>13
    <2> QED BY <2>7, <2>8
  <1>5. 1 \in K
    BY <1>1 DEF Comes
  <1> QED BY <1>2, <1>4, <1>5

(* One token more, or a comment.                                           *)
LEMMA TokensStep ==
  ASSUME NEW f \in Seq(STRING), NEW p \in 1..(Len(f) + 1), Reached(f, p), ~Stops(f, p),
         NEW r, r = ParseToken(f, p).next
  PROVE  /\ r \in (p + 1)..(Len(f) + 1) /\ Reached(f, r)
         /\ TokensBefore(f, r) = TokensBefore(f, p) \o Adds(f, p)
  <1>1. p \in 1..(Len(f) + 2) /\ p \in Nat \ {0} /\ Len(f) \in Nat
    OBVIOUS
  <1>2. r \in (p + 1)..(Len(f) + 1)
    BY <1>1, NextInside
  <1>3. r \in Nat /\ p <= r /\ r \in 1..(Len(f) + 2) /\ ~(p >= r)
    BY <1>1, <1>2
  <1>4. PICK s : Rests(f, r, s) /\ TokensBefore(f, r) = s[1]
    BY <1>3, TokensBeforeIs
  <1>5. s[1] = TokensBefore(f, p) \o s[p]
    BY <1>3, <1>4, TokensSplit
  <1>6. s[p] = Adds(f, p) \o s[r]
    BY <1>1, <1>3, <1>4, Zenon DEF Rests
  <1>7. s[r] = <<>>
    <2>1. r >= r
      BY <1>3
    <2> QED BY <1>3, <1>4, <2>1, Zenon DEF Rests
  <1>8. Adds(f, p) \o <<>> = Adds(f, p)
    <2>1. PICK a \in Seq(TokensOf(f)) : a = Adds(f, p)
      BY <1>1, AddsTokens
    <2>2. a \o <<>> = a
      OBVIOUS
    <2> QED BY <2>1, <2>2
  <1>9. Reached(f, r)
    <2>1. PICK K : Comes(f, p, K)
      BY DEF Reached
    <2>2. PICK L : L = K \cup {r}
      OBVIOUS
    <2>3. K \in SUBSET (1..p) /\ 1 \in K /\ p \in K
      BY <2>1 DEF Comes
    <2>4. L \in SUBSET (1..r) /\ 1 \in L /\ r \in L
      <3>1. ASSUME NEW q \in K PROVE q \in 1..r
        <4>1. q \in 1..p
          BY <2>3
        <4> QED BY <1>1, <1>3, <4>1
      <3>2. r \in 1..r
        BY <1>3
      <3> QED BY <2>2, <2>3, <3>1, <3>2
    <2>5. ASSUME NEW q \in L, q # r PROVE ~Stops(f, q) /\ ParseToken(f, q).next \in L
      <3>1. q \in K
        BY <2>2, <2>5
      <3>2. CASE q = p
        BY <2>2, <3>2
      <3>3. CASE q # p
        BY <2>1, <2>2, <3>1, <3>3 DEF Comes
      <3> QED BY <3>2, <3>3
    <2>6. Comes(f, r, L)
      BY <2>4, <2>5, Zenon DEF Comes
    <2> QED BY <2>6 DEF Reached
  <1> QED BY <1>2, <1>4, <1>5, <1>6, <1>7, <1>8, <1>9, Zenon

(* All tokens are those before p if the loop ends at p.                    *)
LEMMA TokensEnd ==
  ASSUME NEW f \in Seq(STRING), NEW p \in 1..(Len(f) + 1), Reached(f, p), Stops(f, p)
  PROVE  AllTokens(f) = TokensBefore(f, p)
  <1>1. p \in 1..(Len(f) + 2) /\ Len(f) + 1 \in Nat /\ p <= Len(f) + 1 /\ p \in Nat
    OBVIOUS
  <1>2. PICK s : Rests(f, Len(f) + 1, s) /\ TokensBefore(f, Len(f) + 1) = s[1]
    BY <1>1, TokensBeforeIs
  <1>3. s[1] = TokensBefore(f, p) \o s[p]
    BY <1>1, <1>2, TokensSplit
  <1>4. s[p] = <<>>
    BY <1>1, <1>2, Zenon DEF Rests
  <1>5. PICK u : Rests(f, p, u) /\ TokensBefore(f, p) = u[1]
    BY <1>1, TokensBeforeIs
  <1>6. 1 \in 1..(Len(f) + 2)
    BY <1>1
  <1>7. PICK a \in Seq(TokensOf(f)) : a = TokensBefore(f, p)
    BY <1>5, <1>6 DEF Rests
  <1>8. a \o <<>> = a
    OBVIOUS
  <1> QED BY <1>2, <1>3, <1>4, <1>7, <1>8, Zenon DEF AllTokens

(* Those before p, the one at p and others if the loop goes on.            *)
LEMMA TokensMore ==
  ASSUME NEW f \in Seq(STRING), NEW p \in 1..(Len(f) + 1), Reached(f, p), ~Stops(f, p)
  PROVE  \E x \in Seq(TokensOf(f)) :
           AllTokens(f) = (TokensBefore(f, p) \o Adds(f, p)) \o x
  <1>1. PICK r : r = ParseToken(f, p).next
    OBVIOUS
  <1>2. /\ r \in (p + 1)..(Len(f) + 1) /\ Reached(f, r)
        /\ TokensBefore(f, r) = TokensBefore(f, p) \o Adds(f, p)
    BY <1>1, TokensStep
  <1>3. r \in 1..(Len(f) + 1) /\ r \in 1..(Len(f) + 2) /\ Len(f) + 1 \in Nat /\ r <= Len(f) + 1
    BY <1>2
  <1>4. PICK s : Rests(f, Len(f) + 1, s) /\ TokensBefore(f, Len(f) + 1) = s[1]
    BY <1>3, TokensBeforeIs
  <1>5. s[1] = TokensBefore(f, r) \o s[r]
    BY <1>2, <1>3, <1>4, TokensSplit
  <1>6. s[r] \in Seq(TokensOf(f))
    BY <1>3, <1>4 DEF Rests
  <1> QED BY <1>2, <1>4, <1>5, <1>6, Zenon DEF AllTokens

(* At the beginning.                                                       *)
LEMMA TokensStart ==
  ASSUME NEW f \in Seq(STRING)
  PROVE  TokensBefore(f, 1) = <<>> /\ Reached(f, 1)
  <1>1. PICK u : Rests(f, 1, u) /\ TokensBefore(f, 1) = u[1]
    BY TokensBeforeIs
  <1>2. 1 \in 1..(Len(f) + 2) /\ 1 >= 1
    OBVIOUS
  <1>3. u[1] = <<>>
    BY <1>1, <1>2, Zenon DEF Rests
  <1>4. Comes(f, 1, {1})
    BY DEF Comes
  <1> QED BY <1>1, <1>3, <1>4 DEF Reached

(* The tokens before a position are tokens of f.                           *)
LEMMA TokensAre ==
  ASSUME NEW f \in Seq(STRING), NEW p \in Nat
  PROVE  TokensBefore(f, p) \in Seq(TokensOf(f))
  <1>1. PICK u : Rests(f, p, u) /\ TokensBefore(f, p) = u[1]
    BY TokensBeforeIs
  <1>2. 1 \in 1..(Len(f) + 2)
    OBVIOUS
  <1> QED BY <1>1, <1>2 DEF Rests

(* r is the recursion of OpenQuote(f).                                     *)
Failings(f, r) ==
  /\ r \in [1..(Len(f) + 2) -> BOOLEAN]
  /\ \A q \in 1..(Len(f) + 2) :
       r[q] = (\/ ParseToken(f, q).type = "ERROR"
               \/ ParseToken(f, q).type # "EOF" /\ r[ParseToken(f, q).next])

(* So is OpenQuote.                                                        *)
LEMMA OpenQuoteIs ==
  ASSUME NEW f \in Seq(STRING)
  PROVE  \E r : Failings(f, r) /\ OpenQuote(f) = r[1]
  <1>1. PICK n \in Nat : n = Len(f) + 2
    OBVIOUS
  <1>2. PICK D : D = 1..(Len(f) + 2)
    OBVIOUS
  <1> DEFINE B(g, q) == \/ ParseToken(f, q).type = "ERROR"
                        \/ ParseToken(f, q).type # "EOF" /\ g[ParseToken(f, q).next]
  <1>4. PICK m : m = [q \in D |-> n - q]
    OBVIOUS
  <1>5. Measure(m, D, n)
    BY <1>1, <1>2, <1>4 DEF Measure
  <1>6. ASSUME NEW q \in D, ~Stops(f, q)
        PROVE  ParseToken(f, q).next \in D /\ m[ParseToken(f, q).next] < m[q]
    <2>1. ParseToken(f, q).next \in (q + 1)..(Len(f) + 1)
      BY <1>2, <1>6, NextInside
    <2> QED BY <1>1, <1>2, <1>4, <2>1
  <1>7. ASSUME NEW g, NEW h, NEW q \in D, \A y \in D : m[y] < m[q] => g[y] = h[y]
        PROVE  B(g, q) = B(h, q)
    <2>1. CASE Stops(f, q)
      BY <2>1, Zenon DEF Stops
    <2>2. CASE ~Stops(f, q)
      <3>1. g[ParseToken(f, q).next] = h[ParseToken(f, q).next]
        BY <1>6, <1>7, <2>2, Zenon
      <3> QED BY <3>1, Zenon
    <2> QED BY <2>1, <2>2
  <1>8. ASSUME NEW g, NEW q PROVE B(g, q) \in BOOLEAN
    BY Zenon
  <1>9. PICK F : F = [g \in [D -> BOOLEAN] |-> [q \in D |-> B(g, q)]]
    OBVIOUS
  <1>10. Recursion(F, D, BOOLEAN, m, n)
    <2>1. F \in [[D -> BOOLEAN] -> [D -> BOOLEAN]]
      <3> HIDE DEF B
      <3> QED BY <1>8, <1>9, Zenon
    <2>2. ASSUME NEW g \in [D -> BOOLEAN], NEW q \in D PROVE F[g][q] = B(g, q)
      BY <1>9, Zenon
    <2>3. BOOLEAN # {}
      OBVIOUS
    <2> HIDE DEF B
    <2>4. ASSUME NEW g \in [D -> BOOLEAN], NEW h \in [D -> BOOLEAN], NEW q \in D,
                 \A y \in D : m[y] < m[q] => g[y] = h[y]
          PROVE  F[g][q] = F[h][q]
      <3>1. B(g, q) = B(h, q)
        BY <1>7, <2>4
      <3> QED BY <2>2, <3>1
    <2> QED BY <1>5, <2>1, <2>3, <2>4, Zenon DEF Recursion
  <1>11. PICK g \in [D -> BOOLEAN] : g = F[g]
    BY <1>10, RecursionDefines, SMT
  <1>12. g = [q \in D |-> B(g, q)]
    BY <1>9, <1>11, Zenon
  <1>13. PICK r : r = CHOOSE any : any = [q \in D |-> B(any, q)]
    OBVIOUS
  <1>14. r = [q \in D |-> B(r, q)]
    BY <1>12, <1>13, Zenon
  <1>15. OpenQuote(f) = r[1]
    BY <1>2, <1>13, Zenon DEF OpenQuote
  <1>16. r \in [D -> BOOLEAN]
    <2> HIDE DEF B
    <2> QED BY <1>8, <1>14, Zenon
  <1>17. Failings(f, r)
    BY <1>2, <1>14, <1>16, Zenon DEF Failings
  <1> QED BY <1>15, <1>17

(* A quote is open iff the loop comes to it.                               *)
LEMMA OpenQuoteAt ==
  ASSUME NEW f \in Seq(STRING), NEW p \in 1..(Len(f) + 1), Reached(f, p)
  PROVE  /\ ParseToken(f, p).type = "ERROR" => OpenQuote(f)
         /\ ParseToken(f, p).type = "EOF" => ~OpenQuote(f)
  <1>1. PICK r : Failings(f, r) /\ OpenQuote(f) = r[1]
    BY OpenQuoteIs
  <1>2. PICK K : Comes(f, p, K)
    BY DEF Reached
  <1>3. p \in Nat /\ Len(f) \in Nat
    OBVIOUS
  <1> DEFINE Bad == {q \in K : r[q] # r[p]}
  <1>4. Bad = {}
    <2> SUFFICES ASSUME Bad # {} PROVE FALSE
      OBVIOUS
    <2>1. Bad \in SUBSET (1..p)
      BY <1>2 DEF Comes
    <2> HIDE DEF Bad
    <2>2. PICK q \in Bad : \A c \in Bad : c <= q
      BY <1>3, <2>1, LastIndex
    <2>3. q \in K /\ r[q] # r[p]
      BY DEF Bad
    <2>4. q \in 1..p /\ q \in 1..(Len(f) + 2) /\ q # p
      BY <1>3, <2>1, <2>3
    <2>5. PICK y : y = ParseToken(f, q).next
      OBVIOUS
    <2>6. ~Stops(f, q) /\ y \in K
      BY <1>2, <2>3, <2>4, <2>5 DEF Comes
    <2>7. y \in (q + 1)..(Len(f) + 1)
      BY <2>4, <2>5, <2>6, NextInside
    <2>8. y \notin Bad /\ y \in 1..(Len(f) + 2)
      BY <2>2, <2>4, <2>7
    <2>9. r[y] = r[p]
      BY <2>6, <2>8 DEF Bad
    <2>10. r[q] = r[y]
      BY <1>1, <2>4, <2>5, <2>6, <2>8, Zenon DEF Failings, Stops
    <2> QED BY <2>3, <2>9, <2>10
  <1>5. r[1] = r[p]
    BY <1>2, <1>4 DEF Comes
  <1>6. p \in 1..(Len(f) + 2)
    BY <1>3
  <1> QED BY <1>1, <1>5, <1>6, Zenon DEF Failings

-----------------------------------------------------------------------------
(* The depth of a token: the braces open behind the first k tokens.        *)

Braces(ts, k, ty) == {x \in 1..k : ts[x].type = ty}
Height(ts, k) == Cardinality(Braces(ts, k, "START_BLOCK")) - Cardinality(Braces(ts, k, "END_BLOCK"))

(* Counting the tokens of a type.                                          *)
LEMMA BracesCount ==
  ASSUME NEW ts, NEW ty
  PROVE  /\ \A k \in Nat : Cardinality(Braces(ts, k, ty)) \in Nat
         /\ Cardinality(Braces(ts, 0, ty)) = 0
         /\ \A k \in Nat \ {0} :
              Cardinality(Braces(ts, k, ty))
              = Cardinality(Braces(ts, k - 1, ty)) + (IF ts[k].type = ty THEN 1 ELSE 0)
  <1>1. ASSUME NEW k \in Nat
        PROVE  IsFiniteSet(Braces(ts, k, ty)) /\ Cardinality(Braces(ts, k, ty)) \in Nat
    <2>1. IsFiniteSet(1..k)
      BY FS_Interval
    <2>2. Braces(ts, k, ty) \in SUBSET (1..k)
      BY DEF Braces
    <2>3. IsFiniteSet(Braces(ts, k, ty))
      BY <2>1, <2>2, FS_Subset
    <2> QED BY <2>3, FS_CardinalityType
  <1>2. Cardinality(Braces(ts, 0, ty)) = 0
    <2>1. Braces(ts, 0, ty) = {}
      BY DEF Braces
    <2> QED BY <2>1, FS_EmptySet
  <1>3. ASSUME NEW k \in Nat \ {0}
        PROVE  Cardinality(Braces(ts, k, ty))
               = Cardinality(Braces(ts, k - 1, ty)) + (IF ts[k].type = ty THEN 1 ELSE 0)
    <2>0. k - 1 \in Nat /\ 1..k = (1..(k - 1)) \cup {k} /\ k \notin 1..(k - 1)
      OBVIOUS
    <2>1. PICK b : b = Braces(ts, k - 1, ty)
      OBVIOUS
    <2>2. IsFiniteSet(b) /\ Cardinality(b) \in Nat /\ k \notin b
      BY <1>1, <2>0, <2>1 DEF Braces
    <2>3. CASE ts[k].type = ty
      <3>1. Braces(ts, k, ty) = b \cup {k}
        BY <2>0, <2>1, <2>3 DEF Braces
      <3>2. Cardinality(b \cup {k}) = Cardinality(b) + 1
        BY <2>2, FS_AddElement
      <3> QED BY <2>1, <2>3, <3>1, <3>2
    <2>4. CASE ts[k].type # ty
      <3>1. Braces(ts, k, ty) = b
        BY <2>0, <2>1, <2>4 DEF Braces
      <3> QED BY <2>1, <2>2, <2>4, <3>1
    <2> QED BY <2>3, <2>4
  <1> QED BY <1>1, <1>2, <1>3

(* The depth changes with the braces alone.                                *)
LEMMA HeightIs ==
  ASSUME NEW ts
  PROVE  /\ \A k \in Nat : Height(ts, k) \in Int
         /\ Height(ts, 0) = 0
         /\ \A k \in Nat \ {0} :
              /\ ts[k].type = "START_BLOCK" => Height(ts, k) = Height(ts, k - 1) + 1
              /\ ts[k].type = "END_BLOCK" => Height(ts, k) = Height(ts, k - 1) - 1
              /\ ts[k].type \notin {"START_BLOCK", "END_BLOCK"} =>
                   Height(ts, k) = Height(ts, k - 1)
  <1>1. PICK s : s = [k \in Nat |-> Cardinality(Braces(ts, k, "START_BLOCK"))]
    OBVIOUS
  <1>2. PICK e : e = [k \in Nat |-> Cardinality(Braces(ts, k, "END_BLOCK"))]
    OBVIOUS
  <1>3. /\ s \in [Nat -> Nat] /\ s[0] = 0
        /\ \A k \in Nat \ {0} : s[k] = s[k - 1] + (IF ts[k].type = "START_BLOCK" THEN 1 ELSE 0)
    BY <1>1, BracesCount
  <1>4. /\ e \in [Nat -> Nat] /\ e[0] = 0
        /\ \A k \in Nat \ {0} : e[k] = e[k - 1] + (IF ts[k].type = "END_BLOCK" THEN 1 ELSE 0)
    BY <1>2, BracesCount
  <1>5. \A k \in Nat : Height(ts, k) = s[k] - e[k]
    BY <1>1, <1>2 DEF Height
  <1>6. ASSUME NEW k \in Nat \ {0}
        PROVE  /\ ts[k].type = "START_BLOCK" => Height(ts, k) = Height(ts, k - 1) + 1
               /\ ts[k].type = "END_BLOCK" => Height(ts, k) = Height(ts, k - 1) - 1
               /\ ts[k].type \notin {"START_BLOCK", "END_BLOCK"} =>
                    Height(ts, k) = Height(ts, k - 1)
    <2>1. k - 1 \in Nat
      OBVIOUS
    <2>2. Height(ts, k) = s[k] - e[k] /\ Height(ts, k - 1) = s[k - 1] - e[k - 1]
      BY <1>5, <2>1
    <2> QED BY <1>3, <1>4, <2>1, <2>2
  <1>7. \A k \in Nat : Height(ts, k) \in Int
    BY <1>3, <1>4, <1>5
  <1>8. Height(ts, 0) = 0
    BY <1>3, <1>4, <1>5
  <1> QED BY <1>6, <1>7, <1>8

(* Only the tokens before it say whether a token is outermost.             *)
LEMMA HeightSame ==
  ASSUME NEW ts, NEW us, NEW k \in Nat, \A x \in 1..k : ts[x] = us[x]
  PROVE  Height(ts, k) = Height(us, k)
  <1>1. Braces(ts, k, "START_BLOCK") = Braces(us, k, "START_BLOCK")
    BY DEF Braces
  <1>2. Braces(ts, k, "END_BLOCK") = Braces(us, k, "END_BLOCK")
    BY DEF Braces
  <1> QED BY <1>1, <1>2 DEF Height

(* A token is outermost iff the depth before it is zero.                   *)
LEMMA OutermostIs ==
  ASSUME NEW ts, NEW i \in Nat \ {0}
  PROVE  Outermost(ts, i) <=> Height(ts, i - 1) = 0
  <1>1. PICK a : a = Cardinality(Braces(ts, i - 1, "START_BLOCK"))
    OBVIOUS
  <1>2. PICK b : b = Cardinality(Braces(ts, i - 1, "END_BLOCK"))
    OBVIOUS
  <1>3. a \in Nat /\ b \in Nat
    <2>1. i - 1 \in Nat
      OBVIOUS
    <2> QED BY <1>1, <1>2, <2>1, BracesCount
  <1>4. Outermost(ts, i) <=> a = b
    BY <1>1, <1>2, Zenon DEF Outermost, Braces
  <1>5. Height(ts, i - 1) = a - b
    BY <1>1, <1>2 DEF Height
  <1> QED BY <1>3, <1>4, <1>5


-----------------------------------------------------------------------------
(* The grammar.                                                            *)

(* The first statement of tokens i to j is the tokens i to k, its words    *)
(* the tokens i to m; g tells which stretches are statements.              *)
Derives(ts, g, i, j) ==
  \E k \in i..j : \E m \in i..(k - 1) :
    /\ \A x \in i..m : ts[x].type = "NORMAL"
    /\ \/ m + 1 = k /\ ts[k].type = "STATEMENT_END"
       \/ /\ ts[m + 1].type = "START_BLOCK"
          /\ ts[k].type = "END_BLOCK"
          /\ m + 2 < k
          /\ g[<<m + 2, k - 1>>]
    /\ k = j \/ g[<<k + 1, j>>]

Stretches(ts) == (1..(Len(ts) + 1)) \X (0..Len(ts))
Derivation(ts, g) ==
  /\ g \in [Stretches(ts) -> BOOLEAN]
  /\ \A i \in 1..(Len(ts) + 1) : \A j \in 0..Len(ts) :
       g[<<i, j>>] <=> Derives(ts, g, i, j)

Size(i, j) == IF i <= j THEN j + 1 - i ELSE 0

(* What the grammar derives from a stretch of tokens depends on shorter    *)
(* stretches alone.                                                        *)
LEMMA DerivesAlike ==
  ASSUME NEW T, NEW ts \in Seq(T), NEW i \in 1..(Len(ts) + 1), NEW j \in 0..Len(ts), NEW g, NEW h,
         \A a \in 1..(Len(ts) + 1) : \A b \in 0..Len(ts) :
           Size(a, b) < Size(i, j) => g[<<a, b>>] = h[<<a, b>>],
         Derives(ts, g, i, j)
  PROVE  Derives(ts, h, i, j)
  <1>1. PICK k \in i..j : \E m \in i..(k - 1) :
          /\ \A x \in i..m : ts[x].type = "NORMAL"
          /\ \/ m + 1 = k /\ ts[k].type = "STATEMENT_END"
             \/ /\ ts[m + 1].type = "START_BLOCK"
                /\ ts[k].type = "END_BLOCK"
                /\ m + 2 < k
                /\ g[<<m + 2, k - 1>>]
          /\ k = j \/ g[<<k + 1, j>>]
    BY Zenon DEF Derives
  <1>2. PICK m \in i..(k - 1) :
          /\ \A x \in i..m : ts[x].type = "NORMAL"
          /\ \/ m + 1 = k /\ ts[k].type = "STATEMENT_END"
             \/ /\ ts[m + 1].type = "START_BLOCK"
                /\ ts[k].type = "END_BLOCK"
                /\ m + 2 < k
                /\ g[<<m + 2, k - 1>>]
          /\ k = j \/ g[<<k + 1, j>>]
    BY <1>1, Zenon
  <1>3. m + 2 < k => g[<<m + 2, k - 1>>] = h[<<m + 2, k - 1>>]
    <2> SUFFICES ASSUME m + 2 < k PROVE g[<<m + 2, k - 1>>] = h[<<m + 2, k - 1>>]
      OBVIOUS
    <2>1. m + 2 \in 1..(Len(ts) + 1) /\ k - 1 \in 0..Len(ts)
      OBVIOUS
    <2>2. Size(m + 2, k - 1) < Size(i, j)
      BY DEF Size
    <2> QED BY <2>1, <2>2
  <1>4. k # j => g[<<k + 1, j>>] = h[<<k + 1, j>>]
    <2> SUFFICES ASSUME k # j PROVE g[<<k + 1, j>>] = h[<<k + 1, j>>]
      OBVIOUS
    <2>1. k + 1 \in 1..(Len(ts) + 1)
      OBVIOUS
    <2>2. Size(k + 1, j) < Size(i, j)
      BY DEF Size
    <2> QED BY <2>1, <2>2
  <1>5. \/ m + 1 = k /\ ts[k].type = "STATEMENT_END"
        \/ /\ ts[m + 1].type = "START_BLOCK"
           /\ ts[k].type = "END_BLOCK"
           /\ m + 2 < k
           /\ h[<<m + 2, k - 1>>]
    BY <1>2, <1>3, Zenon
  <1>6. k = j \/ h[<<k + 1, j>>]
    BY <1>2, <1>4, Zenon
  <1> QED BY <1>2, <1>5, <1>6, Zenon DEF Derives

(* So the recursion of Grammatical defines the stretches that are one or   *)
(* more statements.                                                        *)
LEMMA GrammaticalIs ==
  ASSUME NEW T, NEW ts \in Seq(T)
  PROVE  \E g : Derivation(ts, g) /\ Grammatical(ts) = g[<<1, Len(ts)>>]
  <1>1. PICK n \in Nat : n = Len(ts)
    OBVIOUS
  <1>2. PICK D : D = Stretches(ts)
    OBVIOUS
  <1>3. \A s \in D : s[1] \in 1..(Len(ts) + 1) /\ s[2] \in 0..Len(ts) /\ s = <<s[1], s[2]>>
    BY <1>2 DEF Stretches
  <1>4. \A a \in 1..(Len(ts) + 1) : \A b \in 0..Len(ts) :
          <<a, b>> \in D /\ <<a, b>>[1] = a /\ <<a, b>>[2] = b
    BY <1>2 DEF Stretches
  <1> DEFINE B(g, s) == Derives(ts, g, s[1], s[2])
  <1>5. PICK m : m = [s \in D |-> Size(s[1], s[2])]
    OBVIOUS
  <1>6. Measure(m, D, n)
    <2>1. \A s \in D : Size(s[1], s[2]) \in 0..n
      BY <1>1, <1>3 DEF Size
    <2> QED BY <1>1, <1>5, <2>1 DEF Measure
  <1>7. ASSUME NEW g, NEW h, NEW s \in D, \A y \in D : m[y] < m[s] => g[y] = h[y]
        PROVE  B(g, s) = B(h, s)
    <2>1. PICK i \in 1..(Len(ts) + 1) : i = s[1]
      BY <1>3
    <2>2. PICK j \in 0..Len(ts) : j = s[2]
      BY <1>3
    <2>3. ASSUME NEW a \in 1..(Len(ts) + 1), NEW b \in 0..Len(ts), Size(a, b) < Size(i, j)
          PROVE  g[<<a, b>>] = h[<<a, b>>]
      <3>1. PICK y : y = <<a, b>>
        OBVIOUS
      <3>2. y \in D /\ m[y] = Size(a, b) /\ m[s] = Size(i, j)
        BY <1>4, <1>5, <2>1, <2>2, <3>1
      <3>3. g[y] = h[y]
        BY <1>7, <2>3, <3>2
      <3> QED BY <3>1, <3>3
    <2>4. Derives(ts, g, i, j) => Derives(ts, h, i, j)
      BY <2>3, DerivesAlike
    <2>5. ASSUME NEW a \in 1..(Len(ts) + 1), NEW b \in 0..Len(ts), Size(a, b) < Size(i, j)
          PROVE  h[<<a, b>>] = g[<<a, b>>]
      BY <2>3, <2>5
    <2>6. Derives(ts, h, i, j) => Derives(ts, g, i, j)
      BY <2>5, DerivesAlike
    <2>7. Derives(ts, g, i, j) \in BOOLEAN /\ Derives(ts, h, i, j) \in BOOLEAN
      BY Zenon DEF Derives
    <2> QED BY <2>1, <2>2, <2>4, <2>6, <2>7, Zenon
  <1>8. ASSUME NEW g, NEW s PROVE B(g, s) \in BOOLEAN
    BY Zenon DEF Derives
  <1>9. PICK F : F = [g \in [D -> BOOLEAN] |-> [s \in D |-> B(g, s)]]
    OBVIOUS
  <1>10. Recursion(F, D, BOOLEAN, m, n)
    <2>1. F \in [[D -> BOOLEAN] -> [D -> BOOLEAN]]
      <3> HIDE DEF B
      <3> QED BY <1>8, <1>9, Zenon
    <2>2. ASSUME NEW g \in [D -> BOOLEAN], NEW s \in D PROVE F[g][s] = B(g, s)
      BY <1>9, Zenon
    <2>3. BOOLEAN # {}
      OBVIOUS
    <2> HIDE DEF B
    <2>4. ASSUME NEW g \in [D -> BOOLEAN], NEW h \in [D -> BOOLEAN], NEW s \in D,
                 \A y \in D : m[y] < m[s] => g[y] = h[y]
          PROVE  F[g][s] = F[h][s]
      <3>1. B(g, s) = B(h, s)
        BY <1>7, <2>4
      <3> QED BY <2>2, <3>1
    <2> QED BY <1>6, <2>1, <2>3, <2>4, Zenon DEF Recursion
  <1>11. PICK g \in [D -> BOOLEAN] : g = F[g]
    BY <1>10, RecursionDefines, SMT
  <1>12. g = [s \in D |-> B(g, s)]
    BY <1>9, <1>11, Zenon
  <1>13. PICK r : r = CHOOSE any : any = [s \in D |-> B(any, s)]
    OBVIOUS
  <1>14. r = [s \in D |-> B(r, s)]
    BY <1>12, <1>13, Zenon
  <1>15. Grammatical(ts) = r[<<1, Len(ts)>>]
    BY <1>2, <1>13, Zenon DEF Grammatical, Derives, Stretches
  <1>16. r \in [D -> BOOLEAN]
    <2> HIDE DEF B
    <2> QED BY <1>8, <1>14, Zenon
  <1>17. ASSUME NEW i \in 1..(Len(ts) + 1), NEW j \in 0..Len(ts)
         PROVE  r[<<i, j>>] = Derives(ts, r, i, j)
    <2>1. PICK s : s = <<i, j>>
      OBVIOUS
    <2>2. s \in D /\ s[1] = i /\ s[2] = j
      BY <1>4, <2>1
    <2>3. r[s] = B(r, s)
      BY <1>14, <2>2, Zenon
    <2> QED BY <2>1, <2>2, <2>3, Zenon
  <1>18. Derivation(ts, r)
    BY <1>2, <1>16, <1>17, Zenon DEF Derivation
  <1> QED BY <1>15, <1>18

(* What the loop allows: a token after the one before it.                  *)
Follows(ts, k) ==
  /\ ts[k].type \in {"STATEMENT_END", "START_BLOCK"} => ts[k - 1].type = "NORMAL"
  /\ ts[k].type = "END_BLOCK" => ts[k - 1].type \in {"STATEMENT_END", "END_BLOCK"}
GrammarTypes == {"NORMAL", "STATEMENT_END", "START_BLOCK", "END_BLOCK"}

(* Tokens i to j are one or more statements.                               *)
Segment(ts, i, j) ==
  /\ ts[i].type = "NORMAL" /\ ts[j].type \in {"STATEMENT_END", "END_BLOCK"}
  /\ \A k \in i..j : ts[k].type \in GrammarTypes
  /\ \A k \in (i + 1)..j : Follows(ts, k)
  /\ \A k \in i..j : Height(ts, k) >= Height(ts, i - 1)
  /\ Height(ts, j) = Height(ts, i - 1)

(* Words do not change the depth.                                          *)
LEMMA WordsLevel ==
  ASSUME NEW ts, NEW i \in Nat \ {0}, NEW m \in Nat, \A x \in i..m : ts[x].type = "NORMAL",
         NEW x \in i..m
  PROVE  Height(ts, x) = Height(ts, i - 1)
  <1> DEFINE Bad == {y \in Nat : i <= y /\ y <= m /\ Height(ts, y) # Height(ts, i - 1)}
  <1> SUFFICES ASSUME Height(ts, x) # Height(ts, i - 1) PROVE FALSE
    OBVIOUS
  <1>1. x \in Bad /\ Bad \in SUBSET Nat
    OBVIOUS
  <1> HIDE DEF Bad
  <1>2. PICK b \in Bad : \A c \in Bad : b <= c
    BY <1>1, FirstIndex
  <1>3. b \in Nat /\ i <= b /\ b <= m /\ Height(ts, b) # Height(ts, i - 1)
    BY DEF Bad
  <1>4. b \in Nat \ {0} /\ b \in i..m /\ b - 1 \in Nat /\ ~(b <= b - 1)
    BY <1>3
  <1>5. Height(ts, b) = Height(ts, b - 1)
    <2>1. ts[b].type \notin {"START_BLOCK", "END_BLOCK"}
      BY <1>4
    <2> QED BY <1>4, <2>1, HeightIs
  <1>6. b - 1 \notin Bad
    BY <1>2, <1>4
  <1>7. CASE b = i
    BY <1>3, <1>5, <1>7
  <1>8. CASE b # i
    <2>1. i <= b - 1 /\ b - 1 <= m
      BY <1>3, <1>8
    <2>2. Height(ts, b - 1) = Height(ts, i - 1)
      BY <1>4, <1>6, <2>1 DEF Bad
    <2> QED BY <1>3, <1>5, <2>2
  <1> QED BY <1>7, <1>8

(* A statement that a semicolon ends.                                      *)
LEMMA SegmentPlain ==
  ASSUME NEW ts, NEW i \in Nat \ {0}, NEW m \in Nat, i <= m,
         \A x \in i..m : ts[x].type = "NORMAL", ts[m + 1].type = "STATEMENT_END"
  PROVE  Segment(ts, i, m + 1)
  <1>1. \A x \in i..m : Height(ts, x) = Height(ts, i - 1)
    BY WordsLevel
  <1>2. m + 1 \in Nat \ {0} /\ m + 1 - 1 = m /\ m \in i..m /\ i - 1 \in Nat /\ i \in i..m
    OBVIOUS
  <1>3. Height(ts, m + 1) = Height(ts, m)
    <2>1. ts[m + 1].type \notin {"START_BLOCK", "END_BLOCK"}
      OBVIOUS
    <2> QED BY <1>2, <2>1, HeightIs
  <1>4. Height(ts, i - 1) \in Int
    BY <1>2, HeightIs
  <1>5. \A k \in i..(m + 1) : k \in i..m \/ k = m + 1
    OBVIOUS
  <1>6. \A k \in i..(m + 1) : Height(ts, k) = Height(ts, i - 1)
    BY <1>1, <1>2, <1>3, <1>5
  <1>7. \A k \in i..(m + 1) : ts[k].type \in GrammarTypes
    BY <1>5 DEF GrammarTypes
  <1>8. \A k \in (i + 1)..(m + 1) : Follows(ts, k)
    <2> TAKE k \in (i + 1)..(m + 1)
    <2>1. k \in i..m \/ k = m + 1
      OBVIOUS
    <2>2. CASE k \in i..m
      BY <2>2 DEF Follows
    <2>3. CASE k = m + 1
      BY <1>2, <2>3 DEF Follows
    <2> QED BY <2>1, <2>2, <2>3
  <1>9. m + 1 \in i..(m + 1)
    OBVIOUS
  <1>10. \A k \in i..(m + 1) : Height(ts, k) >= Height(ts, i - 1)
    BY <1>4, <1>6
  <1> QED BY <1>2, <1>6, <1>7, <1>8, <1>9, <1>10 DEF Segment

(* A statement that a block ends.                                          *)
LEMMA SegmentBlock ==
  ASSUME NEW ts, NEW i \in Nat \ {0}, NEW m \in Nat, i <= m, NEW k \in Nat, m + 2 < k,
         \A x \in i..m : ts[x].type = "NORMAL", ts[m + 1].type = "START_BLOCK",
         ts[k].type = "END_BLOCK", Segment(ts, m + 2, k - 1)
  PROVE  Segment(ts, i, k)
  <1>1. \A x \in i..m : Height(ts, x) = Height(ts, i - 1)
    BY WordsLevel
  <1>2. /\ m + 1 \in Nat \ {0} /\ m + 1 - 1 = m /\ m \in i..m /\ i - 1 \in Nat /\ i \in i..m
        /\ m + 2 - 1 = m + 1 /\ k \in Nat \ {0} /\ k - 1 \in Nat /\ k - 1 \in (m + 2)..(k - 1)
    OBVIOUS
  <1>3. Height(ts, m + 1) = Height(ts, i - 1) + 1
    <2>1. Height(ts, m + 1) = Height(ts, m) + 1
      BY <1>2, HeightIs
    <2> QED BY <1>1, <1>2, <2>1
  <1>4. PICK h \in Int : h = Height(ts, i - 1)
    BY <1>2, HeightIs
  <1>5. \A x \in (m + 2)..(k - 1) : Height(ts, x) >= h + 1
    BY <1>2, <1>3, <1>4 DEF Segment
  <1>6. Height(ts, k - 1) = h + 1
    BY <1>2, <1>3, <1>4 DEF Segment
  <1>7. Height(ts, k) = h
    <2>1. Height(ts, k) = Height(ts, k - 1) - 1
      BY <1>2, HeightIs
    <2> QED BY <1>6, <2>1
  <1>8. \A x \in i..k : x \in i..m \/ x = m + 1 \/ x \in (m + 2)..(k - 1) \/ x = k
    OBVIOUS
  <1>9. \A x \in i..k : Height(ts, x) >= Height(ts, i - 1)
    <2> TAKE x \in i..k
    <2>1. x \in i..m => Height(ts, x) = h
      BY <1>1, <1>4
    <2>2. x = m + 1 => Height(ts, x) = h + 1
      BY <1>3, <1>4
    <2>3. x \in (m + 2)..(k - 1) => Height(ts, x) >= h + 1
      BY <1>5
    <2>4. x = k => Height(ts, x) = h
      BY <1>7
    <2>5. Height(ts, x) \in Int
      <3>1. x \in Nat
        OBVIOUS
      <3> QED BY <3>1, HeightIs
    <2> QED BY <1>4, <1>8, <2>1, <2>2, <2>3, <2>4, <2>5
  <1>10. \A x \in i..k : ts[x].type \in GrammarTypes
    <2> TAKE x \in i..k
    <2>1. x \in (m + 2)..(k - 1) => ts[x].type \in GrammarTypes
      BY DEF Segment
    <2>2. x \in i..m \/ x = m + 1 \/ x = k => ts[x].type \in GrammarTypes
      BY DEF GrammarTypes
    <2> QED BY <1>8, <2>1, <2>2
  <1>11. \A x \in (i + 1)..k : Follows(ts, x)
    <2> TAKE x \in (i + 1)..k
    <2>1. x \in i..m => Follows(ts, x)
      BY DEF Follows
    <2>2. x = m + 1 => Follows(ts, x)
      BY <1>2 DEF Follows
    <2>3. x = m + 2 => Follows(ts, x)
      BY DEF Follows, Segment
    <2>4. x \in (m + 3)..(k - 1) => Follows(ts, x)
      <3>1. \A y \in (m + 2 + 1)..(k - 1) : Follows(ts, y)
        BY DEF Segment
      <3>2. m + 2 + 1 = m + 3
        OBVIOUS
      <3> QED BY <3>1, <3>2
    <2>5. x = k => Follows(ts, x)
      BY DEF Follows, Segment
    <2>6. x \in i..m \/ x = m + 1 \/ x = m + 2 \/ x \in (m + 3)..(k - 1) \/ x = k
      OBVIOUS
    <2> QED BY <2>1, <2>2, <2>3, <2>4, <2>5, <2>6
  <1> QED BY <1>2, <1>4, <1>7, <1>9, <1>10, <1>11 DEF Segment

(* One statement and others behind it.                                     *)
LEMMA SegmentJoin ==
  ASSUME NEW ts, NEW i \in Nat \ {0}, NEW k \in Nat, NEW j \in Nat, i <= k, k < j,
         Segment(ts, i, k), Segment(ts, k + 1, j)
  PROVE  Segment(ts, i, j)
  <1>1. k + 1 - 1 = k /\ i - 1 \in Nat
    OBVIOUS
  <1>2. PICK h \in Int : h = Height(ts, i - 1)
    BY <1>1, HeightIs
  <1>3. Height(ts, k) = h /\ Height(ts, j) = h
    BY <1>1, <1>2 DEF Segment
  <1>4. \A x \in i..j : x \in i..k \/ x \in (k + 1)..j
    OBVIOUS
  <1>5. \A x \in i..j : Height(ts, x) >= h
    <2> TAKE x \in i..j
    <2>1. x \in i..k => Height(ts, x) >= h
      BY <1>2 DEF Segment
    <2>2. x \in (k + 1)..j => Height(ts, x) >= h
      BY <1>1, <1>3 DEF Segment
    <2> QED BY <1>4, <2>1, <2>2
  <1>6. \A x \in i..j : ts[x].type \in GrammarTypes
    BY <1>4 DEF Segment
  <1>7. \A x \in (i + 1)..j : Follows(ts, x)
    <2> TAKE x \in (i + 1)..j
    <2>1. x \in (i + 1)..k => Follows(ts, x)
      BY DEF Segment
    <2>2. x = k + 1 => Follows(ts, x)
      BY DEF Segment, Follows
    <2>3. x \in (k + 1 + 1)..j => Follows(ts, x)
      BY DEF Segment
    <2>4. x \in (i + 1)..k \/ x = k + 1 \/ x \in (k + 1 + 1)..j
      OBVIOUS
    <2> QED BY <2>1, <2>2, <2>3, <2>4
  <1>8. ts[i].type = "NORMAL" /\ ts[j].type \in {"STATEMENT_END", "END_BLOCK"}
    BY DEF Segment
  <1> QED BY <1>2, <1>3, <1>5, <1>6, <1>7, <1>8 DEF Segment

(* What the grammar derives keeps the loop's rules.                        *)
LEMMA DerivedIsSegment ==
  ASSUME NEW T, NEW ts \in Seq(T), NEW g, Derivation(ts, g),
         NEW i \in 1..(Len(ts) + 1), NEW j \in 0..Len(ts), g[<<i, j>>]
  PROVE  i <= j /\ Segment(ts, i, j)
  <1>0. PICK n \in Nat : n = Len(ts)
    OBVIOUS
  <1> DEFINE P(a, b) == g[<<a, b>>] => a <= b /\ Segment(ts, a, b)
  <1> DEFINE Bad == {d \in Nat : \E a \in 1..(n + 1) : \E b \in 0..n : d = Size(a, b) /\ ~P(a, b)}
  <1> SUFFICES ASSUME ~P(i, j) PROVE FALSE
    OBVIOUS
  <1>1. Size(i, j) \in Bad /\ Bad \in SUBSET Nat
    <2>1. Size(i, j) \in Nat
      BY DEF Size
    <2> HIDE DEF P
    <2> QED BY <1>0, <2>1
  <1> HIDE DEF Bad, P
  <1>2. PICK d \in Bad : \A c \in Bad : d <= c
    BY <1>1, FirstIndex
  <1>3. PICK a \in 1..(n + 1), b \in 0..n : d = Size(a, b) /\ ~P(a, b)
    BY DEF Bad
  <1>4. ASSUME NEW x \in 1..(n + 1), NEW y \in 0..n, Size(x, y) < Size(a, b)
        PROVE  P(x, y)
    <2>1. Size(x, y) \in Nat /\ Size(a, b) \in Nat
      BY DEF Size
    <2>2. Size(x, y) \notin Bad
      BY <1>2, <1>3, <1>4, <2>1
    <2> QED BY <2>1, <2>2 DEF Bad
  <1>5. Derives(ts, g, a, b)
    BY <1>0, <1>3 DEF Derivation, P
  <1>k. PICK k \in a..b : \E m \in a..(k - 1) :
          /\ \A x \in a..m : ts[x].type = "NORMAL"
          /\ \/ m + 1 = k /\ ts[k].type = "STATEMENT_END"
             \/ /\ ts[m + 1].type = "START_BLOCK"
                /\ ts[k].type = "END_BLOCK"
                /\ m + 2 < k
                /\ g[<<m + 2, k - 1>>]
          /\ k = b \/ g[<<k + 1, b>>]
    BY <1>5, Zenon DEF Derives
  <1>6. PICK m \in a..(k - 1) :
          /\ \A x \in a..m : ts[x].type = "NORMAL"
          /\ \/ m + 1 = k /\ ts[k].type = "STATEMENT_END"
             \/ /\ ts[m + 1].type = "START_BLOCK"
                /\ ts[k].type = "END_BLOCK"
                /\ m + 2 < k
                /\ g[<<m + 2, k - 1>>]
          /\ k = b \/ g[<<k + 1, b>>]
    BY <1>k, Zenon
  <1>7. /\ a \in Nat \ {0} /\ m \in Nat /\ k \in Nat /\ b \in Nat /\ a <= m /\ m < k /\ k <= b
        /\ b <= n
    BY <1>0
  <1>8. Segment(ts, a, k)
    <2>1. CASE m + 1 = k /\ ts[k].type = "STATEMENT_END"
      <3>1. Segment(ts, a, m + 1)
        BY <1>6, <1>7, <2>1, SegmentPlain
      <3> QED BY <2>1, <3>1
    <2>2. CASE /\ ts[m + 1].type = "START_BLOCK"
               /\ ts[k].type = "END_BLOCK"
               /\ m + 2 < k
               /\ g[<<m + 2, k - 1>>]
      <3>1. m + 2 \in 1..(n + 1) /\ k - 1 \in 0..n
        BY <1>0, <1>7, <2>2
      <3>2. Size(m + 2, k - 1) < Size(a, b)
        BY <1>7, <2>2 DEF Size
      <3>3. Segment(ts, m + 2, k - 1)
        BY <1>4, <2>2, <3>1, <3>2 DEF P
      <3> QED BY <1>6, <1>7, <2>2, <3>3, SegmentBlock
    <2> QED BY <1>6, <2>1, <2>2
  <1>9. CASE k = b
    BY <1>3, <1>7, <1>8, <1>9 DEF P
  <1>10. CASE k # b
    <2>1. k + 1 \in 1..(n + 1) /\ b \in 0..n /\ k < b
      BY <1>0, <1>7, <1>10
    <2>2. Size(k + 1, b) < Size(a, b)
      BY <1>7, <1>10 DEF Size
    <2>3. Segment(ts, k + 1, b)
      BY <1>4, <1>6, <1>10, <2>1, <2>2 DEF P
    <2>4. Segment(ts, a, b)
      BY <1>7, <1>8, <2>1, <2>3, SegmentJoin
    <2>5. a <= b
      BY <1>7
    <2> QED BY <1>3, <2>4, <2>5 DEF P
  <1> QED BY <1>9, <1>10

(* The first statement of a segment.                                       *)
FirstStatement(ts, i, k, m) ==
  /\ k \in Nat /\ m \in Nat /\ i <= m /\ m < k
  /\ \A x \in i..m : ts[x].type = "NORMAL"
  /\ Height(ts, k) = Height(ts, i - 1)
  /\ \/ m + 1 = k /\ ts[k].type = "STATEMENT_END"
     \/ /\ ts[m + 1].type = "START_BLOCK" /\ ts[k].type = "END_BLOCK"
        /\ m + 2 < k /\ Segment(ts, m + 2, k - 1)

(* The first statement of a segment, up to the token that ends it.         *)
LEMMA SegmentBegins ==
  ASSUME NEW ts, NEW i \in Nat \ {0}, NEW j \in Nat, i <= j, Segment(ts, i, j)
  PROVE  \E k \in i..j : \E m \in i..(k - 1) : FirstStatement(ts, i, k, m)
  <1>1. PICK h \in Int : h = Height(ts, i - 1)
    <2>1. i - 1 \in Nat
      OBVIOUS
    <2> QED BY <2>1, HeightIs
  <1>2. /\ ts[i].type = "NORMAL" /\ ts[j].type \in {"STATEMENT_END", "END_BLOCK"}
        /\ \A k \in i..j : ts[k].type \in GrammarTypes
        /\ \A k \in (i + 1)..j : Follows(ts, k)
        /\ \A k \in i..j : Height(ts, k) >= h
        /\ Height(ts, j) = h
    BY <1>1 DEF Segment
  <1> DEFINE E == {x \in Nat : i <= x /\ x <= j /\ ts[x].type # "NORMAL"}
  <1>3. j \in E /\ E \in SUBSET Nat
    BY <1>2
  <1> HIDE DEF E
  <1>4. PICK e \in E : \A c \in E : e <= c
    BY <1>3, FirstIndex
  <1>5. e \in Nat /\ i <= e /\ e <= j /\ ts[e].type # "NORMAL"
    BY DEF E
  <1>6. e # i
    BY <1>2, <1>5
  <1>7. PICK m \in Nat : m = e - 1 /\ i <= m /\ m + 1 = e /\ m < j
    BY <1>5, <1>6
  <1>8. \A x \in i..m : ts[x].type = "NORMAL"
    <2> TAKE x \in i..m
    <2>1. x \in Nat /\ i <= x /\ x <= j /\ ~(e <= x)
      BY <1>5, <1>7
    <2>2. x \notin E
      BY <1>4, <2>1
    <2> QED BY <2>1, <2>2 DEF E
  <1>9. ts[e].type \in {"STATEMENT_END", "START_BLOCK"}
    <2>1. Follows(ts, e) /\ ts[e].type \in GrammarTypes
      BY <1>2, <1>5, <1>6
    <2>2. ts[e - 1].type = "NORMAL"
      BY <1>7, <1>8
    <2> QED BY <1>5, <2>1, <2>2 DEF Follows, GrammarTypes
  <1>10. Height(ts, m) = h
    <2>1. m \in i..m
      BY <1>7
    <2> QED BY <1>1, <1>8, <2>1, WordsLevel
  <1>11. e \in Nat \ {0} /\ e \in i..j
    BY <1>5
  <1>12. CASE ts[e].type = "STATEMENT_END"
    <2>1. Height(ts, e) = h
      <3>1. ts[e].type \notin {"START_BLOCK", "END_BLOCK"}
        BY <1>12
      <3>2. Height(ts, e) = Height(ts, e - 1)
        BY <1>11, <3>1, HeightIs
      <3> QED BY <1>7, <1>10, <3>2
    <2>2. FirstStatement(ts, i, e, m)
      BY <1>1, <1>7, <1>8, <1>11, <1>12, <2>1 DEF FirstStatement
    <2>3. m \in i..(e - 1)
      BY <1>7
    <2> QED BY <1>11, <2>2, <2>3
  <1>13. CASE ts[e].type = "START_BLOCK"
    <2>1. Height(ts, e) = h + 1
      <3>2. Height(ts, e) = Height(ts, e - 1) + 1
        BY <1>11, <1>13, HeightIs
      <3> QED BY <1>7, <1>10, <3>2
    <2> DEFINE C == {x \in Nat : e < x /\ x <= j /\ Height(ts, x) = h}
    <2>2. j \in C /\ C \in SUBSET Nat
      <3>1. e # j
        BY <1>2, <1>13
      <3> QED BY <1>2, <1>5, <3>1
    <2> HIDE DEF C
    <2>3. PICK k \in C : \A c \in C : k <= c
      BY <2>2, FirstIndex
    <2>4. k \in Nat /\ e < k /\ k <= j /\ Height(ts, k) = h
      BY DEF C
    <2>5. \A x \in Nat : Height(ts, x) \in Int
      BY HeightIs
    <2>6. \A x \in (e + 1)..(k - 1) : Height(ts, x) >= h + 1
      <3> TAKE x \in (e + 1)..(k - 1)
      <3>1. x \in Nat /\ e < x /\ x <= j /\ ~(k <= x) /\ x \in i..j
        BY <1>5, <2>4
      <3>2. x \notin C
        BY <2>3, <3>1
      <3>3. Height(ts, x) # h
        BY <3>1, <3>2 DEF C
      <3>4. Height(ts, x) >= h /\ Height(ts, x) \in Int
        BY <1>2, <2>5, <3>1
      <3> QED BY <3>3, <3>4
    <2>7. k \in Nat \ {0} /\ k - 1 \in Nat /\ k \in i..j /\ k \in (i + 1)..j
      BY <1>5, <2>4
    <2>8. Height(ts, k - 1) >= h + 1
      <3>1. CASE k - 1 = e
        BY <2>1, <3>1
      <3>2. CASE k - 1 # e
        <4>1. k - 1 \in (e + 1)..(k - 1)
          BY <1>5, <2>4, <3>2
        <4> QED BY <2>6, <4>1
      <3> QED BY <3>1, <3>2
    <2>9. ts[k].type = "END_BLOCK" /\ Height(ts, k - 1) = h + 1
      <3>1. /\ ts[k].type = "START_BLOCK" => Height(ts, k) = Height(ts, k - 1) + 1
            /\ ts[k].type = "END_BLOCK" => Height(ts, k) = Height(ts, k - 1) - 1
            /\ ts[k].type \notin {"START_BLOCK", "END_BLOCK"} =>
                 Height(ts, k) = Height(ts, k - 1)
        BY <2>7, HeightIs
      <3>2. Height(ts, k - 1) \in Int
        BY <2>5, <2>7
      <3> QED BY <2>4, <2>8, <3>1, <3>2
    <2>10. ts[k - 1].type \in {"STATEMENT_END", "END_BLOCK"}
      BY <1>2, <2>7, <2>9 DEF Follows
    <2>11. k - 1 # e
      BY <1>13, <2>10
    <2>12. m + 2 < k /\ m + 2 = e + 1 /\ e + 1 \in (i + 1)..j /\ e + 1 \in i..j /\ e + 1 - 1 = e
      BY <1>5, <1>7, <2>4, <2>11
    <2>13. ts[e + 1].type = "NORMAL"
      <3>1. PICK x : x = e + 1 /\ x - 1 = e
        BY <1>5
      <3>2. Follows(ts, x) /\ ts[x].type \in GrammarTypes /\ ts[x - 1].type = "START_BLOCK"
        BY <1>2, <1>13, <2>12, <3>1
      <3>3. ts[x].type = "NORMAL"
        BY <3>2 DEF Follows, GrammarTypes
      <3> QED BY <3>1, <3>3
    <2>14. Segment(ts, e + 1, k - 1)
      <3>0. PICK y : y = e + 1 /\ y - 1 = e
        BY <1>5
      <3>1. \A x \in y..(k - 1) : x \in i..j
        BY <1>5, <2>4, <3>0
      <3>2. \A x \in (y + 1)..(k - 1) : x \in (i + 1)..j
        BY <1>5, <2>4, <3>0
      <3>3. Height(ts, y - 1) = h + 1
        BY <2>1, <3>0
      <3>4. \A x \in y..(k - 1) : ts[x].type \in GrammarTypes
        BY <1>2, <3>1
      <3>5. \A x \in (y + 1)..(k - 1) : Follows(ts, x)
        BY <1>2, <3>2
      <3>6. \A x \in y..(k - 1) : Height(ts, x) >= Height(ts, y - 1)
        BY <2>6, <3>0, <3>3
      <3>7. Height(ts, k - 1) = Height(ts, y - 1) /\ ts[y].type = "NORMAL"
        BY <2>9, <2>13, <3>0, <3>3
      <3>8. Segment(ts, y, k - 1)
        BY <2>10, <3>4, <3>5, <3>6, <3>7, Zenon DEF Segment
      <3> QED BY <3>0, <3>8
    <2>15. FirstStatement(ts, i, k, m)
      BY <1>1, <1>7, <1>8, <1>13, <2>4, <2>7, <2>9, <2>12, <2>14 DEF FirstStatement
    <2>16. m \in i..(k - 1)
      BY <1>7, <2>4
    <2> QED BY <2>7, <2>15, <2>16
  <1> QED BY <1>9, <1>12, <1>13

(* What is left of a segment behind its first statement.                   *)
LEMMA SegmentRest ==
  ASSUME NEW ts, NEW i \in Nat \ {0}, NEW j \in Nat, Segment(ts, i, j),
         NEW k \in Nat, i <= k, k < j, Height(ts, k) = Height(ts, i - 1),
         ts[k].type \in {"STATEMENT_END", "END_BLOCK"}
  PROVE  Segment(ts, k + 1, j)
  <1>1. PICK h \in Int : h = Height(ts, i - 1)
    <2>1. i - 1 \in Nat
      OBVIOUS
    <2> QED BY <2>1, HeightIs
  <1>2. /\ ts[j].type \in {"STATEMENT_END", "END_BLOCK"}
        /\ \A x \in i..j : ts[x].type \in GrammarTypes
        /\ \A x \in (i + 1)..j : Follows(ts, x)
        /\ \A x \in i..j : Height(ts, x) >= h
        /\ Height(ts, j) = h
    BY <1>1 DEF Segment
  <1>3. k + 1 \in i..j /\ k + 1 \in (i + 1)..j /\ k + 1 \in Nat \ {0} /\ k + 1 - 1 = k
    OBVIOUS
  <1>4. ts[k + 1].type # "END_BLOCK"
    <2> SUFFICES ASSUME ts[k + 1].type = "END_BLOCK" PROVE FALSE
      OBVIOUS
    <2>1. Height(ts, k + 1) = Height(ts, k) - 1
      BY <1>3, HeightIs
    <2>2. Height(ts, k + 1) >= h
      BY <1>2, <1>3
    <2> QED BY <1>1, <2>1, <2>2
  <1>5. ts[k + 1].type = "NORMAL"
    BY <1>2, <1>3, <1>4 DEF Follows, GrammarTypes
  <1>6. \A x \in (k + 1)..j : x \in i..j
    OBVIOUS
  <1>7. \A x \in (k + 1 + 1)..j : x \in (i + 1)..j
    OBVIOUS
  <1> QED BY <1>1, <1>2, <1>3, <1>5, <1>6, <1>7 DEF Segment

(* What keeps the loop's rules is derived from the grammar.                *)
LEMMA SegmentIsDerived ==
  ASSUME NEW T, NEW ts \in Seq(T), NEW g, Derivation(ts, g),
         NEW i \in 1..(Len(ts) + 1), NEW j \in 0..Len(ts), i <= j, Segment(ts, i, j)
  PROVE  g[<<i, j>>]
  <1>0. PICK n \in Nat : n = Len(ts)
    OBVIOUS
  <1> DEFINE P(a, b) == a <= b /\ Segment(ts, a, b) => g[<<a, b>>]
  <1> DEFINE Bad == {d \in Nat : \E a \in 1..(n + 1) : \E b \in 0..n : d = Size(a, b) /\ ~P(a, b)}
  <1> SUFFICES ASSUME ~P(i, j) PROVE FALSE
    OBVIOUS
  <1>1. Size(i, j) \in Bad /\ Bad \in SUBSET Nat
    <2>1. Size(i, j) \in Nat
      BY DEF Size
    <2> HIDE DEF P
    <2> QED BY <1>0, <2>1
  <1> HIDE DEF Bad, P
  <1>2. PICK d \in Bad : \A c \in Bad : d <= c
    BY <1>1, FirstIndex
  <1>3. PICK a \in 1..(n + 1), b \in 0..n : d = Size(a, b) /\ ~P(a, b)
    BY DEF Bad
  <1>4. ASSUME NEW x \in 1..(n + 1), NEW y \in 0..n, Size(x, y) < Size(a, b)
        PROVE  P(x, y)
    <2>1. Size(x, y) \in Nat /\ Size(a, b) \in Nat
      BY DEF Size
    <2>2. Size(x, y) \notin Bad
      BY <1>2, <1>3, <1>4, <2>1
    <2> QED BY <2>1, <2>2 DEF Bad
  <1>5. a <= b /\ Segment(ts, a, b) /\ ~g[<<a, b>>]
    BY <1>3, Zenon DEF P
  <1>6. a \in Nat \ {0} /\ b \in Nat
    BY <1>0
  <1>k. PICK k \in a..b : \E m \in a..(k - 1) : FirstStatement(ts, a, k, m)
    BY <1>5, <1>6, SegmentBegins
  <1>7. PICK m \in a..(k - 1) : FirstStatement(ts, a, k, m)
    BY <1>k
  <1>8. k \in Nat /\ m \in Nat /\ a <= m /\ m < k /\ k <= b /\ b <= n
    BY <1>0, <1>6
  <1>9. \A x \in a..m : ts[x].type = "NORMAL"
    BY <1>7 DEF FirstStatement
  <1>10. \/ m + 1 = k /\ ts[k].type = "STATEMENT_END"
         \/ /\ ts[m + 1].type = "START_BLOCK"
            /\ ts[k].type = "END_BLOCK"
            /\ m + 2 < k
            /\ g[<<m + 2, k - 1>>]
    <2>1. CASE m + 1 = k /\ ts[k].type = "STATEMENT_END"
      BY <2>1
    <2>2. CASE /\ ts[m + 1].type = "START_BLOCK" /\ ts[k].type = "END_BLOCK"
               /\ m + 2 < k /\ Segment(ts, m + 2, k - 1)
      <3>1. m + 2 \in 1..(n + 1) /\ k - 1 \in 0..n /\ m + 2 <= k - 1
        BY <1>0, <1>8, <2>2
      <3>2. Size(m + 2, k - 1) < Size(a, b)
        BY <1>6, <1>8, <2>2 DEF Size
      <3>3. P(m + 2, k - 1)
        BY <1>4, <3>1, <3>2
      <3>4. g[<<m + 2, k - 1>>]
        BY <2>2, <3>1, <3>3, Zenon DEF P
      <3> QED BY <2>2, <3>4
    <2> QED BY <1>7, <2>1, <2>2 DEF FirstStatement
  <1>11. k = b \/ g[<<k + 1, b>>]
    <2> SUFFICES ASSUME k # b PROVE g[<<k + 1, b>>]
      OBVIOUS
    <2>1. k + 1 \in 1..(n + 1) /\ k < b /\ k + 1 <= b /\ a <= k
      BY <1>0, <1>6, <1>8
    <2>2. Size(k + 1, b) < Size(a, b)
      BY <1>6, <1>8 DEF Size
    <2>3. P(k + 1, b)
      BY <1>4, <2>1, <2>2
    <2>4. Segment(ts, k + 1, b)
      <3>1. Height(ts, k) = Height(ts, a - 1) /\ ts[k].type \in {"STATEMENT_END", "END_BLOCK"}
        BY <1>7 DEF FirstStatement
      <3> QED BY <1>5, <1>6, <1>8, <2>1, <3>1, SegmentRest
    <2> QED BY <2>1, <2>3, <2>4, Zenon DEF P
  <1>12. Derives(ts, g, a, b)
    BY <1>7, <1>9, <1>10, <1>11, Zenon DEF Derives
  <1>13. g[<<a, b>>]
    BY <1>0, <1>12 DEF Derivation
  <1> QED BY <1>5, <1>13

(* The grammar in one line.                                                *)
LEMMA GrammarIsSegment ==
  ASSUME NEW T, NEW ts \in Seq(T)
  PROVE  Grammatical(ts) <=> 1 <= Len(ts) /\ Segment(ts, 1, Len(ts))
  <1>1. PICK g : Derivation(ts, g) /\ Grammatical(ts) = g[<<1, Len(ts)>>]
    BY GrammaticalIs
  <1>2. 1 \in 1..(Len(ts) + 1) /\ Len(ts) \in 0..Len(ts)
    OBVIOUS
  <1>3. g[<<1, Len(ts)>>] => 1 <= Len(ts) /\ Segment(ts, 1, Len(ts))
    BY <1>1, <1>2, DerivedIsSegment
  <1>4. 1 <= Len(ts) /\ Segment(ts, 1, Len(ts)) => g[<<1, Len(ts)>>]
    BY <1>1, <1>2, SegmentIsDerived
  <1>5. Grammatical(ts) \in BOOLEAN /\ g[<<1, Len(ts)>>] \in BOOLEAN
    <2>1. <<1, Len(ts)>> \in Stretches(ts)
      BY <1>2 DEF Stretches
    <2> QED BY <1>1, <2>1 DEF Derivation
  <1> QED BY <1>1, <1>3, <1>4, <1>5, Zenon

-----------------------------------------------------------------------------
(* The tokens the loop has read.                                           *)

(* They keep the rules, the last of them is last_token_type and the braces *)
(* open behind them are start_block.                                       *)
Allowed(ts, last, depth) ==
  /\ \A k \in 1..Len(ts) : ts[k].type \in GrammarTypes /\ Height(ts, k) >= 0
  /\ \A k \in 2..Len(ts) : Follows(ts, k)
  /\ Len(ts) = 0 => last = "START"
  /\ Len(ts) > 0 => ts[1].type = "NORMAL" /\ last = ts[Len(ts)].type
  /\ depth = Height(ts, Len(ts))

(* The loop's tests for the next token.                                    *)
Fits(ty, last, depth) ==
  /\ ty \in GrammarTypes
  /\ ty \in {"STATEMENT_END", "START_BLOCK"} => last = "NORMAL"
  /\ ty = "END_BLOCK" => last \in {"STATEMENT_END", "END_BLOCK"} /\ depth > 0

NewDepth(ty, depth) ==
  CASE ty = "START_BLOCK" -> depth + 1 [] ty = "END_BLOCK" -> depth - 1 [] OTHER -> depth

(* One token behind a sequence.                                            *)
LEMMA OneMore ==
  ASSUME NEW T, NEW ts \in Seq(T), NEW t \in T
  PROVE  /\ ts \o <<t>> \in Seq(T) /\ Len(ts \o <<t>>) = Len(ts) + 1
         /\ \A k \in 1..Len(ts) : (ts \o <<t>>)[k] = ts[k]
         /\ (ts \o <<t>>)[Len(ts) + 1] = t
  OBVIOUS

(* A token that passes the loop's tests keeps the rules.                   *)
LEMMA AllowedStep ==
  ASSUME NEW T, NEW ts \in Seq(T), NEW t \in T, NEW last, NEW depth,
         Allowed(ts, last, depth), Fits(t.type, last, depth)
  PROVE  Allowed(ts \o <<t>>, t.type, NewDepth(t.type, depth))
  <1>1. PICK us \in Seq(T) :
          /\ us = ts \o <<t>> /\ Len(us) = Len(ts) + 1
          /\ \A k \in 1..Len(ts) : us[k] = ts[k]
          /\ us[Len(ts) + 1] = t
    BY OneMore
  <1>2. PICK n \in Nat : n = Len(ts)
    OBVIOUS
  <1>3. ASSUME NEW k \in 0..n PROVE Height(us, k) = Height(ts, k)
    <2>1. \A x \in 1..k : ts[x] = us[x]
      BY <1>1, <1>2
    <2> QED BY <2>1, HeightSame
  <1>4. PICK ty : ty = t.type
    OBVIOUS
  <1>5. n + 1 \in Nat \ {0} /\ (n + 1) - 1 = n /\ n \in 0..n
    BY <1>2
  <1>6. /\ ty = "START_BLOCK" => Height(us, n + 1) = Height(us, n) + 1
        /\ ty = "END_BLOCK" => Height(us, n + 1) = Height(us, n) - 1
        /\ ty \notin {"START_BLOCK", "END_BLOCK"} => Height(us, n + 1) = Height(us, n)
    <2>1. PICK q \in Nat \ {0} : q = n + 1 /\ q - 1 = n
      BY <1>5
    <2>2. /\ us[q].type = "START_BLOCK" => Height(us, q) = Height(us, q - 1) + 1
          /\ us[q].type = "END_BLOCK" => Height(us, q) = Height(us, q - 1) - 1
          /\ us[q].type \notin {"START_BLOCK", "END_BLOCK"} => Height(us, q) = Height(us, q - 1)
      BY HeightIs
    <2>3. us[q].type = ty
      BY <1>1, <1>2, <1>4, <2>1
    <2> QED BY <2>1, <2>2, <2>3
  <1>7. depth = Height(us, n) /\ depth \in Int /\ depth >= 0
    <2>1. depth = Height(ts, n)
      BY <1>2 DEF Allowed
    <2>2. Height(ts, n) \in Int /\ Height(ts, 0) = 0
      BY <1>2, HeightIs
    <2>3. n # 0 => Height(ts, n) >= 0
      <3>1. n # 0 => n \in 1..Len(ts)
        BY <1>2
      <3> QED BY <3>1 DEF Allowed
    <2> QED BY <1>3, <1>5, <2>1, <2>2, <2>3
  <1>8. Height(us, n + 1) = NewDepth(ty, depth) /\ Height(us, n + 1) >= 0
    BY <1>4, <1>6, <1>7 DEF NewDepth, Fits
  <1>9. ASSUME NEW k \in 1..(n + 1) PROVE us[k].type \in GrammarTypes /\ Height(us, k) >= 0
    <2>1. CASE k \in 1..n
      <3>1. us[k] = ts[k] /\ Height(us, k) = Height(ts, k)
        BY <1>1, <1>2, <1>3, <2>1
      <3>2. ts[k].type \in GrammarTypes /\ Height(ts, k) >= 0
        BY <1>2, <2>1 DEF Allowed
      <3> QED BY <3>1, <3>2
    <2>2. CASE k = n + 1
      BY <1>1, <1>2, <1>4, <1>8, <2>2 DEF Fits
    <2> QED BY <1>2, <2>1, <2>2
  <1>10. ASSUME NEW k \in 2..(n + 1) PROVE Follows(us, k)
    <2>1. CASE k \in 2..n
      <3>1. us[k] = ts[k] /\ us[k - 1] = ts[k - 1]
        BY <1>1, <1>2, <2>1
      <3>2. Follows(ts, k)
        BY <1>2, <2>1 DEF Allowed
      <3> QED BY <3>1, <3>2 DEF Follows
    <2>2. CASE k = n + 1
      <3>1. n > 0 /\ us[k] = t /\ us[k - 1] = ts[n]
        BY <1>1, <1>2, <1>10, <2>2
      <3>2. ts[n].type = last
        BY <1>2, <3>1 DEF Allowed
      <3> QED BY <3>1, <3>2 DEF Follows, Fits
    <2> QED BY <1>2, <2>1, <2>2
  <1>11. us[1].type = "NORMAL"
    <2>1. CASE n = 0
      <3>1. last = "START"
        BY <1>2, <2>1 DEF Allowed
      <3>2. us[1] = t
        BY <1>1, <1>2, <2>1
      <3> QED BY <3>1, <3>2 DEF Fits, GrammarTypes
    <2>2. CASE n # 0
      <3>1. ts[1].type = "NORMAL"
        BY <1>2, <2>2 DEF Allowed
      <3> QED BY <1>1, <1>2, <2>2, <3>1
    <2> QED BY <2>1, <2>2
  <1>12. us[n + 1].type = ty /\ Len(us) = n + 1
    BY <1>1, <1>2, <1>4
  <1>13. n + 1 > 0 /\ n + 1 # 0
    BY <1>2
  <1>14. Allowed(us, ty, NewDepth(ty, depth))
    BY <1>8, <1>9, <1>10, <1>11, <1>12, <1>13, Zenon DEF Allowed
  <1> QED BY <1>1, <1>4, <1>14

(* A file that ends after a semicolon or a block, outside every block.     *)
LEMMA AllowedEnds ==
  ASSUME NEW T, NEW ts \in Seq(T), NEW last, NEW depth, Allowed(ts, last, depth)
  PROVE  Grammatical(ts) <=> last \in {"STATEMENT_END", "END_BLOCK"} /\ depth = 0
  <1>1. PICK n \in Nat : n = Len(ts)
    OBVIOUS
  <1>2. Grammatical(ts) <=> 1 <= n /\ Segment(ts, 1, n)
    BY <1>1, GrammarIsSegment
  <1>3. Height(ts, 1 - 1) = 0
    <2>1. 1 - 1 = 0
      OBVIOUS
    <2> QED BY <2>1, HeightIs
  <1>4. CASE n = 0
    BY <1>1, <1>2, <1>4 DEF Allowed
  <1>5. CASE n # 0
    <2>1. 1 <= n /\ n > 0 /\ n \in 1..n
      BY <1>1, <1>5
    <2>2. ts[1].type = "NORMAL" /\ last = ts[n].type /\ depth = Height(ts, n)
      BY <1>1, <2>1 DEF Allowed
    <2>3. /\ \A k \in 1..n : ts[k].type \in GrammarTypes /\ Height(ts, k) >= 0
          /\ \A k \in 2..n : Follows(ts, k)
      BY <1>1 DEF Allowed
    <2>4. \A k \in (1 + 1)..n : Follows(ts, k)
      <3>1. 1 + 1 = 2
        OBVIOUS
      <3> QED BY <2>3, <3>1
    <2>5. Segment(ts, 1, n) <=> ts[n].type \in {"STATEMENT_END", "END_BLOCK"} /\ Height(ts, n) = 0
      BY <1>3, <2>2, <2>3, <2>4, Zenon DEF Segment
    <2> QED BY <1>2, <2>1, <2>2, <2>5, Zenon
  <1> QED BY <1>4, <1>5

(* A token that does not fit.                                              *)
LEMMA MisfitFails ==
  ASSUME NEW T, NEW ts \in Seq(T), NEW t \in T, NEW x \in Seq(T), NEW last, NEW depth,
         Allowed(ts, last, depth), ~Fits(t.type, last, depth)
  PROVE  ~Grammatical((ts \o <<t>>) \o x)
  <1>1. PICK us \in Seq(T) :
          /\ us = ts \o <<t>> /\ Len(us) = Len(ts) + 1
          /\ \A k \in 1..Len(ts) : us[k] = ts[k]
          /\ us[Len(ts) + 1] = t
    BY OneMore
  <1>2. PICK n \in Nat : n = Len(ts)
    OBVIOUS
  <1>3. PICK a : a = us \o x
    OBVIOUS
  <1>4. a \in Seq(T) /\ Len(a) = Len(us) + Len(x) /\ \A k \in 1..Len(us) : a[k] = us[k]
    BY <1>3, ConcatIndex
  <1>5. /\ n + 1 \in 1..Len(a) /\ a[n + 1] = t /\ \A k \in 1..n : a[k] = ts[k]
    BY <1>1, <1>2, <1>4
  <1> SUFFICES ASSUME Grammatical(a) PROVE FALSE
    BY <1>1, <1>3
  <1>6. Segment(a, 1, Len(a))
    BY <1>4, GrammarIsSegment
  <1>7. /\ a[1].type = "NORMAL" /\ t.type \in GrammarTypes
        /\ \A k \in (1 + 1)..Len(a) : Follows(a, k)
        /\ Height(a, n + 1) >= Height(a, 1 - 1)
    BY <1>5, <1>6 DEF Segment
  <1>8. CASE n = 0
    <2>1. t.type = "NORMAL"
      BY <1>5, <1>7, <1>8
    <2> QED BY <2>1 DEF Fits, GrammarTypes
  <1>9. CASE n # 0
    <2>1. n + 1 \in (1 + 1)..Len(a) /\ (n + 1) - 1 = n /\ n \in 1..n
      BY <1>2, <1>5, <1>9
    <2>2. a[n].type = last
      <3>1. last = ts[n].type
        BY <1>2, <1>9 DEF Allowed
      <3> QED BY <1>5, <2>1, <3>1
    <2>3. Follows(a, n + 1)
      BY <1>7, <2>1
    <2>4. /\ t.type \in {"STATEMENT_END", "START_BLOCK"} => last = "NORMAL"
          /\ t.type = "END_BLOCK" => last \in {"STATEMENT_END", "END_BLOCK"}
      BY <1>5, <2>1, <2>2, <2>3 DEF Follows
    <2>5. t.type = "END_BLOCK" => depth > 0
      <3> SUFFICES ASSUME t.type = "END_BLOCK" PROVE depth > 0
        OBVIOUS
      <3>1. Height(a, n + 1) = Height(a, n) - 1
        <4>1. n + 1 \in Nat \ {0} /\ a[n + 1].type = "END_BLOCK"
          BY <1>2, <1>5
        <4>2. Height(a, n + 1) = Height(a, (n + 1) - 1) - 1
          BY <4>1, HeightIs
        <4> QED BY <2>1, <4>2
      <3>2. Height(a, n) = Height(ts, n)
        <4>1. \A k \in 1..n : a[k] = ts[k]
          BY <1>5
        <4> QED BY <1>2, <4>1, HeightSame
      <3>3. Height(a, 1 - 1) = 0
        <4>1. 1 - 1 = 0
          OBVIOUS
        <4> QED BY <4>1, HeightIs
      <3>4. depth = Height(ts, n) /\ Height(ts, n) \in Int
        BY <1>2, HeightIs DEF Allowed
      <3> QED BY <1>7, <3>1, <3>2, <3>3, <3>4
    <2> QED BY <1>7, <2>4, <2>5 DEF Fits
  <1> QED BY <1>8, <1>9

(* What the loop has read.                                                 *)
TokensRead ==
  /\ phase = "open" => last_token_type = "START" /\ start_block = 0
  /\ phase = "parse" => file # NoFile
  /\ phase # "open" /\ file # NoFile =>
       /\ file \in Seq(STRING) /\ pos \in 1..(Len(file) + 1) /\ Reached(file, pos)
       /\ Allowed(TokensBefore(file, pos), last_token_type, start_block)

(* Nothing has been read before the file is opened.                        *)
LEMMA InitTokensRead == Init => TokensRead
  BY DEF Init, TokensRead

(* The loop takes a token.                                                 *)
LEMMA TakesToken ==
  ASSUME TokensRead, NEW ty \in GrammarTypes, Reads(ty)
  PROVE  /\ file \in Seq(STRING) /\ pos \in 1..(Len(file) + 1)
         /\ TokenAt(file, pos) \in TokensOf(file) /\ TokenAt(file, pos).type = ty
         /\ TokensBefore(file, pos) \in Seq(TokensOf(file))
         /\ Allowed(TokensBefore(file, pos), last_token_type, start_block)
         /\ TokensBefore(file, pos') = TokensBefore(file, pos) \o <<TokenAt(file, pos)>>
         /\ Reached(file, pos') /\ pos' \in 1..(Len(file) + 1)
         /\ last_token_type' = ty /\ file' = file /\ file # NoFile /\ phase' = phase
         /\ phase = "parse"
  <1>1. /\ phase = "parse" /\ phase' = phase /\ file' = file /\ last_token_type' = ty
        /\ ParseToken(file, pos).type = ty /\ pos' = ParseToken(file, pos).next
    BY DEF Reads, GrammarTypes
  <1>2. /\ file # NoFile /\ file \in Seq(STRING) /\ pos \in 1..(Len(file) + 1) /\ Reached(file, pos)
        /\ Allowed(TokensBefore(file, pos), last_token_type, start_block)
    BY <1>1 DEF TokensRead
  <1>3. pos \in Nat \ {0} /\ pos \in Nat
    BY <1>2
  <1>4. ~Stops(file, pos) /\ Adds(file, pos) = <<TokenAt(file, pos)>>
    BY <1>1 DEF Stops, Adds, GrammarTypes
  <1>5. /\ pos' \in (pos + 1)..(Len(file) + 1) /\ Reached(file, pos')
        /\ TokensBefore(file, pos') = TokensBefore(file, pos) \o Adds(file, pos)
    BY <1>1, <1>2, <1>4, TokensStep
  <1>6. pos' \in 1..(Len(file) + 1)
    BY <1>2, <1>5
  <1>7. TokenAt(file, pos) \in TokensOf(file)
    BY <1>3 DEF TokensOf
  <1>8. TokenAt(file, pos).type = ty
    BY <1>1, Zenon DEF TokenAt
  <1>9. TokensBefore(file, pos) \in Seq(TokensOf(file))
    BY <1>2, <1>3, TokensAre
  <1> QED BY <1>1, <1>2, <1>4, <1>5, <1>6, <1>7, <1>8, <1>9, Zenon

(* A token the loop takes passes its tests, so the tokens read so far keep *)
(* the rules.                                                              *)
LEMMA TakesFittingToken ==
  ASSUME TokensRead, NEW ty \in GrammarTypes, Reads(ty), Fits(ty, last_token_type, start_block),
         start_block' = NewDepth(ty, start_block)
  PROVE  TokensRead'
  <1>1. PICK t : t = TokenAt(file, pos)
    OBVIOUS
  <1>2. PICK ts : ts = TokensBefore(file, pos)
    OBVIOUS
  <1>3. /\ t \in TokensOf(file) /\ t.type = ty /\ ts \in Seq(TokensOf(file))
        /\ Allowed(ts, last_token_type, start_block)
        /\ TokensBefore(file, pos') = ts \o <<t>>
        /\ file \in Seq(STRING) /\ Reached(file, pos') /\ pos' \in 1..(Len(file) + 1)
        /\ last_token_type' = ty /\ file' = file /\ file # NoFile /\ phase' = phase
        /\ phase = "parse"
    BY <1>1, <1>2, TakesToken
  <1>4. Allowed(ts \o <<t>>, ty, NewDepth(ty, start_block))
    <2>1. Fits(t.type, last_token_type, start_block)
      BY <1>3
    <2>2. Allowed(ts \o <<t>>, t.type, NewDepth(t.type, start_block))
      BY <1>3, <2>1, AllowedStep
    <2> QED BY <1>3, <2>2
  <1>5. PICK us : us = ts \o <<t>>
    OBVIOUS
  <1>6. Allowed(us, last_token_type', start_block') /\ TokensBefore(file', pos') = us
    BY <1>3, <1>4, <1>5, Zenon
  <1>7. phase' # "open"
    BY <1>3
  <1> QED BY <1>3, <1>6, <1>7, Zenon DEF TokensRead

(* Every step keeps what the loop knows of the tokens it has read.         *)
LEMMA NextTokensRead == IInv /\ TokensRead /\ [Next]_vars => TokensRead'
  <1> SUFFICES ASSUME IInv, TokensRead, [Next]_vars PROVE TokensRead'
    OBVIOUS
  <1>0. start_block \in Nat
    BY DEF IInv, Stack
  <1>1. CASE UNCHANGED vars
    BY <1>1, Zenon DEF vars, TokensRead
  <1>2. CASE Open
    <2>1. CASE file = NoFile
      BY <1>2, <2>1 DEF Open, TokensRead
    <2>2. CASE file # NoFile
      <3>1. /\ phase = "open" /\ phase' = "parse" /\ file' = file /\ pos' = pos
            /\ last_token_type' = last_token_type /\ start_block' = start_block
        BY <1>2, <2>2 DEF Open
      <3>2. file \in Seq(STRING) /\ pos = 1
        BY <2>2, <3>1 DEF IInv, Place
      <3>3. last_token_type = "START" /\ start_block = 0
        BY <3>1 DEF TokensRead
      <3>4. TokensBefore(file, 1) = <<>> /\ Reached(file, 1)
        BY <3>2, TokensStart
      <3>5. PICK z : z = <<>>
        OBVIOUS
      <3>6. Len(z) = 0
        BY <3>5
      <3>7. Allowed(z, "START", 0)
        BY <3>6, HeightIs DEF Allowed
      <3>8. 1 \in 1..(Len(file) + 1)
        BY <3>2
      <3> QED BY <2>2, <3>1, <3>2, <3>3, <3>4, <3>5, <3>7, <3>8, Zenon DEF TokensRead
    <2> QED BY <2>1, <2>2
  <1>3. CASE SkipComment
    <2>1. /\ phase = "parse" /\ phase' = phase /\ file' = file
          /\ last_token_type' = last_token_type /\ start_block' = start_block
          /\ ParseToken(file, pos).type = "COMMENT" /\ pos' = ParseToken(file, pos).next
      BY <1>3 DEF SkipComment, Reads
    <2>2. /\ file # NoFile /\ file \in Seq(STRING) /\ pos \in 1..(Len(file) + 1) /\ Reached(file, pos)
          /\ Allowed(TokensBefore(file, pos), last_token_type, start_block)
      BY <2>1 DEF TokensRead
    <2>3. ~Stops(file, pos) /\ Adds(file, pos) = <<>>
      BY <2>1 DEF Stops, Adds
    <2>4. /\ pos' \in (pos + 1)..(Len(file) + 1) /\ Reached(file, pos')
          /\ TokensBefore(file, pos') = TokensBefore(file, pos) \o Adds(file, pos)
      BY <2>1, <2>2, <2>3, TokensStep
    <2>5. pos' \in 1..(Len(file) + 1) /\ pos \in Nat
      BY <2>2, <2>4
    <2>6. PICK ts : ts = TokensBefore(file, pos)
      OBVIOUS
    <2>7. ts \in Seq(TokensOf(file))
      BY <2>2, <2>5, <2>6, TokensAre
    <2>8. ts \o <<>> = ts
      BY <2>7
    <2>9. TokensBefore(file, pos') = ts
      BY <2>3, <2>4, <2>6, <2>8, Zenon
    <2> QED BY <2>1, <2>2, <2>4, <2>5, <2>6, <2>9, Zenon DEF TokensRead
  <1>4. CASE NormalToken
    <2>1. Reads("NORMAL") /\ start_block' = start_block
      BY <1>4 DEF NormalToken
    <2>2. "NORMAL" \in GrammarTypes /\ Fits("NORMAL", last_token_type, start_block)
      BY DEF GrammarTypes, Fits
    <2>3. NewDepth("NORMAL", start_block) = start_block
      BY DEF NewDepth
    <2> QED BY <2>1, <2>2, <2>3, TakesFittingToken
  <1>5. CASE StatementEnd
    <2>1. Reads("STATEMENT_END") /\ start_block' = start_block /\ last_token_type = "NORMAL"
      BY <1>5 DEF StatementEnd
    <2>2. "STATEMENT_END" \in GrammarTypes /\ Fits("STATEMENT_END", last_token_type, start_block)
      BY <2>1 DEF GrammarTypes, Fits
    <2>3. NewDepth("STATEMENT_END", start_block) = start_block
      BY DEF NewDepth
    <2> QED BY <2>1, <2>2, <2>3, TakesFittingToken
  <1>6. CASE StartBlock
    <2>1. Reads("START_BLOCK") /\ start_block' = start_block + 1 /\ last_token_type = "NORMAL"
      BY <1>6 DEF StartBlock
    <2>2. "START_BLOCK" \in GrammarTypes /\ Fits("START_BLOCK", last_token_type, start_block)
      BY <2>1 DEF GrammarTypes, Fits
    <2>3. NewDepth("START_BLOCK", start_block) = start_block + 1
      BY DEF NewDepth
    <2> QED BY <2>1, <2>2, <2>3, TakesFittingToken
  <1>7. CASE EndBlock
    <2>1. /\ Reads("END_BLOCK") /\ start_block' = start_block - 1 /\ start_block > 0
          /\ last_token_type \in {"STATEMENT_END", "END_BLOCK"}
      BY <1>7 DEF EndBlock
    <2>2. "END_BLOCK" \in GrammarTypes /\ Fits("END_BLOCK", last_token_type, start_block)
      BY <2>1 DEF GrammarTypes, Fits
    <2>3. NewDepth("END_BLOCK", start_block) = start_block - 1
      BY DEF NewDepth
    <2> QED BY <2>1, <2>2, <2>3, TakesFittingToken
  <1>8. CASE EndOfFile \/ BadTransition \/ ParseStatements
    <2>1. /\ phase # "open" /\ phase' # "parse" /\ phase' # "open"
          /\ file' = file /\ pos' = pos
          /\ last_token_type' = last_token_type /\ start_block' = start_block
      BY <1>8 DEF EndOfFile, BadTransition, ParseStatements, Returns
    <2> QED BY <2>1, Zenon DEF TokensRead
  <1> QED BY <1>1, <1>2, <1>3, <1>4, <1>5, <1>6, <1>7, <1>8 DEF Next

(* Parse returns.                                                          *)
LEMMA ReturnsTheGrammar ==
  ASSUME TokensRead, phase = "parse"
  PROVE  /\ EndOfFile => Grammatical(AllTokens(file)) /\ ~OpenQuote(file)
         /\ BadTransition => ~(Grammatical(AllTokens(file)) /\ ~OpenQuote(file))
  <1>1. /\ file # NoFile /\ file \in Seq(STRING) /\ pos \in 1..(Len(file) + 1) /\ Reached(file, pos)
        /\ Allowed(TokensBefore(file, pos), last_token_type, start_block)
    BY DEF TokensRead
  <1>2. PICK ty : ty = ParseToken(file, pos).type
    OBVIOUS
  <1>3. PICK ts : ts = TokensBefore(file, pos)
    OBVIOUS
  <1>4. pos \in Nat /\ pos \in Nat \ {0}
    BY <1>1
  <1>5. ts \in Seq(TokensOf(file))
    BY <1>1, <1>3, <1>4, TokensAre
  <1>6. Allowed(ts, last_token_type, start_block)
    BY <1>1, <1>3
  <1>7. ty = "EOF" => /\ AllTokens(file) = ts /\ ~OpenQuote(file)
                      /\ Grammatical(ts) <=> /\ last_token_type \in {"STATEMENT_END", "END_BLOCK"}
                                             /\ start_block = 0
    <2> SUFFICES ASSUME ty = "EOF"
                 PROVE  /\ AllTokens(file) = ts /\ ~OpenQuote(file)
                        /\ Grammatical(ts) <=> /\ last_token_type \in {"STATEMENT_END", "END_BLOCK"}
                                               /\ start_block = 0
      OBVIOUS
    <2>1. Stops(file, pos)
      BY <1>2 DEF Stops
    <2>2. AllTokens(file) = ts
      BY <1>1, <1>3, <2>1, TokensEnd
    <2>3. ~OpenQuote(file)
      BY <1>1, <1>2, OpenQuoteAt
    <2>4. Grammatical(ts) <=> /\ last_token_type \in {"STATEMENT_END", "END_BLOCK"}
                              /\ start_block = 0
      BY <1>5, <1>6, AllowedEnds
    <2> QED BY <2>2, <2>3, <2>4
  <1>8. ty = "ERROR" => OpenQuote(file)
    BY <1>1, <1>2, OpenQuoteAt
  <1>9. ty \in GrammarTypes /\ ~Fits(ty, last_token_type, start_block)
        => ~Grammatical(AllTokens(file))
    <2> SUFFICES ASSUME ty \in GrammarTypes, ~Fits(ty, last_token_type, start_block)
                 PROVE  ~Grammatical(AllTokens(file))
      OBVIOUS
    <2>1. PICK t : t = TokenAt(file, pos)
      OBVIOUS
    <2>2. ~Stops(file, pos) /\ Adds(file, pos) = <<t>>
      BY <1>2, <2>1 DEF Stops, Adds, GrammarTypes
    <2>3. t \in TokensOf(file)
      BY <1>4, <2>1 DEF TokensOf
    <2>4. t.type = ty
      BY <1>2, <2>1, Zenon DEF TokenAt
    <2>5. PICK x \in Seq(TokensOf(file)) :
            AllTokens(file) = (TokensBefore(file, pos) \o Adds(file, pos)) \o x
      BY <1>1, <2>2, TokensMore
    <2>6. AllTokens(file) = (ts \o <<t>>) \o x
      BY <1>3, <2>2, <2>5
    <2>7. ~Grammatical((ts \o <<t>>) \o x)
      BY <1>5, <1>6, <2>3, <2>4, MisfitFails
    <2> QED BY <2>6, <2>7
  <1>10. EndOfFile => Grammatical(AllTokens(file)) /\ ~OpenQuote(file)
    BY <1>2, <1>7, Zenon DEF EndOfFile
  <1>11. ASSUME BadTransition PROVE ~(Grammatical(AllTokens(file)) /\ ~OpenQuote(file))
    <2>1. \/ ty = "ERROR"
          \/ ty \in {"STATEMENT_END", "START_BLOCK"} /\ last_token_type # "NORMAL"
          \/ /\ ty \in {"END_BLOCK", "EOF"}
             /\ last_token_type \notin {"STATEMENT_END", "END_BLOCK"}
          \/ ty = "END_BLOCK" /\ start_block <= 0
          \/ ty = "EOF" /\ start_block # 0
      BY <1>2, <1>11, Zenon DEF BadTransition
    <2>2. start_block \in Int
      <3>1. Len(ts) \in Nat
        BY <1>5
      <3>2. start_block = Height(ts, Len(ts))
        BY <1>6 DEF Allowed
      <3> QED BY <3>1, <3>2, HeightIs
    <2>3. CASE ty = "ERROR"
      BY <1>8, <2>3
    <2>4. CASE ty = "EOF"
      BY <1>7, <2>1, <2>4
    <2>5. CASE ty \in {"STATEMENT_END", "START_BLOCK", "END_BLOCK"}
      <3>1. ty \in GrammarTypes /\ ~Fits(ty, last_token_type, start_block)
        BY <2>1, <2>2, <2>5 DEF Fits, GrammarTypes
      <3> QED BY <1>9, <3>1
    <2> QED BY <2>1, <2>3, <2>4, <2>5
  <1> QED BY <1>10, <1>11

(* What Parse returns, of the tokens that ParseToken reports.              *)
AcceptsTokens ==
  phase = "statements" /\ file # NoFile =>
    (accepted <=> Grammatical(AllTokens(file)) /\ ~OpenQuote(file))

(* Parse returns once, and what it returns stays right.                    *)
LEMMA NextAccepts ==
  IInv /\ TokensRead /\ AcceptsTokens /\ [Next]_vars => AcceptsTokens'
  <1> SUFFICES ASSUME IInv, TokensRead, AcceptsTokens, [Next]_vars PROVE AcceptsTokens'
    OBVIOUS
  <1>1. CASE UNCHANGED vars
    BY <1>1, Zenon DEF vars, AcceptsTokens
  <1>2. CASE EndOfFile
    <2>1. phase = "parse" /\ accepted' = TRUE /\ file' = file
      BY <1>2 DEF EndOfFile, Returns
    <2>2. Grammatical(AllTokens(file)) /\ ~OpenQuote(file)
      BY <1>2, <2>1, ReturnsTheGrammar
    <2> QED BY <2>1, <2>2, Zenon DEF AcceptsTokens
  <1>3. CASE BadTransition
    <2>1. phase = "parse" /\ accepted' = FALSE /\ file' = file
      BY <1>3 DEF BadTransition, Returns
    <2>2. ~(Grammatical(AllTokens(file)) /\ ~OpenQuote(file))
      BY <1>3, <2>1, ReturnsTheGrammar
    <2> QED BY <2>1, <2>2, Zenon DEF AcceptsTokens
  <1>4. CASE Open \/ SkipComment \/ NormalToken \/ StatementEnd \/ StartBlock \/ EndBlock \/ ParseStatements
    <2>1. phase' # "statements" \/ file' = NoFile
      BY <1>4 DEF Open, SkipComment, NormalToken, StatementEnd, StartBlock, EndBlock, Reads, ParseStatements
    <2> QED BY <2>1, Zenon DEF AcceptsTokens
  <1> QED BY <1>1, <1>2, <1>3, <1>4 DEF Next

(* Parse accepts exactly the valid files among those that do not end       *)
(* inside a word: for every such file, the loop that compares each token   *)
(* with the one before it and counts braces decides the recursive grammar. *)
THEOREM AcceptsExactlyTheGrammar == Spec => []AcceptsTheGrammar
  <1>1. Init => AcceptsTokens
    BY DEF Init, AcceptsTokens
  <1>2. AcceptsTokens => AcceptsTheGrammar
    BY Zenon DEF AcceptsTokens, AcceptsTheGrammar, Valid, FileTokens
  <1> QED BY <1>1, <1>2, InitIInv, NextIInv, InitTokensRead, NextTokensRead, NextAccepts, PTL
           DEF Spec

-----------------------------------------------------------------------------
(* ParseStatements: the folds over the statements and their tokens.        *)

WalkState ==
  [prev : Seq(STRING), found_port : BOOLEAN, port : Int \cup {Unset},
   root : Seq(STRING), threads : Nat]

(* The remainder of a number less than the modulus away from zero.         *)
LEMMA Remainder ==
  ASSUME NEW i \in Int, NEW K \in Nat \ {0}
  PROVE  /\ i % K \in Nat
         /\ 0 <= i /\ i < K => i % K = i
         /\ -K <= i /\ i < 0 => i % K = i + K
  <1>1. i % K \in Nat
    OBVIOUS
  <1>2. 0 <= i /\ i < K => i % K = i
    OBVIOUS
  <1>3. -K <= i /\ i < 0 => i % K = i + K
    OBVIOUS
  <1> QED BY <1>1, <1>2, <1>3

(* The number of a token as an unsigned int.                               *)
LEMMA UnsignedIs ==
  ASSUME NEW t, IsNumber(t)
  PROVE  /\ Stoi(t) \in Int /\ ToUnsigned(Stoi(t)) \in Nat
         /\ 0 <= Stoi(t) => ToUnsigned(Stoi(t)) = Stoi(t)
  <1>1. /\ Numeral[t[1]] \in Int
        /\ -INT_MAX - 1 <= Numeral[t[1]] /\ Numeral[t[1]] <= INT_MAX
    BY ConfigAssumption DEF IsNumber
  <1>2. PICK i \in Int : i = Stoi(t) /\ -INT_MAX - 1 <= i /\ i <= INT_MAX
    BY <1>1 DEF Stoi
  <1>3. PICK K \in Nat \ {0} : K = 2 * (INT_MAX + 1) /\ INT_MAX < K
    BY ConfigAssumption
  <1>4. ToUnsigned(Stoi(t)) = i % K
    BY <1>2, <1>3 DEF ToUnsigned
  <1>5. 0 <= i => i < K
    BY <1>2, <1>3, ConfigAssumption
  <1> QED BY <1>2, <1>4, <1>5, Remainder

(* The cases of one turn of the inner loop.                                *)
TurnPort(w, t, x) ==
  /\ w.prev = <<"port">> /\ ~w.found_port /\ ValidPort(t)
  /\ x = [w EXCEPT !.prev = t, !.port = Stoi(t), !.found_port = TRUE]
TurnThreads(w, t, x) ==
  /\ w.prev = <<"threadCount">> /\ IsNumber(t)
  /\ \/ ToUnsigned(Stoi(t)) > 0 /\ x = [w EXCEPT !.prev = t, !.threads = ToUnsigned(Stoi(t))]
     \/ x = [w EXCEPT !.threads = 10]
TurnRoot(w, t, x) ==
  w.prev = <<"root">> /\ \E r \in Seq(STRING) : x = [w EXCEPT !.prev = t, !.root = r]
TurnKept(w, t, x) ==
  /\ ~(w.prev = <<"port">> /\ ~w.found_port)
  /\ x = [w EXCEPT !.prev = t]
TurnStays(w, t, x) ==
  /\ x = w
  /\ w.prev = <<"port">> /\ ~w.found_port => ~ValidPort(t)
  /\ w.prev = <<"port">> \/ w.prev = <<"threadCount">>

Turn(w, t, x) ==
  \/ TurnPort(w, t, x) \/ TurnThreads(w, t, x) \/ TurnRoot(w, t, x)
  \/ TurnKept(w, t, x) \/ TurnStays(w, t, x)

(* Every turn is one of the cases.                                         *)
LEMMA StatementTokenIs ==
  ASSUME NEW w \in WalkState, NEW t \in Seq(STRING)
  PROVE  Turn(w, t, StatementToken(w, t))
  <1>1. PICK x : x = StatementToken(w, t)
    OBVIOUS
  <1>2. PICK kept : kept = [w EXCEPT !.prev = t]
    OBVIOUS
  <1>3. x = CASE w.prev = <<"port">> /\ ~w.found_port ->
                   IF ValidPort(t)
                   THEN [kept EXCEPT !.port = Stoi(t), !.found_port = TRUE]
                   ELSE w
              [] w.prev = <<"root">> ->
                   [kept EXCEPT !.root = IF t = <<".">> THEN <<>> ELSE t]
              [] w.prev = <<"threadCount">> ->
                   IF ~IsNumber(t) THEN w
                   ELSE IF ToUnsigned(Stoi(t)) > 0
                        THEN [kept EXCEPT !.threads = ToUnsigned(Stoi(t))]
                        ELSE [w EXCEPT !.threads = 10]
              [] OTHER -> kept
    BY <1>1, <1>2, Zenon DEF StatementToken
  <1>4. <<"port">> # <<"root">> /\ <<"port">> # <<"threadCount">> /\ <<"root">> # <<"threadCount">>
    <2>1. "port" # "root" /\ "port" # "threadCount" /\ "root" # "threadCount"
      OBVIOUS
    <2> QED BY <2>1
  <1>5. PICK a : a = <<"port">>
    OBVIOUS
  <1>6. PICK b : b = <<"root">>
    OBVIOUS
  <1>7. PICK c : c = <<"threadCount">>
    OBVIOUS
  <1>8. a # b /\ a # c /\ b # c
    BY <1>4, <1>5, <1>6, <1>7, Zenon
  <1>9. CASE w.prev = a /\ ~w.found_port
    <2>1. x = IF ValidPort(t) THEN [kept EXCEPT !.port = Stoi(t), !.found_port = TRUE] ELSE w
      BY <1>3, <1>5, <1>6, <1>7, <1>8, <1>9, Zenon
    <2>2. CASE ValidPort(t)
      <3>1. x = [w EXCEPT !.prev = t, !.port = Stoi(t), !.found_port = TRUE]
        BY <1>2, <2>1, <2>2, Zenon
      <3> QED BY <1>1, <1>5, <1>9, <2>2, <3>1, Zenon DEF Turn, TurnPort
    <2>3. CASE ~ValidPort(t)
      BY <1>1, <1>5, <1>9, <2>1, <2>3, Zenon DEF Turn, TurnStays
    <2> QED BY <2>2, <2>3
  <1>10. CASE w.prev = b
    <2>1. PICK r : r = IF t = <<".">> THEN <<>> ELSE t
      OBVIOUS
    <2>2. r \in Seq(STRING)
      BY <2>1, EmptySeq, Zenon
    <2>3. x = [kept EXCEPT !.root = r]
      BY <1>3, <1>5, <1>6, <1>7, <1>8, <1>10, <2>1, Zenon
    <2>4. x = [w EXCEPT !.prev = t, !.root = r]
      BY <1>2, <2>3, Zenon
    <2> QED BY <1>1, <1>6, <1>10, <2>2, <2>4, Zenon DEF Turn, TurnRoot
  <1>11. CASE w.prev = c
    <2>1. x = IF ~IsNumber(t) THEN w
              ELSE IF ToUnsigned(Stoi(t)) > 0
                   THEN [kept EXCEPT !.threads = ToUnsigned(Stoi(t))]
                   ELSE [w EXCEPT !.threads = 10]
      BY <1>3, <1>5, <1>6, <1>7, <1>8, <1>11, Zenon
    <2>2. w.prev # <<"port">>
      BY <1>5, <1>8, <1>11
    <2>3. CASE ~IsNumber(t)
      BY <1>1, <1>7, <1>11, <2>1, <2>2, <2>3, Zenon DEF Turn, TurnStays
    <2>4. CASE IsNumber(t) /\ ToUnsigned(Stoi(t)) > 0
      <3>1. x = [w EXCEPT !.prev = t, !.threads = ToUnsigned(Stoi(t))]
        BY <1>2, <2>1, <2>4, Zenon
      <3> QED BY <1>1, <1>7, <1>11, <2>4, <3>1, Zenon DEF Turn, TurnThreads
    <2>5. CASE IsNumber(t) /\ ~(ToUnsigned(Stoi(t)) > 0)
      <3>1. x = [w EXCEPT !.threads = 10]
        BY <2>1, <2>5, Zenon
      <3> QED BY <1>1, <1>7, <1>11, <2>5, <3>1, Zenon DEF Turn, TurnThreads
    <2> QED BY <2>3, <2>4, <2>5
  <1>12. CASE ~(w.prev = a /\ ~w.found_port) /\ w.prev # b /\ w.prev # c
    <2>1. x = kept
      BY <1>3, <1>5, <1>6, <1>7, <1>12, Zenon
    <2> QED BY <1>1, <1>2, <1>5, <1>12, <2>1, Zenon DEF Turn, TurnKept
  <1> QED BY <1>9, <1>10, <1>11, <1>12

(* A turn keeps the types of the local variables.                          *)
LEMMA TurnType ==
  ASSUME NEW w \in WalkState, NEW t \in Seq(STRING), NEW x, Turn(w, t, x)
  PROVE  x \in WalkState
  <1>1. ValidPort(t) => Stoi(t) \in Int
    BY ConfigAssumption DEF ValidPort
  <1>2. IsNumber(t) => ToUnsigned(Stoi(t)) \in Nat
    BY UnsignedIs
  <1>3. CASE TurnPort(w, t, x)
    <2>1. PICK p \in Int : p = Stoi(t)
      BY <1>1, <1>3 DEF TurnPort
    <2>2. x = [w EXCEPT !.prev = t, !.port = p, !.found_port = TRUE]
      BY <1>3, <2>1, Zenon DEF TurnPort
    <2>3. PICK b \in BOOLEAN : b = TRUE
      OBVIOUS
    <2>4. x = [w EXCEPT !.prev = t, !.port = p, !.found_port = b]
      BY <2>2, <2>3, Zenon
    <2> QED BY ONLY w \in WalkState, t \in Seq(STRING), p \in Int, b \in BOOLEAN, <2>4 DEF WalkState
  <1>4. CASE TurnThreads(w, t, x)
    <2>1. PICK u \in Nat : u = ToUnsigned(Stoi(t))
      BY <1>2, <1>4 DEF TurnThreads
    <2>2. x = [w EXCEPT !.prev = t, !.threads = u] \/ x = [w EXCEPT !.threads = 10]
      BY <1>4, <2>1, Zenon DEF TurnThreads
    <2>3. CASE x = [w EXCEPT !.prev = t, !.threads = u]
      BY ONLY w \in WalkState, t \in Seq(STRING), u \in Nat, <2>3 DEF WalkState
    <2>4. CASE x = [w EXCEPT !.threads = 10]
      BY ONLY w \in WalkState, <2>4 DEF WalkState
    <2> QED BY <2>2, <2>3, <2>4
  <1>5. CASE TurnRoot(w, t, x)
    <2>1. PICK r \in Seq(STRING) : x = [w EXCEPT !.prev = t, !.root = r]
      BY <1>5, Zenon DEF TurnRoot
    <2> QED BY <2>1 DEF WalkState
  <1>6. CASE TurnKept(w, t, x)
    <2>1. x = [w EXCEPT !.prev = t]
      BY <1>6, Zenon DEF TurnKept
    <2> QED BY <2>1 DEF WalkState
  <1>7. CASE TurnStays(w, t, x)
    BY <1>7 DEF TurnStays
  <1> QED BY <1>3, <1>4, <1>5, <1>6, <1>7 DEF Turn

(* What a turn changes.                                                    *)
LEMMA TurnChanges ==
  ASSUME NEW w \in WalkState, NEW t \in Seq(STRING), NEW x, Turn(w, t, x)
  PROVE  /\ x.prev = t \/ x.prev = w.prev
         /\ w.prev \notin {<<"port">>, <<"threadCount">>} => x.prev = t
         /\ \/ /\ w.prev = <<"port">> /\ ~w.found_port /\ ValidPort(t)
               /\ x.prev = t /\ x.found_port /\ x.port = Stoi(t)
            \/ /\ ~(w.prev = <<"port">> /\ ~w.found_port /\ ValidPort(t))
               /\ (x.found_port <=> w.found_port) /\ x.port = w.port
         /\ \/ x.threads = w.threads
            \/ x.threads = 10
            \/ /\ w.prev = <<"threadCount">> /\ IsNumber(t)
               /\ x.threads = ToUnsigned(Stoi(t)) /\ x.threads > 0
  <1>a. PICK p : p = <<"port">>
    OBVIOUS
  <1>b. PICK c : c = <<"threadCount">>
    OBVIOUS
  <1>c. PICK q : q = <<"root">>
    OBVIOUS
  <1>d. p # c /\ p # q /\ c # q
    <2>1. "port" # "root" /\ "port" # "threadCount" /\ "root" # "threadCount"
      OBVIOUS
    <2> QED BY <2>1, <1>a, <1>b, <1>c
  <1>1. DOMAIN w = {"prev", "found_port", "port", "root", "threads"}
    BY DEF WalkState
  <1>2. "prev" \in DOMAIN w /\ "found_port" \in DOMAIN w /\ "port" \in DOMAIN w /\ "threads" \in DOMAIN w
    BY <1>1
  <1>3. CASE TurnPort(w, t, x)
    <2>1. PICK s : s = Stoi(t)
      OBVIOUS
    <2>2. PICK b : b = TRUE
      OBVIOUS
    <2>3. x = [w EXCEPT !.prev = t, !.port = s, !.found_port = b]
      BY <1>3, <2>1, <2>2, Zenon DEF TurnPort
    <2>4. x.prev = t /\ x.port = s /\ x.found_port = b /\ x.threads = w.threads
      BY ONLY <1>2, <2>3
    <2> QED BY <1>3, <1>a, <1>b, <1>d, <2>1, <2>2, <2>4, Zenon DEF TurnPort
  <1>4. CASE TurnThreads(w, t, x)
    <2>1. PICK u : u = ToUnsigned(Stoi(t))
      OBVIOUS
    <2>2. \/ u > 0 /\ x = [w EXCEPT !.prev = t, !.threads = u] 
          \/ x = [w EXCEPT !.threads = 10]
      BY <1>4, <2>1, Zenon DEF TurnThreads
    <2>3. w.prev = c /\ IsNumber(t)
      BY <1>4, <1>b, Zenon DEF TurnThreads
    <2>4. CASE u > 0 /\ x = [w EXCEPT !.prev = t, !.threads = u]
      <3>1. x.prev = t /\ x.port = w.port /\ x.found_port = w.found_port /\ x.threads = u
        BY ONLY <1>2, <2>4
      <3> QED BY <1>a, <1>b, <1>d, <2>1, <2>3, <2>4, <3>1, Zenon
    <2>5. CASE x = [w EXCEPT !.threads = 10]
      <3>1. x.prev = w.prev /\ x.port = w.port /\ x.found_port = w.found_port /\ x.threads = 10
        BY ONLY <1>2, <2>5
      <3> QED BY <1>a, <1>b, <1>d, <2>3, <3>1, Zenon
    <2> QED BY <2>2, <2>4, <2>5
  <1>5. CASE TurnRoot(w, t, x)
    <2>1. PICK r \in Seq(STRING) : x = [w EXCEPT !.prev = t, !.root = r]
      BY <1>5, Zenon DEF TurnRoot
    <2>2. x.prev = t /\ x.port = w.port /\ x.found_port = w.found_port /\ x.threads = w.threads
      BY ONLY <1>2, <2>1
    <2>3. w.prev = q
      BY <1>5, <1>c, Zenon DEF TurnRoot
    <2> QED BY <1>a, <1>d, <2>2, <2>3, Zenon
  <1>6. CASE TurnKept(w, t, x)
    <2>1. x = [w EXCEPT !.prev = t]
      BY <1>6, Zenon DEF TurnKept
    <2>2. x.prev = t /\ x.port = w.port /\ x.found_port = w.found_port /\ x.threads = w.threads
      BY ONLY <1>2, <2>1
    <2> QED BY <1>6, <2>2, Zenon DEF TurnKept
  <1>7. CASE TurnStays(w, t, x)
    <2>1. x = w /\ (w.prev = <<"port">> /\ ~w.found_port => ~ValidPort(t))
          /\ (w.prev = <<"port">> \/ w.prev = <<"threadCount">>)
      BY <1>7, Zenon DEF TurnStays
    <2> QED BY <2>1, Zenon
  <1> QED BY <1>3, <1>4, <1>5, <1>6, <1>7, Zenon DEF Turn

-----------------------------------------------------------------------------
(* One statement: its tokens q.                                            *)

(* Its j-th token may be taken as the port; it begins with "port" and a    *)
(* valid number; its j-th token may be taken as the thread count.          *)
PortIn(q, j) ==
  /\ ValidPort(q[j])
  /\ \E i \in 1..(j - 1) : q[i] = <<"port">> /\ \A x \in (i + 1)..(j - 1) : ~ValidPort(q[x])
PortFirst(q) == Len(q) >= 2 /\ q[1] = <<"port">> /\ ValidPort(q[2])
ThreadsIn(q, j) == IsNumber(q[j]) /\ \E i \in 1..(j - 1) : q[i] = <<"threadCount">>

(* The last word kept: the port it waits for, the count it waits for.      *)
Waits(q, k, w) ==
  /\ w.prev = <<"port">> /\ ~w.found_port =>
       \E i \in 1..k : q[i] = <<"port">> /\ \A x \in (i + 1)..k : ~ValidPort(q[x])
  /\ w.prev = <<"threadCount">> => \E i \in 1..k : q[i] = <<"threadCount">>

(* The port taken from the first k tokens, from w0 on.                     *)
PortTaken(q, k, w0, w) ==
  /\ w0.found_port => w.found_port /\ w.port = w0.port
  /\ ~w0.found_port /\ w.found_port =>
       \E j \in 1..k : PortIn(q, j) /\ w.port = Stoi(q[j]) /\ (PortFirst(q) => j = 2)
  /\ PortFirst(q) /\ k >= 2 => w.found_port

(* The thread count.                                                       *)
CountTaken(q, k, w0, w) ==
  \/ w.threads \in {10, w0.threads}
  \/ \E j \in 1..k : ThreadsIn(q, j) /\ w.threads = ToUnsigned(Stoi(q[j])) /\ w.threads > 0

(* The loop over the tokens has taken the first k of them.                 *)
TokensDone(q, k, w0, w) ==
  /\ w \in WalkState
  /\ k = 0 => w = [w0 EXCEPT !.prev = <<>>]
  /\ k = 1 => w.prev = q[1] /\ (w.found_port <=> w0.found_port)
  /\ Waits(q, k, w) /\ PortTaken(q, k, w0, w) /\ CountTaken(q, k, w0, w)

(* The words the loop looks for are told apart and are not empty.          *)
LEMMA KeyWords ==
  <<"port">> # <<"threadCount">> /\ <<>> # <<"port">> /\ <<>> # <<"threadCount">>
  <1>1. "port" # "threadCount"
    OBVIOUS
  <1>2. PICK a : a = "port"
    OBVIOUS
  <1>3. PICK b : b = "threadCount"
    OBVIOUS
  <1>4. Len(<<a>>) = 1 /\ Len(<<b>>) = 1 /\ Len(<<>>) = 0
    OBVIOUS
  <1>5. <<a>> # <<b>>
    BY <1>1, <1>2, <1>3
  <1>6. <<>> # <<a>> /\ <<>> # <<b>>
    BY <1>4
  <1> QED BY <1>2, <1>3, <1>5, <1>6, Zenon

(* One turn more.                                                          *)
LEMMA OneTurn ==
  ASSUME NEW q \in Seq(Seq(STRING)), NEW k \in 1..Len(q), NEW w0 \in WalkState, NEW w, NEW x,
         TokensDone(q, k - 1, w0, w), Turn(w, q[k], x)
  PROVE  TokensDone(q, k, w0, x)
  <1>1. PICK n \in Nat : n = Len(q) /\ k \in 1..n /\ k - 1 \in Nat /\ k \in 1..k
    OBVIOUS
  <1>2. PICK t \in Seq(STRING) : t = q[k]
    OBVIOUS
  <1>3. w \in WalkState /\ Turn(w, t, x)
    BY <1>2 DEF TokensDone
  <1>4. x \in WalkState
    BY <1>3, TurnType
  <1>a. PICK p : p = <<"port">>
    OBVIOUS
  <1>b. PICK c : c = <<"threadCount">>
    OBVIOUS
  <1>5. /\ x.prev = t \/ x.prev = w.prev
        /\ w.prev # p /\ w.prev # c => x.prev = t
        /\ \/ /\ w.prev = p /\ ~w.found_port /\ ValidPort(t)
              /\ x.prev = t /\ x.found_port /\ x.port = Stoi(t)
           \/ /\ ~(w.prev = p /\ ~w.found_port /\ ValidPort(t))
              /\ (x.found_port <=> w.found_port) /\ x.port = w.port
        /\ \/ x.threads = w.threads
           \/ x.threads = 10
           \/ /\ w.prev = c /\ IsNumber(t)
              /\ x.threads = ToUnsigned(Stoi(t)) /\ x.threads > 0
    <2>1. w.prev # p /\ w.prev # c => x.prev = t
      BY <1>3, <1>a, <1>b, TurnChanges
    <2>2. x.prev = t \/ x.prev = w.prev
      BY <1>3, TurnChanges
    <2>3. \/ /\ w.prev = <<"port">> /\ ~w.found_port /\ ValidPort(t)
             /\ x.prev = t /\ x.found_port /\ x.port = Stoi(t)
          \/ /\ ~(w.prev = <<"port">> /\ ~w.found_port /\ ValidPort(t))
             /\ (x.found_port <=> w.found_port) /\ x.port = w.port
      BY <1>3, TurnChanges
    <2>4. \/ x.threads = w.threads
          \/ x.threads = 10
          \/ /\ w.prev = <<"threadCount">> /\ IsNumber(t)
             /\ x.threads = ToUnsigned(Stoi(t)) /\ x.threads > 0
      BY <1>3, TurnChanges
    <2> QED BY <1>a, <1>b, <2>1, <2>2, <2>3, <2>4, Zenon
  <1>6. (k - 1) + 1 = k /\ 1..(k - 1) \subseteq 1..k /\ k \notin 1..(k - 1)
    OBVIOUS
  <1>7. Waits(q, k - 1, w) /\ PortTaken(q, k - 1, w0, w) /\ CountTaken(q, k - 1, w0, w)
    BY DEF TokensDone
  <1>8. Waits(q, k, x)
    <2>1. ASSUME x.prev = p, ~x.found_port
          PROVE  \E i \in 1..k : q[i] = p /\ \A y \in (i + 1)..k : ~ValidPort(q[y])
      <3>1. ~w.found_port
        BY <1>5, <2>1, Zenon
      <3>2. CASE x.prev = t
        <4>1. (k + 1)..k = {}
          OBVIOUS
        <4> QED BY <1>1, <1>2, <2>1, <3>2, <4>1, Zenon
      <3>3. CASE x.prev = w.prev
        <4>1. PICK i \in 1..(k - 1) : q[i] = p /\ \A y \in (i + 1)..(k - 1) : ~ValidPort(q[y])
          BY <1>7, <1>a, <2>1, <3>1, <3>3, Zenon DEF Waits
        <4>2. ~ValidPort(t)
          BY <1>5, <2>1, <3>1, <3>3, Zenon
        <4>3. \A y \in (i + 1)..k : y = k \/ y \in (i + 1)..(k - 1)
          OBVIOUS
        <4>4. i \in 1..k
          OBVIOUS
        <4> QED BY <1>2, <4>1, <4>2, <4>3, <4>4, Zenon
      <3> QED BY <1>5, <3>2, <3>3
    <2>2. ASSUME x.prev = c PROVE \E i \in 1..k : q[i] = c
      <3>1. CASE x.prev = t
        BY <1>1, <1>2, <2>2, <3>1
      <3>2. CASE x.prev = w.prev
        BY <1>6, <1>7, <1>b, <2>2, <3>2, Zenon DEF Waits
      <3> QED BY <1>5, <3>1, <3>2
    <2> QED BY <1>a, <1>b, <2>1, <2>2, Zenon DEF Waits
  <1>9. CountTaken(q, k, w0, x)
    <2>1. CASE x.threads = w.threads
      BY <1>6, <1>7, <2>1, Zenon DEF CountTaken
    <2>2. CASE x.threads = 10
      BY <2>2 DEF CountTaken
    <2>3. CASE /\ w.prev = c /\ IsNumber(t)
               /\ x.threads = ToUnsigned(Stoi(t)) /\ x.threads > 0
      <3>1. \E i \in 1..(k - 1) : q[i] = c
        BY <1>7, <1>b, <2>3, Zenon DEF Waits
      <3>2. ThreadsIn(q, k)
        BY <1>2, <1>b, <2>3, <3>1, Zenon DEF ThreadsIn
      <3> QED BY <1>1, <1>2, <2>3, <3>2, Zenon DEF CountTaken
    <2> QED BY <1>5, <2>1, <2>2, <2>3
  <1>10. k = 1 => x.prev = q[1] /\ (x.found_port <=> w0.found_port) /\ w.prev = <<>>
    <2> SUFFICES ASSUME k = 1 PROVE x.prev = q[1] /\ (x.found_port <=> w0.found_port) /\ w.prev = <<>>
      OBVIOUS
    <2>1. k - 1 = 0
      OBVIOUS
    <2>2. PICK z : z = <<>>
      OBVIOUS
    <2>3. w = [w0 EXCEPT !.prev = z]
      BY <2>1, <2>2, Zenon DEF TokensDone
    <2>4. "prev" \in DOMAIN w0 /\ "found_port" \in DOMAIN w0
      BY DEF WalkState
    <2>5. w.prev = z /\ w.found_port = w0.found_port
      BY ONLY <2>3, <2>4
    <2>6. w.prev # p /\ w.prev # c
      BY <1>a, <1>b, <2>2, <2>5, KeyWords, Zenon
    <2> QED BY <1>2, <1>5, <2>2, <2>5, <2>6, Zenon
  <1>11. PortFirst(q) /\ k >= 2 => x.found_port
    <2> SUFFICES ASSUME PortFirst(q), k >= 2 PROVE x.found_port
      OBVIOUS
    <2>1. CASE k = 2
      <3>1. k - 1 = 1
        BY <2>1
      <3>2. w.prev = q[1] /\ q[1] = p /\ ValidPort(t)
        BY <1>2, <1>a, <2>1, <3>1 DEF TokensDone, PortFirst
      <3> QED BY <1>5, <3>2, Zenon
    <2>2. CASE k > 2
      <3>1. k - 1 >= 2
        BY <2>2
      <3>2. w.found_port
        BY <1>7, <3>1, Zenon DEF PortTaken
      <3> QED BY <1>5, <3>2, Zenon
    <2> QED BY <2>1, <2>2
  <1>12. PortTaken(q, k, w0, x)
    <2>1. w0.found_port => x.found_port /\ x.port = w0.port
      BY <1>5, <1>7, Zenon DEF PortTaken
    <2>2. ASSUME ~w0.found_port, x.found_port
          PROVE  \E j \in 1..k : PortIn(q, j) /\ x.port = Stoi(q[j]) /\ (PortFirst(q) => j = 2)
      <3>1. CASE w.found_port
        <4>1. x.port = w.port
          BY <1>5, <3>1, Zenon
        <4>2. \E j \in 1..(k - 1) : PortIn(q, j) /\ w.port = Stoi(q[j]) /\ (PortFirst(q) => j = 2)
          BY <1>7, <2>2, <3>1, Zenon DEF PortTaken
        <4> QED BY <1>6, <4>1, <4>2, Zenon
      <3>2. CASE ~w.found_port
        <4>1. w.prev = p /\ ValidPort(t) /\ x.port = Stoi(t)
          BY <1>5, <2>2, <3>2, Zenon
        <4>2. \E i \in 1..(k - 1) : q[i] = p /\ \A y \in (i + 1)..(k - 1) : ~ValidPort(q[y])
          BY <1>7, <1>a, <3>2, <4>1, Zenon DEF Waits
        <4>3. PortIn(q, k)
          BY <1>2, <1>a, <4>1, <4>2, Zenon DEF PortIn
        <4>4. PortFirst(q) => k = 2
          <5> SUFFICES ASSUME PortFirst(q), k # 2 PROVE FALSE
            OBVIOUS
          <5>1. ~(k - 1 >= 2)
            BY <1>7, <3>2, Zenon DEF PortTaken
          <5>2. k = 1
            BY <5>1
          <5>3. w.prev = <<>>
            BY <1>10, <5>2
          <5> QED BY <1>a, <4>1, <5>3, KeyWords, Zenon
        <4> QED BY <1>1, <1>2, <4>1, <4>3, <4>4, Zenon
      <3> QED BY <3>1, <3>2
    <2> QED BY <1>11, <2>1, <2>2, Zenon DEF PortTaken
  <1>13. k # 0
    OBVIOUS
  <1> QED BY <1>4, <1>8, <1>9, <1>10, <1>12, <1>13, Zenon DEF TokensDone

-----------------------------------------------------------------------------
(* The loop over the tokens of a statement, turn by turn.                  *)
LEMMA TokensFold ==
  ASSUME NEW w \in WalkState, NEW q \in Seq(Seq(STRING))
  PROVE  \E st \in [0..Len(q) -> WalkState] :
           /\ st[0] = w
           /\ \A k \in 1..Len(q) : st[k] = StatementToken(st[k - 1], q[k])
           /\ FoldLeft(StatementToken, w, q) = st[Len(q)]
  <1>1. PICK B : B = Seq(STRING)
    OBVIOUS
  <1>2. PICK G : G = [p \in WalkState \X B |-> StatementToken(p[1], p[2])]
    OBVIOUS
  <1>3. ASSUME NEW u \in WalkState, NEW t \in B PROVE StatementToken(u, t) \in WalkState
    <2>1. Turn(u, t, StatementToken(u, t))
      BY <1>1, StatementTokenIs
    <2>2. PICK x : x = StatementToken(u, t)
      OBVIOUS
    <2> QED BY <1>1, <2>1, <2>2, TurnType
  <1>4. G \in [WalkState \X B -> WalkState]
    <2>1. ASSUME NEW p \in WalkState \X B PROVE StatementToken(p[1], p[2]) \in WalkState
      <3>1. p[1] \in WalkState /\ p[2] \in B
        OBVIOUS
      <3> QED BY <1>3, <3>1
    <2> QED BY <1>2, <2>1, Zenon
  <1>5. \A u \in WalkState : \A t \in B : G[<<u, t>>] = StatementToken(u, t)
    <2> SUFFICES ASSUME NEW u \in WalkState, NEW t \in B
                 PROVE  G[<<u, t>>] = StatementToken(u, t)
      OBVIOUS
    <2>1. PICK p : p = <<u, t>>
      OBVIOUS
    <2>2. p \in WalkState \X B /\ p[1] = u /\ p[2] = t
      BY <2>1
    <2>3. G[p] = StatementToken(p[1], p[2])
      BY <1>2, <2>2, Zenon
    <2> QED BY <2>1, <2>2, <2>3, Zenon
  <1>6. q \in Seq(B)
    BY <1>1
  <1>7. PICK f \in [SUBSET DOMAIN q -> WalkState] : FoldsBy(f, G, w, q)
    BY <1>4, <1>6, FoldExists
  <1>8. PICK n \in Nat : n = Len(q) /\ DOMAIN q = 1..n /\ \A i \in 1..n : q[i] \in B
    BY <1>6
  <1>9. ASSUME NEW s \in SUBSET DOMAIN q, s # {}
        PROVE  s \ {Max(s)} \in SUBSET DOMAIN q /\ Max(s) \in DOMAIN q
    BY <1>8, <1>9, MaxOfIndices
  <1>10. f = [s \in SUBSET DOMAIN q |->
                IF s = {} THEN w ELSE StatementToken(f[s \ {Max(s)}], q[Max(s)])]
    <2>1. ASSUME NEW s \in SUBSET DOMAIN q
          PROVE  f[s] = IF s = {} THEN w ELSE StatementToken(f[s \ {Max(s)}], q[Max(s)])
      <3>1. f[s] = IF s = {} THEN w ELSE G[<<f[s \ {Max(s)}], q[Max(s)]>>]
        BY <1>7, Zenon DEF FoldsBy
      <3>2. CASE s = {}
        BY <3>1, <3>2, Zenon
      <3>3. CASE s # {}
        <4>1. PICK x : x = Max(s)
          OBVIOUS
        <4>2. PICK r : r = s \ {x}
          OBVIOUS
        <4>3. f[r] \in WalkState /\ q[x] \in B
          BY <1>7, <1>8, <1>9, <3>3, <4>1, <4>2
        <4>4. G[<<f[r], q[x]>>] = StatementToken(f[r], q[x])
          BY <1>5, <4>3
        <4> QED BY <3>1, <3>3, <4>1, <4>2, <4>4, Zenon
      <3> QED BY <3>2, <3>3, Zenon
    <2> QED BY <1>7, <2>1, Zenon
  <1>11. PICK h : h = CHOOSE any : any = [s \in SUBSET DOMAIN q |->
                        IF s = {} THEN w ELSE StatementToken(any[s \ {Max(s)}], q[Max(s)])]
    OBVIOUS
  <1>12. h = [s \in SUBSET DOMAIN q |->
                IF s = {} THEN w ELSE StatementToken(h[s \ {Max(s)}], q[Max(s)])]
    BY <1>10, <1>11, Zenon
  <1>13. FoldLeft(StatementToken, w, q) = h[DOMAIN q]
    BY <1>11, Zenon DEF FoldLeft, MapThenFoldSet
  <1>14. FoldsAlike(f, h, q)
    <2>1. f = [s \in SUBSET DOMAIN q |-> f[s]] /\ h = [s \in SUBSET DOMAIN q |-> h[s]]
      BY <1>10, <1>12, Zenon
    <2>2. {} \in SUBSET DOMAIN q
      OBVIOUS
    <2>3. f[{}] = w /\ h[{}] = w
      BY <1>10, <1>12, <2>2, Zenon
    <2>4. ASSUME NEW s \in SUBSET DOMAIN q, s # {}, f[s \ {Max(s)}] = h[s \ {Max(s)}]
          PROVE  f[s] = h[s]
      <3>1. f[s] = StatementToken(f[s \ {Max(s)}], q[Max(s)])
        BY <1>10, <2>4, Zenon
      <3>2. h[s] = StatementToken(h[s \ {Max(s)}], q[Max(s)])
        BY <1>12, <2>4, Zenon
      <3> QED BY <2>4, <3>1, <3>2, Zenon
    <2> QED BY <2>1, <2>3, <2>4, Zenon DEF FoldsAlike
  <1>15. f = h
    BY <1>6, <1>14, FoldUnique, SMT
  <1>16. PICK st \in [0..Len(q) -> WalkState] :
           /\ st[0] = w
           /\ \A k \in 1..Len(q) : st[k] = G[<<st[k - 1], q[k]>>]
           /\ f[DOMAIN q] = st[Len(q)]
    <2>1. FoldsBy(f, G, w, q)
      BY <1>7
    <2>2. FoldOf(f, WalkState, B, G, w, q)
      BY <1>4, <1>6, <2>1, Zenon DEF FoldOf
    <2>3. PICK st : FoldTrace(st, f, WalkState, G, w, q)
      BY <2>2, FoldSteps, SMT
    <2> QED BY <2>3, Zenon DEF FoldTrace
  <1>17. ASSUME NEW k \in 1..Len(q) PROVE st[k] = StatementToken(st[k - 1], q[k])
    <2>1. k - 1 \in 0..Len(q)
      BY <1>8
    <2>2. st[k - 1] \in WalkState /\ q[k] \in B
      BY <1>8, <1>16, <2>1
    <2> QED BY <1>5, <1>16, <2>2, Zenon
  <1> QED BY <1>13, <1>15, <1>16, <1>17, Zenon

(* The same over the statements.                                           *)
StatementIs(w0, q, w) ==
  /\ w0 \in WalkState /\ w \in WalkState /\ q \in Seq(Seq(STRING))
  /\ PortTaken(q, Len(q), w0, w) /\ CountTaken(q, Len(q), w0, w)
  /\ PortFirst(q) => w.found_port

(* What one statement does to the port and the thread count.               *)
LEMMA StatementTakes ==
  ASSUME NEW w0 \in WalkState, NEW r, r.tokens \in Seq(Seq(STRING))
  PROVE  StatementIs(w0, r.tokens, Statement(w0, r))
  <1>1. PICK q \in Seq(Seq(STRING)) : q = r.tokens
    OBVIOUS
  <1>2. PICK z : z = <<>> /\ z \in Seq(STRING)
    BY EmptySeq
  <1>3. PICK u : u = [w0 EXCEPT !.prev = z]
    OBVIOUS
  <1>4. u \in WalkState
    BY <1>2, <1>3 DEF WalkState
  <1>5. Statement(w0, r) = FoldLeft(StatementToken, u, q)
    BY <1>1, <1>2, <1>3, Zenon DEF Statement
  <1>6. PICK st \in [0..Len(q) -> WalkState] :
           /\ st[0] = u
           /\ \A k \in 1..Len(q) : st[k] = StatementToken(st[k - 1], q[k])
           /\ FoldLeft(StatementToken, u, q) = st[Len(q)]
    BY <1>4, TokensFold
  <1>7. PICK n \in Nat : n = Len(q) /\ \A i \in 1..n : q[i] \in Seq(STRING)
    <2>1. Len(q) \in Nat
      OBVIOUS
    <2>2. \A i \in 1..Len(q) : q[i] \in Seq(STRING)
      OBVIOUS
    <2> QED BY <2>1, <2>2
  <1>8. TokensDone(q, 0, w0, st[0])
    <2>1. /\ u.prev = z /\ u.threads = w0.threads /\ u.port = w0.port
          /\ u.found_port = w0.found_port
      <3>1. {"prev", "threads", "port", "found_port"} \subseteq DOMAIN w0
        BY DEF WalkState
      <3> QED BY ONLY <1>3, <3>1
    <2>2. u.prev # <<"port">> /\ u.prev # <<"threadCount">>
      BY <1>2, <2>1, KeyWords, Zenon
    <2>3. Waits(q, 0, u)
      BY <2>2, Zenon DEF Waits
    <2>4. ~(0 >= 2) /\ 0 # 1
      OBVIOUS
    <2>5. PortTaken(q, 0, w0, u)
      BY <2>1, <2>4, Zenon DEF PortTaken
    <2>6. CountTaken(q, 0, w0, u)
      BY <2>1 DEF CountTaken
    <2> QED BY <1>2, <1>3, <1>4, <1>6, <2>3, <2>4, <2>5, <2>6, Zenon DEF TokensDone
  <1>9. TokensDone(q, n, w0, st[n])
    <2> DEFINE Bad == {k \in Nat : k <= n /\ ~TokensDone(q, k, w0, st[k])}
    <2> SUFFICES ASSUME ~TokensDone(q, n, w0, st[n]) PROVE FALSE
      OBVIOUS
    <2>1. n \in Bad /\ Bad \in SUBSET Nat
      OBVIOUS
    <2> HIDE DEF Bad
    <2>2. PICK b \in Bad : \A c \in Bad : b <= c
      BY <2>1, FirstIndex
    <2>3. b \in Nat /\ b <= n /\ ~TokensDone(q, b, w0, st[b])
      BY DEF Bad
    <2>4. b # 0
      BY <1>8, <2>3
    <2>5. b \in 1..n /\ b - 1 \in Nat /\ b - 1 <= n /\ ~(b <= b - 1) /\ b - 1 \in 0..n
      BY <2>3, <2>4
    <2>6. TokensDone(q, b - 1, w0, st[b - 1])
      <3>1. b - 1 \notin Bad
        BY <2>2, <2>5
      <3> QED BY <2>5, <3>1 DEF Bad
    <2>7. st[b - 1] \in WalkState /\ st[b] = StatementToken(st[b - 1], q[b])
      BY <1>6, <1>7, <2>5
    <2>8. Turn(st[b - 1], q[b], st[b])
      <3>1. PICK t \in Seq(STRING) : t = q[b]
        BY <1>7, <2>5
      <3>2. PICK v \in WalkState : v = st[b - 1]
        BY <2>7
      <3>3. Turn(v, t, StatementToken(v, t))
        BY StatementTokenIs
      <3> QED BY <2>7, <3>1, <3>2, <3>3, Zenon
    <2>9. b \in 1..Len(q)
      BY <1>7, <2>5
    <2>10. TokensDone(q, b, w0, st[b])
      BY <2>6, <2>8, <2>9, OneTurn
    <2> QED BY <2>3, <2>10
  <1>10. PICK w : w = st[n] /\ w = Statement(w0, r)
    BY <1>5, <1>6, <1>7, Zenon
  <1>11. w \in WalkState /\ PortTaken(q, n, w0, w) /\ CountTaken(q, n, w0, w)
    BY <1>9, <1>10, Zenon DEF TokensDone
  <1>12. PortFirst(q) => w.found_port
    <2>1. PortFirst(q) => n >= 2
      BY <1>7 DEF PortFirst
    <2> QED BY <1>11, <2>1, Zenon DEF PortTaken
  <1> QED BY <1>1, <1>7, <1>10, <1>11, <1>12, Zenon DEF StatementIs

-----------------------------------------------------------------------------
(* The loop over the statements, turn by turn.                             *)
LEMMA StatementsFold ==
  ASSUME NEW w \in WalkState, NEW q \in Statements
  PROVE  \E st \in [0..Len(q) -> WalkState] :
           /\ st[0] = w
           /\ \A k \in 1..Len(q) : st[k] = Statement(st[k - 1], q[k])
           /\ FoldLeft(Statement, w, q) = st[Len(q)]
  <1>1. PICK B : B = StatementRecords
    OBVIOUS
  <1>2. PICK G : G = [p \in WalkState \X B |-> Statement(p[1], p[2])]
    OBVIOUS
  <1>3. ASSUME NEW u \in WalkState, NEW t \in B PROVE Statement(u, t) \in WalkState
    <2>1. t.tokens \in Seq(Seq(STRING))
      BY <1>1 DEF StatementRecords
    <2>2. StatementIs(u, t.tokens, Statement(u, t))
      BY <2>1, StatementTakes
    <2> QED BY <2>2, Zenon DEF StatementIs
  <1>4. G \in [WalkState \X B -> WalkState]
    <2>1. ASSUME NEW p \in WalkState \X B PROVE Statement(p[1], p[2]) \in WalkState
      <3>1. p[1] \in WalkState /\ p[2] \in B
        OBVIOUS
      <3> QED BY <1>3, <3>1
    <2> QED BY <1>2, <2>1, Zenon
  <1>5. \A u \in WalkState : \A t \in B : G[<<u, t>>] = Statement(u, t)
    <2> SUFFICES ASSUME NEW u \in WalkState, NEW t \in B
                 PROVE  G[<<u, t>>] = Statement(u, t)
      OBVIOUS
    <2>1. PICK p : p = <<u, t>>
      OBVIOUS
    <2>2. p \in WalkState \X B /\ p[1] = u /\ p[2] = t
      BY <2>1
    <2>3. G[p] = Statement(p[1], p[2])
      BY <1>2, <2>2, Zenon
    <2> QED BY <2>1, <2>2, <2>3, Zenon
  <1>6. q \in Seq(B)
    BY <1>1, StatementsAre
  <1>7. PICK f \in [SUBSET DOMAIN q -> WalkState] : FoldsBy(f, G, w, q)
    BY <1>4, <1>6, FoldExists
  <1>8. PICK n \in Nat : n = Len(q) /\ DOMAIN q = 1..n /\ \A i \in 1..n : q[i] \in B
    BY <1>6
  <1>9. ASSUME NEW s \in SUBSET DOMAIN q, s # {}
        PROVE  s \ {Max(s)} \in SUBSET DOMAIN q /\ Max(s) \in DOMAIN q
    BY <1>8, <1>9, MaxOfIndices
  <1>10. f = [s \in SUBSET DOMAIN q |->
                IF s = {} THEN w ELSE Statement(f[s \ {Max(s)}], q[Max(s)])]
    <2>1. ASSUME NEW s \in SUBSET DOMAIN q
          PROVE  f[s] = IF s = {} THEN w ELSE Statement(f[s \ {Max(s)}], q[Max(s)])
      <3>1. f[s] = IF s = {} THEN w ELSE G[<<f[s \ {Max(s)}], q[Max(s)]>>]
        BY <1>7, Zenon DEF FoldsBy
      <3>2. CASE s = {}
        BY <3>1, <3>2, Zenon
      <3>3. CASE s # {}
        <4>1. PICK x : x = Max(s)
          OBVIOUS
        <4>2. PICK r : r = s \ {x}
          OBVIOUS
        <4>3. f[r] \in WalkState /\ q[x] \in B
          BY <1>7, <1>8, <1>9, <3>3, <4>1, <4>2
        <4>4. G[<<f[r], q[x]>>] = Statement(f[r], q[x])
          BY <1>5, <4>3
        <4> QED BY <3>1, <3>3, <4>1, <4>2, <4>4, Zenon
      <3> QED BY <3>2, <3>3, Zenon
    <2> QED BY <1>7, <2>1, Zenon
  <1>11. PICK h : h = CHOOSE any : any = [s \in SUBSET DOMAIN q |->
                        IF s = {} THEN w ELSE Statement(any[s \ {Max(s)}], q[Max(s)])]
    OBVIOUS
  <1>12. h = [s \in SUBSET DOMAIN q |->
                IF s = {} THEN w ELSE Statement(h[s \ {Max(s)}], q[Max(s)])]
    BY <1>10, <1>11, Zenon
  <1>13. FoldLeft(Statement, w, q) = h[DOMAIN q]
    BY <1>11, Zenon DEF FoldLeft, MapThenFoldSet
  <1>14. FoldsAlike(f, h, q)
    <2>1. f = [s \in SUBSET DOMAIN q |-> f[s]] /\ h = [s \in SUBSET DOMAIN q |-> h[s]]
      BY <1>10, <1>12, Zenon
    <2>2. {} \in SUBSET DOMAIN q
      OBVIOUS
    <2>3. f[{}] = w /\ h[{}] = w
      BY <1>10, <1>12, <2>2, Zenon
    <2>4. ASSUME NEW s \in SUBSET DOMAIN q, s # {}, f[s \ {Max(s)}] = h[s \ {Max(s)}]
          PROVE  f[s] = h[s]
      <3>1. f[s] = Statement(f[s \ {Max(s)}], q[Max(s)])
        BY <1>10, <2>4, Zenon
      <3>2. h[s] = Statement(h[s \ {Max(s)}], q[Max(s)])
        BY <1>12, <2>4, Zenon
      <3> QED BY <2>4, <3>1, <3>2, Zenon
    <2> QED BY <2>1, <2>3, <2>4, Zenon DEF FoldsAlike
  <1>15. f = h
    BY <1>6, <1>14, FoldUnique, SMT
  <1>16. PICK st \in [0..Len(q) -> WalkState] :
           /\ st[0] = w
           /\ \A k \in 1..Len(q) : st[k] = G[<<st[k - 1], q[k]>>]
           /\ f[DOMAIN q] = st[Len(q)]
    <2>1. FoldsBy(f, G, w, q)
      BY <1>7
    <2>2. FoldOf(f, WalkState, B, G, w, q)
      BY <1>4, <1>6, <2>1, Zenon DEF FoldOf
    <2>3. PICK st : FoldTrace(st, f, WalkState, G, w, q)
      BY <2>2, FoldSteps, SMT
    <2> QED BY <2>3, Zenon DEF FoldTrace
  <1>17. ASSUME NEW k \in 1..Len(q) PROVE st[k] = Statement(st[k - 1], q[k])
    <2>1. k - 1 \in 0..Len(q)
      BY <1>8
    <2>2. st[k - 1] \in WalkState /\ q[k] \in B
      BY <1>8, <1>16, <2>1
    <2> QED BY <1>5, <1>16, <2>2, Zenon
  <1> QED BY <1>13, <1>15, <1>16, <1>17, Zenon


(* What the loop has taken from the first s statements of B.               *)
Found(B, s, w) ==
  \E r \in 1..s : \E j \in 1..Len(B[r].tokens) :
    /\ PortIn(B[r].tokens, j) /\ w.port = Stoi(B[r].tokens[j])
    /\ PortFirst(B[r].tokens) => j = 2
    /\ \A x \in 1..(r - 1) : ~PortFirst(B[x].tokens)
Counted(B, s, w) ==
  \E r \in 1..s : \E j \in 1..Len(B[r].tokens) :
    /\ ThreadsIn(B[r].tokens, j)
    /\ w.threads = ToUnsigned(Stoi(B[r].tokens[j])) /\ w.threads > 0
WalkDone(B, s, w) ==
  /\ w \in WalkState
  /\ w.found_port => Found(B, s, w)
  /\ ~w.found_port => \A r \in 1..s : ~PortFirst(B[r].tokens)
  /\ w.threads = 10 \/ Counted(B, s, w)

(* One statement more.                                                     *)
LEMMA OneStatement ==
  ASSUME NEW B, NEW s \in Nat \ {0}, NEW w, NEW x,
         WalkDone(B, s - 1, w), StatementIs(w, B[s].tokens, x)
  PROVE  WalkDone(B, s, x)
  <1>1. PICK q : q = B[s].tokens
    OBVIOUS
  <1>2. /\ w \in WalkState /\ x \in WalkState /\ q \in Seq(Seq(STRING))
        /\ PortTaken(q, Len(q), w, x) /\ CountTaken(q, Len(q), w, x)
        /\ PortFirst(q) => x.found_port
    BY <1>1 DEF StatementIs
  <1>3. s \in 1..s /\ 1..(s - 1) \subseteq 1..s /\ \A r \in 1..s : r = s \/ r \in 1..(s - 1)
    OBVIOUS
  <1>4. x.found_port => Found(B, s, x)
    <2> SUFFICES ASSUME x.found_port PROVE Found(B, s, x)
      OBVIOUS
    <2>1. CASE w.found_port
      <3>1. x.port = w.port
        BY <1>2, <2>1, Zenon DEF PortTaken
      <3>2. Found(B, s - 1, w)
        BY <2>1, Zenon DEF WalkDone
      <3> QED BY <1>3, <3>1, <3>2, Zenon DEF Found
    <2>2. CASE ~w.found_port
      <3>1. PICK j \in 1..Len(q) : PortIn(q, j) /\ x.port = Stoi(q[j]) /\ (PortFirst(q) => j = 2)
        BY <1>2, <2>2, Zenon DEF PortTaken
      <3>2. \A r \in 1..(s - 1) : ~PortFirst(B[r].tokens)
        BY <2>2, Zenon DEF WalkDone
      <3> QED BY <1>1, <1>3, <3>1, <3>2, Zenon DEF Found
    <2> QED BY <2>1, <2>2
  <1>5. ASSUME ~x.found_port, NEW r \in 1..s PROVE ~PortFirst(B[r].tokens)
    <2>1. CASE r = s
      BY <1>1, <1>2, <1>5, <2>1, Zenon
    <2>2. CASE r \in 1..(s - 1)
      <3>1. ~w.found_port
        BY <1>2, <1>5, Zenon DEF PortTaken
      <3> QED BY <2>2, <3>1, Zenon DEF WalkDone
    <2> QED BY <1>3, <2>1, <2>2, Zenon
  <1>6. x.threads = 10 \/ Counted(B, s, x)
    <2>1. CASE x.threads = 10
      BY <2>1
    <2>2. CASE x.threads = w.threads
      <3>1. w.threads = 10 \/ Counted(B, s - 1, w)
        BY Zenon DEF WalkDone
      <3> QED BY <1>3, <2>2, <3>1, Zenon DEF Counted
    <2>3. CASE \E j \in 1..Len(q) : ThreadsIn(q, j) /\ x.threads = ToUnsigned(Stoi(q[j])) /\ x.threads > 0
      BY <1>1, <1>3, <2>3, Zenon DEF Counted
    <2> QED BY <1>2, <2>1, <2>2, <2>3 DEF CountTaken
  <1> QED BY <1>2, <1>4, <1>5, <1>6, Zenon DEF WalkDone

(* What ParseStatements takes.                                             *)
LEMMA WalkTakes ==
  ASSUME NEW B \in Statements
  PROVE  WalkDone(B, Len(B), Walk(B))
  <1>1. PICK z : z = <<>> /\ z \in Seq(STRING)
    BY EmptySeq
  <1>2. PICK f : f = FALSE
    OBVIOUS
  <1>3. PICK w : w = [prev |-> z, found_port |-> f, port |-> Unset, root |-> z, threads |-> 10]
    OBVIOUS
  <1>4. w \in WalkState
    <2>1. f \in BOOLEAN
      BY <1>2
    <2> QED BY ONLY <1>1, <1>3, <2>1 DEF WalkState
  <1>5. Walk(B) = FoldLeft(Statement, w, B)
    BY <1>1, <1>2, <1>3, Zenon DEF Walk
  <1>6. PICK st \in [0..Len(B) -> WalkState] :
           /\ st[0] = w
           /\ \A k \in 1..Len(B) : st[k] = Statement(st[k - 1], B[k])
           /\ FoldLeft(Statement, w, B) = st[Len(B)]
    BY <1>4, StatementsFold
  <1>7. PICK n \in Nat : n = Len(B) /\ \A i \in 1..n : B[i] \in StatementRecords
    <2>1. Len(B) \in Nat
      BY StatementsAre
    <2>2. \A i \in 1..Len(B) : B[i] \in StatementRecords
      BY StatementsAre
    <2> QED BY <2>1, <2>2
  <1>8. WalkDone(B, 0, st[0])
    <2>1. w.found_port = f /\ w.threads = 10
      BY <1>3
    <2>2. ~w.found_port
      BY <1>2, <2>1, Zenon
    <2>3. 1..0 = {}
      OBVIOUS
    <2> QED BY <1>4, <1>6, <2>1, <2>2, <2>3, Zenon DEF WalkDone
  <1>9. WalkDone(B, n, st[n])
    <2> DEFINE Bad == {k \in Nat : k <= n /\ ~WalkDone(B, k, st[k])}
    <2> SUFFICES ASSUME ~WalkDone(B, n, st[n]) PROVE FALSE
      OBVIOUS
    <2>1. n \in Bad /\ Bad \in SUBSET Nat
      OBVIOUS
    <2> HIDE DEF Bad
    <2>2. PICK b \in Bad : \A c \in Bad : b <= c
      BY <2>1, FirstIndex
    <2>3. b \in Nat /\ b <= n /\ ~WalkDone(B, b, st[b])
      BY DEF Bad
    <2>4. b # 0
      BY <1>8, <2>3
    <2>5. b \in 1..n /\ b - 1 \in Nat /\ b - 1 <= n /\ ~(b <= b - 1) /\ b - 1 \in 0..n
      BY <2>3, <2>4
    <2>6. WalkDone(B, b - 1, st[b - 1])
      <3>1. b - 1 \notin Bad
        BY <2>2, <2>5
      <3> QED BY <2>5, <3>1 DEF Bad
    <2>7. st[b - 1] \in WalkState /\ st[b] = Statement(st[b - 1], B[b])
      BY <1>6, <1>7, <2>5
    <2>8. StatementIs(st[b - 1], B[b].tokens, st[b])
      <3>1. PICK r : r = B[b]
        OBVIOUS
      <3>2. r.tokens \in Seq(Seq(STRING))
        <4>1. r \in StatementRecords
          BY <1>7, <2>5, <3>1
        <4> QED BY <4>1 DEF StatementRecords
      <3>3. PICK v \in WalkState : v = st[b - 1]
        BY <2>7
      <3>4. StatementIs(v, r.tokens, Statement(v, r))
        BY <3>2, StatementTakes
      <3> QED BY <2>7, <3>1, <3>3, <3>4, Zenon
    <2>9. b \in Nat \ {0}
      BY <2>3, <2>4
    <2>10. WalkDone(B, b, st[b])
      BY <2>6, <2>8, <2>9, OneStatement
    <2> QED BY <2>3, <2>10
  <1> QED BY <1>5, <1>6, <1>7, <1>9, Zenon

-----------------------------------------------------------------------------
(* The statements of the outermost block and the tokens they were made of. *)

(* The tokens q of a statement are the words of ts behind the a-th token:  *)
(* outside every block, and the a-th is not one of them.                   *)
PlacedAt(ts, q, a) ==
  /\ a \in Nat /\ q \in Seq(Seq(STRING)) /\ Len(q) >= 1 /\ a + Len(q) <= Len(ts)
  /\ Height(ts, a) = 0
  /\ a > 0 => ts[a].type # "NORMAL"
  /\ \A k \in 1..Len(q) : ts[a + k].type = "NORMAL" /\ ts[a + k].value = q[k]

(* Every word outside every block belongs to a statement; the statements   *)
(* follow one another.                                                     *)
Covers(ts, B, at) ==
  \A j \in 1..Len(ts) :
    ts[j].type = "NORMAL" /\ Height(ts, j - 1) = 0 =>
      \E s \in 1..Len(B) : at[s] < j /\ j <= at[s] + Len(B[s].tokens)
Ordered(B, at) ==
  \A s \in 1..Len(B) : \A r \in 1..(s - 1) : at[r] + Len(B[r].tokens) <= at[s]

(* B are the outermost statements of ts.  The newest is still open while   *)
(* the last token is a word outside every block.                           *)
Links(ts, B, last, depth, at) ==
  /\ \A s \in 1..Len(B) : PlacedAt(ts, B[s].tokens, at[s])
  /\ Ordered(B, at) /\ Covers(ts, B, at)
  /\ last = "NORMAL" /\ depth = 0 =>
       Len(B) > 0 /\ at[Len(B)] + Len(B[Len(B)].tokens) = Len(ts)

(* us is ts with the token t behind it.                                    *)
Longer(ts, us, t) ==
  /\ Len(ts) \in Nat /\ Len(us) = Len(ts) + 1
  /\ \A k \in 1..Len(ts) : us[k] = ts[k]
  /\ us[Len(ts) + 1] = t

(* A token more leaves the depths before it alone.                         *)
LEMMA LongerHeight ==
  ASSUME NEW ts, NEW us, NEW t, Longer(ts, us, t), NEW k \in 0..Len(ts)
  PROVE  Height(us, k) = Height(ts, k)
  <1>1. \A x \in 1..k : us[x] = ts[x]
    BY DEF Longer
  <1>2. k \in Nat
    BY DEF Longer
  <1> QED BY <1>1, <1>2, HeightSame

(* A statement stays where it is.                                          *)
LEMMA PlacedStays ==
  ASSUME NEW ts, NEW us, NEW t, Longer(ts, us, t), NEW q, NEW a, PlacedAt(ts, q, a)
  PROVE  PlacedAt(us, q, a)
  <1>1. /\ a \in Nat /\ q \in Seq(Seq(STRING)) /\ Len(q) >= 1 /\ a + Len(q) <= Len(ts)
        /\ Height(ts, a) = 0
        /\ a > 0 => ts[a].type # "NORMAL"
        /\ \A k \in 1..Len(q) : ts[a + k].type = "NORMAL" /\ ts[a + k].value = q[k]
    BY DEF PlacedAt
  <1>2. PICK m \in Nat : m = Len(q)
    BY <1>1
  <1>3. PICK n \in Nat : n = Len(ts)
    BY DEF Longer
  <1>4. a \in 0..n /\ a + m <= n + 1 /\ (a > 0 => a \in 1..n)
    BY <1>1, <1>2, <1>3
  <1>5. Height(us, a) = 0
    BY <1>1, <1>3, <1>4, LongerHeight
  <1>6. a > 0 => us[a].type # "NORMAL"
    BY <1>1, <1>3, <1>4 DEF Longer
  <1>7. ASSUME NEW k \in 1..m PROVE us[a + k].type = "NORMAL" /\ us[a + k].value = q[k]
    <2>1. a + k \in 1..n
      BY <1>1, <1>2, <1>3
    <2>2. us[a + k] = ts[a + k]
      BY <1>3, <2>1 DEF Longer
    <2> QED BY <1>1, <1>2, <2>2
  <1>8. a + m <= Len(us)
    BY <1>3, <1>4 DEF Longer
  <1> QED BY <1>1, <1>2, <1>5, <1>6, <1>7, <1>8, Zenon DEF PlacedAt

(* The words before the new token stay covered.                            *)
LEMMA CoversStays ==
  ASSUME NEW ts, NEW us, NEW t, Longer(ts, us, t), NEW B, NEW at, Covers(ts, B, at),
         NEW j \in 1..Len(ts), us[j].type = "NORMAL", Height(us, j - 1) = 0
  PROVE  \E s \in 1..Len(B) : at[s] < j /\ j <= at[s] + Len(B[s].tokens)
  <1>1. j - 1 \in 0..Len(ts)
    BY DEF Longer
  <1>2. Height(ts, j - 1) = 0
    BY <1>1, LongerHeight
  <1>3. ts[j].type = "NORMAL"
    BY DEF Longer
  <1> QED BY <1>2, <1>3, Zenon DEF Covers

(* A token that is no word, or inside a block.                             *)
LEMMA LinksPass ==
  ASSUME NEW ts, NEW us, NEW t, Longer(ts, us, t), NEW B, NEW C, NEW last, NEW depth, NEW at,
         Links(ts, B, last, depth, at), depth = Height(ts, Len(ts)),
         t.type # "NORMAL" \/ depth # 0,
         Len(C) = Len(B), \A s \in 1..Len(B) : C[s].tokens = B[s].tokens
  PROVE  Links(us, C, t.type, NewDepth(t.type, depth), at)
  <1>1. \A s \in 1..Len(C) : PlacedAt(us, C[s].tokens, at[s])
    BY PlacedStays DEF Links
  <1>2. Ordered(C, at)
    <2> SUFFICES ASSUME NEW s \in 1..Len(C), NEW r \in 1..(s - 1)
                 PROVE  at[r] + Len(C[r].tokens) <= at[s]
      BY DEF Ordered
    <2>1. r \in 1..Len(B)
      BY <1>1 DEF Links, PlacedAt
    <2> QED BY <2>1 DEF Links, Ordered
  <1>3. Covers(us, C, at)
    <2> SUFFICES ASSUME NEW j \in 1..Len(us), us[j].type = "NORMAL", Height(us, j - 1) = 0
                 PROVE  \E s \in 1..Len(C) : at[s] < j /\ j <= at[s] + Len(C[s].tokens)
      BY DEF Covers
    <2>1. PICK n \in Nat : n = Len(ts) /\ Len(us) = n + 1 /\ (n + 1) - 1 = n
      BY DEF Longer
    <2>2. CASE j \in 1..n
      <3>1. \E s \in 1..Len(B) : at[s] < j /\ j <= at[s] + Len(B[s].tokens)
        <4>1. Covers(ts, B, at) /\ j \in 1..Len(ts)
          BY <2>1, <2>2 DEF Links
        <4> QED BY ONLY <4>1, Longer(ts, us, t), us[j].type = "NORMAL", Height(us, j - 1) = 0,
                        CoversStays
      <3> QED BY <3>1
    <2>3. CASE j = n + 1
      <3>1. us[j] = t
        BY <2>1, <2>3 DEF Longer
      <3>2. Height(us, n) = Height(ts, n)
        BY <2>1, LongerHeight
      <3> QED BY <2>1, <2>3, <3>1, <3>2
    <2> QED BY <2>1, <2>2, <2>3
  <1>4. ~(t.type = "NORMAL" /\ NewDepth(t.type, depth) = 0)
    BY DEF NewDepth
  <1> QED BY <1>1, <1>2, <1>3, <1>4, Zenon DEF Links

(* The first word of a statement.                                          *)
LEMMA LinksNew ==
  ASSUME NEW ts, NEW us, NEW t, Longer(ts, us, t), NEW B, NEW C, NEW last, NEW depth, NEW at,
         Links(ts, B, last, depth, at), depth = Height(ts, Len(ts)),
         t.type = "NORMAL", t.value \in Seq(STRING), depth = 0,
         Len(ts) > 0 => last = ts[Len(ts)].type, last # "NORMAL",
         Len(B) \in Nat, Len(C) = Len(B) + 1, \A s \in 1..Len(B) : C[s].tokens = B[s].tokens,
         C[Len(B) + 1].tokens = <<t.value>>
  PROVE  \E new : Links(us, C, t.type, NewDepth(t.type, depth), new)
  <1>1. PICK n \in Nat : n = Len(ts) /\ Len(us) = n + 1 /\ (n + 1) - 1 = n
    BY DEF Longer
  <1>2. PICK m \in Nat : m = Len(B) /\ Len(C) = m + 1
    OBVIOUS
  <1>3. PICK new : new = [s \in 1..(m + 1) |-> IF s = m + 1 THEN n ELSE at[s]]
    OBVIOUS
  <1>4. new[m + 1] = n /\ \A s \in 1..m : new[s] = at[s]
    BY <1>2, <1>3
  <1>5. PICK q : q = C[m + 1].tokens
    OBVIOUS
  <1>6. PICK v \in Seq(STRING) : v = t.value
    OBVIOUS
  <1>7. q \in Seq(Seq(STRING)) /\ Len(q) = 1 /\ q[1] = v
    <2>1. q = <<v>>
      BY <1>2, <1>5, <1>6
    <2> QED BY <2>1
  <1>8. us[n + 1] = t /\ Height(us, n) = 0
    <2>1. us[n + 1] = t
      BY <1>1 DEF Longer
    <2>2. Height(us, n) = Height(ts, n)
      BY <1>1, LongerHeight
    <2> QED BY <1>1, <2>1, <2>2
  <1>9. PlacedAt(us, q, n)
    <2>1. n > 0 => us[n].type # "NORMAL"
      BY <1>1 DEF Longer
    <2>2. ASSUME NEW k \in 1..Len(q) PROVE us[n + k].type = "NORMAL" /\ us[n + k].value = q[k]
      <3>1. k = 1
        BY <1>7
      <3> QED BY <1>6, <1>7, <1>8, <3>1
    <2>3. Len(q) >= 1 /\ n + Len(q) <= Len(us)
      BY <1>1, <1>7
    <2> QED BY <1>7, <1>8, <2>1, <2>2, <2>3, Zenon DEF PlacedAt
  <1>10. ASSUME NEW s \in 1..m
         PROVE  PlacedAt(us, C[s].tokens, new[s]) /\ new[s] + Len(C[s].tokens) <= n
    <2>1. PlacedAt(ts, B[s].tokens, at[s])
      BY <1>2 DEF Links
    <2>2. PlacedAt(us, B[s].tokens, at[s])
      BY <2>1, PlacedStays
    <2>3. at[s] + Len(B[s].tokens) <= n
      BY <1>1, <2>1 DEF PlacedAt
    <2> QED BY <1>2, <1>4, <2>2, <2>3
  <1>11. \A s \in 1..(m + 1) : s = m + 1 \/ s \in 1..m
    OBVIOUS
  <1>12. \A s \in 1..Len(C) : PlacedAt(us, C[s].tokens, new[s])
    BY <1>2, <1>4, <1>5, <1>9, <1>10, <1>11
  <1>13. Ordered(C, new)
    <2> SUFFICES ASSUME NEW s \in 1..(m + 1), NEW r \in 1..(s - 1)
                 PROVE  new[r] + Len(C[r].tokens) <= new[s]
      BY <1>2 DEF Ordered
    <2>1. r \in 1..m
      OBVIOUS
    <2>2. CASE s = m + 1
      BY <1>4, <1>10, <2>1, <2>2
    <2>3. CASE s \in 1..m
      <3>1. at[r] + Len(B[r].tokens) <= at[s]
        BY <1>2, <2>3 DEF Links, Ordered
      <3> QED BY <1>2, <1>4, <2>1, <2>3, <3>1
    <2> QED BY <1>11, <2>2, <2>3
  <1>14. Covers(us, C, new)
    <2> SUFFICES ASSUME NEW j \in 1..Len(us), us[j].type = "NORMAL", Height(us, j - 1) = 0
                 PROVE  \E s \in 1..Len(C) : new[s] < j /\ j <= new[s] + Len(C[s].tokens)
      BY DEF Covers
    <2>2. CASE j \in 1..n
      <3>1. PICK s \in 1..Len(B) : at[s] < j /\ j <= at[s] + Len(B[s].tokens)
        <4>1. Covers(ts, B, at) /\ j \in 1..Len(ts)
          BY <1>1, <2>2 DEF Links
        <4> QED BY ONLY <4>1, Longer(ts, us, t), us[j].type = "NORMAL", Height(us, j - 1) = 0,
                        CoversStays
      <3>2. s \in 1..m /\ s \in 1..Len(C)
        BY <1>2
      <3> QED BY <1>2, <1>4, <3>1, <3>2
    <2>3. CASE j = n + 1
      <3>1. m + 1 \in 1..Len(C)
        BY <1>2
      <3>2. new[m + 1] < j /\ j <= new[m + 1] + Len(C[m + 1].tokens)
        BY <1>4, <1>5, <1>7, <2>3
      <3> QED BY <3>1, <3>2
    <2> QED BY <1>1, <2>2, <2>3
  <1>15. Len(C) > 0 /\ new[Len(C)] + Len(C[Len(C)].tokens) = Len(us)
    BY <1>1, <1>2, <1>4, <1>5, <1>7
  <1>16. Links(us, C, t.type, NewDepth(t.type, depth), new)
    BY <1>12, <1>13, <1>14, <1>15, Zenon DEF Links
  <1> QED BY <1>16, Zenon

(* One word more of the statement that is open.                            *)
LEMMA LinksMore ==
  ASSUME NEW ts, NEW us, NEW t, Longer(ts, us, t), NEW B, NEW C, NEW last, NEW depth, NEW at,
         Links(ts, B, last, depth, at), depth = Height(ts, Len(ts)),
         t.type = "NORMAL", t.value \in Seq(STRING), depth = 0, last = "NORMAL",
         Len(B) \in Nat, Len(C) = Len(B), \A s \in 1..(Len(B) - 1) : C[s].tokens = B[s].tokens,
         C[Len(B)].tokens = Append(B[Len(B)].tokens, t.value)
  PROVE  Links(us, C, t.type, NewDepth(t.type, depth), at)
  <1>1. PICK n \in Nat : n = Len(ts) /\ Len(us) = n + 1 /\ (n + 1) - 1 = n
    BY DEF Longer
  <1>2. PICK m \in Nat \ {0} : m = Len(B) /\ Len(C) = m
    BY DEF Links
  <1>3. PICK q : q = B[m].tokens
    OBVIOUS
  <1>4. PlacedAt(ts, q, at[m]) /\ at[m] + Len(q) = n
    BY <1>1, <1>2, <1>3 DEF Links
  <1>5. PICK v \in Seq(STRING) : v = t.value
    OBVIOUS
  <1>6. PICK c : c = C[m].tokens
    OBVIOUS
  <1>7. PICK l \in Nat : l = Len(q) /\ l >= 1 /\ q \in Seq(Seq(STRING))
    BY <1>4 DEF PlacedAt
  <1>8. /\ c \in Seq(Seq(STRING)) /\ Len(c) = l + 1 /\ c[l + 1] = v
        /\ \A k \in 1..l : c[k] = q[k]
    <2>1. c = Append(q, v)
      BY <1>2, <1>3, <1>5, <1>6
    <2> QED BY <1>7, <2>1
  <1>9. us[n + 1] = t
    BY <1>1 DEF Longer
  <1>10. PICK a \in Nat : a = at[m] /\ a + l = n
    BY <1>4, <1>7 DEF PlacedAt
  <1>e. a + (l + 1) = n + 1 /\ a < n + 1 /\ n + 1 <= a + (l + 1)
    <2>1. a + l = n
      BY <1>10
    <2> QED BY ONLY <2>1, a \in Nat, l \in Nat, n \in Nat
  <1>11. PlacedAt(us, c, a)
    <2>1. PlacedAt(us, q, a)
      BY <1>4, <1>10, PlacedStays
    <2>2. /\ Height(us, a) = 0
          /\ a > 0 => us[a].type # "NORMAL"
          /\ \A k \in 1..l : us[a + k].type = "NORMAL" /\ us[a + k].value = q[k]
      BY <1>7, <2>1 DEF PlacedAt
    <2>3. ASSUME NEW k \in 1..(l + 1) PROVE us[a + k].type = "NORMAL" /\ us[a + k].value = c[k]
      <3>1. CASE k \in 1..l
        BY <1>8, <2>2, <3>1
      <3>2. CASE k = l + 1
        <4>1. a + k = n + 1
          BY <1>e, <3>2
        <4> QED BY <1>5, <1>8, <1>9, <3>2, <4>1
      <3> QED BY <3>1, <3>2
    <2>4. Len(c) >= 1 /\ a + Len(c) <= Len(us)
      BY <1>1, <1>8, <1>10
    <2> QED BY <1>8, <2>2, <2>3, <2>4, Zenon DEF PlacedAt
  <1>12. \A s \in 1..m : s = m \/ s \in 1..(m - 1)
    OBVIOUS
  <1>13. ASSUME NEW s \in 1..m PROVE PlacedAt(us, C[s].tokens, at[s])
    <2>1. CASE s = m
      BY <1>6, <1>10, <1>11, <2>1
    <2>2. CASE s \in 1..(m - 1)
      <3>1. PlacedAt(ts, B[s].tokens, at[s])
        BY <1>2 DEF Links
      <3> QED BY <1>2, <2>2, <3>1, PlacedStays
    <2> QED BY <1>12, <2>1, <2>2
  <1>14. Ordered(C, at)
    <2> SUFFICES ASSUME NEW s \in 1..m, NEW r \in 1..(s - 1)
                 PROVE  at[r] + Len(C[r].tokens) <= at[s]
      BY <1>2 DEF Ordered
    <2>1. r \in 1..(m - 1)
      OBVIOUS
    <2>2. at[r] + Len(B[r].tokens) <= at[s]
      BY <1>2 DEF Links, Ordered
    <2> QED BY <1>2, <2>1, <2>2
  <1>15. Covers(us, C, at)
    <2> SUFFICES ASSUME NEW j \in 1..Len(us), us[j].type = "NORMAL", Height(us, j - 1) = 0
                 PROVE  \E s \in 1..Len(C) : at[s] < j /\ j <= at[s] + Len(C[s].tokens)
      BY DEF Covers
    <2>1. m \in 1..Len(C)
      BY <1>2
    <2>2. CASE j \in 1..n
      <3>1. PICK s \in 1..Len(B) : at[s] < j /\ j <= at[s] + Len(B[s].tokens)
        <4>1. Covers(ts, B, at) /\ j \in 1..Len(ts)
          BY <1>1, <2>2 DEF Links
        <4> QED BY ONLY <4>1, Longer(ts, us, t), us[j].type = "NORMAL", Height(us, j - 1) = 0,
                        CoversStays
      <3>2. CASE s = m
        <4>1. a < j /\ j <= a + Len(c)
          BY <1>3, <1>7, <1>8, <1>10, <3>1, <3>2, <2>2
        <4> QED BY <1>6, <1>10, <2>1, <4>1
      <3>3. CASE s \in 1..(m - 1)
        <4>1. C[s].tokens = B[s].tokens
          BY <1>2, <3>3
        <4> QED BY <1>2, <3>1, <4>1
      <3> QED BY <1>2, <1>12, <3>2, <3>3
    <2>3. CASE j = n + 1
      <3>2. a < j /\ j <= a + Len(c)
        BY <1>8, <1>e, <2>3
      <3> QED BY <1>6, <1>10, <2>1, <3>2
    <2> QED BY <1>1, <2>2, <2>3
  <1>16. Len(C) > 0 /\ at[Len(C)] + Len(C[Len(C)].tokens) = Len(us)
    <2>1. Len(C) = m /\ m > 0 /\ Len(us) = n + 1
      BY <1>1, <1>2
    <2>2. at[m] + Len(C[m].tokens) = n + 1
      BY <1>6, <1>8, <1>10, <1>e
    <2> QED BY <2>1, <2>2, Zenon
  <1> QED BY <1>2, <1>13, <1>14, <1>15, <1>16, Zenon DEF Links

-----------------------------------------------------------------------------
(* What the references say of the tokens, the statements say.              *)

(* The tokens of a statement are outermost and belong together.            *)
LEMMA PlacedWords ==
  ASSUME NEW ts, NEW q, NEW a, PlacedAt(ts, q, a)
  PROVE  \A j \in 1..Len(q) : \A i \in 1..j :
           ts[a + i].value = q[i] /\ Outermost(ts, a + i) /\ Together(ts, a + i, a + j)
  <1> SUFFICES ASSUME NEW j \in 1..Len(q), NEW i \in 1..j
               PROVE  ts[a + i].value = q[i] /\ Outermost(ts, a + i) /\ Together(ts, a + i, a + j)
    OBVIOUS
  <1>1. /\ a \in Nat /\ q \in Seq(Seq(STRING)) /\ Height(ts, a) = 0
        /\ \A k \in 1..Len(q) : ts[a + k].type = "NORMAL" /\ ts[a + k].value = q[k]
    BY DEF PlacedAt
  <1>2. PICK l \in Nat : l = Len(q) /\ j \in 1..l /\ i \in 1..l /\ i <= j
    BY <1>1
  <1>3. ASSUME NEW y \in (a + 1)..(a + l) PROVE ts[y].type = "NORMAL"
    <2>1. y - a \in 1..l /\ a + (y - a) = y
      BY <1>1, <1>2
    <2>2. PICK k \in 1..l : k = y - a /\ a + k = y
      BY <2>1
    <2>3. ts[a + k].type = "NORMAL"
      BY <1>1, <1>2
    <2> QED BY <2>2, <2>3
  <1>4. Together(ts, a + i, a + j)
    <2> SUFFICES ASSUME NEW y \in (a + i)..(a + j) PROVE ts[y].type = "NORMAL"
      BY DEF Together
    <2>1. y \in (a + 1)..(a + l)
      BY <1>1, <1>2
    <2> QED BY <1>3, <2>1
  <1>5. PICK b \in Nat \ {0} : b = a + i /\ b >= a + 1 /\ b <= a + l
    BY <1>1, <1>2
  <1>6. Height(ts, b - 1) = 0
    <2>1. CASE b = a + 1
      <3>1. b - 1 = a
        BY <1>1, <2>1
      <3> QED BY <1>1, <3>1
    <2>2. CASE b # a + 1
      <3>1. PICK c \in Nat \ {0} : c = a + 1 /\ c - 1 = a
        <4>1. a + 1 \in Nat \ {0} /\ (a + 1) - 1 = a
          BY ONLY <1>1
        <4> QED BY <4>1
      <3>2. PICK e \in Nat : e = a + l
        BY <1>1, <1>2
      <3>3. b - 1 \in c..e
        BY <1>1, <1>5, <2>2, <3>1, <3>2
      <3>4. \A y \in c..e : ts[y].type = "NORMAL"
        BY <1>3, <3>1, <3>2
      <3>5. Height(ts, b - 1) = Height(ts, c - 1)
        BY <3>3, <3>4, WordsLevel
      <3> QED BY <1>1, <3>1, <3>5
    <2> QED BY <2>1, <2>2
  <1>7. Outermost(ts, b)
    BY <1>6, OutermostIs
  <1> QED BY <1>1, <1>2, <1>4, <1>5, <1>7

(* A statement that must be taken is one of the block.                     *)
LEMMA PortStatementIn ==
  ASSUME NEW ts, Len(ts) \in Nat, NEW B, NEW last, NEW depth, NEW at,
         Links(ts, B, last, depth, at), Len(B) \in Nat,
         NEW j \in 1..Len(ts), PortStatementAt(ts, j)
  PROVE  \E s \in 1..Len(B) : PortFirst(B[s].tokens) /\ at[s] + 2 = j /\ PlacedAt(ts, B[s].tokens, at[s])
  <1>1. PICK n \in Nat : n = Len(ts)
    OBVIOUS
  <1>2. /\ j > 1 /\ ts[j - 1].value = <<"port">> /\ ValidPort(ts[j].value)
        /\ Outermost(ts, j - 1) /\ Together(ts, j - 1, j)
        /\ j > 2 => ts[j - 2].type # "NORMAL"
    BY DEF PortStatementAt
  <1>3. PICK i \in 1..n : i = j - 1 /\ i + 1 = j /\ i - 1 = j - 2 /\ j - 1 \in 1..n
    BY <1>1, <1>2
  <1>4. ts[i].type = "NORMAL" /\ ts[j].type = "NORMAL"
    <2>1. i \in (j - 1)..j /\ j \in (j - 1)..j
      BY <1>1, <1>3
    <2> QED BY <1>2, <2>1 DEF Together
  <1>5. Height(ts, i - 1) = 0
    <2>1. Outermost(ts, i)
      BY <1>2, <1>3
    <2>2. i \in Nat \ {0}
      OBVIOUS
    <2> QED BY <2>1, <2>2, OutermostIs
  <1>6. Height(ts, j - 1) = 0
    <2>1. ts[i].type \notin {"START_BLOCK", "END_BLOCK"}
      BY <1>4
    <2>2. i \in Nat \ {0}
      OBVIOUS
    <2>3. Height(ts, i) = Height(ts, i - 1)
      BY <2>1, <2>2, HeightIs
    <2> QED BY <1>3, <1>5, <2>3
  <1>7. PICK s \in 1..Len(B) : at[s] < i /\ i <= at[s] + Len(B[s].tokens)
    BY <1>1, <1>4, <1>5 DEF Links, Covers
  <1>8. PICK r \in 1..Len(B) : at[r] < j /\ j <= at[r] + Len(B[r].tokens)
    BY <1>1, <1>4, <1>6 DEF Links, Covers
  <1>9. PlacedAt(ts, B[s].tokens, at[s]) /\ PlacedAt(ts, B[r].tokens, at[r])
    BY DEF Links
  <1>10. PICK q : q = B[s].tokens
    OBVIOUS
  <1>11. PICK a \in Nat : a = at[s] /\ a < i /\ i <= a + Len(q)
    BY <1>7, <1>9, <1>10 DEF PlacedAt
  <1>12. PICK c \in Nat : c = at[r] /\ c < j /\ j <= c + Len(B[r].tokens)
    BY <1>8, <1>9 DEF PlacedAt
  <1>13. /\ Len(q) \in Nat /\ Len(B[r].tokens) \in Nat
         /\ \A k \in 1..Len(q) : ts[a + k].type = "NORMAL" /\ ts[a + k].value = q[k]
         /\ c > 0 => ts[c].type # "NORMAL"
    <2>1. PlacedAt(ts, q, a) /\ PlacedAt(ts, B[r].tokens, c)
      BY <1>9, <1>10, <1>11, <1>12
    <2>2. q \in Seq(Seq(STRING)) /\ B[r].tokens \in Seq(Seq(STRING))
      BY ONLY <2>1, Zenon DEF PlacedAt
    <2>3. /\ \A k \in 1..Len(q) : ts[a + k].type = "NORMAL" /\ ts[a + k].value = q[k]
          /\ c > 0 => ts[c].type # "NORMAL"
      BY ONLY <2>1, Zenon DEF PlacedAt
    <2>4. Len(q) \in Nat /\ Len(B[r].tokens) \in Nat
      BY ONLY <2>2
    <2> QED BY ONLY <2>3, <2>4, Zenon
  <1>14. a = i - 1
    <2> SUFFICES ASSUME a # i - 1 PROVE FALSE
      OBVIOUS
    <2>1. PICK k \in 1..Len(q) : k = (i - 1) - a /\ a + k = i - 1 /\ i - 1 > 0
      <3>1. PICK l \in Nat : l = Len(q)
        BY <1>13
      <3>2. (i - 1) - a \in 1..l /\ a + ((i - 1) - a) = i - 1 /\ i - 1 > 0
        <4>1. a < i /\ i <= a + l /\ i \in Nat /\ a # i - 1
          BY <1>1, <1>11, <3>1
        <4> QED BY ONLY <4>1, a \in Nat, l \in Nat
      <3> QED BY <3>1, <3>2
    <2>2. ts[i - 1].type = "NORMAL"
      BY <1>13, <2>1
    <2>3. j > 2
      BY <1>1, <1>3, <2>1
    <2> QED BY <1>2, <1>3, <2>2, <2>3
  <1>15. c # i
    BY <1>1, <1>4, <1>13
  <1>16. r = s
    <2>1. CASE r < s
      <3>1. r \in 1..(s - 1)
        BY <2>1
      <3>2. c + Len(B[r].tokens) <= a
        BY <1>11, <1>12, <3>1 DEF Links, Ordered
      <3> QED BY <1>1, <1>3, <1>12, <1>13, <1>14, <3>2
    <2>2. CASE s < r
      <3>1. s \in 1..(r - 1)
        BY <2>2
      <3>2. a + Len(q) <= c
        BY <1>10, <1>11, <1>12, <3>1 DEF Links, Ordered
      <3>3. PICK l \in Nat : l = Len(q)
        BY <1>13
      <3>4. a + l <= c /\ i <= a + l /\ c < j /\ i + 1 = j /\ c # i /\ i \in Nat /\ j \in Nat
        BY <1>1, <1>3, <1>11, <1>12, <1>15, <3>2, <3>3
      <3> QED BY ONLY <3>4, a \in Nat, c \in Nat, l \in Nat
    <2> QED BY <2>1, <2>2
  <1>17. Len(q) >= 2 /\ a + 1 = i /\ a + 2 = j
    BY <1>1, <1>3, <1>10, <1>11, <1>12, <1>13, <1>14, <1>16
  <1>18. 1 \in 1..Len(q) /\ 2 \in 1..Len(q)
    BY <1>13, <1>17
  <1>19. q[1] = ts[i].value /\ q[2] = ts[j].value
    BY <1>13, <1>17, <1>18
  <1>20. PortFirst(q)
    BY <1>2, <1>3, <1>17, <1>19 DEF PortFirst
  <1> QED BY <1>9, <1>10, <1>11, <1>17, <1>20

(* The port that was found is the one the references name.                 *)
LEMMA FoundIsPort ==
  ASSUME NEW ts, Len(ts) \in Nat, DOMAIN ts = 1..Len(ts), NEW B, NEW last, NEW depth, NEW at,
         Links(ts, B, last, depth, at), Len(B) \in Nat, NEW w, Found(B, Len(B), w)
  PROVE  \E j \in DOMAIN ts :
           /\ PortAt(ts, j) /\ w.port = Stoi(ts[j].value)
           /\ \A k \in 1..(j - 1) : ~PortStatementAt(ts, k)
  <1>1. PICK r \in 1..Len(B) : \E e \in 1..Len(B[r].tokens) :
          /\ PortIn(B[r].tokens, e) /\ w.port = Stoi(B[r].tokens[e])
          /\ PortFirst(B[r].tokens) => e = 2
          /\ \A x \in 1..(r - 1) : ~PortFirst(B[x].tokens)
    BY Zenon DEF Found
  <1>2. PICK q : q = B[r].tokens
    OBVIOUS
  <1>3. PICK e \in 1..Len(q) :
          /\ PortIn(q, e) /\ w.port = Stoi(q[e]) /\ (PortFirst(q) => e = 2)
          /\ \A x \in 1..(r - 1) : ~PortFirst(B[x].tokens)
    BY <1>1, <1>2, Zenon
  <1>4. PlacedAt(ts, q, at[r])
    BY <1>2 DEF Links
  <1>5. PICK a \in Nat : a = at[r] /\ PlacedAt(ts, q, a)
    BY <1>4 DEF PlacedAt
  <1>w. \A y \in 1..Len(q) : \A x \in 1..y :
          ts[a + x].value = q[x] /\ Outermost(ts, a + x) /\ Together(ts, a + x, a + y)
    <2>1. PlacedAt(ts, q, a)
      BY <1>5
    <2> QED BY ONLY <2>1, PlacedWords, Zenon
  <1>6. PICK l \in Nat : l = Len(q) /\ a + l <= Len(ts) /\ e \in 1..l
    BY <1>4, <1>5 DEF PlacedAt
  <1>7. a + e \in 1..Len(ts) /\ e \in 1..e
    BY <1>6
  <1>8. ts[a + e].value = q[e]
    BY <1>3, <1>w, <1>7
  <1>9. PICK i \in 1..(e - 1) : q[i] = <<"port">> /\ \A x \in (i + 1)..(e - 1) : ~ValidPort(q[x])
    BY <1>3, Zenon DEF PortIn
  <1>10. i \in 1..e
    BY <1>6
  <1>11. ts[a + i].value = q[i] /\ Outermost(ts, a + i) /\ Together(ts, a + i, a + e)
    BY <1>3, <1>w, <1>10
  <1>12. ASSUME NEW k \in ((a + i) + 1)..((a + e) - 1) PROVE ~ValidPort(ts[k].value)
    <2>1. PICK x \in (i + 1)..(e - 1) : x = k - a /\ a + x = k /\ x \in 1..e
      <3>1. /\ k - a \in (i + 1)..(e - 1) /\ a + (k - a) = k /\ k - a \in 1..e
        BY <1>6
      <3> QED BY <3>1
    <2>2. ts[a + x].value = q[x]
      BY <1>3, <1>w, <2>1
    <2> QED BY <1>9, <2>1, <2>2
  <1>13. a + i \in 1..((a + e) - 1)
    BY <1>6
  <1>14. ValidPort(ts[a + e].value)
    BY <1>3, <1>8, Zenon DEF PortIn
  <1>15. PortAt(ts, a + e)
    BY <1>9, <1>11, <1>12, <1>13, <1>14, Zenon DEF PortAt
  <1>16. ASSUME NEW k \in 1..((a + e) - 1), PortStatementAt(ts, k) PROVE FALSE
    <2>1. k \in 1..Len(ts)
      BY <1>7, <1>6
    <2>2. PICK s \in 1..Len(B) :
            PortFirst(B[s].tokens) /\ at[s] + 2 = k /\ PlacedAt(ts, B[s].tokens, at[s])
      BY <1>16, <2>1, PortStatementIn
    <2>3. CASE s < r
      <3>1. s \in 1..(r - 1)
        BY <2>3
      <3> QED BY <1>3, <2>2, <3>1
    <2>4. CASE s = r
      <3>1. e = 2
        BY <1>2, <1>3, <2>2, <2>4
      <3>2. a + 2 = k
        BY <1>5, <2>2, <2>4
      <3> QED BY <1>5, <3>1, <3>2
    <2>5. CASE r < s
      <3>1. r \in 1..(s - 1)
        BY <2>5
      <3>2. a + l <= at[s]
        BY <1>2, <1>5, <1>6, <3>1 DEF Links, Ordered
      <3>3. PICK b \in Nat : b = at[s]
        BY <2>2 DEF PlacedAt
      <3> QED BY <1>6, <2>2, <3>2, <3>3
    <2> QED BY <2>3, <2>4, <2>5
  <1>17. w.port = Stoi(ts[a + e].value)
    BY <1>3, <1>8
  <1> QED BY <1>7, <1>15, <1>16, <1>17, Zenon

(* A block without such a statement.                                       *)
LEMMA NoneIsNone ==
  ASSUME NEW ts, Len(ts) \in Nat, NEW B, NEW last, NEW depth, NEW at,
         Links(ts, B, last, depth, at), Len(B) \in Nat,
         \A r \in 1..Len(B) : ~PortFirst(B[r].tokens)
  PROVE  \A j \in 1..Len(ts) : ~PortStatementAt(ts, j)
  BY PortStatementIn

(* The thread count is one the references name.                            *)
LEMMA CountedIsCount ==
  ASSUME NEW ts, Len(ts) \in Nat, DOMAIN ts = 1..Len(ts), NEW B, NEW last, NEW depth, NEW at,
         Links(ts, B, last, depth, at), Len(B) \in Nat, NEW w, Counted(B, Len(B), w)
  PROVE  /\ w.threads > 0
         /\ \E j \in DOMAIN ts :
              /\ ThreadCountAt(ts, j)
              /\ w.threads = ToUnsigned(Stoi(ts[j].value))
  <1>1. PICK r \in 1..Len(B) : \E e \in 1..Len(B[r].tokens) :
          /\ ThreadsIn(B[r].tokens, e)
          /\ w.threads = ToUnsigned(Stoi(B[r].tokens[e])) /\ w.threads > 0
    BY Zenon DEF Counted
  <1>2. PICK q : q = B[r].tokens
    OBVIOUS
  <1>3. PICK e \in 1..Len(q) :
          ThreadsIn(q, e) /\ w.threads = ToUnsigned(Stoi(q[e])) /\ w.threads > 0
    BY <1>1, <1>2, Zenon
  <1>4. PlacedAt(ts, q, at[r])
    BY <1>2 DEF Links
  <1>5. PICK a \in Nat : a = at[r] /\ PlacedAt(ts, q, a)
    BY <1>4 DEF PlacedAt
  <1>w. \A y \in 1..Len(q) : \A x \in 1..y :
          ts[a + x].value = q[x] /\ Outermost(ts, a + x) /\ Together(ts, a + x, a + y)
    <2>1. PlacedAt(ts, q, a)
      BY <1>5
    <2> QED BY ONLY <2>1, PlacedWords, Zenon
  <1>6. PICK l \in Nat : l = Len(q) /\ a + l <= Len(ts) /\ e \in 1..l
    BY <1>4, <1>5 DEF PlacedAt
  <1>7. a + e \in 1..Len(ts) /\ e \in 1..e
    BY <1>6
  <1>8. ts[a + e].value = q[e]
    BY <1>3, <1>w, <1>7
  <1>9. PICK i \in 1..(e - 1) : q[i] = <<"threadCount">>
    BY <1>3, Zenon DEF ThreadsIn
  <1>10. i \in 1..e /\ a + i \in 1..((a + e) - 1)
    BY <1>6
  <1>11. ts[a + i].value = q[i] /\ Outermost(ts, a + i) /\ Together(ts, a + i, a + e)
    BY <1>3, <1>w, <1>10
  <1>12. IsNumber(q[e])
    BY <1>3, Zenon DEF ThreadsIn
  <1>13. ThreadCountAt(ts, a + e)
    BY <1>8, <1>9, <1>10, <1>11, <1>12, Zenon DEF ThreadCountAt
  <1> QED BY <1>3, <1>7, <1>8, <1>13, Zenon

-----------------------------------------------------------------------------
(* The outermost block follows the tokens.                                 *)

Linked ==
  /\ phase = "open" \/ file = NoFile => blocks[1] = <<>>
  /\ phase # "open" /\ file # NoFile =>
       \E at : Links(TokensBefore(file, pos), blocks[1], last_token_type, start_block, at)

(* Nothing has been read and there is no statement.                        *)
LEMMA LinksEmpty ==
  ASSUME NEW z, z = <<>>, NEW at
  PROVE  Links(z, z, "START", 0, at)
  <1>1. Len(z) = 0 /\ 1..Len(z) = {}
    OBVIOUS
  <1>2. Ordered(z, at) /\ Covers(z, z, at)
    BY <1>1 DEF Ordered, Covers
  <1> QED BY <1>1, <1>2 DEF Links

(* At the start the outermost block is empty.                              *)
LEMMA InitLinked == Init => Linked
  <1> SUFFICES ASSUME Init PROVE Linked
    OBVIOUS
  <1>1. PICK z : z = <<>>
    OBVIOUS
  <1>2. blocks = <<z>> /\ phase = "open"
    BY <1>1, Zenon DEF Init
  <1>3. blocks[1] = z
    BY <1>2
  <1> QED BY <1>1, <1>2, <1>3, Zenon DEF Linked

(* The block on top is the outermost one iff no brace is open.             *)
LEMMA TopIs ==
  ASSUME IInv
  PROVE  /\ blocks \in Seq(Statements) /\ top \in 1..Len(blocks) /\ start_block \in Nat
         /\ 1 \in 1..Len(blocks) /\ blocks[1] \in Statements
         /\ top = 1 <=> start_block = 0
  <1>1. /\ blocks \in Seq(Statements) /\ config_stack \in Seq(1..Len(blocks))
        /\ start_block \in Nat /\ Len(config_stack) = start_block + 1
        /\ Chain(config_stack, blocks)
    BY DEF IInv, Stack
  <1>2. PICK d \in Nat \ {0} : d = Len(config_stack) /\ d = start_block + 1
    BY <1>1
  <1>3. top = config_stack[d]
    BY <1>2 DEF top, Last
  <1>4. config_stack[1] = 1 /\ config_stack[d] \in 1..Len(blocks) /\ config_stack[1] \in 1..Len(blocks)
    BY <1>1, <1>2 DEF Chain
  <1>5. d # 1 => config_stack[1] < config_stack[d]
    BY <1>1, <1>2 DEF Chain
  <1>6. d = 1 <=> start_block = 0
    BY <1>1, <1>2
  <1>7. top = 1 <=> d = 1
    BY <1>1, <1>3, <1>4, <1>5
  <1>8. blocks[1] \in Statements
    BY <1>1, <1>4
  <1> QED BY <1>1, <1>3, <1>4, <1>6, <1>7, <1>8

(* The loop takes a token: what the links need to know.                    *)
LEMMA TakesLonger ==
  ASSUME TokensRead, NEW ty \in GrammarTypes, Reads(ty)
  PROVE  \E t :
           /\ t.type = ty /\ t.value = ParseToken(file, pos).value
           /\ Longer(TokensBefore(file, pos), TokensBefore(file, pos'), t)
           /\ Len(TokensBefore(file, pos)) > 0 =>
                last_token_type = TokensBefore(file, pos)[Len(TokensBefore(file, pos))].type
           /\ start_block = Height(TokensBefore(file, pos), Len(TokensBefore(file, pos)))
           /\ last_token_type' = ty /\ file' = file /\ file # NoFile
           /\ phase = "parse" /\ phase' = "parse"
  <1>1. PICK t : t = TokenAt(file, pos)
    OBVIOUS
  <1>2. PICK ts : ts = TokensBefore(file, pos)
    OBVIOUS
  <1>3. PICK us : us = TokensBefore(file, pos')
    OBVIOUS
  <1>4. /\ t \in TokensOf(file) /\ t.type = ty /\ ts \in Seq(TokensOf(file))
        /\ Allowed(ts, last_token_type, start_block) /\ us = ts \o <<t>>
        /\ last_token_type' = ty /\ file' = file /\ file # NoFile /\ phase' = phase
        /\ phase = "parse"
    BY <1>1, <1>2, <1>3, TakesToken
  <1>5. Longer(ts, us, t)
    <2>1. /\ Len(us) = Len(ts) + 1
          /\ \A k \in 1..Len(ts) : us[k] = ts[k]
          /\ us[Len(ts) + 1] = t
      BY <1>4, OneMore
    <2>2. Len(ts) \in Nat
      BY <1>4
    <2> QED BY <2>1, <2>2, Zenon DEF Longer
  <1>6. t.value = ParseToken(file, pos).value
    BY <1>1, Zenon DEF TokenAt
  <1>7. (Len(ts) > 0 => last_token_type = ts[Len(ts)].type) /\ start_block = Height(ts, Len(ts))
    BY <1>4, Zenon DEF Allowed
  <1> QED BY <1>2, <1>3, <1>4, <1>5, <1>6, <1>7, Zenon

(* A token that is no outermost word.                                      *)
LEMMA LinkedPasses ==
  ASSUME IInv, TokensRead, Linked, NEW ty \in GrammarTypes, Reads(ty),
         start_block' = NewDepth(ty, start_block), ty # "NORMAL" \/ start_block # 0,
         NEW B, NEW C, B = blocks[1], C = blocks'[1],
         Len(C) = Len(B), \A s \in 1..Len(B) : C[s].tokens = B[s].tokens
  PROVE  Linked'
  <1>1. PICK t :
          /\ t.type = ty
          /\ Longer(TokensBefore(file, pos), TokensBefore(file, pos'), t)
          /\ start_block = Height(TokensBefore(file, pos), Len(TokensBefore(file, pos)))
          /\ last_token_type' = ty /\ file' = file /\ file # NoFile
          /\ phase = "parse" /\ phase' = "parse"
    BY TakesLonger
  <1>2. PICK ts : ts = TokensBefore(file, pos)
    OBVIOUS
  <1>3. PICK us : us = TokensBefore(file, pos')
    OBVIOUS
  <1>4. PICK at : Links(ts, B, last_token_type, start_block, at)
    <2>1. phase # "open"
      BY <1>1
    <2> QED BY <1>1, <1>2, <2>1, Zenon DEF Linked
  <1>5. Longer(ts, us, t) /\ start_block = Height(ts, Len(ts))
    BY <1>1, <1>2, <1>3, Zenon
  <1>6. t.type # "NORMAL" \/ start_block # 0
    BY <1>1
  <1>7. Links(us, C, t.type, NewDepth(t.type, start_block), at)
    BY <1>4, <1>5, <1>6, LinksPass
  <1>8. Links(us, C, last_token_type', start_block', at)
    BY <1>1, <1>7, Zenon
  <1>9. phase' # "open" /\ file' # NoFile
    BY <1>1
  <1> QED BY <1>1, <1>3, <1>8, <1>9, Zenon DEF Linked

(* What a word does to the outermost block.                                *)
AddsWord(B, C, v, last) ==
  \/ /\ last = "NORMAL" /\ Len(C) = Len(B)
     /\ \A s \in 1..(Len(B) - 1) : C[s].tokens = B[s].tokens
     /\ C[Len(B)].tokens = Append(B[Len(B)].tokens, v)
  \/ /\ last # "NORMAL" /\ Len(C) = Len(B) + 1
     /\ \A s \in 1..Len(B) : C[s].tokens = B[s].tokens
     /\ C[Len(B) + 1].tokens = <<v>>

(* An outermost word.                                                      *)
LEMMA LinkedTakes ==
  ASSUME IInv, TokensRead, Linked, Reads("NORMAL"), start_block = 0, start_block' = 0,
         NEW B, NEW C, B = blocks[1], C = blocks'[1], NEW v, v = ParseToken(file, pos).value,
         AddsWord(B, C, v, last_token_type)
  PROVE  Linked'
  <1>0. "NORMAL" \in GrammarTypes
    BY DEF GrammarTypes
  <1>1. PICK t :
          /\ t.type = "NORMAL" /\ t.value = ParseToken(file, pos).value
          /\ Longer(TokensBefore(file, pos), TokensBefore(file, pos'), t)
          /\ Len(TokensBefore(file, pos)) > 0 =>
               last_token_type = TokensBefore(file, pos)[Len(TokensBefore(file, pos))].type
          /\ start_block = Height(TokensBefore(file, pos), Len(TokensBefore(file, pos)))
          /\ last_token_type' = "NORMAL" /\ file' = file /\ file # NoFile
          /\ phase = "parse" /\ phase' = "parse"
    BY <1>0, TakesLonger
  <1>2. PICK ts : ts = TokensBefore(file, pos)
    OBVIOUS
  <1>3. PICK us : us = TokensBefore(file, pos')
    OBVIOUS
  <1>4. PICK at : Links(ts, B, last_token_type, start_block, at)
    <2>1. phase # "open"
      BY <1>1
    <2> QED BY <1>1, <1>2, <2>1, Zenon DEF Linked
  <1>5. /\ Longer(ts, us, t) /\ start_block = Height(ts, Len(ts))
        /\ Len(ts) > 0 => last_token_type = ts[Len(ts)].type
        /\ t.value = v /\ t.type = "NORMAL"
    BY <1>1, <1>2, <1>3, Zenon
  <1>6. v \in Seq(STRING)
    BY ReadsOn
  <1>7. Len(B) \in Nat
    BY TopIs, StatementsAre
  <1>8. NewDepth(t.type, start_block) = 0
    BY <1>5 DEF NewDepth
  <1>9. PICK last : last = last_token_type
    OBVIOUS
  <1>10. \E new : Links(us, C, t.type, NewDepth(t.type, start_block), new)
    <2>1. CASE last = "NORMAL"
      <3>1. /\ Len(C) = Len(B) /\ \A s \in 1..(Len(B) - 1) : C[s].tokens = B[s].tokens
            /\ C[Len(B)].tokens = Append(B[Len(B)].tokens, t.value)
        BY <1>5, <1>9, <2>1, Zenon DEF AddsWord
      <3>2. Links(ts, B, last, start_block, at)
        BY <1>4, <1>9
      <3>3. t.value \in Seq(STRING)
        BY <1>5, <1>6
      <3>4. Links(us, C, t.type, NewDepth(t.type, start_block), at)
        BY <1>5, <1>7, <2>1, <3>1, <3>2, <3>3, LinksMore
      <3> QED BY <3>4, Zenon
    <2>2. CASE last # "NORMAL"
      <3>1. /\ Len(C) = Len(B) + 1 /\ \A s \in 1..Len(B) : C[s].tokens = B[s].tokens
            /\ C[Len(B) + 1].tokens = <<t.value>>
        BY <1>5, <1>9, <2>2, Zenon DEF AddsWord
      <3>2. Links(ts, B, last, start_block, at) /\ (Len(ts) > 0 => last = ts[Len(ts)].type)
        BY <1>4, <1>5, <1>9
      <3>3. t.value \in Seq(STRING)
        BY <1>5, <1>6
      <3> QED BY <1>5, <1>7, <2>2, <3>1, <3>2, <3>3, LinksNew
    <2> QED BY <2>1, <2>2
  <1>11. \E new : Links(us, C, last_token_type', start_block', new)
    BY <1>1, <1>8, <1>10, Zenon
  <1>12. phase' # "open" /\ file' # NoFile
    BY <1>1
  <1> QED BY <1>1, <1>3, <1>11, <1>12, Zenon DEF Linked

(* A word goes to the block on top.                                        *)
LEMMA WordGoes ==
  ASSUME IInv, NormalToken
  PROVE  /\ start_block # 0 => blocks'[1] = blocks[1]
         /\ start_block = 0 =>
              AddsWord(blocks[1], blocks'[1], ParseToken(file, pos).value, last_token_type)
  <1>1. /\ blocks \in Seq(Statements) /\ top \in 1..Len(blocks) /\ start_block \in Nat
        /\ 1 \in 1..Len(blocks) /\ blocks[1] \in Statements
        /\ top = 1 <=> start_block = 0
    BY TopIs
  <1>2. PICK a \in 1..Len(blocks) : a = top
    BY <1>1
  <1>3. PICK v : v = ParseToken(file, pos).value
    OBVIOUS
  <1>4. PICK old \in Statements : old = blocks[a]
    BY <1>1
  <1>5. PICK new : new = IF last_token_type = "NORMAL"
                         THEN [old EXCEPT ![Len(old)].tokens = Append(@, v)]
                         ELSE Append(old, [tokens |-> <<v>>, child |-> 0])
    OBVIOUS
  <1>6. blocks' = [blocks EXCEPT ![a] = new]
    BY <1>2, <1>3, <1>4, <1>5 DEF NormalToken
  <1>7. blocks'[a] = new /\ (a # 1 => blocks'[1] = blocks[1])
    BY <1>1, <1>6
  <1>8. AddsWord(old, new, v, last_token_type)
    <2>0. PICK n \in Nat : n = Len(old) /\ DOMAIN old = 1..n /\ \A i \in 1..n : old[i] \in StatementRecords
      BY StatementsAre
    <2>1. CASE last_token_type = "NORMAL"
      <3>1. Newest(old, 0)
        BY <1>2, <1>4, <2>1 DEF IInv, Stack
      <3>2. n \in 1..n
        BY <2>0, <3>1, EmptySeq, StatementsAre DEF Newest
      <3>3. PICK r \in StatementRecords : r = old[n]
        BY <2>0, <3>2
      <3>4. PICK y : y = Append(r.tokens, v)
        OBVIOUS
      <3>5. PICK x : x = [r EXCEPT !.tokens = y]
        OBVIOUS
      <3>6. new = [old EXCEPT ![n] = x]
        BY <1>5, <2>0, <2>1, <3>3, <3>4, <3>5
      <3>7. x.tokens = y
        BY <3>5 DEF StatementRecords
      <3>8. Len(new) = n /\ new[n] = x /\ \A i \in 1..(n - 1) : new[i] = old[i]
        BY <2>0, <3>2, <3>6, StatementsAre
      <3> QED BY <2>0, <2>1, <3>3, <3>4, <3>7, <3>8 DEF AddsWord
    <2>2. CASE last_token_type # "NORMAL"
      <3>1. PICK x : x = [tokens |-> <<v>>, child |-> 0]
        OBVIOUS
      <3>2. new = Append(old, x)
        BY <1>5, <2>2, <3>1, Zenon
      <3>3. x.tokens = <<v>>
        BY <3>1, Zenon
      <3>4. /\ Len(new) = n + 1 /\ new[n + 1] = x /\ \A i \in 1..n : new[i] = old[i]
        BY <2>0, <3>2, StatementsAre
      <3> QED BY <2>0, <2>2, <3>3, <3>4, Zenon DEF AddsWord
    <2> QED BY <2>1, <2>2
  <1>9. start_block # 0 => blocks'[1] = blocks[1]
    BY <1>1, <1>2, <1>7
  <1>10. start_block = 0 => old = blocks[1] /\ new = blocks'[1]
    BY <1>1, <1>2, <1>4, <1>7
  <1> QED BY <1>3, <1>8, <1>9, <1>10, Zenon

(* A block that opens leaves the tokens of the outermost block alone.      *)
LEMMA BlockOpens ==
  ASSUME IInv, StartBlock
  PROVE  /\ Len(blocks'[1]) = Len(blocks[1])
         /\ \A s \in 1..Len(blocks[1]) : blocks'[1][s].tokens = blocks[1][s].tokens
  <1>1. /\ blocks \in Seq(Statements) /\ top \in 1..Len(blocks) /\ start_block \in Nat
        /\ 1 \in 1..Len(blocks) /\ blocks[1] \in Statements
    BY TopIs
  <1>2. PICK a \in 1..Len(blocks) : a = top
    BY <1>1
  <1>3. PICK d : d = Len(blocks) + 1
    OBVIOUS
  <1>4. PICK old \in Statements : old = blocks[a]
    BY <1>1
  <1>5. PICK new : new = [old EXCEPT ![Len(old)].child = d]
    OBVIOUS
  <1>6. PICK x : x = [blocks EXCEPT ![a] = new]
    OBVIOUS
  <1>7. PICK z : z = <<>> /\ z \in Statements
    BY StatementsAre
  <1>8. blocks' = Append(x, z)
    BY <1>2, <1>3, <1>4, <1>5, <1>6, <1>7 DEF StartBlock
  <1>9. last_token_type = "NORMAL"
    BY DEF StartBlock
  <1>10. PICK n \in Nat : n = Len(old) /\ DOMAIN old = 1..n /\ \A i \in 1..n : old[i] \in StatementRecords
    BY StatementsAre
  <1>11. Newest(old, 0)
    BY <1>2, <1>4, <1>9 DEF IInv, Stack
  <1>12. n \in 1..n
    BY <1>10, <1>11, EmptySeq, StatementsAre DEF Newest
  <1>13. PICK r \in StatementRecords : r = old[n]
    BY <1>10, <1>12
  <1>14. PICK c : c = [r EXCEPT !.child = d]
    OBVIOUS
  <1>15. new = [old EXCEPT ![n] = c]
    BY <1>5, <1>10, <1>13, <1>14
  <1>16. c.tokens = r.tokens /\ c \in StatementRecords
    <2>1. d \in Nat
      BY <1>1, <1>3
    <2> QED BY <1>14, <2>1 DEF StatementRecords
  <1>17. /\ new \in Statements /\ Len(new) = n /\ new[n] = c
         /\ \A i \in 1..(n - 1) : new[i] = old[i]
    BY <1>10, <1>12, <1>15, <1>16, StatementsAre
  <1>18. \A i \in 1..n : new[i].tokens = old[i].tokens
    <2>1. \A i \in 1..n : i = n \/ i \in 1..(n - 1)
      OBVIOUS
    <2> QED BY <1>13, <1>16, <1>17, <2>1
  <1>19. /\ x \in Seq(Statements) /\ Len(x) = Len(blocks) /\ x[a] = new
         /\ a # 1 => x[1] = blocks[1]
    BY <1>1, <1>6, <1>17
  <1>20. blocks'[1] = x[1]
    BY <1>1, <1>7, <1>8, <1>19
  <1>21. CASE a = 1
    BY <1>4, <1>10, <1>17, <1>18, <1>19, <1>20, <1>21
  <1>22. CASE a # 1
    BY <1>19, <1>20, <1>22
  <1> QED BY <1>21, <1>22

(* Every step keeps the outermost block linked to the tokens.              *)
LEMMA NextLinked == IInv /\ TokensRead /\ Linked /\ [Next]_vars => Linked'
  <1> SUFFICES ASSUME IInv, TokensRead, Linked, [Next]_vars PROVE Linked'
    OBVIOUS
  <1>0. start_block \in Nat
    BY DEF IInv, Stack
  <1>1. CASE UNCHANGED vars
    BY <1>1, Zenon DEF vars, Linked
  <1>2. CASE Open
    <2>1. /\ phase = "open" /\ file' = file /\ pos' = pos /\ blocks' = blocks
          /\ last_token_type' = last_token_type /\ start_block' = start_block
      BY <1>2 DEF Open
    <2>2. PICK z : z = <<>> /\ blocks[1] = z
      BY <2>1, Zenon DEF Linked
    <2>3. CASE file = NoFile
      BY <2>1, <2>2, <2>3, Zenon DEF Linked
    <2>4. CASE file # NoFile
      <3>1. last_token_type = "START" /\ start_block = 0
        BY <2>1 DEF TokensRead
      <3>2. file \in Seq(STRING) /\ pos = 1
        BY <2>1, <2>4 DEF IInv, Place
      <3>3. TokensBefore(file, 1) = z
        BY <2>2, <3>2, TokensStart
      <3>4. Links(z, z, "START", 0, z)
        BY <2>2, LinksEmpty
      <3>5. phase' # "open"
        BY <1>2 DEF Open
      <3> QED BY <2>1, <2>2, <2>4, <3>1, <3>2, <3>3, <3>4, <3>5, Zenon DEF Linked
    <2> QED BY <2>3, <2>4
  <1>3. CASE SkipComment
    <2>1. /\ phase = "parse" /\ phase' = phase /\ file' = file /\ blocks' = blocks
          /\ last_token_type' = last_token_type /\ start_block' = start_block
          /\ ParseToken(file, pos).type = "COMMENT" /\ pos' = ParseToken(file, pos).next
      BY <1>3 DEF SkipComment, Reads
    <2>2. file # NoFile /\ file \in Seq(STRING) /\ pos \in 1..(Len(file) + 1) /\ Reached(file, pos)
      BY <2>1 DEF TokensRead
    <2>3. ~Stops(file, pos) /\ Adds(file, pos) = <<>>
      BY <2>1 DEF Stops, Adds
    <2>4. TokensBefore(file, pos') = TokensBefore(file, pos) \o Adds(file, pos)
      BY <2>1, <2>2, <2>3, TokensStep
    <2>5. pos \in Nat
      BY <2>2
    <2>6. PICK ts : ts = TokensBefore(file, pos)
      OBVIOUS
    <2>7. ts \in Seq(TokensOf(file))
      BY <2>2, <2>5, <2>6, TokensAre
    <2>8. ts \o <<>> = ts
      BY <2>7
    <2>9. TokensBefore(file, pos') = ts
      BY <2>3, <2>4, <2>6, <2>8, Zenon
    <2>10. phase # "open" /\ phase' # "open"
      BY <2>1
    <2> QED BY <2>1, <2>2, <2>6, <2>9, <2>10, Zenon DEF Linked
  <1>4. CASE NormalToken
    <2>1. Reads("NORMAL") /\ start_block' = start_block
      BY <1>4 DEF NormalToken
    <2>2. CASE start_block # 0
      <3>1. blocks'[1] = blocks[1]
        BY <1>4, <2>2, WordGoes
      <3>2. PICK B : B = blocks[1] /\ B = blocks'[1]
        BY <3>1
      <3>3. "NORMAL" \in GrammarTypes /\ start_block' = NewDepth("NORMAL", start_block)
        BY <2>1 DEF GrammarTypes, NewDepth
      <3> QED BY <2>1, <2>2, <3>2, <3>3, LinkedPasses
    <2>3. CASE start_block = 0
      <3>1. PICK B : B = blocks[1]
        OBVIOUS
      <3>2. PICK C : C = blocks'[1]
        OBVIOUS
      <3>3. PICK v : v = ParseToken(file, pos).value
        OBVIOUS
      <3>4. AddsWord(B, C, v, last_token_type)
        BY <1>4, <2>3, <3>1, <3>2, <3>3, WordGoes, Zenon
      <3> QED BY <2>1, <2>3, <3>1, <3>2, <3>3, <3>4, LinkedTakes
    <2> QED BY <2>2, <2>3
  <1>5. CASE StatementEnd
    <2>1. Reads("STATEMENT_END") /\ start_block' = start_block /\ blocks' = blocks
      BY <1>5 DEF StatementEnd
    <2>2. PICK B : B = blocks[1] /\ B = blocks'[1]
      BY <2>1
    <2>3. "STATEMENT_END" \in GrammarTypes /\ start_block' = NewDepth("STATEMENT_END", start_block)
      BY <2>1 DEF GrammarTypes, NewDepth
    <2> QED BY <2>1, <2>2, <2>3, LinkedPasses
  <1>6. CASE StartBlock
    <2>1. Reads("START_BLOCK") /\ start_block' = start_block + 1
      BY <1>6 DEF StartBlock
    <2>2. PICK B : B = blocks[1]
      OBVIOUS
    <2>3. PICK C : C = blocks'[1]
      OBVIOUS
    <2>4. Len(C) = Len(B) /\ \A s \in 1..Len(B) : C[s].tokens = B[s].tokens
      BY <1>6, <2>2, <2>3, BlockOpens
    <2>5. "START_BLOCK" \in GrammarTypes /\ start_block' = NewDepth("START_BLOCK", start_block)
      BY <2>1 DEF GrammarTypes, NewDepth
    <2> QED BY <2>1, <2>2, <2>3, <2>4, <2>5, LinkedPasses
  <1>7. CASE EndBlock
    <2>1. Reads("END_BLOCK") /\ start_block' = start_block - 1 /\ blocks' = blocks
      BY <1>7 DEF EndBlock
    <2>2. PICK B : B = blocks[1] /\ B = blocks'[1]
      BY <2>1
    <2>3. "END_BLOCK" \in GrammarTypes /\ start_block' = NewDepth("END_BLOCK", start_block)
      BY <2>1 DEF GrammarTypes, NewDepth
    <2> QED BY <2>1, <2>2, <2>3, LinkedPasses
  <1>8. CASE EndOfFile \/ BadTransition \/ ParseStatements
    <2>1. /\ phase # "open" /\ phase' # "open"
          /\ file' = file /\ pos' = pos /\ blocks' = blocks
          /\ last_token_type' = last_token_type /\ start_block' = start_block
      BY <1>8 DEF EndOfFile, BadTransition, ParseStatements, Returns
    <2> QED BY <2>1, Zenon DEF Linked
  <1> QED BY <1>1, <1>2, <1>3, <1>4, <1>5, <1>6, <1>7, <1>8 DEF Next

(* The tokens that were read, as a sequence.                               *)
LEMMA ReadTokens ==
  ASSUME IInv, TokensRead, Linked, phase # "open", file # NoFile
  PROVE  \E at :
           /\ Links(TokensBefore(file, pos), blocks[1], last_token_type, start_block, at)
           /\ Len(TokensBefore(file, pos)) \in Nat
           /\ DOMAIN TokensBefore(file, pos) = 1..Len(TokensBefore(file, pos))
           /\ Len(blocks[1]) \in Nat
  <1>1. file \in Seq(STRING) /\ pos \in 1..(Len(file) + 1)
    BY DEF TokensRead
  <1>2. pos \in Nat
    BY <1>1
  <1>3. PICK ts : ts = TokensBefore(file, pos)
    OBVIOUS
  <1>4. ts \in Seq(TokensOf(file))
    BY <1>1, <1>2, <1>3, TokensAre
  <1>5. Len(ts) \in Nat /\ DOMAIN ts = 1..Len(ts)
    BY <1>4
  <1>6. blocks[1] \in Statements
    BY TopIs
  <1>7. Len(blocks[1]) \in Nat
    BY <1>6, StatementsAre
  <1>8. \E at : Links(ts, blocks[1], last_token_type, start_block, at)
    BY <1>3, Zenon DEF Linked
  <1> QED BY <1>3, <1>5, <1>7, <1>8, Zenon

(* The size of the pool is a number of the file, as an unsigned int, or    *)
(* the default.                                                            *)
PoolFromFile ==
  LET ts == TokensBefore(file, pos)
  IN  phase = "serve" =>
        /\ settings.threadCount > 0
        /\ \/ settings.threadCount = 10
           \/ \E j \in DOMAIN ts :
                /\ ThreadCountAt(ts, j)
                /\ settings.threadCount = ToUnsigned(Stoi(ts[j].value))

(* ParseStatements takes the settings.                                     *)
LEMMA TakesSettings ==
  ASSUME IInv, TokensRead, Linked, ParseStatements
  PROVE  PortIsFirstValid' /\ PoolFromFile'
  <1>1. PICK B : B = blocks[1]
    OBVIOUS
  <1>2. PICK w : w = Walk(B)
    OBVIOUS
  <1>3. B \in Statements
    BY <1>1, TopIs
  <1>4. WalkDone(B, Len(B), w)
    BY <1>2, <1>3, WalkTakes
  <1>5. /\ phase = "statements" /\ file' = file /\ pos' = pos
        /\ settings' = [port |-> w.port, threadCount |-> w.threads, root |-> w.root]
        /\ phase' = IF w.found_port THEN "serve" ELSE "exit"
    BY <1>1, <1>2, Zenon DEF ParseStatements
  <1>6. settings'.port = w.port /\ settings'.threadCount = w.threads
    BY <1>5, Zenon
  <1>7. /\ phase # "open"
        /\ phase' = "serve" => w.found_port
        /\ phase' = "exit" => ~w.found_port
    <2>1. "serve" # "exit" /\ "statements" # "open"
      OBVIOUS
    <2>2. (phase' = "serve" => w.found_port) /\ (phase' = "exit" => ~w.found_port)
      BY <1>5, <2>1, Zenon
    <2> QED BY <1>5, <2>1, <2>2
  <1>8. CASE file = NoFile
    <2>1. B = <<>>
      BY <1>1, <1>8, Zenon DEF Linked
    <2>2. 1..Len(B) = {}
      BY <2>1
    <2>3. ~w.found_port
      BY <1>4, <2>2, Zenon DEF WalkDone, Found
    <2>4. phase' # "serve"
      BY <1>7, <2>3
    <2> QED BY <1>5, <1>8, <2>4, Zenon DEF PortIsFirstValid, PoolFromFile
  <1>9. CASE file # NoFile
    <2>1. PICK ts : ts = TokensBefore(file, pos)
      OBVIOUS
    <2>2. PICK at :
            /\ Links(ts, B, last_token_type, start_block, at)
            /\ Len(ts) \in Nat /\ DOMAIN ts = 1..Len(ts) /\ Len(B) \in Nat
      BY <1>1, <1>7, <1>9, <2>1, ReadTokens
    <2>3. TokensBefore(file', pos') = ts
      BY <1>5, <2>1, Zenon
    <2>4. ASSUME phase' = "serve"
          PROVE  \E j \in DOMAIN ts :
                   /\ PortAt(ts, j)
                   /\ settings'.port = Stoi(ts[j].value)
                   /\ \A k \in 1..(j - 1) : ~PortStatementAt(ts, k)
      <3>1. Found(B, Len(B), w)
        BY <1>4, <1>7, <2>4, Zenon DEF WalkDone
      <3>2. \E j \in DOMAIN ts :
              /\ PortAt(ts, j) /\ w.port = Stoi(ts[j].value)
              /\ \A k \in 1..(j - 1) : ~PortStatementAt(ts, k)
        BY <2>2, <3>1, FoundIsPort
      <3> QED BY <1>6, <3>2, Zenon
    <2>5. ASSUME phase' = "exit" PROVE \A j \in DOMAIN ts : ~PortStatementAt(ts, j)
      <3>1. \A r \in 1..Len(B) : ~PortFirst(B[r].tokens)
        BY <1>4, <1>7, <2>5, Zenon DEF WalkDone
      <3>2. \A j \in 1..Len(ts) : ~PortStatementAt(ts, j)
        BY <2>2, <3>1, NoneIsNone
      <3> QED BY <2>2, <3>2, Zenon
    <2>6. PortIsFirstValid'
      BY <2>3, <2>4, <2>5, Zenon DEF PortIsFirstValid
    <2>7. /\ w.threads > 0
          /\ \/ w.threads = 10
             \/ \E j \in DOMAIN ts :
                  /\ ThreadCountAt(ts, j)
                  /\ w.threads = ToUnsigned(Stoi(ts[j].value))
      <3>1. CASE w.threads = 10
        BY <3>1
      <3>2. CASE Counted(B, Len(B), w)
        BY <2>2, <3>2, CountedIsCount
      <3> QED BY <1>4, <3>1, <3>2 DEF WalkDone
    <2>8. PoolFromFile'
      BY <1>6, <2>3, <2>7, Zenon DEF PoolFromFile
    <2> QED BY <2>6, <2>8
  <1> QED BY <1>8, <1>9

(* Before and after it nothing changes them.                               *)
LEMMA NextSettings ==
  IInv /\ TokensRead /\ Linked /\ PortIsFirstValid /\ PoolFromFile /\ [Next]_vars
  => PortIsFirstValid' /\ PoolFromFile'
  <1> SUFFICES ASSUME IInv, TokensRead, Linked, PortIsFirstValid, PoolFromFile, [Next]_vars
               PROVE  PortIsFirstValid' /\ PoolFromFile'
    OBVIOUS
  <1>1. CASE UNCHANGED vars
    BY <1>1, Zenon DEF vars, PortIsFirstValid, PoolFromFile
  <1>2. CASE ParseStatements
    BY <1>2, TakesSettings
  <1>3. CASE \/ Open \/ SkipComment \/ NormalToken \/ StatementEnd \/ StartBlock \/ EndBlock
             \/ EndOfFile \/ BadTransition
    <2>1. phase' # "serve" /\ phase' # "exit"
      BY <1>3 DEF Open, SkipComment, NormalToken, StatementEnd, StartBlock, EndBlock, Reads,
                  EndOfFile, BadTransition, Returns
    <2> QED BY <2>1, Zenon DEF PortIsFirstValid, PoolFromFile
  <1> QED BY <1>1, <1>2, <1>3 DEF Next

(* What the server starts with is what the file says.                      *)
SettingsHold == IInv /\ TokensRead /\ Linked /\ PortIsFirstValid /\ PoolFromFile

(* The settings are right in every state.                                  *)
LEMMA SettingsAlways == Spec => []SettingsHold
  <1>1. Init => SettingsHold
    <2> SUFFICES ASSUME Init PROVE SettingsHold
      OBVIOUS
    <2>1. phase = "open"
      BY DEF Init
    <2>2. phase # "serve" /\ phase # "exit"
      BY <2>1
    <2>3. PortIsFirstValid /\ PoolFromFile
      BY <2>2, Zenon DEF PortIsFirstValid, PoolFromFile
    <2> QED BY <2>3, InitIInv, InitTokensRead, InitLinked DEF SettingsHold
  <1>2. SettingsHold /\ [Next]_vars => SettingsHold'
    BY NextIInv, NextTokensRead, NextLinked, NextSettings, Zenon DEF SettingsHold
  <1> QED BY <1>1, <1>2, PTL DEF Spec

(* The server starts on the port of the first valid port statement outside *)
(* every block, and on none when there is no such statement, for every     *)
(* file, refused or not.                                                   *)
THEOREM PortIsTheFilesFirst == Spec => []PortIsFirstValid
  <1>1. SettingsHold => PortIsFirstValid
    BY DEF SettingsHold
  <1> QED BY <1>1, SettingsAlways, PTL

(* The pool is never empty, and its size is the default or a number that   *)
(* the file gives behind "threadCount", unless one of them is negative.    *)
THEOREM PoolIsNeverEmpty == Spec => []PoolNotEmpty
  <1>1. PoolFromFile => PoolNotEmpty
    <2> SUFFICES ASSUME PoolFromFile, phase = "serve"
                 PROVE  PoolNotEmpty
      BY Zenon DEF PoolNotEmpty
    <2>1. PICK ts : ts = TokensBefore(file, pos)
      OBVIOUS
    <2>2. PICK n : n = settings.threadCount
      OBVIOUS
    <2>3. n > 0 /\ (n = 10 \/ \E j \in DOMAIN ts :
                                ThreadCountAt(ts, j) /\ n = ToUnsigned(Stoi(ts[j].value)))
      BY <2>1, <2>2, Zenon DEF PoolFromFile
    <2>4. ASSUME NEW j \in DOMAIN ts, ThreadCountAt(ts, j), Stoi(ts[j].value) >= 0
          PROVE  ToUnsigned(Stoi(ts[j].value)) = Stoi(ts[j].value)
      <3>1. IsNumber(ts[j].value)
        BY <2>4 DEF ThreadCountAt
      <3> QED BY <2>4, <3>1, UnsignedIs
    <2> QED BY <2>1, <2>2, <2>3, <2>4, Zenon DEF PoolNotEmpty
  <1>2. SettingsHold => PoolFromFile
    BY DEF SettingsHold
  <1> QED BY <1>1, <1>2, SettingsAlways, PTL

=============================================================================
