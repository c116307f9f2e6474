----------------------------- MODULE ConfigParser -----------------------------
(***************************************************************************)
(* The configuration parser, src/config_parser.cc, as main() runs it:      *)
(* Parse reads the file token by token into a tree of blocks, then         *)
(* ParseStatements takes the port, the root and the thread count from the  *)
(* statements of the outermost block.                                      *)
(*                                                                         *)
(* A file is a sequence of characters.  A character that the parser does   *)
(* not tell from a letter may stand for a whole word ("port", "80").  The  *)
(* tree is a heap: blocks[b] is the statements_ of the b-th NginxConfig    *)
(* created, blocks[1] that of main's config, and child = 0 a null          *)
(* child_block_.                                                           *)
(***************************************************************************)
EXTENDS Integers, Sequences, FiniteSets, SequencesExt

CONSTANTS
  Files,       \* the contents of the files that may be named
  NoFile,      \* the named file cannot be opened
  Numeral,     \* the numeral words, as a function to the integers they spell
  MAX_PORT,    \* the greatest port, 65535 in the code
  INT_MAX,     \* the greatest int, 2^31 - 1 in the code
  Unset        \* a member of NginxConfig that was never assigned

White == {" ", "\t", "\n", "\r"}
LineEnd == {"\n", "\r"}
Delimiter == {" ", "\t", "\n", ";", "{", "}"}

TokenType == {"START", "NORMAL", "START_BLOCK", "END_BLOCK", "COMMENT",
              "STATEMENT_END", "EOF", "ERROR"}

ASSUME ConfigAssumption ==
  /\ \A f \in Files : f \in Seq(STRING)
  /\ NoFile \notin Files
  /\ \A w \in DOMAIN Numeral : Numeral[w] \in Int /\ w \notin White \cup Delimiter
  /\ MAX_PORT \in Nat /\ INT_MAX \in Nat
  /\ 1 <= MAX_PORT /\ MAX_PORT <= INT_MAX /\ 10 <= INT_MAX

VARIABLES
  file,             \* what argv[1] names
  pos,              \* the position of the stream: the next character to get
  last_token_type,
  start_block,      \* '{' minus '}' seen so far
  config_stack,     \* the open blocks, the outermost first
  blocks,           \* the tree built so far
  phase,            \* where main() is
  accepted,         \* what Parse returned
  settings          \* port_, threadCount_ and root_

vars == <<file, pos, last_token_type, start_block, config_stack, blocks, phase,
          accepted, settings>>

-----------------------------------------------------------------------------
(* ParseToken: one token of f, from position p on.                         *)

\* The first position of f from p on whose character is in S; past the end of
\* f if there is none.
NextIn(f, p, S) ==
  LET hits == {q \in p..Len(f) : f[q] \in S}
  IN  IF hits = {} THEN Len(f) + 1 ELSE CHOOSE q \in hits : \A r \in hits : q <= r

NextNotIn(f, p, S) ==
  LET hits == {q \in p..Len(f) : f[q] \notin S}
  IN  IF hits = {} THEN Len(f) + 1 ELSE CHOOSE q \in hits : \A r \in hits : q <= r

Token(type, value, next) == [type |-> type, value |-> value, next |-> next]

\* A quote ends at the same quote, which is part of the token.
QuotedToken(f, s) ==
  LET e == NextIn(f, s + 1, {f[s]})
  IN  IF e > Len(f) THEN Token("ERROR", <<>>, e)
      ELSE Token("NORMAL", SubSeq(f, s, e), e + 1)

\* A comment that the file ends is reported as the end of the file.
CommentToken(f, s) ==
  LET e == NextIn(f, s + 1, LineEnd)
  IN  IF e > Len(f) THEN Token("EOF", <<>>, e)
      ELSE Token("COMMENT", SubSeq(f, s, e - 1), e + 1)

\* So is a word.  The delimiter after a word is put back.
WordToken(f, s) ==
  LET e == NextIn(f, s + 1, Delimiter)
  IN  IF e > Len(f) THEN Token("EOF", <<>>, e)
      ELSE Token("NORMAL", SubSeq(f, s, e - 1), e)

ParseToken(f, p) ==
  LET s == NextNotIn(f, p, White)
  IN  CASE s > Len(f)           -> Token("EOF", <<>>, s)
        [] s <= Len(f) /\ f[s] = "{" -> Token("START_BLOCK", <<"{">>, s + 1)
        [] s <= Len(f) /\ f[s] = "}" -> Token("END_BLOCK", <<"}">>, s + 1)
        [] s <= Len(f) /\ f[s] = ";" -> Token("STATEMENT_END", <<";">>, s + 1)
        [] s <= Len(f) /\ f[s] = "#" -> CommentToken(f, s)
        [] s <= Len(f) /\ f[s] \in {"\"", "'"} -> QuotedToken(f, s)
        [] OTHER                -> WordToken(f, s)

-----------------------------------------------------------------------------
(* ParseStatements: the walk over the tokens of the outermost statements.  *)

IsNumber(token) ==
  /\ token[1] \in DOMAIN Numeral
  /\ -INT_MAX - 1 <= Numeral[token[1]] /\ Numeral[token[1]] <= INT_MAX

\* std::stoi reads the number a token begins with and ignores the rest.  It
\* throws on a token that begins with none or with one that no int holds.
Stoi(token) == Numeral[token[1]]

ValidPort(token) == IsNumber(token) /\ Stoi(token) \in 1..MAX_PORT

\* The assignment of an int to an unsigned int.
ToUnsigned(i) == i % (2 * (INT_MAX + 1))

\* Mutant: a thread count of 0 is refused but not replaced by the default.
StatementTokenKeepsZero(w, token) ==
  LET kept == [w EXCEPT !.prev = token]
  IN  CASE w.prev = <<"port">> /\ ~w.found_port ->
             IF ValidPort(token)
             THEN [kept EXCEPT !.port = Stoi(token), !.found_port = TRUE]
             ELSE w
        [] w.prev = <<"threadCount">> /\ IsNumber(token) ->
             [kept EXCEPT !.threads = ToUnsigned(Stoi(token))]
        [] OTHER -> kept

\* One turn of the inner loop.  w holds the local variables and prev_token.
StatementToken(w, token) ==
  LET kept == [w EXCEPT !.prev = token]
  IN  CASE w.prev = <<"port">> /\ ~w.found_port ->
             IF ValidPort(token)
             THEN [kept EXCEPT !.port = Stoi(token), !.found_port = TRUE]
             ELSE w
        [] w.prev = <<"root">> ->
             [kept EXCEPT !.root = IF token = <<".">> THEN <<>> ELSE token]
        [] w.prev = <<"threadCount">> ->
             IF ~IsNumber(token) THEN w
             ELSE IF ToUnsigned(Stoi(token)) > 0
                  THEN [kept EXCEPT !.threads = ToUnsigned(Stoi(token))]
                  ELSE [w EXCEPT !.threads = 10]
        [] OTHER -> kept

\* Mutant: prev_token is declared outside the loop over the statements.
StatementCarriesOver(w, statement) == FoldLeft(StatementToken, w, statement.tokens)

Statement(w, statement) ==
  FoldLeft(StatementToken, [w EXCEPT !.prev = <<>>], statement.tokens)

Walk(statements) ==
  FoldLeft(Statement,
           [prev |-> <<>>, found_port |-> FALSE, port |-> Unset, root |-> <<>>,
            threads |-> 10],
           statements)

-----------------------------------------------------------------------------
(* Parse: one action per kind of token the loop reads.                     *)

Init ==
  /\ file \in Files \/ file = NoFile
  /\ pos = 1
  /\ last_token_type = "START"
  /\ start_block = 0
  /\ config_stack = <<1>>
  /\ blocks = <<<<>>>>
  /\ phase = "open"
  /\ accepted = FALSE
  /\ settings = [port |-> Unset, threadCount |-> Unset, root |-> Unset]

\* Parse(file_name): a file that does not open leaves the config empty.
Open ==
  /\ phase = "open"
  /\ phase' = IF file = NoFile THEN "statements" ELSE "parse"
  /\ UNCHANGED <<file, pos, last_token_type, start_block, config_stack, blocks,
                 accepted, settings>>

top == Last(config_stack)

\* Mutant: a comment becomes the last token.
ReadsComments(type) ==
  /\ phase = "parse"
  /\ ParseToken(file, pos).type = type
  /\ pos' = ParseToken(file, pos).next
  /\ last_token_type' = type
  /\ UNCHANGED <<file, phase, accepted, settings>>

\* The loop reads a token of this type, acts and goes on.
Reads(type) ==
  /\ phase = "parse"
  /\ ParseToken(file, pos).type = type
  /\ pos' = ParseToken(file, pos).next
  /\ last_token_type' = IF type = "COMMENT" THEN last_token_type ELSE type
  /\ UNCHANGED <<file, phase, accepted, settings>>

SkipComment ==
  /\ Reads("COMMENT")
  /\ UNCHANGED <<start_block, config_stack, blocks>>

NormalToken ==
  LET token == ParseToken(file, pos).value
      statements == blocks[top]
      longer == [statements EXCEPT ![Len(statements)].tokens = Append(@, token)]
      more == Append(statements, [tokens |-> <<token>>, child |-> 0])
  IN  /\ Reads("NORMAL")
      /\ blocks' = [blocks EXCEPT ![top] = IF last_token_type = "NORMAL" THEN longer ELSE more]
      /\ UNCHANGED <<start_block, config_stack>>

StatementEnd ==
  /\ last_token_type = "NORMAL"
  /\ Reads("STATEMENT_END")
  /\ UNCHANGED <<start_block, config_stack, blocks>>

StartBlock ==
  LET new_config == Len(blocks) + 1
      n == Len(blocks[top])
  IN  /\ last_token_type = "NORMAL"
      /\ Reads("START_BLOCK")
      /\ start_block' = start_block + 1
      /\ blocks' = Append([blocks EXCEPT ![top][n].child = new_config], <<>>)
      /\ config_stack' = Append(config_stack, new_config)

\* Mutant: the closed block stays on the stack.
EndBlockWithoutPop ==
  /\ last_token_type \in {"STATEMENT_END", "END_BLOCK"}
  /\ start_block > 0
  /\ Reads("END_BLOCK")
  /\ start_block' = start_block - 1
  /\ UNCHANGED <<config_stack, blocks>>

EndBlock ==
  /\ last_token_type \in {"STATEMENT_END", "END_BLOCK"}
  /\ start_block > 0
  /\ Reads("END_BLOCK")
  /\ start_block' = start_block - 1
  /\ config_stack' = Front(config_stack)
  /\ UNCHANGED blocks

\* Parse returns b and main goes on with the tree as it is.
Returns(b) ==
  /\ phase' = "statements"
  /\ accepted' = b
  /\ UNCHANGED <<file, pos, last_token_type, start_block, config_stack, blocks,
                 settings>>

EndOfFile ==
  /\ phase = "parse"
  /\ ParseToken(file, pos).type = "EOF"
  /\ last_token_type \in {"STATEMENT_END", "END_BLOCK"}
  /\ start_block = 0
  /\ Returns(TRUE)

\* Mutant: a file that ends inside a block is not looked for.
BadTransitionMissesOpenBlock ==
  LET type == ParseToken(file, pos).type
  IN  /\ phase = "parse"
      /\ \/ type = "ERROR"
         \/ type \in {"STATEMENT_END", "START_BLOCK"} /\ last_token_type # "NORMAL"
         \/ /\ type \in {"END_BLOCK", "EOF"}
            /\ last_token_type \notin {"STATEMENT_END", "END_BLOCK"}
         \/ type = "END_BLOCK" /\ start_block <= 0
      /\ Returns(FALSE)

\* The break out of the loop: the tokens and places the code calls an error.
BadTransition ==
  LET type == ParseToken(file, pos).type
  IN  /\ phase = "parse"
      /\ \/ type = "ERROR"
         \/ type \in {"STATEMENT_END", "START_BLOCK"} /\ last_token_type # "NORMAL"
         \/ /\ type \in {"END_BLOCK", "EOF"}
            /\ last_token_type \notin {"STATEMENT_END", "END_BLOCK"}
         \/ type = "END_BLOCK" /\ start_block <= 0
         \/ type = "EOF" /\ start_block # 0
      /\ Returns(FALSE)

\* main ignores the result of Parse and asks ParseStatements alone.
ParseStatements ==
  LET w == Walk(blocks[1])
  IN  /\ phase = "statements"
      /\ settings' = [port |-> w.port, threadCount |-> w.threads, root |-> w.root]
      /\ phase' = IF w.found_port THEN "serve" ELSE "exit"
      /\ UNCHANGED <<file, pos, last_token_type, start_block, config_stack, blocks,
                     accepted>>

Next ==
  \/ Open \/ SkipComment \/ NormalToken \/ StatementEnd \/ StartBlock \/ EndBlock
  \/ EndOfFile \/ BadTransition \/ ParseStatements

\* main runs on one thread and nothing it waits for can withhold an answer.
Spec == Init /\ [][Next]_vars /\ WF_vars(Next)

-----------------------------------------------------------------------------
(* ToString: the text of a block, two spaces per level of depth.           *)

Indent(depth) == [k \in 1..(2 * depth) |-> " "]

\* Mutant: the tokens are appended without the space.
SeparatedByNothing(tokens) == FlattenSeq(tokens)

Separated(tokens) ==
  FlattenSeq([i \in DOMAIN tokens |->
                IF i = 1 THEN tokens[i] ELSE <<" ">> \o tokens[i]])

\* A child is created after its parent, so its number is greater.
ConfigText(heap) ==
  LET Text[b \in 1..Len(heap), depth \in 0..Len(heap)] ==
        FlattenSeq([i \in DOMAIN heap[b] |->
          Indent(depth) \o Separated(heap[b][i].tokens) \o
          (IF heap[b][i].child # 0
           THEN <<" ", "{", "\n">> \o Text[heap[b][i].child, depth + 1]
                \o Indent(depth) \o <<"}">>
           ELSE <<";">>) \o <<"\n">>])
  IN  Text[1, 0]

-----------------------------------------------------------------------------
(* The references the parser is compared with.                             *)

\* The tokens of f before position p, without the comments.
TokensBefore(f, p) ==
  LET Rest[q \in 1..(Len(f) + 2)] ==
        LET t == ParseToken(f, q)
        IN  IF q >= p \/ t.type \in {"EOF", "ERROR"} THEN <<>>
            ELSE (IF t.type = "COMMENT" THEN <<>>
                  ELSE <<[type |-> t.type, value |-> t.value]>>) \o Rest[t.next]
  IN  Rest[1]

AllTokens(f) == TokensBefore(f, Len(f) + 1)

\* The file ends inside a word, which ParseToken then reports as the end of the
\* file.
CutOff(f) ==
  LET Ends[q \in 1..(Len(f) + 2)] ==
        LET t == ParseToken(f, q)
            s == NextNotIn(f, q, White)
        IN  IF t.type = "EOF" THEN s <= Len(f) /\ f[s] # "#"
            ELSE t.type # "ERROR" /\ Ends[t.next]
  IN  Ends[1]

\* The tokens of the file itself, with the word at its end.
FileTokens(f) ==
  IF CutOff(f) THEN Append(AllTokens(f), [type |-> "NORMAL", value |-> <<>>])
  ELSE AllTokens(f)

\* The grammar: a file is one or more statements, and a statement is one or
\* more words, then a semicolon or a block of one or more statements.
Grammatical(ts) ==
  LET Statements[s \in (1..(Len(ts) + 1)) \X (0..Len(ts))] ==
        \E k \in s[1]..s[2] : \E m \in s[1]..(k - 1) :
          /\ \A x \in s[1]..m : ts[x].type = "NORMAL"
          /\ \/ m + 1 = k /\ ts[k].type = "STATEMENT_END"
             \/ /\ ts[m + 1].type = "START_BLOCK"
                /\ ts[k].type = "END_BLOCK"
                /\ m + 2 < k
                /\ Statements[<<m + 2, k - 1>>]
          /\ k = s[2] \/ Statements[<<k + 1, s[2]>>]
  IN  Statements[<<1, Len(ts)>>]

\* A quote that is never closed.
OpenQuote(f) ==
  LET Fails[q \in 1..(Len(f) + 2)] ==
        LET t == ParseToken(f, q)
        IN  t.type = "ERROR" \/ (t.type # "EOF" /\ Fails[t.next])
  IN  Fails[1]

\* A valid file: the grammar derives it and every quote is closed.
Valid(f) == Grammatical(FileTokens(f)) /\ ~OpenQuote(f)

\* The i-th token stands outside every block, and tokens i..j are words of
\* one statement.
Outermost(ts, i) ==
  LET opened == {k \in 1..(i - 1) : ts[k].type = "START_BLOCK"}
      closed == {k \in 1..(i - 1) : ts[k].type = "END_BLOCK"}
  IN  Cardinality(opened) = Cardinality(closed)

Together(ts, i, j) == \A k \in i..j : ts[k].type = "NORMAL"

\* The j-th token is a number that may be taken as the port: "port" stands
\* before it in an outermost statement, with no valid port between the two.
PortAt(ts, j) ==
  /\ ValidPort(ts[j].value)
  /\ \E i \in 1..(j - 1) :
       /\ ts[i].value = <<"port">>
       /\ Outermost(ts, i) /\ Together(ts, i, j)
       /\ \A k \in (i + 1)..(j - 1) : ~ValidPort(ts[k].value)

\* It must be taken: the statement begins with "port" and this number.
PortStatementAt(ts, j) ==
  /\ j > 1
  /\ ts[j - 1].value = <<"port">> /\ ValidPort(ts[j].value)
  /\ Outermost(ts, j - 1) /\ Together(ts, j - 1, j)
  /\ j > 2 => ts[j - 2].type # "NORMAL"

ThreadCountAt(ts, j) ==
  /\ IsNumber(ts[j].value)
  /\ \E i \in 1..(j - 1) :
       /\ ts[i].value = <<"threadCount">>
       /\ Outermost(ts, i) /\ Together(ts, i, j)

-----------------------------------------------------------------------------
(* Properties.                                                             *)

Statements == Seq([tokens : Seq(Seq(STRING)), child : Nat])

\* The type invariant.
TypeOK ==
  /\ file \in Seq(STRING) \/ file = NoFile
  /\ pos \in Nat \ {0}
  /\ last_token_type \in TokenType
  /\ start_block \in Nat
  /\ config_stack \in Seq(1..Len(blocks))
  /\ blocks \in Seq(Statements)
  /\ phase \in {"open", "parse", "statements", "serve", "exit"}
  /\ accepted \in BOOLEAN
  /\ settings.port \in Int \cup {Unset}

\* The stack never runs empty and top() is always the innermost open block:
\* it is as high as the open braces, each block on it is the child of the
\* newest statement of the one below, and while a statement is open, back() is
\* that statement.  Parse dereferences all three without a test.
StackFollowsBraces ==
  /\ Len(config_stack) = start_block + 1
  /\ config_stack[1] = 1
  /\ \A d \in 1..start_block :
       /\ blocks[config_stack[d]] # <<>>
       /\ Last(blocks[config_stack[d]]).child = config_stack[d + 1]
  /\ last_token_type = "NORMAL" =>
       blocks[top] # <<>> /\ Last(blocks[top]).child = 0

\* Parse accepts a file iff it is valid, where the loop only compares each
\* token with the one before and counts the braces.  This is for the files
\* that do not end inside a word; AcceptsOnlyValid is about all of them.
AcceptsTheGrammar ==
  phase = "statements" /\ file # NoFile /\ ~CutOff(file) =>
    (accepted <=> Valid(file))

\* Nothing is lost, added or moved between the file and the tree: the text of
\* an accepted tree is again a file of the same tokens.
TextRoundTrips ==
  phase = "statements" /\ accepted =>
    AllTokens(ConfigText(blocks)) = AllTokens(file)

\* The server starts on the port of the first port statement that is valid and
\* stands outside every block, whatever follows it, even what Parse refuses;
\* without any, main exits.
PortIsFirstValid ==
  LET ts == TokensBefore(file, pos)
  IN  /\ phase = "serve" =>
           \E j \in DOMAIN ts :
             /\ PortAt(ts, j)
             /\ settings.port = Stoi(ts[j].value)
             /\ \A k \in 1..(j - 1) : ~PortStatementAt(ts, k)
      /\ phase = "exit" /\ file # NoFile =>
           \A j \in DOMAIN ts : ~PortStatementAt(ts, j)

\* The pool main asks for is never empty.  If the file has no negative thread
\* count, it is the default of 10 or a number that the file gives.
PoolNotEmpty ==
  LET ts == TokensBefore(file, pos)
      counts == {j \in DOMAIN ts : ThreadCountAt(ts, j)}
  IN  phase = "serve" =>
        /\ settings.threadCount > 0
        /\ (\A j \in counts : Stoi(ts[j].value) >= 0) =>
             \/ settings.threadCount = 10
             \/ \E j \in counts : settings.threadCount = Stoi(ts[j].value)

\* Whatever the file holds, main either starts the server or exits: the parse
\* loop ends at the end of every file.
StartsOrExits == <>(phase \in {"serve", "exit"})

-----------------------------------------------------------------------------
(* What the comments and messages of the parser say of it.                 *)

\* The comment of config_parser.h:44: Parse returns true iff the file is valid.
\* Violated by a file that ends inside a word, which ParseToken drops.
AcceptsOnlyValid ==
  phase = "statements" /\ file # NoFile => (accepted <=> Valid(file))

\* The comment of config_parser.cc:273: only the format "port port_num" is
\* accepted.  Violated: a refused value leaves prev_token, and the word after it
\* is tried in its turn.
PortHasTheFormat ==
  LET ts == TokensBefore(file, pos)
  IN  phase = "serve" =>
        \E j \in DOMAIN ts :
          PortStatementAt(ts, j) /\ settings.port = Stoi(ts[j].value)

\* The message of config_parser.cc:306: the thread count must be greater than 0.
\* A number that is not makes the pool one of the default size.  Violated by a
\* negative number, which is tested after its conversion to unsigned.
ThreadCountPositive ==
  LET ts == TokensBefore(file, pos)
  IN  phase = "serve" =>
        \/ settings.threadCount = 10
        \/ \E j \in DOMAIN ts :
             /\ ThreadCountAt(ts, j)
             /\ Stoi(ts[j].value) > 0 /\ settings.threadCount = Stoi(ts[j].value)

=============================================================================
