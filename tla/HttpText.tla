------------------------------- MODULE HttpText -------------------------------
(***************************************************************************)
(* The texts of one exchange: what src/request.cc reads in a request, what *)
(* src/uri_lib.cc and meme_handler.cc make of a form, static_file_handler  *)
(* of a file name, and what src/response.cc writes for the client to read. *)
(*                                                                         *)
(* A text is a sequence of character codes.  A code above 255 stands for a *)
(* whole word: one of WordCodes for letters, any other for text that no    *)
(* pattern of the code looks into.  A regular expression is written as the *)
(* set of its matches; "." is any character but CR and LF.                 *)
(***************************************************************************)
EXTENDS Integers, Sequences, SequencesExt

CONSTANTS
  Messages,   \* the requests clients send, see RequestText
  Files,      \* the names of the files in the handler's directory
  Defaults,   \* the calls of register_default_header, as <<name, value>> pairs
  Behind      \* what may stand in memory behind raw_request_, up to a NUL

VARIABLES
  msg,        \* what the client means
  wire,       \* the text it sends
  req,        \* the request object
  resp,       \* the response object, with the file or the parameters it used
  answer,     \* the text the server sends
  stage

vars == <<msg, wire, req, resp, answer, stage>>

-----------------------------------------------------------------------------
(* Character codes, and the words that patterns and handlers know.         *)

CR == 13
LF == 10
SP == 32
PCT == 37
AMP == 38
PLUS == 43
DOT == 46
SLASH == 47
COLON == 58
EQ == 61
QMARK == 63

memeSelect == 300
topCaption == 301
bottomCaption == 302
jpg == 303
GET == 304
WordCodes == 300..399

HTTP == 400
ContentType == 401
Text == 402
MimeType == 403

\* \w, the class of caption characters [\w\.\,\?! ] and the characters that
\* UriEncode leaves alone.
Word(c) == c \in (48..57) \cup (65..90) \cup {95} \cup (97..122) \cup WordCodes
Caption(c) == Word(c) \/ c \in {DOT, 44, QMARK, 33, SP}
Unreserved(c) == Word(c) \/ c \in {45, 126}

NoBreak(s) == \A i \in DOMAIN s : s[i] \notin {CR, LF}

\* The least and the greatest member of a set of positions, d if it is empty.
Least(S, d) == IF S = {} THEN d ELSE CHOOSE i \in S : \A k \in S : i <= k
Greatest(S, d) == IF S = {} THEN d ELSE CHOOSE i \in S : \A k \in S : k <= i

\* Where the text t stands in s.
Places(t, s) == {i \in 1..(Len(s) + 1 - Len(t)) : SubSeq(s, i, i + Len(t) - 1) = t}

\* The end of the run of characters of s that pass Test, from position i on.
RunEnd(s, i, Test(_)) == Least({k \in i..Len(s) : ~Test(s[k])}, Len(s) + 1) - 1

-----------------------------------------------------------------------------
(* uri_lib.cc.  HexToChar reads at most two characters as a hexadecimal    *)
(* short: white space and a sign are allowed, what follows the digits is   *)
(* ignored, nothing at all is 0, and no digit is an exception (-1 here):   *)
(* so is a prefix "0x" without a digit after it.                           *)

HexDigit(n) == IF n < 10 THEN 48 + n ELSE 87 + n
\* Mutant: without setw(2) and setfill('0').
CharToHexUnpadded(c) ==
  IF c < 16 THEN <<PCT, HexDigit(c)>> ELSE <<PCT, HexDigit(c \div 16), HexDigit(c % 16)>>

CharToHex(c) == <<PCT, HexDigit(c \div 16), HexDigit(c % 16)>>

IsHex(c) == c \in (48..57) \cup (65..70) \cup (97..102)
HexValue(c) == CASE c <= 57 -> c - 48 [] c \in 65..70 -> c - 55 [] OTHER -> c - 87

HexToChar(str) ==
  LET from == RunEnd(str, 1, LAMBDA c : c \in (9..13) \cup {SP}) + 1
      signed == from <= Len(str) /\ str[from] \in {PLUS, 45}
      first == IF signed THEN from + 1 ELSE from
      digits == SubSeq(str, first, RunEnd(str, first, IsHex))
      value == FoldLeft(LAMBDA v, c : 16 * v + HexValue(c), 0, digits)
  IN  CASE str = <<>> -> 0
        [] digits = <<>> /\ str # <<>> -> -1
        [] str \in {<<48, 88>>, <<48, 120>>} -> -1
        [] OTHER -> (IF signed /\ str[from] = 45 THEN -value ELSE value) % 256

UriEncode(toEncode) ==
  FlattenSeq([i \in DOMAIN toEncode |->
                IF Unreserved(toEncode[i]) THEN <<toEncode[i]>>
                ELSE CharToHex(toEncode[i])])

\* Mutant: a plus sign is left as it is.
UriDecodeKeepsPlus(toDecode) ==
  LET n == Len(toDecode)
      Then(c, rest) == [rest EXCEPT !.text = <<c>> \o @]
      From[i \in 1..(n + 3)] ==
        LET c == HexToChar(SubSeq(toDecode, i + 1, Least({i + 2, n}, n)))
        IN  CASE i > n -> [ok |-> TRUE, text |-> <<>>]
              [] i <= n /\ toDecode[i] = PCT ->
                   IF c = -1 THEN [ok |-> FALSE, text |-> <<>>] ELSE Then(c, From[i + 3])
              [] OTHER -> Then(toDecode[i], From[i + 1])
  IN  From[1]

\* The decoded text, or ok = FALSE where HexToChar throws.
UriDecode(toDecode) ==
  LET n == Len(toDecode)
      Then(c, rest) == [rest EXCEPT !.text = <<c>> \o @]
      From[i \in 1..(n + 3)] ==
        LET c == HexToChar(SubSeq(toDecode, i + 1, Least({i + 2, n}, n)))
        IN  CASE i > n -> [ok |-> TRUE, text |-> <<>>]
              [] i <= n /\ toDecode[i] = PCT ->
                   IF c = -1 THEN [ok |-> FALSE, text |-> <<>>] ELSE Then(c, From[i + 3])
              [] i <= n /\ toDecode[i] = PLUS -> Then(SP, From[i + 1])
              [] OTHER -> Then(toDecode[i], From[i + 1])
  IN  From[1]

-----------------------------------------------------------------------------
(* request.cc: parse_request and the patterns it searches for.             *)

\* ^(\w+) (.+) HTTP\/(\d\.\d)\r\n
StatusLine(text) ==
  LET method == RunEnd(text, 1, Word)
      ends == {k \in Places(<<SP, HTTP, CR, LF>>, text) :
                 /\ k > method + 2
                 /\ NoBreak(SubSeq(text, 1, k))}
  IN  IF method = 0 \/ ends = {} \/ text[method + 1] # SP
      THEN [ok |-> FALSE, method |-> <<>>, uri |-> <<>>]
      ELSE [ok |-> TRUE, method |-> SubSeq(text, 1, method),
            uri |-> SubSeq(text, method + 2, Greatest(ends, 0) - 1)]

\* ^(.+)\?(.*)$ splits at the last question mark but a leading one.
QueryMark(uri) == Greatest({i \in 2..Len(uri) : uri[i] = QMARK}, Len(uri) + 1)

\* Mutant: the pattern does not take the ampersands.
QueryPairsWithoutAmp(qs) ==
  LET n == Len(qs)
      From[p \in 1..(n + 1)] ==
        LET e == Least({i \in (p + 1)..(n - 1) : qs[i] = EQ}, n)
        IN  IF p > n \/ e = n THEN <<>>
            ELSE <<[name |-> SubSeq(qs, p, e - 1), value |-> <<qs[e + 1]>>]>> \o From[e + 2]
  IN  From[1]

\* (.+?)=(.+?)(&*), again and again: the value is the one character after the
\* first equals sign, and the next name begins behind it and any ampersands.
QueryPairs(qs) ==
  LET n == Len(qs)
      From[p \in 1..(n + 1)] ==
        LET e == Least({i \in (p + 1)..(n - 1) : qs[i] = EQ}, n)
            next == RunEnd(qs, e + 2, LAMBDA c : c = AMP) + 1
        IN  IF p > n \/ e = n THEN <<>>
            ELSE <<[name |-> SubSeq(qs, p, e - 1), value |-> <<qs[e + 1]>>]>> \o From[next]
  IN  From[1]

\* \n(.+)\: (.+)\r, again and again, wherever a line of the text, of its body
\* too, matches: the name ends at the last colon and space that leave a value.
LineEnd(text, i) == Least({k \in (i + 1)..Len(text) : text[k] \in {CR, LF}}, Len(text) + 1)
LineSplit(text, i) ==
  Greatest({k \in (i + 2)..(LineEnd(text, i) - 3) :
              text[k] = COLON /\ text[k + 1] = SP}, 0)
IsLine(text, i) ==
  /\ text[i] = LF /\ LineEnd(text, i) <= Len(text) /\ text[LineEnd(text, i)] = CR
  /\ LineSplit(text, i) # 0
LinePair(text, i) ==
  [name |-> SubSeq(text, i + 1, LineSplit(text, i) - 1),
   value |-> SubSeq(text, LineSplit(text, i) + 2, LineEnd(text, i) - 1)]

HeaderPairs(text) ==
  LET n == Len(text)
      From[i \in 1..(n + 1)] ==
        CASE i > n -> <<>>
          [] i <= n /\ IsLine(text, i) -> <<LinePair(text, i)>> \o From[LineEnd(text, i) + 1]
          [] OTHER -> From[i + 1]
  IN  From[1]

\* unordered_map::insert and find: the first pair of a name stays.
FirstOf(pairs, name) ==
  LET own == {i \in DOMAIN pairs : pairs[i].name = name}
  IN  IF own = {} THEN <<>> ELSE pairs[Least(own, 0)].value

\* \r\n\r\n(.+)$: what follows the last empty line, if it has no line break.
Body(text) ==
  LET at == Greatest(Places(<<CR, LF, CR, LF>>, text), 0)
      rest == SubSeq(text, at + 4, Len(text))
  IN  IF at = 0 \/ ~NoBreak(rest) THEN <<>> ELSE rest

ParsedRequest(text) ==
  LET line == StatusLine(text)
      mark == QueryMark(line.uri)
  IN  [valid |-> line.ok,
       method |-> line.method,
       uri |-> SubSeq(line.uri, 1, mark - 1),
       query |-> IF line.ok THEN QueryPairs(SubSeq(line.uri, mark + 1, Len(line.uri))) ELSE <<>>,
       headers |-> IF line.ok THEN HeaderPairs(text) ELSE <<>>,
       body |-> IF line.ok THEN Body(text) ELSE <<>>]

-----------------------------------------------------------------------------
(* body_check of the meme handler: the form is decoded as a whole, then    *)
(* (\w+)=([\w\.\,\?! ]+)&* is matched again and again.                     *)

FormPairs(body) ==
  LET n == Len(body)
      From[p \in 1..(n + 1)] ==
        LET e == Least({i \in (p + 1)..(n - 1) :
                          body[i] = EQ /\ Word(body[i - 1]) /\ Caption(body[i + 1])}, n)
            start == Greatest({i \in p..(e - 1) : ~Word(body[i])}, p - 1) + 1
            end == RunEnd(body, e + 1, Caption)
            next == RunEnd(body, end + 1, LAMBDA c : c = AMP) + 1
        IN  IF p > n \/ e = n THEN <<>>
            ELSE <<[name |-> SubSeq(body, start, e - 1),
                    value |-> SubSeq(body, e + 1, end)]>> \o From[next]
  IN  From[1]

\* Each match assigns its variable anew.
LastOf(pairs, name) ==
  LET own == {i \in DOMAIN pairs : pairs[i].name = name}
  IN  IF own = {} THEN <<>> ELSE pairs[Greatest(own, 0)].value

\* \w+.jpg, anywhere.
IsTemplate(t) ==
  \E i \in 1..(Len(t) - 2) : Word(t[i]) /\ NoBreak(<<t[i + 1]>>) /\ t[i + 2] = jpg

BodyCheck(text) ==
  LET pairs == FormPairs(text)
      params == [template |-> LastOf(pairs, <<memeSelect>>),
                 top |-> LastOf(pairs, <<topCaption>>),
                 bottom |-> LastOf(pairs, <<bottomCaption>>)]
  IN  [ok |-> IsTemplate(params.template) /\ params.top # <<>> /\ params.bottom # <<>>,
       params |-> params]

-----------------------------------------------------------------------------
(* static_file_handler.cc: \/(\w+)(\.\w+)$                                 *)

\* Mutant: \/(.+)(\.\w+)$
ParseFileInfoAnyName(uri) ==
  LET slash == Least({i \in DOMAIN uri : uri[i] = SLASH}, 0)
      dot == Greatest({i \in DOMAIN uri : uri[i] = DOT}, 0)
  IN  IF slash # 0 /\ slash + 1 < dot /\ dot < Len(uri) /\ RunEnd(uri, dot + 1, Word) = Len(uri)
      THEN SubSeq(uri, slash + 1, Len(uri))
      ELSE <<>>

ParseFileInfo(uri) ==
  LET slash == Greatest({i \in DOMAIN uri : uri[i] = SLASH}, 0)
      dot == RunEnd(uri, slash + 1, Word) + 1
  IN  IF /\ slash # 0 /\ slash + 1 < dot /\ dot < Len(uri)
         /\ uri[dot] = DOT /\ RunEnd(uri, dot + 1, Word) = Len(uri)
      THEN SubSeq(uri, slash + 1, Len(uri))
      ELSE <<>>

-----------------------------------------------------------------------------
(* response.cc.                                                            *)

\* Mutant: set_header inserts only.
SetHeaderOnce(headers, pair) ==
  [n \in DOMAIN headers \cup {pair[1]} |-> IF n \in DOMAIN headers THEN headers[n] ELSE pair[2]]

\* set_header replaces the value of a name that is there.
SetHeader(headers, pair) ==
  [n \in DOMAIN headers \cup {pair[1]} |-> IF n = pair[1] THEN pair[2] ELSE headers[n]]

Response(code, body, calls) ==
  [code |-> code, body |-> body, headers |-> FoldLeft(SetHeader, <<>>, calls)]

\* The words response_codes.h has; the code itself is written as a number.
StatusWord(code) ==
  IF code \in {200, 201, 303, 400, 404, 405, 500} THEN <<2000 + code>> ELSE <<>>

StatusText(code) == <<HTTP, SP, 1000 + code, SP>> \o StatusWord(code) \o <<CR, LF>>

HeaderLines(headers, order) ==
  FlattenSeq([i \in DOMAIN order |->
                order[i] \o <<COLON, SP>> \o headers[order[i]] \o <<CR, LF>>]) \o <<CR, LF>>

ResponseText(r, order) == StatusText(r.code) \o HeaderLines(r.headers, order) \o r.body

-----------------------------------------------------------------------------
(* The client (external): jQuery's serialize() and other ways to write a   *)
(* form, and the text of a request.                                        *)

Serialized(text) ==
  FlattenSeq([i \in DOMAIN text |->
                CASE text[i] = SP -> <<PLUS>>
                  [] text[i] \in {DOT, 33} \/ Unreserved(text[i]) -> <<text[i]>>
                  [] OTHER -> CharToHex(text[i])])

Coded(text, coding) ==
  CASE coding = "serialize" -> Serialized(text)
    [] coding = "UriEncode" -> UriEncode(text)
    [] coding = "none"      -> text

\* A body is a form or a text.
BodyText(m) ==
  IF m.coding = "text" THEN m.body
  ELSE <<memeSelect, EQ>> \o Coded(m.form.template, m.coding)
       \o <<AMP, topCaption, EQ>> \o Coded(m.form.top, m.coding)
       \o <<AMP, bottomCaption, EQ>> \o Coded(m.form.bottom, m.coding)

QueryText(pairs) ==
  FlattenSeq([i \in DOMAIN pairs |->
                <<IF i = 1 THEN QMARK ELSE AMP>> \o pairs[i].name \o <<EQ>> \o pairs[i].value])

RequestText(m) ==
  m.method \o <<SP>> \o m.path \o QueryText(m.query) \o <<SP, HTTP, CR, LF>>
  \o FlattenSeq([i \in DOMAIN m.headers |->
                   m.headers[i].name \o <<COLON, SP>> \o m.headers[i].value \o <<CR, LF>>])
  \o <<CR, LF>> \o BodyText(m)

\* A character is a byte, or a word of letters; the parts of a message and what
\* stands in memory are texts; a file has a name; a default header is one, with a name and
\* a value that end where the line's colon and its end say.
Chars == (0..255) \cup WordCodes

IsHeader(name, value) ==
  /\ \A i \in DOMAIN name : name[i] \notin {COLON, CR, LF}
  /\ NoBreak(value)

IsMessage(m) ==
  /\ m.method \in Seq(Nat) /\ m.path \in Seq(Nat) /\ BodyText(m) \in Seq(Nat)
  /\ m.query \in Seq([name : Seq(Nat), value : Seq(Nat)])
  /\ m.headers \in Seq([name : Seq(Nat), value : Seq(Nat)])

ASSUME TextAssumption ==
  /\ \A m \in Messages :
       /\ IsMessage(m)
       /\ m.handler \in {"echo", "static", "meme"}
       /\ m.coding # "text" =>
            \A t \in {m.form.template, m.form.top, m.form.bottom} : t \in Seq(Chars)
  /\ Files \subseteq Seq(Nat) \ {<<>>}
  /\ Behind \subseteq Seq(Nat)
  /\ Defaults \in Seq(Seq(Nat) \X Seq(Nat))
  /\ \A i \in DOMAIN Defaults : IsHeader(Defaults[i][1], Defaults[i][2])

-----------------------------------------------------------------------------
(* The server: parse, handle, answer.                                      *)

Init ==
  /\ msg \in Messages
  /\ wire = RequestText(msg)
  /\ req = <<>> /\ resp = <<>> /\ answer = <<>>
  /\ stage = "sent"

ParseRequest ==
  /\ stage = "sent"
  /\ req' = ParsedRequest(wire)
  /\ stage' = "parsed"
  /\ UNCHANGED <<msg, wire, resp, answer>>

\* std::string(raw_request_): raw_request_ has no terminator, so the string
\* goes on into memory unless the request holds a NUL.
CStrings(raw) ==
  LET nul == Least({i \in DOMAIN raw : raw[i] = 0}, 0)
  IN  IF nul # 0 THEN {SubSeq(raw, 1, nul - 1)} ELSE {raw \o b : b \in Behind}

Typed(type) == <<<<ContentType>>, <<type>>>>

\* apply_default_headers, after the handler of a valid request.
WithDefaults(r) == [r EXCEPT !.headers = FoldLeft(SetHeader, @, Defaults)]

\* The handler's response and what it was made from: the file served or the
\* parameters handed to generate_new_meme.
Routed(r, used) == [r |-> WithDefaults(r), used |-> used]

Echo == {Routed(Response(200, b, <<Typed(Text)>>), <<>>) : b \in CStrings(wire)}

ServeFile ==
  LET file == ParseFileInfo(req.uri)
  IN  CASE req.method # <<GET>> -> Routed(Response(405, <<Text>>, <<Typed(Text)>>), <<>>)
        [] req.method = <<GET>> /\ file \in Files ->
             Routed(Response(200, file, <<Typed(MimeType)>>), file)
        [] OTHER -> Routed(Response(404, <<Text>>, <<Typed(Text)>>), <<>>)

\* An exception of UriDecode leaves the router before the default headers are
\* applied, and the session answers 500.  generate_new_meme may fail, as the
\* store may (MemeStore.tla): the handler's own 500.
CreateMeme ==
  LET decoded == UriDecode(req.body)
      check == BodyCheck(decoded.text)
  IN  CASE ~decoded.ok -> {[r |-> Response(500, <<Text>>, <<Typed(Text)>>), used |-> <<>>]}
        [] decoded.ok /\ check.ok ->
             {Routed(Response(201, <<Text>>, <<Typed(MimeType)>>), check.params),
              Routed(Response(500, <<Text>>, <<Typed(Text)>>), check.params)}
        [] OTHER -> {Routed(Response(400, <<Text>>, <<Typed(Text)>>), <<>>)}

BadRequest ==
  {[r |-> Response(400, b, <<Typed(Text)>>), used |-> <<>>] : b \in CStrings(wire)}

HandleRequest ==
  /\ stage = "parsed"
  /\ resp' \in CASE ~req.valid -> BadRequest
                 [] req.valid /\ msg.handler = "echo"   -> Echo
                 [] req.valid /\ msg.handler = "static" -> {ServeFile}
                 [] req.valid /\ msg.handler = "meme"   -> CreateMeme
  /\ stage' = "handled"
  /\ UNCHANGED <<msg, wire, req, answer>>

\* generate_response walks an unordered_map: its order is any.
GenerateResponse ==
  /\ stage = "handled"
  /\ \E order \in SetToSeqs(DOMAIN resp.r.headers) : answer' = ResponseText(resp.r, order)
  /\ stage' = "answered"
  /\ UNCHANGED <<msg, wire, req, resp>>

Next == ParseRequest \/ HandleRequest \/ GenerateResponse

Spec == Init /\ [][Next]_vars

-----------------------------------------------------------------------------
(* What a client reads in an answer.                                       *)

HeadOf(text) == SubSeq(text, 1, Least(Places(<<CR, LF, CR, LF>>, text), 0) + 1)
ReadBody(text) == SubSeq(text, Len(HeadOf(text)) + 3, Len(text))
ReadHeader(text, name) ==
  LET at == Least(Places(<<LF>> \o name \o <<COLON, SP>>, HeadOf(text)), 0)
      from == at + Len(name) + 3
  IN  IF at = 0 THEN <<>>
      ELSE SubSeq(text, from, RunEnd(text, from, LAMBDA c : c # CR))

-----------------------------------------------------------------------------
(* Properties.                                                             *)

\* The requests the patterns of request.cc can take apart: a method that is a
\* word, a path and a query whose parts have neither a line break nor a question
\* mark, and headers without line break, none empty, no colon and space in a
\* value.
Clean(m) ==
  /\ m.method # <<>> /\ \A i \in DOMAIN m.method : Word(m.method[i])
  /\ m.path # <<>> /\ \A i \in DOMAIN m.path : m.path[i] \notin {CR, LF, QMARK}
  /\ \A i \in DOMAIN m.query : \A s \in {m.query[i].name, m.query[i].value} :
       \A k \in DOMAIN s : s[k] \notin {CR, LF, QMARK}
  /\ \A i \in DOMAIN m.headers :
       /\ m.headers[i].name # <<>> /\ m.headers[i].value # <<>>
       /\ IsHeader(m.headers[i].name, m.headers[i].value)
       /\ Places(<<COLON, SP>>, m.headers[i].value) = {}

\* The queries the pattern of request.cc:189 takes apart: longer values are cut,
\* which QueryIsReturned is about.
ShortValues(query) ==
  \A i \in DOMAIN query :
    /\ query[i].name # <<>> /\ Len(query[i].value) = 1
    /\ \A k \in DOMAIN query[i].name : query[i].name[k] \notin {EQ, AMP}

\* A clean request is valid, and whatever its query and its body hold, its
\* method, its path and its headers are read as they were sent: neither a query
\* that is cut nor a body with line breaks, empty lines and lines like headers
\* disturbs them (request::parse_request).  The query is read as it was sent if its
\* values have one character, the body if it has no line break; the first of two
\* equal names is the one that is kept.
RequestSurvives ==
  stage = "parsed" /\ Clean(msg) =>
    /\ req.valid
    /\ req.method = msg.method /\ req.uri = msg.path
    /\ \A i \in DOMAIN msg.headers :
         FirstOf(req.headers, msg.headers[i].name) = FirstOf(msg.headers, msg.headers[i].name)
    /\ ShortValues(msg.query) =>
         \A i \in DOMAIN msg.query :
           FirstOf(req.query, msg.query[i].name) = FirstOf(msg.query, msg.query[i].name)
    /\ NoBreak(BodyText(msg)) => req.body = BodyText(msg)

\* The comment of request.cc:63: the value of a query parameter is what the
\* client sent for its name.  Violated by any value of two characters: the
\* pattern's lazy group takes one, and the rest begins the next name.
QueryIsReturned ==
  /\ stage = "parsed" /\ req.valid
  /\ \A i \in DOMAIN msg.path : msg.path[i] # QMARK
  /\ \A i \in DOMAIN msg.query : \A t \in {msg.query[i].name, msg.query[i].value} :
       t # <<>> /\ \A k \in DOMAIN t : t[k] \notin {CR, LF, SP, QMARK, EQ, AMP}
  => \A i \in DOMAIN msg.query :
       FirstOf(req.query, msg.query[i].name) = FirstOf(msg.query, msg.query[i].name)

\* The comment of request.cc:77: get_body returns the body of the request.
\* Violated by a body with a line break, which is lost or cut: "." does not
\* match one, and the last empty line is taken, not the first.
BodyIsReturned == stage = "parsed" /\ req.valid => req.body = BodyText(msg)

\* UriDecode gives back every text that UriEncode has encoded.
CodingInverts ==
  msg.coding # "text" =>
    LET text == msg.form.top \o msg.form.bottom
    IN  UriDecode(UriEncode(text)) = [ok |-> TRUE, text |-> text]

\* A form of captions that body_check allows, encoded in either way, becomes a
\* meme with exactly these captions, or fails to be stored with them: through
\* the request's patterns, UriDecode and the form's pattern.
FormSurvives ==
  /\ stage = "handled" /\ msg.handler = "meme" /\ msg.coding \in {"serialize", "UriEncode"}
  /\ \A t \in {msg.form.template, msg.form.top, msg.form.bottom} :
       t # <<>> /\ \A i \in DOMAIN t : Caption(t[i])
  /\ IsTemplate(msg.form.template)
  => resp.r.code \in {201, 500} /\ resp.used = msg.form

\* The comments of meme_handler.cc:407 and :439: the body is checked for valid
\* input and topCaption for a valid caption, so a form that is accepted is the
\* form that was sent.  Violated by a caption with a character the pattern does
\* not have, such as an encoded ampersand: the caption is cut there, not refused.
AcceptedFormIsValid ==
  /\ stage = "handled" /\ msg.handler = "meme" /\ msg.coding \in {"serialize", "UriEncode"}
  /\ resp.r.code = 201
  => resp.used = msg.form

\* The static handler serves a file of its own directory or none: the name it
\* opens is the last segment of the URI and holds neither a slash nor a second
\* dot.  A file with such a name is found.
StaysInDirectory ==
  stage = "handled" /\ msg.handler = "static" /\ req.valid =>
    /\ resp.r.code = 200 =>
         /\ IsSuffix(<<SLASH>> \o resp.used, req.uri)
         /\ \A i \in DOMAIN resp.used : resp.used[i] # SLASH
         /\ \E d \in 2..(Len(resp.used) - 1) :
              \A i \in DOMAIN resp.used : (resp.used[i] = DOT) <=> (i = d)
    /\ \A f \in Files :
         /\ req.method = <<GET>> /\ IsSuffix(<<SLASH>> \o f, req.uri)
         /\ \E d \in 2..(Len(f) - 1) : f[d] = DOT /\ \A i \in DOMAIN f : i # d => Word(f[i])
         => resp.r.code = 200

\* The handler of a valid request throws: the form cannot be decoded.
HandlerThrows == msg.handler = "meme" /\ ~UriDecode(req.body).ok

\* In whatever order the headers are written, the client reads the response
\* the handler built: the first empty line ends the head, each header has its
\* last value, and every response of a handler, its own 500 too, has the last
\* value of each default header of the server.
ResponseSurvives ==
  stage = "answered" =>
    /\ answer[3] = 1000 + resp.r.code
    /\ ReadBody(answer) = resp.r.body
    /\ \A n \in DOMAIN resp.r.headers : ReadHeader(answer, n) = resp.r.headers[n]
    /\ req.valid /\ ~HandlerThrows =>
         \A i \in DOMAIN Defaults :
           (\A k \in (i + 1)..Len(Defaults) : Defaults[k][1] # Defaults[i][1]) =>
             ReadHeader(answer, Defaults[i][1]) = Defaults[i][2]

\* The comment of router.cc:73: a default header applies to all responses of the
\* server.  Violated by the session's own answers, 400 and 500.
DefaultsOnAllResponses ==
  stage = "answered" =>
    \A i \in DOMAIN Defaults :
      (\A k \in (i + 1)..Len(Defaults) : Defaults[k][1] # Defaults[i][1]) =>
        ReadHeader(answer, Defaults[i][1]) = Defaults[i][2]

\* The comment of echo_handler.cc:21: the request received is echoed in the body
\* of the response.  Violated: raw_request_ has no terminator, and the string
\* made from it runs on into memory, or ends at a NUL of the request.
EchoIsTheRequest ==
  stage = "answered" /\ msg.handler = "echo" /\ req.valid => ReadBody(answer) = wire

=============================================================================
