----------------------------- MODULE ReverseProxy -----------------------------
(***************************************************************************)
(* The reverse proxy handler, src/reverse_proxy_handler.cc: one request,   *)
(* from the constructor that reads the handler's block to the response or  *)
(* the exception that ends it, and the host it asks.                       *)
(*                                                                         *)
(* The host is the environment.  It sends a reply in pieces of any size,   *)
(* and may close the connection, reset it or fall silent at any moment.    *)
(* A reply is a sequence of symbols: "\r" and "\n", so that a piece may    *)
(* end between the two, and words, each standing for the text of a header, *)
(* of a number or of a part of the body.  A word of the first line stands  *)
(* for its text and the blank after it.                                    *)
(***************************************************************************)
EXTENDS Naturals, Sequences, SequencesExt

CONSTANTS
  Blocks,      \* the handler's blocks, as sequences of [key, value] statements
  Uris,        \* request URIs, as sequences of characters
  Replies,     \* what a host may want to send
  StatusCode,  \* the numerals, as a function to the numbers they spell
  MimeType,    \* the Content-Type headers, as a function to [type, params]
  Garbage,     \* the values an uninitialised int may have
  None         \* no host, no port

ASSUME ProxyAssumption ==
  /\ Garbage # {} /\ Garbage \subseteq Nat
  /\ \A n \in DOMAIN StatusCode : StatusCode[n] \in Nat
  /\ {"\r", "\n"} \cap (DOMAIN StatusCode \cup DOMAIN MimeType) = {}
  /\ Uris \subseteq Seq(STRING) /\ Replies \subseteq Seq(STRING)
  /\ \A b \in Blocks :
       /\ Len(b) \in Nat /\ DOMAIN b = 1..Len(b)
       /\ \A i \in DOMAIN b : b[i].key = "location" => b[i].value \in Seq(STRING)

VARIABLES
  block,      \* config, the block the handler was created with
  uri,        \* req->get_uri()
  proxies,    \* location2proxy
  port_num,
  asked,      \* the host, port and path the handler asked for
  wanted,     \* the reply the host sets out to send
  sent,       \* how many symbols of it are on their way
  line,       \* the connection: "none", "open", "closed" or "reset"
  got,        \* how many symbols the socket has handed out
  response,   \* the streambuf: what was read from the socket and not consumed
  stream,     \* FALSE once response_stream has failed
  status_code, mime_type, redirect,
  pc,         \* where handle_request is
  body        \* the body of the response handle_request returns

vars == <<block, uri, proxies, port_num, asked, wanted, sent, line, got,
          response, stream, status_code, mime_type, redirect, pc, body>>

environment == <<block, uri, proxies, port_num, asked, wanted>>
members == <<stream, status_code, mime_type, redirect>>

PCs == {"construct", "lookup", "connect", "write", "status", "headers", "body",
        "returned", "thrown", "undefined"}

-----------------------------------------------------------------------------
(* The constructor.                                                        *)

Statements(b, key) == {i \in DOMAIN b : b[i].key = key}

\* location2proxy: a root belongs to the last location before it, to the empty
\* one if there is none, and the first root of a location stays.
LocationOf(b, j) ==
  LET before == {i \in Statements(b, "location") : i < j}
  IN  IF before = {} THEN <<>>
      ELSE b[CHOOSE i \in before : \A k \in before : k <= i].value

\* Mutant: the entry is assigned, so that the last root of a location stays.
LocationToProxyLast(b) ==
  [l \in {LocationOf(b, j) : j \in Statements(b, "root")} |->
     LET own == {j \in Statements(b, "root") : LocationOf(b, j) = l}
     IN  b[CHOOSE j \in own : \A k \in own : k <= j].value]

LocationToProxy(b) ==
  [l \in {LocationOf(b, j) : j \in Statements(b, "root")} |->
     LET own == {j \in Statements(b, "root") : LocationOf(b, j) = l}
     IN  b[CHOOSE j \in own : \A k \in own : j <= k].value]

\* port_num has no initialiser: without a port statement it is anything.
PortNums(b) ==
  LET ports == Statements(b, "port")
  IN  IF ports = {} THEN Garbage
      ELSE {b[CHOOSE i \in ports : \A k \in ports : k <= i].value}

\* The router hands over a URI that begins with a location of the block.
Routed(b, u) == \E i \in Statements(b, "location") : IsPrefix(b[i].value, u)

Init ==
  /\ block \in Blocks /\ uri \in {u \in Uris : Routed(block, u)}
  /\ wanted \in Replies
  /\ proxies = <<>> /\ port_num = None
  /\ asked = [host |-> None, port |-> None, path |-> <<>>]
  /\ sent = 0 /\ line = "none"
  /\ got = 0 /\ response = <<>> /\ stream = TRUE
  /\ status_code = 0 /\ mime_type = <<>> /\ redirect = FALSE
  /\ pc = "construct" /\ body = <<>>

Construct ==
  /\ pc = "construct"
  /\ proxies' = LocationToProxy(block)
  /\ port_num' \in PortNums(block)
  /\ pc' = "lookup"
  /\ UNCHANGED <<block, uri, asked, wanted, sent, line, got, response, members, body>>

-----------------------------------------------------------------------------
(* constructGetRequest: the first segment of the URI names the host, the   *)
(* rest is the path, and both are found in the URI closed by a slash.      *)

Closed(u) == IF Last(u) = "/" THEN u ELSE Append(u, "/")

\* The slash that ends the first segment.
SegmentEnd(u) ==
  LET slashes == {i \in 2..Len(u) : u[i] = "/"}
  IN  CHOOSE i \in slashes : \A k \in slashes : i <= k

FirstSegment(u) == SubSeq(Closed(u), 1, SegmentEnd(Closed(u)) - 1)
PathOf(u) == SubSeq(Closed(u), SegmentEnd(Closed(u)), Len(Closed(u)))

\* A segment that is no location of the block dereferences end(), and the URI
\* "/" reads the character before an empty string.
Lookup ==
  /\ pc = "lookup"
  /\ IF Len(uri) > 1 /\ FirstSegment(uri) \in DOMAIN proxies
     THEN /\ asked' = [host |-> proxies[FirstSegment(uri)], port |-> port_num,
                       path |-> PathOf(uri)]
          /\ pc' = "connect"
     ELSE pc' = "undefined" /\ UNCHANGED asked
  /\ UNCHANGED <<block, uri, proxies, port_num, wanted, sent, line, got, response,
                 members, body>>

-----------------------------------------------------------------------------
(* The host, once the connection is up (external).                         *)

Over == pc \in {"returned", "thrown", "undefined"}

Send ==
  /\ line = "open" /\ ~Over /\ sent < Len(wanted)
  /\ sent' = sent + 1
  /\ UNCHANGED <<environment, line, got, response, members, pc, body>>

\* What was sent before an orderly close still arrives.  A host that closed may
\* answer the request it did not read with a reset.
Close ==
  /\ line = "open" /\ ~Over
  /\ line' = "closed"
  /\ UNCHANGED <<environment, sent, got, response, members, pc, body>>

Reset ==
  /\ line \in {"open", "closed"} /\ ~Over
  /\ line' = "reset"
  /\ UNCHANGED <<environment, sent, got, response, members, pc, body>>

-----------------------------------------------------------------------------
(* sendGetRequest.                                                         *)

\* An exception of Boost.Asio leaves handle_request.
Throw ==
  /\ pc' = "thrown"
  /\ UNCHANGED <<environment, sent, line, got, response, members, body>>

\* The resolver and connect(): either may fail.
Connect ==
  /\ pc = "connect"
  /\ line' = "open" /\ pc' = "write"
  /\ UNCHANGED <<environment, sent, got, response, members, body>>

ConnectFails == pc = "connect" /\ Throw

\* The request is written before the first read.
Write ==
  /\ pc = "write"
  /\ pc' = "status"
  /\ UNCHANGED <<environment, sent, line, got, response, members, body>>

WriteFails == pc = "write" /\ line = "reset" /\ Throw

CRLF == <<"\r", "\n">>

\* The first place of s in buf, past the end if it is not there.
PlaceOf(s, buf) ==
  LET at == {i \in 1..(Len(buf) + 1 - Len(s)) : SubSeq(buf, i, i + Len(s) - 1) = s}
  IN  IF at = {} THEN Len(buf) + 1 ELSE CHOOSE i \in at : \A k \in at : i <= k

Holds(buf, s) == PlaceOf(s, buf) <= Len(buf)

\* The handler is in a read that is not satisfied yet.
Reading ==
  \/ pc = "status" /\ ~Holds(response, CRLF)
  \/ pc = "headers" /\ ~Holds(response, CRLF \o CRLF)
  \/ pc = "body"

\* The socket hands out any part of what has arrived.
Receive ==
  /\ Reading
  /\ \E n \in 1..(sent - got) :
       /\ response' = response \o SubSeq(wanted, got + 1, got + n)
       /\ got' = got + n
  /\ UNCHANGED <<environment, sent, line, members, pc, body>>

\* Mutant: read_until is tried again at the end of the file.
ReadFailsOnResetOnly == Reading /\ line = "reset" /\ Throw

\* read_until throws at the end of the file, and every read on a reset.  A
\* reset may take with it what had arrived.
ReadFails ==
  /\ Reading
  /\ \/ line = "reset"
     \/ line = "closed" /\ got = sent /\ pc # "body"
  /\ Throw

\* operator>> and getline on the first line.  Without a number the stream fails
\* where the number should be: nothing after it is consumed.  status_code is
\* then 0, or, if nothing but blanks was left, what the uninitialised variable
\* held.  A number that ends the buffer fails the stream too.
Blank == {"\r", "\n"}

WordFrom(buf, i) ==
  LET words == {k \in i..Len(buf) : buf[k] \notin Blank}
  IN  IF words = {} THEN Len(buf) + 1 ELSE CHOOSE k \in words : \A m \in words : k <= m

LineFrom(buf, i) ==
  LET ends == {k \in i..Len(buf) : buf[k] = "\n"}
  IN  IF ends = {} THEN Len(buf) ELSE CHOOSE k \in ends : \A m \in ends : k <= m

ReadStatus ==
  LET number == WordFrom(response, WordFrom(response, 1) + 1)
      good == number <= Len(response) /\ response[number] \in DOMAIN StatusCode
  IN  /\ pc = "status" /\ Holds(response, CRLF)
      /\ stream' = (good /\ number < Len(response))
      /\ status_code' \in CASE good -> {StatusCode[response[number]]}
                            [] ~good /\ number <= Len(response) -> {0}
                            [] OTHER -> Garbage
      /\ response' = SubSeq(response,
                            IF good THEN LineFrom(response, number) + 1 ELSE number,
                            Len(response))
      /\ pc' = "headers"
      /\ UNCHANGED <<environment, sent, line, got, mime_type, redirect, body>>

\* The type between "Content-Type: " and the first semicolon.  A header with no
\* semicolon is taken to its end, the carriage return included.
TypeIn(header) ==
  <<MimeType[header].type>> \o IF MimeType[header].params THEN <<>> ELSE <<"\r">>

\* Mutant: the body that was read with the headers is thrown away with them.
ReadHeadersDropsBody ==
  LET types == {i \in DOMAIN response : response[i] \in DOMAIN MimeType}
  IN  /\ pc = "headers" /\ Holds(response, CRLF \o CRLF)
      /\ mime_type' = IF types = {} THEN mime_type
                      ELSE TypeIn(response[CHOOSE i \in types : \A k \in types : k <= i])
      /\ response' = <<>>
      /\ pc' = "body"
      /\ UNCHANGED <<environment, sent, line, got, stream, status_code, redirect, body>>

\* getline takes the lines up to the one that holds "\r" alone, unless the
\* stream has failed.  Content-Length is only written to the log.
ReadHeaders ==
  LET end == IF stream THEN PlaceOf(<<"\n">> \o CRLF, <<"\n">> \o response) + 1 ELSE 0
      types == {i \in 1..end : /\ i = 1 \/ response[i - 1] = "\n"
                              /\ response[i] \in DOMAIN MimeType}
  IN  /\ pc = "headers" /\ Holds(response, CRLF \o CRLF)
      /\ mime_type' = IF types = {} THEN mime_type
                      ELSE TypeIn(response[CHOOSE i \in types : \A k \in types : k <= i])
      /\ response' = SubSeq(response, end + 1, Len(response))
      /\ pc' = "body"
      /\ UNCHANGED <<environment, sent, line, got, stream, status_code, redirect, body>>

\* Mutant: the error that ended the read loop is not looked at.
EndOfReplyAnyError ==
  /\ pc = "body" /\ line \in {"closed", "reset"} /\ got = sent
  /\ redirect' = (status_code \in {301, 302})
  /\ body' = IF redirect' THEN <<"request">> ELSE response
  /\ response' = <<>>
  /\ pc' = "returned"
  /\ UNCHANGED <<environment, sent, line, got, stream, status_code, mime_type>>

\* The read loop ends with eof.  A redirection is answered with the request
\* itself, anything else with what is left in the buffer.
EndOfReply ==
  /\ pc = "body" /\ line = "closed" /\ got = sent
  /\ redirect' = (status_code \in {301, 302})
  /\ body' = IF redirect' THEN <<"request">> ELSE response
  /\ response' = <<>>
  /\ pc' = "returned"
  /\ UNCHANGED <<environment, sent, line, got, stream, status_code, mime_type>>

Handler ==
  \/ Construct \/ Lookup \/ Connect \/ ConnectFails \/ Write \/ WriteFails
  \/ Receive \/ ReadFails \/ ReadStatus \/ ReadHeaders \/ EndOfReply

Next == Handler \/ Send \/ Close \/ Reset

\* The pool thread that runs the handler is scheduled; the host is not bound
\* to anything.
Spec == Init /\ [][Next]_vars /\ WF_vars(Handler)

-----------------------------------------------------------------------------
(* Properties.  Arrived is what the host sent before the connection ended. *)

\* The type invariant.
TypeOK ==
  /\ pc \in PCs
  /\ line \in {"none", "open", "closed", "reset"}
  /\ got \in 0..sent /\ sent \in 0..Len(wanted)
  /\ \A i \in DOMAIN response : \E k \in 1..got : response[i] = wanted[k]
  /\ stream \in BOOLEAN /\ redirect \in BOOLEAN
  /\ status_code \in Nat

Arrived == SubSeq(wanted, 1, sent)

HasStatus(r) == Len(r) > 1 /\ r[1] \notin Blank /\ r[2] \in DOMAIN StatusCode
AfterBlankLine(r) == SubSeq(r, PlaceOf(CRLF \o CRLF, r) + 4, Len(r))

\* The Content-Type headers of the head, and the last of them.
TypesIn(r) ==
  {i \in 1..PlaceOf(CRLF \o CRLF, r) : i <= Len(r) /\ r[i] \in DOMAIN MimeType}
IsLastType(r, i) == i \in TypesIn(r) /\ \A k \in TypesIn(r) : k <= i

\* An empty line behind a line that is already ended: behind at least one
\* header, if the first line has a status.
HeadersEnd(r) ==
  \E i \in 1..(Len(r) - 3) :
     (\E k \in 1..i : r[k] = "\n") /\ SubSeq(r, i, i + 3) = CRLF \o CRLF

\* However the reply was cut into pieces, the response is made from all of it:
\* the body is every symbol after the first empty line, no symbol read ahead
\* by read_until is lost or repeated; a redirection, and only a redirection,
\* is answered with the request; the type begins with the one the last
\* Content-Type header of the head names (TypeIsExact is about what follows
\* it), and is empty if the head has none.
AnswerIsTheReply ==
  pc = "returned" /\ HasStatus(Arrived) =>
    /\ redirect <=> StatusCode[Arrived[2]] \in {301, 302}
    /\ body = IF redirect THEN <<"request">> ELSE AfterBlankLine(Arrived)
    /\ TypesIn(Arrived) = {} => mime_type = <<>>
    /\ \A i \in TypesIn(Arrived) :
         IsLastType(Arrived, i) =>
           mime_type # <<>> /\ mime_type[1] = MimeType[Arrived[i]].type

\* A reply is served only if the host ended it in order, after its headers.
\* One with a status that the host ended in order is given up only if no empty
\* line followed a header: it was cut short, or it has no header at all (the
\* second is EndedMeansServed's).  A body shorter than its Content-Length is
\* served as it is.
ServedIffEnded ==
  /\ pc = "returned" =>
       line = "closed" /\ got = sent /\ Holds(Arrived, CRLF \o CRLF)
  /\ pc = "thrown" /\ line \notin {"none", "reset"} /\ HasStatus(Arrived) =>
       ~HeadersEnd(Arrived)

\* For a URI that is a location of one segment, or goes on behind it with a
\* slash, the look-up finds an entry: the host asked is the root that follows
\* the location's first statement, at the last port of the block if it has one
\* (DefaultPort is about a block without), and location and path spell the
\* URI, closed by a slash.
AsksTheConfiguredHost ==
  \A i \in Statements(block, "location") :
    LET l == block[i].value
        fits == /\ l[1] = "/" /\ Len(l) > 1 /\ \A k \in 2..Len(l) : l[k] # "/"
                /\ IsPrefix(l, uri)
                /\ Len(uri) = Len(l) \/ uri[Len(l) + 1] = "/"
                /\ \A k \in Statements(block, "location") : block[k].value = l => i <= k
                /\ i + 1 \in Statements(block, "root")
    IN  fits =>
          /\ pc # "undefined"
          /\ asked.host # None =>
               /\ asked.host = block[i + 1].value
               /\ l \o asked.path \in {uri, Append(uri, "/")}
               /\ \A p \in Statements(block, "port") :
                    (\A k \in Statements(block, "port") : k <= p) =>
                      asked.port = block[p].value

\* The comment of reverse_proxy_handler.cc:168: every request that is routed to
\* the proxy finds its entry in location2proxy.  Violated: the router compares
\* characters and the handler compares the first segment.
ProxyGuaranteed == pc # "undefined"

\* The comment of conf/local_port:31: a block that names no port asks its host
\* at 8080.  Violated: port_num is not initialised.
DefaultPort ==
  asked.host # None /\ Statements(block, "port") = {} => asked.port = 8080

\* The comment of reverse_proxy_handler.cc:114: the type of the response is what
\* the header holds behind "Content-Type: ".  Violated: without a semicolon the
\* carriage return that ends the header is part of it.
TypeIsExact ==
  pc = "returned" /\ HasStatus(Arrived) =>
    \A i \in TypesIn(Arrived) :
      IsLastType(Arrived, i) => mime_type = <<MimeType[Arrived[i]].type>>

\* The comment of reverse_proxy_handler.cc:134: an error is thrown if the end of
\* the file is not reached, and not when the host ended a whole reply in order.
\* Violated: the empty line behind the status line is consumed in part with
\* that line, and the second read_until looks for it in vain.
EndedMeansServed ==
  pc = "thrown" /\ line = "closed" /\ HasStatus(Arrived) =>
    ~Holds(Arrived, CRLF \o CRLF)

\* Once the host has closed or reset the connection the handler ends, and the
\* thread of the pool is free again.  (A host that stays silent holds it.)
HandlerEnds == line \in {"closed", "reset"} ~> Over

=============================================================================
