# TLA+ models of the Gitty-up web server

This directory holds TLA+ specifications of the C++ web server of this
repository, the TLC configurations that check them on small instances, and
machine-checked (TLAPS) proofs. `PROJECT.json` is the index: components, runs,
the map from definitions to source lines, findings, hazards and theorems.

## 1. The system

The server is one process. `server_main.cc` parses a configuration file, makes
a router, arms the acceptor and starts a pool of threads that all run one
`boost::asio::io_service`. Each connection gets a heap-allocated `session`,
which reads once, answers once and deletes itself. A valid request goes through
`router::route_request`, which picks a handler by longest prefix, calls it,
records the response for the status page and adds default headers. Handlers:
echo, health, status, static files, meme (CRUD over SQLite), reverse proxy and
a default 404.

| Component | State | Operations | Talks to |
|---|---|---|---|
| accept loop, thread pool (`server.cc`, `server_main.cc`) | `isRunning`, `router_`, the threads, the outstanding accept | `create_router`, `start_accept`, `handle_accept`, `run`, `signal_handler` | sessions (creates them), router, `io_service` |
| session (`session.cc`) | the socket, `data_`, the outstanding read or write | `start`, `read`, `handle_read`, `handle_success`, `handle_error`, `handle_valid_request`, `handle_invalid_request`, `write`, `handle_write`, `close` | `io_service` callbacks carrying `this`; router |
| router (`router.cc`) | `route_map_`, `config_`, `default_headers_`, four mutexes | `register_route`, `register_routes_from_config`, `route_request`, `longest_prefix_match`, `select_handler`, `get_handler_config`, `validProxy`, headers | all pool threads at once; recorder; handlers |
| status recorder, status page | the request list, the prefix list, a mutex for each | `request_recorder`, `prefix_recorder`, the getters, `status_handler::handle_request` | written by the router, read by the status handler |
| meme handler, `sql_lib` | one SQLite database, a connection per request | create, update, delete, list, search, view, view counter | SQLite locks shared by all connections |
| reverse proxy (`reverse_proxy_handler.cc`) | one object per request: `location2proxy`, `port_num`, `mime_type`, `redirect` | `constructGetRequest`, `sendGetRequest`, `handle_request` | another server, synchronously in a pool thread |
| static file, echo, health, default | none | `handle_request` | the file system |
| configuration parser (`config_parser.cc`) | a stack of blocks, a count of braces, the last token's type | `ParseToken`, `Parse`, `ParseStatements`, `ToString` | used once, by `main` |
| request, response, URI coding | the parsed fields, the headers | parse, look up, set, generate, encode, decode | objects of one request that no other thread sees |
| logger, web pages, build | - | - | - |

What is hard here:

* **Callbacks and lifetime.** A session's callbacks carry a raw `this`, and the
  session deletes itself. This is correct only if one operation at a time is
  outstanding for a session, whichever of the three answering paths it takes,
  and whatever the peer does meanwhile.
* **Threads.** No strand and no lock protects a session. The router's six
  mutexes nest, and are not always taken in one order.
* **Partial reads and writes**, peers that close or reset at any point, and
  handlers that block a pool thread for ever.
* **Piecewise reads of shared state**: the status page is put together in three
  critical sections; a list of memes is fetched row by row.
* **Database contention.** No busy timeout is set, so a lock that is taken
  makes a statement fail at once; the view counter is a read and a write in
  separate transactions; the process may be killed at any point.
* **Parsing.** The configuration parser dereferences the top of a stack and the
  back of a vector without a test and relies on the order of the tokens. Regular
  expressions over whole requests and decoded forms decide where a name ends.
* **A foreign peer.** The proxy reads a reply in pieces that end anywhere, and
  must tell its end from its failure.

Each of these is listed in `PROJECT.json` under `hazards` at its source line,
with the property that would catch it going wrong.

## 2. The modules

| Module | What it is |
|---|---|
| `Server` | accept loop, sessions, thread pool, peers, process life cycle |
| `HttpService` | abstract specification `Server` implements |
| `ServerProofs`, `ServerServiceProofs` | the proofs about `Server`: its invariants; that it implements `HttpService` |
| `Router` | route registration, `route_request`, the recorder and the status page |
| `MemeStore` | the meme handler and `sql_lib` over SQLite's locks |
| `MemeService` | abstract atomic store that `MemeStore` implements |
| `ConfigParser` | the configuration parser as `main` uses it |
| `ReverseProxy` | one request through the proxy handler, and the host it asks |
| `HttpText` | the texts of one exchange: request parser, form decoding, file names, response |
| `RouterProofs`, `MemeStoreProofs`, `ConfigParserProofs`, `ReverseProxyProofs`, `HttpTextProofs` | the proofs about the other components |
| `IndexLemmas` | lemmas on sequences, parts of sequences and first and last positions that these proofs share |
| `MCServer`, `MCRouter`, `MCMemeStore`, `MCConfigParser`, `MCReverseProxy`, `MCHttpText` | instances for TLC |

`Router` starts from the blocks and locations `ConfigParser` yields; `Server`
takes `HttpText`'s verdict on a request (`valid`) and, from `ReverseProxy`, that a
handler may hang, throw or answer; `MemeStore` takes the verdict of `HttpText`'s
`BodyCheck`.

### Server

State: `proc` (how far `main` has come, or how the process ended), `router`
(`router_ != nullptr`), `isRunning`, `live` (allocated session objects, named
by address; `new` may return a freed address again), `io` (asio's outstanding
operations and queued completions), `task` (the handler each pool thread
executes), `peer` (the remote end of each socket), `sess` (each session's
progress) and `sig`.

One action per callback: `HandleAccept`, `HandleRead` (with `handle_success`
and `handle_error`), `HandleValidRequest`, `HandleWrite` (with `close`) and
`CloseThrows`. A handler is executed in one step, except that `handle_read` of
a valid request is split where it enters the router, because other threads run
there for long and because a handler may block there for ever (`Hang`). That
the rest may be one step is not an assumption about data: `NoRace` shows that
no two threads ever work on one session. `Dispatch` is asio handing a
completion to an idle thread. The environment connects, sends any part of its
request, closes, or resets, between any two steps.

A request is abstracted to its `size`, the units its status line needs (`head`)
and whether the whole of it is valid; a response to the number of `write_some`
calls it takes. `sess[s].intact` becomes FALSE when a chunk is sent after
`session::write` has returned, because the buffer belonged to its by-value
parameter.

The process's start is modelled from `create_router` on; what comes before has
no concurrency. `CHECK_DEADLOCK FALSE` because the process may exit, may abort,
and may have every thread blocked in a handler.

### Router

Each region protected by a lock is one step. Three mutexes appear as state
(`route_map_lock_`, `config_lock_`, `log_lock_`), because one is held while
another is taken; the recorder's two and `header_lock_` never are. `main`
registers routes holding `config_lock_` and taking `route_map_lock_`; look-up
takes them the other way round. `longest_prefix_match` is a loop over a hash
table: `LongestPrefixMatch` takes the lock, each `ComparePrefix` is one turn of
the loop with any of the prefixes it has not come to (`left`), and the last turn
releases the lock. The result is one the code makes deterministic, which is what
`RightHandler` checks. URIs are sequences over a small alphabet, so that
prefix and equality differ. `list`, `prefixes` and the thread-local copies of
them are exactly what the status page prints. Handlers are abstracted to the
response codes they can give and whether they can throw.

`CHECK_DEADLOCK FALSE` because a run ends when `MaxRequests` have been served;
that no one is stuck before is `NoLockCycle` and `EveryRequestReturns`.

### MemeStore

SQLite is external: a reader holds SHARED, a writer RESERVED, and a commit needs
EXCLUSIVE, which no reader may be in the way of. A statement that cannot get its
lock fails at once. Each `sqlite3_step` that can meet another connection is a
step of the model; a list is one `ReadRow` for each row that matches, in any
order, with other connections in between, and `FinishRead` when none is left. A
request is its method, its id, its content and whether it passes `check_id` and
`body_check`; a content is a model value standing for template and captions. A
LIST is `meme_list` or `meme_search`: `like` is the set of contents it asks for,
all of them or those whose captions hold the search term. `Crash` kills the
process between any two steps and rolls back what was not committed. The fields
`past`, `moments`, `eff` and the variables `gone`, `views` are history.

UUIDs are assumed to be unique (`used`).

### ConfigParser

State: the file, the stream's position, `last_token_type`, `start_block`,
`config_stack`, the tree as a heap of blocks (`blocks`), what `Parse` returned,
and the three settings. `ParseToken` is an operator, and one action stands for
each branch of `Parse`'s loop: `SkipComment`, `NormalToken`, `StatementEnd`,
`StartBlock`, `EndBlock`, `EndOfFile`, and `BadTransition` for every `break`.
`ParseStatements` is a fold over the outermost statements with the loop's local
variables as its accumulator. `ConfigText` is `ToString`. The integers keep their
widths: `INT_MAX` bounds what `std::stoi` accepts, and its result is converted to
unsigned modulo `2 * (INT_MAX + 1)`.

A word that the end of the file cuts off is not reported as a token (`CutOff`).
`AcceptsTheGrammar` is about the files without one, and `AcceptsOnlyValid`, which
TLC refutes, about all. In the same way `PortIsFirstValid` says which port is taken
and `PortHasTheFormat`, refuted, that its statement has the documented form;
`PoolNotEmpty` bounds the pool and `ThreadCountPositive`, refuted, says what a
negative `threadCount` should do (it becomes a number near 2^32). Beyond its
properties the model shows:

* `main` ignores the result of `Parse`: a file that is refused starts the server
  if a valid port came before the error (`PortIsFirstValid` is stated for what
  was read, not for what was accepted);
* a `threadCount` of 0 becomes 10, but a valid count that an earlier statement
  gave is then lost.

### ReverseProxy

State: the handler's block and URI, `location2proxy`, `port_num`, the request
that was asked, the streambuf `response`, the state of `response_stream`,
`status_code`, `mime_type`, `redirect`, and the connection. The host is the
environment: `Send`, `Close` and `Reset` may happen between any two steps, and
`Receive` hands out any part of what has arrived, so a piece may end between a
carriage return and its line feed. The three reads (`status`, `headers`, `body`)
block: their actions are enabled only when the read is satisfied, and `ReadFails`
is an exception that leaves `handle_request`.

Undefined behaviour is a choice or a place of its own: `port_num` without a port
statement and `status_code` after an empty first line are any of `Garbage`;
`pc = "undefined"` is the dereference of `end()` when the first segment of the
URI is no location. `AsksTheConfiguredHost` says for which URIs the look-up finds
its entry (locations of one segment, followed by a slash or nothing) and whom the
handler then asks, at the block's last port if it has one. What the repository says
of the other cases is refuted: `ProxyGuaranteed` (`/uu` with the location `/u`, or
a location of two segments), `DefaultPort` (a block without a port).

`ServedIffEnded` speaks of an empty line *behind a header* (`HeadersEnd`): a reply
whose empty line follows the status line at once is thrown away, which
`EndedMeansServed`, refuted, is about. `AnswerIsTheReply` says that the type begins
with the one the header names, `TypeIsExact`, refuted, that it is no more than that. Other
behaviours the model has: `Content-Length` is only logged, so a body that is shorter
is served as it is; a first line without a number is only logged, and the head is
then served as part of the body; the response's status is 200 whatever the host's.

### HttpText

One exchange in three steps, `ParseRequest`, `HandleRequest` and
`GenerateResponse`, for the echo, static and meme handlers and for the session's
own 400 and 500. A text is a sequence of character codes, with codes above 255
for words that no pattern looks into. Each regular expression is written as the
set of its matches and then the one the search takes. Nondeterminism: the order
in which an `unordered_map` yields the headers, what stands in memory behind
`raw_request_`, which has no terminator (`CStrings`), and whether
`generate_new_meme` succeeds (201) or the store fails (the handler's own 500). The client (how a form is
serialized, how a request is written) is external.

`Clean` lists what the patterns need to take a request apart: a method of word
characters, a path, one question mark and no line break before the headers, in the
headers non-empty names and values with no colon and space in a value and no line
break. Of such a request `RequestSurvives` says that method, path and headers are
read as they were sent whatever the query's values and the body hold, the query if
its values have one character, the body if it has no line break. Otherwise: a query
value of two characters is cut after the first and its rest becomes part of the next
name; a URI with two question marks is split at the last one; a header name reaches
to the last colon and space of its line; a body is cut at its last empty line and is
empty if a line break follows. The first and the last of these contradict the
comments of `request.cc`: `QueryIsReturned` and `BodyIsReturned` state these without
the restriction and are refuted. So are `AcceptedFormIsValid` (captions with
characters that `body_check` has no place for, which `FormSurvives` excludes),
`EchoIsTheRequest` and `DefaultsOnAllResponses` (the session's own 400 and 500, which
`ResponseSurvives` excludes).

## 3. Runs

| Run | Instance | Shows |
|---|---|---|
| `server` | 3 sessions, 2 threads, 3 requests, 2 chunks | `NoDangling`, `NoRace`, `NoLeak`, `AcceptLoop`, `OneReply`, `AnsweredBeforeFreed`, and that `Server` implements `HttpService` |
| `server_live` | 2 sessions, 2 threads, 1 may hang | `Served`, `TerminatesOnSignal` |
| `router` | 2 threads, 3 requests, 3 configurations, fair | handler choice, recording, status page, log line, lock order, `EveryRequestReturns` |
| `meme_store` | 2 threads, 2 ids, 2 contents, 4 requests, 1 crash | replies, reads, lists, deletion, counter, and that `MemeStore` implements `MemeService` |
| `config` | all files of 4 characters, of 8 words and braces, of 4 setting words | `StackFollowsBraces`, `AcceptsTheGrammar`, `TextRoundTrips`, `PortIsFirstValid`, `PoolNotEmpty`, `StartsOrExits` |
| `proxy` | 4 blocks, 5 URIs, 7 replies | `AnswerIsTheReply`, `ServedIffEnded`, `AsksTheConfiguredHost`, `HandlerEnds` |
| `text` | 14,057 messages | `RequestSurvives`, `CodingInverts`, `FormSurvives`, `StaysInDirectory`, `ResponseSurvives` |

Runs that are expected to be violated, one for each finding:

| Run | Property | What the code does |
|---|---|---|
| `server_keeps_accepting` | `KeepsAccepting` | `close()` uses the throwing `shutdown`; a reset at that moment ends the process |
| `server_response_intact` | `ResponseIntact` | a response of several `write_some` calls is sent from freed memory |
| `server_valid_never_refused` | `ValidNeverRefused` | a valid request that arrives in pieces is answered 400 |
| `router_own_config` | `OwnConfig` | of two blocks of one handler name the last one configures both |
| `meme_not_found` | `NotFoundMeansAbsent` | SQLITE_BUSY on a read is answered 404 |

### Statements of the repository that do not hold

Beside the five runs above, these statements of comments and documents are
definitions of their modules. Each is refuted: TLC finds the counterexample when the
definition is put among the invariants of the module's `.cfg`. They are in no run and
no theorem; the property in the last column is in one and says what does hold.

| Definition | What the repository says | Counterexample | What holds |
|---|---|---|---|
| `MemeStore!ListShowsAll` | "return a list of all memes as a JSON array" (`src/meme_handler.cc:235`) | a list that meets a committing writer is empty (SQLITE_BUSY) | `ListOfOneMoment`: empty is the only list that no moment of the call had |
| `ConfigParser!AcceptsOnlyValid` | "Returns true iff the input config file is valid." (`include/config_parser.h:44-45`) | `a;a`: a word cut off by the end of the file is dropped | `AcceptsTheGrammar`, of the files that do not end inside a word |
| `ConfigParser!PortHasTheFormat` | "currently only accepts format: port port_num;" (`src/config_parser.cc:273`) | `port x 80;` sets the port: a refused value leaves `prev_token` | `PortIsFirstValid` |
| `ConfigParser!ThreadCountPositive` | "Thread count must be greater than 0." (`src/config_parser.cc:306`) | `threadCount -1;` is tested after its conversion to unsigned | `PoolNotEmpty` |
| `ReverseProxy!ProxyGuaranteed` | "the proxy is guaranteed to exist if the program reaches here" (`src/reverse_proxy_handler.cc:168-169`) | `/uu` is routed to the location `/u` and dereferences `end()` | `AsksTheConfiguredHost`, of URIs that fit a location of one segment |
| `ReverseProxy!DefaultPort` | "if port number is missing here, the default should be 8080" (`conf/local_port:31`) | a block without a port reads the uninitialised `port_num` | - |
| `ReverseProxy!TypeIsExact` | "we need the type after this string" (`src/reverse_proxy_handler.cc:114`) | a `Content-Type` without parameters keeps its carriage return | `AnswerIsTheReply`: it begins with the type |
| `ReverseProxy!EndedMeansServed` | "if not reach the end of the file, throw an error" (`src/reverse_proxy_handler.cc:134`) | a whole reply without headers is thrown away | `ServedIffEnded`, of replies with a header |
| `HttpText!QueryIsReturned` | "returns the value corresponding to the given query string parameter name" (`src/request.cc:63`) | a value is cut after its first character | `RequestSurvives`, for values of one character |
| `HttpText!BodyIsReturned` | "get_body returns the body of the request as a string" (`src/request.cc:77`) | a body with a line break is lost or cut | `RequestSurvives`, for bodies without |
| `HttpText!AcceptedFormIsValid` | "check the provided body for valid input data" (`src/meme_handler.cc:407`) | a caption with an encoded `&` is cut and stored | `FormSurvives`, for the characters that captions may have |
| `HttpText!DefaultsOnAllResponses` | "capture a default HTTP header to apply to all responses from the server" (`src/router.cc:73`) | the session's own 400 and 500 have no default headers | `ResponseSurvives`: every response of a handler has them |
| `HttpText!EchoIsTheRequest` | "echo the HTTP request received in the body of the response" (`src/echo_handler.cc:21`) | the echo runs on into memory, or ends at a NUL | - |

### Bounds

* *Three session objects*: one armed, and two connections that overlap each
  other and the next accept. Addresses are reused, so the number of connections
  in a run is unbounded; two sessions suffice for a connection and the acceptor
  to race, and the invariants are proved for any number.
* *Two threads*: every property about threads is about a pair. When one of
  them hangs, the acceptor and the other session compete for the one that is
  left, the hardest case for `Served`.
* *Read buffer of 2 units*, requests of 1 and 3: shorter than the buffer, and
  longer than it, with a status line that can arrive in pieces.
* *Two chunks*: the first chunk is sent before `write` returns, the second one
  after; a third behaves like the second.
* *Router*: nested prefixes, a URI registered twice, an unknown handler name, a
  block without locations and an empty configuration. Three requests let two
  requests overlap a status page.
* *MemeStore*: four requests let a POST create what two others then race for,
  and one more see the result; one crash can fall between any two steps.
* *ConfigParser*: four characters of every class the tokenizer tells apart hold
  a quote, a comment or a word with what may end it, cut off anywhere. Eight
  words and braces nest three blocks and hold one brace too many or too few at
  every depth. Four setting words hold two values of one setting, or a setting
  behind another's refused value. `MAX_PORT` and `INT_MAX` are scaled down to 90
  and 100, with numerals on both sides of each.
* *ReverseProxy*: the replies have a body or none, no header or two, a type with
  and without parameters, a redirection, a first line without a number, one with
  nothing behind its version, and a body that itself looks like headers and an
  empty line. The blocks give a location twice, a root twice, two ports or none,
  and a location of two segments.
* *HttpText*: paths of up to 4 characters behind the slash, captions of up to 2
  over 13 characters (each class of the form's pattern, the coding's special
  characters, a byte above 127), bodies of up to 2 with line breaks, names given
  twice. No pattern counts beyond two of a kind.

The type invariants of `ConfigParser` and `ReverseProxy` are in no run:
`StackFollowsBraces` and `AnswerIsTheReply` say more of the same state. The one of
`ReverseProxy` is proved; that of `ConfigParser` is too, but for what `settings`
holds, as part of `IInv`.

TLC symmetry is used only in runs that check no liveness and whose constants
are interchangeable model values.

### Fairness

*Server.* A thread in a handler goes on (weak fairness of each thread's
handler); a blocking route handler is the separate action `Hang`, which is not
fair and whose thread never returns. `io_service` runs completions in queue
order, so one that is queued while threads keep becoming idle is run: strong
fairness, since all threads may be busy in between. The kernel reports what has
arrived or failed, and a peer that stays connected takes what it is sent.
Nothing is assumed of when peers connect, send or leave, so a peer that connects
and sends nothing is never answered, and `Served` does not claim it is: the code
has no timeout.

`Served` and `TerminatesOnSignal` are claimed only while one thread is left
that no handler blocks (`MaxHung` below the number of threads): with every
thread blocked in the reverse proxy neither holds, and nothing in the code
prevents that.

*Router.* `main` and each thread take their next step if it stays possible
(weak fairness). No fairness of the mutexes is needed: with finitely many
requests a lock that is wanted is free from some moment on, unless its owner is
itself waiting, which is what the run is about. `EveryRequestReturns` says that
no request waits for a lock for ever; handlers are taken to return there, since
`Server` models the ones that do not.

*ConfigParser.* `main` is one thread that reads a file: weak fairness of `Next`.

*ReverseProxy.* Weak fairness of the handler's steps: its pool thread is
scheduled. Nothing is assumed of the host, which may stay silent for ever; so
`HandlerEnds` starts from a connection that has been closed or reset.

`CHECK_DEADLOCK FALSE` in the runs of these two and of `HttpText` because one start, one proxied
request and one exchange end.

## 4. Proofs

Every theorem holds for all values of the constants that satisfy the module's
named assumption. TLC evaluates these assumptions on the instances of the runs.
Each component has one inductive invariant, `IInv`, and a theorem `Invariance`
(`Spec => []IInv`) from which its other theorems follow.

| Theorem | Property |
|---|---|
| `ServerProofs!TypeCorrect` | `TypeOK` |
| `ServerProofs!NoUseAfterFree` | `NoDangling` |
| `ServerProofs!SessionsAreExclusive` | `NoRace` |
| `ServerProofs!SessionsAreOwned` | `NoLeak` |
| `ServerProofs!AlwaysAccepting` | `AcceptLoop` |
| `ServerProofs!RepliesOnce` | `OneReply` |
| `ServerServiceProofs!FreedOnlyAfterReply` | `AnsweredBeforeFreed` (an action property) |
| `ServerServiceProofs!ServerImplementsService` | `ImplementsService` (refinement of `HttpService`) |
| `RouterProofs!TypeCorrect` | `TypeOK` |
| `RouterProofs!HandlerIsRight` | `RightHandler` |
| `RouterProofs!TableIsRouteMap` | `PrefixTableMirrorsRoutes` |
| `RouterProofs!HandlersAreConfigured` | `HandlerHasConfig` |
| `RouterProofs!EachResponseRecorded` | `RecordedOnce` |
| `RouterProofs!StatusPageIsSound` | `StatusPageSound` |
| `RouterProofs!LocksDoNotCycle` | `NoLockCycle` |
| `MemeStoreProofs!TypeCorrect` | `TypeOK` |
| `MemeStoreProofs!RepliesTellEffect` | `ReplyTellsEffect` |
| `MemeStoreProofs!ListsAreUntorn` | `ListOfOneMoment` |
| `MemeStoreProofs!DeletedStaysGone` | `GoneStaysGone` |
| `MemeStoreProofs!CountersBounded` | `CounterBounded` |
| `MemeStoreProofs!CommitExcludesAll` | `CommitsAlone` (in no run) |
| `MemeStoreProofs!StoreImplementsService` | `ImplementsService` (refinement of `MemeService`) |
| `ReverseProxyProofs!TypeCorrect` | `TypeOK` (in no run) |
| `ReverseProxyProofs!RepliesServedIffEnded` | `ServedIffEnded` |
| `ReverseProxyProofs!ResponseIsTheReply` | `AnswerIsTheReply` |
| `ReverseProxyProofs!AsksTheHostOfItsBlock` | `AsksTheConfiguredHost` |
| `ConfigParserProofs!StackIsBraces` | `StackFollowsBraces` |
| `ConfigParserProofs!TreeIsOwnedOnce` | `BlocksFormATree` (in no run) |
| `ConfigParserProofs!EveryStepAdvances` | `Advances` (an action property, in no run) |
| `ConfigParserProofs!AcceptsExactlyTheGrammar` | `AcceptsTheGrammar` |
| `ConfigParserProofs!PortIsTheFilesFirst` | `PortIsFirstValid` |
| `ConfigParserProofs!PoolIsNeverEmpty` | `PoolNotEmpty` |
| `HttpTextProofs!FilesOfTheDirectory` | `StaysInDirectory` |
| `HttpTextProofs!DecodingInvertsEncoding` | `CodingInverts` |
| `HttpTextProofs!AnswersAreRead` | `ResponseSurvives` |
| `HttpTextProofs!RequestsAreRead` | `RequestSurvives` |

### Server

`ServerAssumption`: the constants have their types, `NoSession` is not a session
and there is at least one thread.

None of the invariants is inductive by itself. That a handler's session is alive
follows from no other handler having been able to delete it (`NoRace`); that
starting a write does not give a session a second operation follows from the
session having had exactly the one that the handler stands for; that it is the
first write follows from `OneReply`, which ties `writes` to there being a write in
`io` or in a thread. So the six are proved together, in `IInv`, with two more
facts: `Quiet` (before `start_accept` nothing is allocated or outstanding, and the
router exists from then on) and `PendingLeft` (a pending write has chunks left,
which makes the decrement in `WriteSome` a natural number).

The steps are sorted by what they do to the state that the invariants speak of,
with a lemma for each kind: nothing (`FrameStep`), an operation completes
(`CompleteStep`), a completion moves to a thread (`DispatchStep`), a thread enters
the router or a blocking handler (`RouteStep`), a write is started (`WriteStep`), a
connection is accepted or refused (`AcceptStep`), a session is deleted
(`ReleaseStep`), `main` runs the server (`RunStep`), a chunk is sent (`ChunkStep`).

`ServerServiceProofs` maps each step to one of `HttpService` or to a stutter.
`FreedOnlyAfterReply` needs one more invariant, `NoPeerYet`: an object that is
free, or waits for a connection it has not been given, has no peer; with it a
session that is deleted before any write is one that nobody connected to.

### Router

`RouterAssumption`: finitely many threads, `Main` and `Nobody` are none of them,
URIs are sequences, and each location statement of a configuration belongs to one
of its blocks and is not empty (the tokenizer yields no empty word).

`IInv` is `TypeOK` with four parts. `Table` says what has been registered so far:
the map's URIs are those of the statements before `nextLoc`, each with the handler
of the first of them. `Order` says which places may hold each mutex, and that no
thread has left `idle` before registration is over: that, and not the locks, is
why taking `config_lock_` and `route_map_lock_` in both orders is harmless.
`Sound` says of each thread what its local results are worth although other
threads have run since: in the loop of `longest_prefix_match` the route is the
longest match among the prefixes that are not `left` (the loop invariant that
makes the order of the hash table irrelevant), the handler is the one meant, and
the page's rows are a prefix of a list that only grows. `Counts` ties the length of
the list to the answers returned and the threads between recording and returning.

### MemeStore

`MemeAssumption`: finitely many threads, and `None` is no content, id or thread.

`IInv` has the types; `Shape`, what a request's record holds at each point;
`Agrees`, how that fits the rows whatever was committed meanwhile (an id being
inserted is not in the table and not deleted, a counter read is at most the views,
the rows a list has are among those that match now, and what matches now is one of
its `moments`: `Listed`); `OwnIds`,
`Rows`, `Locks` (the locks are exactly the threads in a transaction, and EXCLUSIVE
excludes readers) and `ShownAtMostOnce`, which bounds the views by the requests and
is what keeps the counter inside its type. `GoneStaysGone` needs `Rows` and `OwnIds`:
a late view counter updates no row since its `UPDATE` finds none, and an insert has
an id no one else has. `ListsAreUntorn` rests on `Locks`: between the first row and
the last the reader holds SHARED, so a commit, which needs EXCLUSIVE, cannot change
what matches; without that lock (the mutant `BeginReadByRows`) the rows of a list
come from several moments. For the refinement each commit is the step of the atomic
store, a GET takes effect when its SELECT is done, and a crash is a step that drops
the calls.

### ReverseProxy

`ProxyAssumption`: codes are numbers, no status or type is a line break, URIs,
replies and the locations' values are sequences.

`IInv` says at each of the handler's places where the buffer is in the reply:
`Rest(c)`, the buffer is what was read behind position `c`, with `c` the end of the
first line while the headers are read and the end of the head while the body is.
So nothing that `read_until` read ahead is lost or repeated, wherever the pieces
end. `ResponseIsTheReply` has the hypothesis that every reply is `WellFormed`: in
its head each line feed follows a carriage return and each `Content-Type` begins a
line; the body is arbitrary. Without it the code and `TypesIn` do read different
heads: `getline` ends a line at a bare line feed, the empty line is looked for as
CR LF CR LF. All replies of the run satisfy it.

### Induction over data

The library's induction theorems take an operator as a parameter and cannot be
used here. `IndexLemmas` does without: an induction is a set of counterexamples in
`Nat` and its least member (`FirstIndex`), which is a first-order argument.
`RecursionDefines` and `RecursionUnique` show in this way that a recursive function
exists and is the only one, for every recursion in which a measure into `0..n`
falls; `FoldExists`, `FoldSteps` and `FoldUnique` make of it, for `FoldLeft`, the
values that a fold goes through, and `FlattenLays` says where the parts of a
`FlattenSeq` stand. What these functions compute is then proved position by
position, again by a least counterexample.

### ConfigParser

`ConfigAssumption`: a file is a sequence of characters, a numeral has a number and
is neither white space nor a delimiter, and the bounds of the integer types are
ordered as they are.

`IInv` is `Place` (the position stays in the file), `Stack` and `BlocksFormATree`.
`StackFollowsBraces` is not inductive: closing a brace exposes a block whose newest
statement must still be the one it was, so the chain of the whole stack is kept
(`Chain`), together with the blocks on it being numbered in the order of their
creation, which makes an edit of the top block leave those below alone. `TokenSound`
is what the loop takes from `ParseToken`. `EveryStepAdvances` bounds the loop: a file
of n characters takes at most n turns, the safety half of `StartsOrExits`.

`AcceptsExactlyTheGrammar`, for the files that do not end inside a word, joins two
definitions of what a configuration is: the
loop of `Parse`, which compares each token with the one before it and counts braces,
and the grammar `Grammatical`, a recursion over stretches of tokens. Both are
compared with a third, `Segment`: each token may follow the one before it (`Follows`)
and the depth (`Height`, opening braces minus closing ones) is zero at the ends and
nowhere below. `DerivedIsSegment` and `SegmentIsDerived` prove that the grammar derives
exactly the segments, the second by cutting off the first statement
(`SegmentBegins`); the invariant `TokensRead` says that what the loop has taken is
`Allowed`, a beginning of a segment, and `MisfitFails` that no token it refuses could
have gone on.

`PortIsTheFilesFirst` and `PoolIsNeverEmpty` add the invariant `Linked`: the words of
the outermost statements are, in order, exactly the words of the file outside every
block. The two loops of `ParseStatements` are followed turn by turn (`TokensDone`,
`WalkDone`): which word the loop still waits for, and that a port, once found, is
never overwritten.

### HttpText

`TextAssumption`: the parts of what a client sends (`IsMessage`) and what stands in
memory are texts, a form is
made of bytes and words, a file has a name, and a default header has a name without
colon and line break and a value without line break. The last is about the program
that registers the header: `register_default_header` and `generate_response` check
nothing, and nothing under `src/` registers one, so a header with a line break in it
would be the caller's. Nothing is assumed of the bodies.

`IInv` ties the request to the wire and the response to the request. For
`FilesOfTheDirectory` the argument is in two lemmas on `ParseFileInfo`: what it finds is a file name behind the last slash
(`ParseFileInfoSound`), and every URI that ends in a slash and a file name is taken
for that name (`ParseFileInfoComplete`), both from where a run of word characters
ends (`RunEndIs`, `OneEnd`).

`DecodingInvertsEncoding`: `UriEncode` writes each character in one of two spellings
(`Spells`), itself or a percent sign and two digits, and `UriDecode` standing at a
spelling takes that character and goes on behind it (`DecodeStep`, with
`HexToCharIs` for the digits). From the last character to the first, what
`UriDecode` makes of the rest of the text is the rest of the characters
(`DecodeSpelled`).

`AnswersAreRead`: the head of an answer is a status line and a line for each header
(`IsHead`, whatever the order of the hash table), and the only line breaks in it are
the line ends (`HeadBreaks`). So the first empty line is the one that ends the head,
even if the body has others (`HeadIs`), and a line feed, a name, a colon and a space
stand only where the line of that name begins (`NamePlace`): neither a value nor a
longer name can be mistaken for it. `SetHeaderFold` follows `set_header` call by
call, from which the last call for a name wins (`LastCallWins`). `AnswerInv`, beside
`IInv`, keeps that the response was `Built` by a handler for this request, and the
answer from that response.

`RequestsAreRead`: `Layout` says where the parts of a request stand in its text
(`RequestLayout`), with `Holds` for a text that stands in another. Each pattern then
finds its part and no other. The request line's pattern has one match: its
method ends at the first space, and no text without a line break reaches past the
end of the first line (`StatusLineReads`). The URI is split at its only question mark, whatever the values are (`QueryChars`, `UriSplits`).
The two patterns that are searched for again and again, `HeaderPairs` and
`QueryPairs`, are recursions over the positions of the text; `ScanReads`, in
`IndexLemmas`, says what such a recursion returns on a text that is a row of matches
with nothing between them, and `LineReads` and `PairReads` that every line and every
pair is such a match, of its own name and value. Before the first header nothing
matches (`FirstLine`); what matches in the body is read behind the headers and, since
the first of equal names stays, replaces none of them (`FirstStays`). The body is what follows the last empty line: the
one that ends the headers, if the body has no line break (`BodyReads`,
`BodyBehindHeaders`).

### Only model-checked

* Liveness: `Served`, `TerminatesOnSignal`, `EveryRequestReturns`, `StartsOrExits`,
  `HandlerEnds`. Fairness and `ENABLED` are outside the prover's reach.
* `TextRoundTrips`: it compares the tokens of a file with those of the text that
  `ToString` writes of the tree, so it needs what `ParseToken` reads in a
  concatenation of texts of every depth.
* `FormSurvives`: what `body_check` reads in a form goes through the pattern of a
  form's body, the decoding of each value and the last of several equal names. The
  decoding is proved (`DecodingInvertsEncoding`), for the server's own encoder; the
  form's encoder is the browser's, which spells a space differently.

## 5. Not modelled

* `extractRedirectedHost` and `sendGetRequestToRedirectedSite` of the proxy, and
  `disconnect` and `drop_table` of `sql_lib`: nothing in the program calls them.
* The patterns of the meme handler's `check_uri`, and the order and the JSON of
  the list: `MemeStore` takes the verdict on a URI as an input and a list as a
  set.
* Registration of default headers while requests run: nothing registers one.
  `HttpText` applies a fixed list of them.
* The HTML of the status page, MIME types by extension, wording of messages.
* Logger, web pages, build and deployment: no protocol of their own.
* Memory and file-descriptor exhaustion (`bad_alloc`, SQLite connections that
  are never closed, the request list that only grows) have no counterpart in a
  bounded model.

## 6. Plan

1. *Done*: the models and runs of all modules; the proofs of section 4.
2. Left: the pattern of `body_check`, for forms of every length, which would prove
   `FormSurvives`; `ToString` of the configuration tree for `TextRoundTrips`.
