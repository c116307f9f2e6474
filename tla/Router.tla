------------------------------- MODULE Router -------------------------------
(***************************************************************************)
(* The router, the status recorder and the status page: src/router.cc,     *)
(* src/server_status_recorder.cc, src/status_handler.cc, and the response  *)
(* codes of the small handlers.                                            *)
(*                                                                         *)
(* main registers the routes of the configuration, then the pool threads   *)
(* run route_request concurrently.  Each lock-protected region is a step.  *)
(* A lock appears as state only if it is held while another is taken:      *)
(* route_map_lock_, config_lock_ and log_lock_.  The two list locks of the *)
(* recorder and header_lock_ never are, so their regions are single steps. *)
(***************************************************************************)
EXTENDS Naturals, Sequences, FiniteSets, SequencesExt

CONSTANTS
  Threads,      \* the pool threads
  Main,         \* the thread that executes main()
  Nobody,       \* the owner of a free mutex
  Chars,        \* the characters of a URI
  Uris,         \* the request URIs, as sequences of characters
  Names,        \* the names of handler blocks
  Configs,      \* the router configurations, as [blocks, locs] records
  MaxRequests   \* the most requests of one run (model bound)

(***************************************************************************)
(* blocks is the sequence of the handler blocks' names and locs that of    *)
(* their location statements, in the order of the file: [block |-> b,      *)
(* uri |-> u] is a location of the b-th block.  A token is never empty.    *)
(***************************************************************************)
ASSUME RouterAssumption ==
  /\ Main \notin Threads
  /\ Nobody \notin Threads \cup {Main}
  /\ IsFiniteSet(Threads)
  /\ Uris \subseteq Seq(Chars)
  /\ MaxRequests \in Nat
  /\ \A cf \in Configs :
       /\ cf.blocks \in Seq(Names)
       /\ cf.locs \in Seq([block : Nat, uri : Seq(Chars)])
       /\ \A i \in DOMAIN cf.locs : /\ cf.locs[i].block \in DOMAIN cf.blocks
                                    /\ cf.locs[i].uri # <<>>

VARIABLES
  config,      \* config_, fixed by the constructor
  phase,       \* what main() does: "setup", "registering", "serving"
  nextLoc,     \* the location statement that is registered next
  routeMap,    \* route_map_
  prefixes,    \* the recorder's prefix_handler_list_
  list,        \* the recorder's url_response_list_
  lock,        \* the owners of the mutexes that nest
  th,          \* each pool thread's progress through route_request
  arrived,     \* requests so far (model bound)
  answered     \* responses route_request has returned (history)

vars == <<config, phase, nextLoc, routeMap, prefixes, list, lock, th,
          arrived, answered>>

-----------------------------------------------------------------------------
Mutexes == {"route_map", "config", "log"}
Actors  == Threads \cup {Main}
Free(m) == lock[m] = Nobody

(* The handlers select_handler knows, and the response codes of each.      *)
Codes ==
  [echo |-> {200}, health |-> {200, 400}, status |-> {200}, proxy |-> {200},
   static1 |-> {200, 404, 405}, static2 |-> {200, 404, 405},
   webMeme |-> {200, 404, 405}, imageMeme |-> {200, 404, 405},
   meme |-> {200, 201, 303, 400, 404, 405, 500}, default |-> {404}]

Known == DOMAIN Codes \ {"default"}

(* Handlers that may throw: the proxy's sockets, the meme handler's        *)
(* UriDecode.  Handlers whose constructor dereferences the configuration.  *)
Throwing == {"proxy", "meme"}
NeedsConfig == {"proxy", "meme", "static1", "static2", "webMeme", "imageMeme"}

PCs == {"idle", "match", "scan", "lookup", "validProxy", "config", "handle", "list",
        "prefixes", "record", "log", "finish"}

(* A thread between two requests.  route, handler and logged are the local *)
(* results of the look-ups, left the prefixes the loop of the first has    *)
(* not come to, block the configuration handed to the handler (0 for       *)
(* NULL), num, rows and table what the status page shows, and seen the     *)
(* length of the request list when the request came (history).             *)
Resting == [pc |-> "idle", uri |-> <<>>, route |-> <<>>, left |-> {},
            handler |-> "", logged |-> "", block |-> 0, code |-> 0, num |-> 0,
            rows |-> <<>>, table |-> <<>>, seen |-> 0]

(* What a look-up returns: a registered name, or one of its own.           *)
Handlers == Names \cup {"proxy", "default", ""}

ThreadStates ==
  [pc : PCs, uri : Seq(Chars), route : Seq(Chars), left : SUBSET Seq(Chars),
   handler : Handlers, logged : Handlers, block : Nat, code : Nat, num : Nat,
   rows : Seq(Seq(Chars) \X Nat), table : Seq(Seq(Chars) \X Names), seen : Nat]

Init ==
  /\ config \in Configs
  /\ phase = "setup"
  /\ nextLoc = 1
  /\ routeMap = << >>
  /\ prefixes = << >>
  /\ list = << >>
  /\ lock = [m \in Mutexes |-> Nobody]
  /\ th = [t \in Threads |-> Resting]
  /\ arrived = 0
  /\ answered = 0

-----------------------------------------------------------------------------
(* Registration, by main.                                                  *)

(* register_routes_from_config takes config_lock_ for the whole loop.      *)
BeginRegister ==
  /\ phase = "setup"
  /\ Free("config")
  /\ lock' = [lock EXCEPT !["config"] = Main]
  /\ phase' = "registering"
  /\ UNCHANGED <<config, nextLoc, routeMap, prefixes, list, th, arrived, answered>>

(* A mutant: the pair is recorded before the look-up, duplicates too.      *)
RegisterRouteTwice ==
  LET loc == config.locs[nextLoc]
      h   == config.blocks[loc.block]
  IN /\ phase = "registering"
     /\ nextLoc <= Len(config.locs)
     /\ Free("route_map")
     /\ prefixes' = Append(prefixes, <<loc.uri, h>>)
     /\ routeMap' = [u \in DOMAIN routeMap \cup {loc.uri} |->
                       IF u \in DOMAIN routeMap THEN routeMap[u] ELSE h]
     /\ nextLoc' = nextLoc + 1
     /\ UNCHANGED <<config, phase, list, lock, th, arrived, answered>>

(* register_route for the next location: under route_map_lock_, the first  *)
(* handler registered for a URI is recorded and inserted; others are not.  *)
RegisterRoute ==
  LET loc == config.locs[nextLoc]
      h   == config.blocks[loc.block]
  IN /\ phase = "registering"
     /\ nextLoc <= Len(config.locs)
     /\ Free("route_map")
     /\ IF loc.uri \in DOMAIN routeMap
        THEN UNCHANGED <<routeMap, prefixes>>
        ELSE /\ prefixes' = Append(prefixes, <<loc.uri, h>>)
             /\ routeMap' = [u \in DOMAIN routeMap \cup {loc.uri} |->
                               IF u = loc.uri THEN h ELSE routeMap[u]]
     /\ nextLoc' = nextLoc + 1
     /\ UNCHANGED <<config, phase, list, lock, th, arrived, answered>>

(* The loop ends and config_lock_ is released; create_router returns and   *)
(* main starts the pool.                                                   *)
EndRegister ==
  /\ phase = "registering"
  /\ nextLoc > Len(config.locs)
  /\ lock' = [lock EXCEPT !["config"] = Nobody]
  /\ phase' = "serving"
  /\ UNCHANGED <<config, nextLoc, routeMap, prefixes, list, th, arrived, answered>>

-----------------------------------------------------------------------------
(* route_request, by the pool threads.                                     *)

Set(t, r) == th' = [th EXCEPT ![t] = r]
Logging(t) == lock["log"] = t

(* A mutant: the pool is started before the routes are registered.         *)
ArriveEarly(t, uri) ==
  /\ th[t].pc = "idle"
  /\ arrived < MaxRequests
  /\ arrived' = arrived + 1
  /\ Set(t, [Resting EXCEPT !.pc = "match", !.uri = uri, !.seen = Len(list)])
  /\ UNCHANGED <<config, phase, nextLoc, routeMap, prefixes, list, lock, answered>>

(* A session calls route_request with a valid request.                     *)
Arrive(t, uri) ==
  /\ phase = "serving"
  /\ th[t].pc = "idle"
  /\ arrived < MaxRequests
  /\ arrived' = arrived + 1
  /\ Set(t, [Resting EXCEPT !.pc = "match", !.uri = uri, !.seen = Len(list)])
  /\ UNCHANGED <<config, phase, nextLoc, routeMap, prefixes, list, lock, answered>>

(* Mutants: any matching prefix replaces the one found so far; the URI is  *)
(* returned instead of its prefix.                                         *)
LongerAny(uri, longest, p) == IF IsPrefix(p, uri) THEN p ELSE longest
LongerUri(uri, longest, p) == IF IsPrefix(p, uri) THEN uri ELSE longest

(* One iteration of the loop in longest_prefix_match.                      *)
Longer(uri, longest, p) ==
  IF IsPrefix(p, uri) /\ Len(p) > Len(longest) THEN p ELSE longest

(* longest_prefix_match holds route_map_lock_ for the loop over the        *)
(* unordered_map, which returns when no prefix is left.                    *)
Scan(t, longest, left) ==
  /\ Set(t, [th[t] EXCEPT !.pc = IF left = {} THEN "lookup" ELSE "scan",
                          !.route = longest, !.left = left])
  /\ lock' = [lock EXCEPT !["route_map"] = IF left = {} THEN Nobody ELSE t]
  /\ UNCHANGED <<config, phase, nextLoc, routeMap, prefixes, list, arrived,
                 answered>>

LongestPrefixMatch(t) ==
  /\ th[t].pc = "match"
  /\ Free("route_map")
  /\ Scan(t, <<>>, DOMAIN routeMap)

(* The loop comes to the prefixes in any order.                            *)
ComparePrefix(t) ==
  /\ th[t].pc = "scan"
  /\ \E p \in th[t].left :
       Scan(t, Longer(th[t].uri, th[t].route, p), th[t].left \ {p})

(* get_handler_config: the last block of that name, 0 if there is none.    *)
HandlerConfig(name) ==
  LET own == {b \in DOMAIN config.blocks : config.blocks[b] = name}
  IN IF own = {} THEN 0 ELSE CHOOSE b \in own : \A c \in own : c <= b

ValidProxy(b, uri) ==
  \E i \in DOMAIN config.locs : /\ config.locs[i].block = b
                                /\ config.locs[i].uri = uri

(* What a look-up does with its result: select_handler goes on to fetch    *)
(* the configuration, the log statement writes it and unlocks log_lock_.   *)
Found(t, h) ==
  IF Logging(t)
  THEN [th[t] EXCEPT !.pc = "finish", !.logged = h]
  ELSE [th[t] EXCEPT !.pc = "config", !.handler = h]

(* get_route_handler: a route that is not in the map keeps route_map_lock_ *)
(* and asks for the proxy's configuration.                                 *)
GetRouteHandler(t) ==
  /\ th[t].pc = "lookup"
  /\ Free("route_map")
  /\ \/ /\ th[t].route \in DOMAIN routeMap
        /\ Set(t, Found(t, routeMap[th[t].route]))
        /\ lock' = [lock EXCEPT !["log"] = IF @ = t THEN Nobody ELSE @]
     \/ /\ th[t].route \notin DOMAIN routeMap
        /\ Set(t, [th[t] EXCEPT !.pc = "validProxy"])
        /\ lock' = [lock EXCEPT !["route_map"] = t]
  /\ UNCHANGED <<config, phase, nextLoc, routeMap, prefixes, list, arrived,
                 answered>>

(* get_handler_config("proxy") and validProxy, inside get_route_handler:   *)
(* config_lock_ is taken while route_map_lock_ is held.                    *)
CheckProxy(t) ==
  LET b == HandlerConfig("proxy")
      h == IF b # 0 /\ ValidProxy(b, th[t].route) THEN "proxy" ELSE "default"
  IN /\ th[t].pc = "validProxy"
     /\ Free("config")
     /\ Set(t, Found(t, h))
     /\ lock' = [lock EXCEPT !["route_map"] = Nobody,
                             !["log"] = IF @ = t THEN Nobody ELSE @]
     /\ UNCHANGED <<config, phase, nextLoc, routeMap, prefixes, list, arrived,
                    answered>>

(* A mutant: the configuration of the default handler for everyone.        *)
GetHandlerConfigDefault(t) ==
  /\ th[t].pc = "config"
  /\ Free("config")
  /\ Set(t, [th[t] EXCEPT !.pc = "handle", !.block = HandlerConfig("default"),
               !.handler = IF @ \in Known THEN @ ELSE "default"])
  /\ UNCHANGED <<config, phase, nextLoc, routeMap, prefixes, list, lock,
                 arrived, answered>>

(* The rest of select_handler: fetch the configuration of the handler, or  *)
(* the default handler's for a name that is not one of the known ones.     *)
GetHandlerConfig(t) ==
  LET h == IF th[t].handler \in Known THEN th[t].handler ELSE "default"
  IN /\ th[t].pc = "config"
     /\ Free("config")
     /\ Set(t, [th[t] EXCEPT !.pc = "handle", !.block = HandlerConfig(h)])
     /\ UNCHANGED <<config, phase, nextLoc, routeMap, prefixes, list, lock,
                    arrived, answered>>

Serving(t) == IF th[t].handler \in Known THEN th[t].handler ELSE "default"

(* handle_request: a code, or an exception that leaves route_request (the  *)
(* session answers 500).  The status handler first asks for the size.      *)
HandleRequest(t) ==
  /\ th[t].pc = "handle"
  /\ \/ /\ Serving(t) = "status"
        /\ Set(t, [th[t] EXCEPT !.pc = "list", !.num = Len(list)])
     \/ /\ Serving(t) # "status"
        /\ \E c \in Codes[Serving(t)] :
             Set(t, [th[t] EXCEPT !.pc = "record", !.code = c])
     \/ /\ Serving(t) \in Throwing
        /\ Set(t, Resting)
  /\ UNCHANGED <<config, phase, nextLoc, routeMap, prefixes, list, lock,
                 arrived, answered>>

(* A mutant: the copy is awaited until it has the size that was read.      *)
GetUrlResponseListInStep(t) ==
  /\ th[t].pc = "list"
  /\ th[t].num = Len(list)
  /\ Set(t, [th[t] EXCEPT !.pc = "prefixes", !.rows = list])
  /\ UNCHANGED <<config, phase, nextLoc, routeMap, prefixes, list, lock,
                 arrived, answered>>

(* The status handler copies the list in a second critical section; with   *)
(* a size of 0 the page says "No Request" whatever the copy holds.         *)
GetUrlResponseList(t) ==
  /\ th[t].pc = "list"
  /\ Set(t, [th[t] EXCEPT !.pc = "prefixes",
               !.rows = IF th[t].num = 0 THEN <<>> ELSE list])
  /\ UNCHANGED <<config, phase, nextLoc, routeMap, prefixes, list, lock,
                 arrived, answered>>

(* A mutant: the size is asked for last instead of first.                  *)
GetPrefixHandlerListCounts(t) ==
  /\ th[t].pc = "prefixes"
  /\ Set(t, [th[t] EXCEPT !.pc = "record", !.table = prefixes, !.code = 200,
               !.num = Len(list)])
  /\ UNCHANGED <<config, phase, nextLoc, routeMap, prefixes, list, lock,
                 arrived, answered>>

(* ... and the registered prefixes in a third.                             *)
GetPrefixHandlerList(t) ==
  /\ th[t].pc = "prefixes"
  /\ Set(t, [th[t] EXCEPT !.pc = "record", !.table = prefixes, !.code = 200])
  /\ UNCHANGED <<config, phase, nextLoc, routeMap, prefixes, list, lock,
                 arrived, answered>>

(* A mutant: only pages that were found are recorded.                      *)
RequestRecorderSuccess(t) ==
  /\ th[t].pc = "record"
  /\ list' = IF th[t].code = 404 THEN list ELSE Append(list, <<th[t].uri, th[t].code>>)
  /\ Set(t, [th[t] EXCEPT !.pc = "log"])
  /\ UNCHANGED <<config, phase, nextLoc, routeMap, prefixes, lock, arrived, answered>>

(* request_recorder appends under response_list_lock_.                     *)
RequestRecorder(t) ==
  /\ th[t].pc = "record"
  /\ list' = Append(list, <<th[t].uri, th[t].code>>)
  /\ Set(t, [th[t] EXCEPT !.pc = "log"])
  /\ UNCHANGED <<config, phase, nextLoc, routeMap, prefixes, lock, arrived, answered>>

(* log_lock_.lock(): the log statement matches and looks up once more.     *)
BeginLog(t) ==
  /\ th[t].pc = "log"
  /\ Free("log")
  /\ lock' = [lock EXCEPT !["log"] = t]
  /\ Set(t, [th[t] EXCEPT !.pc = "match"])
  /\ UNCHANGED <<config, phase, nextLoc, routeMap, prefixes, list, arrived, answered>>

(* apply_default_headers (headers_ is empty: nothing calls                 *)
(* register_default_header), and route_request returns the response.       *)
Finish(t) ==
  /\ th[t].pc = "finish"
  /\ answered' = answered + 1
  /\ Set(t, Resting)
  /\ UNCHANGED <<config, phase, nextLoc, routeMap, prefixes, list, lock, arrived>>

Register == BeginRegister \/ RegisterRoute \/ EndRegister

Step(t) ==
  \/ LongestPrefixMatch(t)
  \/ ComparePrefix(t)
  \/ GetRouteHandler(t)
  \/ CheckProxy(t)
  \/ GetHandlerConfig(t)
  \/ HandleRequest(t)
  \/ GetUrlResponseList(t)
  \/ GetPrefixHandlerList(t)
  \/ RequestRecorder(t)
  \/ BeginLog(t)
  \/ Finish(t)

Next ==
  \/ Register
  \/ \E t \in Threads : Step(t) \/ \E uri \in Uris : Arrive(t, uri)

Spec == Init /\ [][Next]_vars

(* main and the pool threads keep running.  Weak fairness is enough: with  *)
(* finitely many requests no thread is overtaken at a mutex for ever, and  *)
(* std::mutex promises nothing more.  The handlers are taken to return.    *)
FairSpec ==
  /\ Spec
  /\ WF_vars(Register)
  /\ \A t \in Threads : WF_vars(Step(t))

-----------------------------------------------------------------------------
(* Properties.                                                             *)

(* The type invariant.                                                     *)
TypeOK ==
  /\ config \in Configs
  /\ phase \in {"setup", "registering", "serving"}
  /\ nextLoc \in 1 .. Len(config.locs) + 1
  /\ DOMAIN routeMap \subseteq {config.locs[i].uri : i \in DOMAIN config.locs}
  /\ lock \in [Mutexes -> Actors \cup {Nobody}]
  /\ prefixes \in Seq(Seq(Chars) \X Names)
  /\ list \in Seq(Seq(Chars) \X Nat)
  /\ th \in [Threads -> ThreadStates]
  /\ \A t \in Threads : th[t].route \in DOMAIN routeMap \cup {<<>>}
  /\ arrived \in 0 .. MaxRequests /\ answered \in 0 .. arrived

(***************************************************************************)
(* The handler the configuration means for a URI, from the file itself:    *)
(* of the locations that are a prefix of it the longest, and of those with *)
(* the same URI the first; "default" if there is none.                     *)
(***************************************************************************)
Meant(uri) ==
  LET locs == config.locs
      hits == {i \in DOMAIN locs : IsPrefix(locs[i].uri, uri)}
      best == {i \in hits : \A j \in hits :
                 \/ Len(locs[i].uri) > Len(locs[j].uri)
                 \/ Len(locs[i].uri) = Len(locs[j].uri) /\ i <= j}
  IN IF hits = {} THEN 0 ELSE CHOOSE i \in best : TRUE

(* Whatever the order of the hash table, and whatever other threads do     *)
(* between the two look-ups of select_handler, a request is served by the  *)
(* handler registered first for its longest matching prefix, and the log   *)
(* line names it, though it is looked up again after the request.          *)
RightHandler ==
  \A t \in Threads :
    /\ th[t].pc \in PCs \ {"idle", "match", "scan", "lookup", "validProxy", "config"} =>
         LET i == Meant(th[t].uri)
         IN th[t].handler = IF i = 0 THEN "default"
                            ELSE config.blocks[config.locs[i].block]
    /\ th[t].pc = "finish" => th[t].logged = th[t].handler

(* The status page's prefix table and the route map never disagree: the    *)
(* recorder has each registered URI once, with the handler that serves it. *)
PrefixTableMirrorsRoutes ==
  /\ {prefixes[i] : i \in DOMAIN prefixes} =
       {<<u, routeMap[u]>> : u \in DOMAIN routeMap}
  /\ Len(prefixes) = Cardinality(DOMAIN routeMap)

(* A handler that dereferences its configuration is never given NULL.      *)
HandlerHasConfig ==
  \A t \in Threads :
    th[t].pc = "handle" /\ Serving(t) \in NeedsConfig => th[t].block # 0

(* Every response route_request returns has been recorded exactly once,    *)
(* and nothing that threw has been.                                        *)
RecordedOnce ==
  LET recorded == {t \in Threads : th[t].pc \in {"log", "finish"} \/ Logging(t)}
  IN /\ Len(list) = answered + Cardinality(recorded)
     /\ \A t \in recorded :
          \E i \in DOMAIN list : list[i] = <<th[t].uri, th[t].code>>

(* The status page is put together in three critical sections.  Still, the *)
(* number it shows is at most its number of rows, its rows are a prefix of *)
(* the recorded list, and, unless it says there were no requests, both     *)
(* count every request that was over when the page was asked for.          *)
StatusPageSound ==
  \A t \in Threads :
    th[t].pc = "record" /\ Serving(t) = "status" =>
      /\ th[t].seen <= th[t].num
      /\ th[t].num <= Len(th[t].rows)
      /\ IsPrefix(th[t].rows, list)
      /\ th[t].table = prefixes

(* The lock each actor is about to take, if any.                           *)
Needs(p) ==
  IF p = Main
  THEN IF phase = "setup" THEN {"config"}
       ELSE IF phase = "registering" /\ nextLoc <= Len(config.locs)
            THEN {"route_map"} ELSE {}
  ELSE CASE th[p].pc \in {"match", "lookup"} -> {"route_map"}
         [] th[p].pc \in {"validProxy", "config"} -> {"config"}
         [] th[p].pc = "log" -> {"log"}
         [] OTHER -> {}

(* Registration takes config_lock_ before route_map_lock_ and look-up the  *)
(* other way round.  Yet no two of main and the threads ever wait for each *)
(* other, and an actor never waits for a lock it holds itself.             *)
NoLockCycle ==
  \A p, q \in Actors :
    ~ /\ \E m \in Needs(p) : lock[m] = q
      /\ \E m \in Needs(q) : lock[m] = p

(* Every request that route_request is called for returns or throws.       *)
EveryRequestReturns == \A t \in Threads : th[t].pc # "idle" ~> th[t].pc = "idle"

(* What README.md says of a handler block: its items are the configuration *)
(* of the handler that its locations invoke.                               *)
OwnConfig ==
  \A t \in Threads :
    th[t].pc = "handle" /\ Serving(t) \in NeedsConfig =>
      th[t].block = config.locs[Meant(th[t].uri)].block

=============================================================================
