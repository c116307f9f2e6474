---------------------------- MODULE RouterProofs ----------------------------
(***************************************************************************)
(* Proofs about module Router, for every finite pool of threads, every     *)
(* set of configurations and URIs and any number of requests.              *)
(*                                                                         *)
(* A request is served while other threads look up, record and log, and    *)
(* what a thread has read stays right because of four facts that are       *)
(* inductive only together: the route map holds exactly the locations      *)
(* registered so far, each with its first handler (Table); main and the    *)
(* pool never run together, and who holds a mutex is known from where it   *)
(* stands (Order); what a thread has computed agrees with the              *)
(* configuration and with the lists (Sound); and the recorded list counts  *)
(* the threads that are past recording (Counts).                           *)
(***************************************************************************)
EXTENDS Router, IndexLemmas, FiniteSetTheorems, TLAPS

(* The handler block of the i-th location statement.                       *)
HandlerOf(i) == config.blocks[config.locs[i].block]

(* The handler that the configuration means for a URI.                     *)
MeantHandler(uri) == IF Meant(uri) = 0 THEN "default" ELSE HandlerOf(Meant(uri))

(* i is the first location statement with the URI u.                       *)
First(i, u) ==
  /\ i \in 1 .. nextLoc - 1
  /\ config.locs[i].uri = u
  /\ \A j \in 1 .. nextLoc - 1 : config.locs[j].uri = u => i <= j

(* Registration so far: the map, and the recorder's table of it.           *)
Table ==
  /\ DOMAIN routeMap = {config.locs[i].uri : i \in 1 .. nextLoc - 1}
  /\ \A u \in DOMAIN routeMap : \E i \in 1 .. nextLoc - 1 :
       First(i, u) /\ routeMap[u] = HandlerOf(i)
  /\ IsFiniteSet(DOMAIN routeMap)
  /\ PrefixTableMirrorsRoutes

(* main registers before the pool runs, and the holder of each mutex is at *)
(* a place where it may hold it.                                           *)
Order ==
  /\ phase = "setup" => nextLoc = 1
  /\ phase = "serving" => nextLoc = Len(config.locs) + 1
  /\ phase # "serving" => \A t \in Threads : th[t].pc = "idle"
  /\ lock["config"] = IF phase = "registering" THEN Main ELSE Nobody
  /\ lock["route_map"] \in Threads \cup {Nobody}
  /\ \A t \in Threads : lock["route_map"] = t <=> th[t].pc \in {"scan", "validProxy"}
  /\ lock["log"] \in Threads \cup {Nobody}
  /\ \A t \in Threads : Logging(t) => th[t].pc \in {"match", "scan", "lookup", "validProxy"}

(* r is the longest prefix of uri in D, or empty if there is none.         *)
Longest(uri, r, D) ==
  /\ r \in D \cup {<<>>}
  /\ r # <<>> => IsPrefix(r, uri)
  /\ \A p \in D : IsPrefix(p, uri) => Len(p) <= Len(r)

(* The loop of longest_prefix_match, and what get_route_handler is given.  *)
Matched(r) ==
  /\ r.left \subseteq DOMAIN routeMap
  /\ r.pc = "scan" <=> r.left # {}
  /\ r.pc \in {"scan", "lookup", "validProxy"} =>
       Longest(r.uri, r.route, DOMAIN routeMap \ r.left)
  /\ r.pc = "validProxy" => r.route \notin DOMAIN routeMap

ServingRec(r) == IF r.handler \in Known THEN r.handler ELSE "default"

(* The places after the look-up of select_handler; the log statement looks *)
(* up again and does not disturb its result.                               *)
Selected == {"config", "handle", "list", "prefixes", "record", "log", "finish"}

Chosen(r, logging) ==
  /\ r.pc \in Selected \/ logging => r.handler = MeantHandler(r.uri)
  /\ r.pc = "finish" => r.logged = r.handler
  /\ r.pc = "config" => \/ r.handler = "default"
                        \/ \E b \in DOMAIN config.blocks : config.blocks[b] = r.handler
  /\ r.pc = "handle" /\ ServingRec(r) \in NeedsConfig => r.block # 0

(* What the status page has read so far.                                   *)
PageSound(r) ==
  /\ r.pc # "idle" => r.seen <= Len(list)
  /\ r.pc = "list" => r.seen <= r.num /\ r.num <= Len(list)
  /\ r.pc = "prefixes" \/ (r.pc = "record" /\ ServingRec(r) = "status") =>
       /\ r.seen <= r.num
       /\ r.num <= Len(r.rows)
       /\ IsPrefix(r.rows, list)
  /\ r.pc = "record" /\ ServingRec(r) = "status" => r.table = prefixes

(* A request past recording is in the list.                                *)
Listed(r, logging) ==
  r.pc \in {"log", "finish"} \/ logging =>
    \E i \in DOMAIN list : list[i] = <<r.uri, r.code>>

Sound(r, logging) ==
  /\ Matched(r)
  /\ Chosen(r, logging)
  /\ PageSound(r)
  /\ Listed(r, logging)

Recorded == {t \in Threads : th[t].pc \in {"log", "finish"} \/ Logging(t)}
AtWork   == {t \in Threads : th[t].pc # "idle"}

Counts ==
  /\ Len(list) = answered + Cardinality(Recorded)
  /\ answered + Cardinality(AtWork) <= arrived

IInv ==
  /\ TypeOK
  /\ Table
  /\ Order
  /\ \A t \in Threads : Sound(th[t], Logging(t))
  /\ Counts

-----------------------------------------------------------------------------
(* What RouterAssumption says of the configuration in use.                 *)
LEMMA ConfigType ==
  ASSUME TypeOK
  PROVE  /\ config.blocks \in Seq(Names)
         /\ config.locs \in Seq([block : Nat, uri : Seq(Chars)])
         /\ Len(config.locs) \in Nat /\ Len(config.blocks) \in Nat
         /\ DOMAIN config.locs = 1 .. Len(config.locs)
         /\ DOMAIN config.blocks = 1 .. Len(config.blocks)
         /\ \A i \in 1 .. Len(config.locs) :
              /\ config.locs[i].block \in 1 .. Len(config.blocks)
              /\ config.locs[i].uri \in Seq(Chars) /\ config.locs[i].uri # <<>>
              /\ HandlerOf(i) \in Names
  <1>1. /\ config.blocks \in Seq(Names)
        /\ config.locs \in Seq([block : Nat, uri : Seq(Chars)])
        /\ \A i \in DOMAIN config.locs : /\ config.locs[i].block \in DOMAIN config.blocks
                                         /\ config.locs[i].uri # <<>>
    BY RouterAssumption DEF TypeOK
  <1>2. /\ Len(config.locs) \in Nat /\ Len(config.blocks) \in Nat
        /\ DOMAIN config.locs = 1 .. Len(config.locs)
        /\ DOMAIN config.blocks = 1 .. Len(config.blocks)
        /\ \A i \in 1 .. Len(config.locs) :
             config.locs[i] \in [block : Nat, uri : Seq(Chars)]
        /\ \A b \in 1 .. Len(config.blocks) : config.blocks[b] \in Names
    <2>1. PICK l \in Seq([block : Nat, uri : Seq(Chars)]) : l = config.locs
      BY <1>1
    <2>2. PICK b \in Seq(Names) : b = config.blocks
      BY <1>1
    <2>3. /\ Len(l) \in Nat /\ DOMAIN l = 1 .. Len(l)
          /\ \A i \in 1 .. Len(l) : l[i] \in [block : Nat, uri : Seq(Chars)]
      BY SeqElements, Zenon
    <2>4. /\ Len(b) \in Nat /\ DOMAIN b = 1 .. Len(b)
          /\ \A i \in 1 .. Len(b) : b[i] \in Names
      BY SeqElements, Zenon
    <2> QED BY <2>1, <2>2, <2>3, <2>4, Zenon
  <1> QED BY <1>1, <1>2 DEF HandlerOf

(* get_handler_config finds a block exactly when there is one.             *)
LEMMA ConfigFound ==
  ASSUME TypeOK, NEW name
  PROVE  /\ HandlerConfig(name) \in Nat
         /\ (\E b \in DOMAIN config.blocks : config.blocks[b] = name)
              => HandlerConfig(name) # 0
  <1> DEFINE own == {b \in DOMAIN config.blocks : config.blocks[b] = name}
  <1>1. own \subseteq 1 .. Len(config.blocks) /\ Len(config.blocks) \in Nat
    BY ConfigType
  <1>2. HandlerConfig(name) = IF own = {} THEN 0 ELSE CHOOSE b \in own : \A c \in own : c <= b
    BY DEF HandlerConfig
  <1>3. own # {} <=> \E b \in DOMAIN config.blocks : config.blocks[b] = name
    OBVIOUS
  <1> HIDE DEF own
  <1>4. own # {} => \E b \in own : \A c \in own : c <= b
    BY <1>1, LastIndex
  <1>5. own # {} => HandlerConfig(name) \in own
    BY <1>2, <1>4
  <1>6. own # {} => HandlerConfig(name) \in 1 .. Len(config.blocks)
    BY <1>1, <1>5
  <1>7. \A i \in 1 .. Len(config.blocks) : i \in Nat /\ i # 0
    BY <1>1
  <1>8. HandlerConfig(name) \in Nat /\ (own # {} => HandlerConfig(name) # 0)
    <2>1. CASE own = {}
      BY <1>2, <2>1
    <2>2. CASE own # {}
      BY <1>6, <1>7, <2>2, Zenon
    <2> QED BY <2>1, <2>2
  <1> QED BY <1>3, <1>8, Zenon

(* One iteration of the loop of longest_prefix_match.                      *)
LEMMA LongerStep ==
  ASSUME NEW uri \in Seq(Chars), NEW r \in Seq(Chars), NEW p \in Seq(Chars),
         NEW D \in SUBSET Seq(Chars), Longest(uri, r, D), p # <<>>
  PROVE  /\ Longest(uri, Longer(uri, r, p), D \cup {p})
         /\ Longer(uri, r, p) \in Seq(Chars)
  <1>1. Len(r) \in Nat /\ Len(p) \in Nat /\ \A q \in D : Len(q) \in Nat
    OBVIOUS
  <1>2. CASE IsPrefix(p, uri) /\ Len(p) > Len(r)
    <2>1. Longer(uri, r, p) = p
      BY <1>2 DEF Longer
    <2>2. \A q \in D \cup {p} : IsPrefix(q, uri) => Len(q) <= Len(p)
      BY <1>1, <1>2 DEF Longest
    <2> QED BY <1>2, <2>1, <2>2 DEF Longest
  <1>3. CASE ~(IsPrefix(p, uri) /\ Len(p) > Len(r))
    <2>1. Longer(uri, r, p) = r
      BY <1>3 DEF Longer
    <2>2. \A q \in D \cup {p} : IsPrefix(q, uri) => Len(q) <= Len(r)
      BY <1>1, <1>3 DEF Longest
    <2> QED BY <2>1, <2>2 DEF Longest
  <1> QED BY <1>2, <1>3

(* Once every route is registered, the longest prefix in the map leads to  *)
(* the handler the configuration means, and no prefix to the default one.  *)
LEMMA MeantByRoute ==
  ASSUME TypeOK, Table, nextLoc = Len(config.locs) + 1,
         NEW uri \in Seq(Chars), NEW r \in Seq(Chars), Longest(uri, r, DOMAIN routeMap)
  PROVE  IF r \in DOMAIN routeMap THEN MeantHandler(uri) = routeMap[r]
                                  ELSE MeantHandler(uri) = "default"
  <1> DEFINE locs == config.locs
             hits == {i \in DOMAIN locs : IsPrefix(locs[i].uri, uri)}
             best == {i \in hits : \A j \in hits :
                        \/ Len(locs[i].uri) > Len(locs[j].uri)
                        \/ Len(locs[i].uri) = Len(locs[j].uri) /\ i <= j}
  <1>1. /\ Len(locs) \in Nat /\ DOMAIN locs = 1 .. Len(locs)
        /\ \A i \in 1 .. Len(locs) : /\ locs[i].uri \in Seq(Chars) /\ locs[i].uri # <<>>
                                     /\ Len(locs[i].uri) \in Nat
    <2>1. \A u \in Seq(Chars) : Len(u) \in Nat
      OBVIOUS
    <2> QED BY <2>1, ConfigType, Zenon
  <1>2. nextLoc - 1 = Len(locs)
    BY <1>1
  <1>3. DOMAIN routeMap = {locs[i].uri : i \in 1 .. Len(locs)}
    BY <1>2 DEF Table
  <1>4. Meant(uri) = IF hits = {} THEN 0 ELSE CHOOSE i \in best : TRUE
    BY DEF Meant
  <1>5. CASE r \in DOMAIN routeMap
    <2>1. PICK i \in 1 .. Len(locs) : /\ locs[i].uri = r /\ routeMap[r] = HandlerOf(i)
                                      /\ \A j \in 1 .. Len(locs) : locs[j].uri = r => i <= j
      BY <1>2, <1>5 DEF Table, First
    <2>2. IsPrefix(r, uri) /\ r # <<>>
      BY <1>1, <2>1 DEF Longest
    <2>3. i \in hits
      BY <1>1, <2>1, <2>2
    <2>4. \A j \in hits : /\ Len(locs[j].uri) <= Len(r)
                          /\ Len(locs[j].uri) = Len(r) => locs[j].uri = r
      <3> TAKE j \in hits
      <3>1. locs[j].uri \in DOMAIN routeMap /\ IsPrefix(locs[j].uri, uri)
              /\ locs[j].uri \in Seq(Chars)
        BY <1>1, <1>3
      <3> QED BY <2>2, <3>1, PrefixUnique DEF Longest
    <2>5. i \in best
      <3> SUFFICES ASSUME NEW j \in hits
                   PROVE  \/ Len(locs[i].uri) > Len(locs[j].uri)
                          \/ Len(locs[i].uri) = Len(locs[j].uri) /\ i <= j
        BY <2>3
      <3>1. j \in 1 .. Len(locs) /\ Len(locs[j].uri) \in Nat /\ Len(r) \in Nat
        BY <1>1
      <3> QED BY <2>1, <2>4, <3>1
    <2>6. \A k \in best : k = i
      <3> TAKE k \in best
      <3>1. k \in hits /\ k \in 1 .. Len(locs)
        BY <1>1
      <3>2. \/ Len(locs[k].uri) > Len(locs[i].uri)
            \/ Len(locs[k].uri) = Len(locs[i].uri) /\ k <= i
        BY <2>3
      <3>3. Len(locs[k].uri) <= Len(locs[i].uri) /\ Len(locs[k].uri) \in Nat
              /\ Len(locs[i].uri) \in Nat
        BY <1>1, <2>1, <2>4, <3>1
      <3>4. k <= i /\ locs[k].uri = r
        BY <2>1, <2>4, <3>1, <3>2, <3>3
      <3> QED BY <2>1, <3>1, <3>4
    <2> HIDE DEF best, hits
    <2>7. (CHOOSE k \in best : TRUE) = i
      BY <2>5, <2>6
    <2>8. Meant(uri) = i /\ i # 0
      BY <1>4, <2>3, <2>7
    <2> QED BY <1>5, <2>1, <2>8 DEF MeantHandler
  <1>6. CASE r \notin DOMAIN routeMap
    <2>1. r = <<>>
      BY <1>6 DEF Longest
    <2>2. Len(r) = 0
      BY <2>1
    <2>3. hits = {}
      <3> SUFFICES ASSUME NEW j \in hits PROVE FALSE
        OBVIOUS
      <3>1. /\ locs[j].uri \in DOMAIN routeMap /\ IsPrefix(locs[j].uri, uri)
            /\ locs[j].uri \in Seq(Chars) /\ locs[j].uri # <<>>
        BY <1>1, <1>3
      <3>2. Len(locs[j].uri) <= 0
        BY <2>2, <3>1 DEF Longest
      <3>3. Len(locs[j].uri) = 0
        BY <3>1, <3>2
      <3> QED BY <3>1, <3>3
    <2> QED BY <1>4, <1>6, <2>3 DEF MeantHandler
  <1> QED BY <1>5, <1>6

-----------------------------------------------------------------------------
(* Initially nothing is registered and every thread rests.                 *)
LEMMA RestingType == Resting \in ThreadStates
  <1>1. /\ <<>> \in Seq(Chars) /\ <<>> \in Seq(Seq(Chars) \X Nat)
        /\ <<>> \in Seq(Seq(Chars) \X Names)
    OBVIOUS
  <1>2. {} \in SUBSET Seq(Chars) /\ 0 \in Nat /\ "idle" \in PCs
    BY DEF PCs
  <1>3. "" \in Handlers
    BY DEF Handlers
  <1> QED BY <1>1, <1>2, <1>3, Zenon DEF Resting, ThreadStates

(* A thread that rests agrees with everything.                             *)
LEMMA RestingSound == Sound(Resting, FALSE)
  BY DEF Sound, Matched, Chosen, PageSound, Listed, Resting, Selected

(* Before registration nothing is registered, held, recorded or at work.   *)
LEMMA InitIInv == Init => IInv
  <1> USE RouterAssumption
  <1> SUFFICES ASSUME Init PROVE IInv
    OBVIOUS
  <1>1. \A t \in Threads : th[t] = Resting
    BY DEF Init
  <1>2. Resting.pc = "idle" /\ Resting.route = <<>>
    BY DEF Resting
  <1>3. DOMAIN routeMap = {}
    BY DEF Init
  <1>4. TypeOK
    <2>1. config \in Configs /\ config.locs \in Seq([block : Nat, uri : Seq(Chars)])
      BY DEF Init
    <2>2. Len(config.locs) \in Nat
      BY <2>1
    <2>3. nextLoc \in 1 .. Len(config.locs) + 1
      BY <2>2 DEF Init
    <2>4. th \in [Threads -> ThreadStates]
      BY RestingType DEF Init
    <2>5. prefixes \in Seq(Seq(Chars) \X Names)
      BY DEF Init
    <2>6. list \in Seq(Seq(Chars) \X Nat)
      BY DEF Init
    <2>7. lock \in [Mutexes -> Actors \cup {Nobody}]
      BY DEF Init
    <2>8. arrived \in 0 .. MaxRequests /\ answered \in 0 .. arrived
      BY DEF Init
    <2>9. \A t \in Threads : th[t].route \in DOMAIN routeMap \cup {<<>>}
      BY <1>1, <1>2
    <2>10. phase \in {"setup", "registering", "serving"}
      BY DEF Init
    <2> QED BY <1>3, <2>1, <2>3, <2>4, <2>5, <2>6, <2>7, <2>8, <2>9, <2>10 DEF TypeOK
  <1>5. Table
    <2>1. nextLoc - 1 = 0
      BY DEF Init
    <2>2. {config.locs[i].uri : i \in 1 .. nextLoc - 1} = {}
      BY <2>1
    <2>3. PrefixTableMirrorsRoutes
      <3>1. DOMAIN prefixes = {} /\ Len(prefixes) = 0
        BY DEF Init
      <3> QED BY <1>3, <3>1, FS_EmptySet DEF PrefixTableMirrorsRoutes
    <2> QED BY <1>3, <2>2, <2>3, FS_EmptySet DEF Table
  <1>6. \A t \in Threads : ~Logging(t)
    BY DEF Init, Logging, Mutexes
  <1>7. Order
    BY <1>1, <1>2, <1>6 DEF Order, Init, Mutexes
  <1>8. \A t \in Threads : Sound(th[t], Logging(t))
    <2> TAKE t \in Threads
    <2>1. th[t] = Resting /\ Logging(t) = FALSE
      BY <1>1, <1>6
    <2> QED BY <2>1, RestingSound
  <1>9. Counts
    <2>1. Recorded = {} /\ AtWork = {}
      BY <1>1, <1>2, <1>6 DEF Recorded, AtWork
    <2>2. Len(list) = 0 /\ answered = 0 /\ arrived = 0
      BY DEF Init
    <2> QED BY <2>1, <2>2, FS_EmptySet DEF Counts
  <1> QED BY <1>4, <1>5, <1>7, <1>8, <1>9 DEF IInv

-----------------------------------------------------------------------------
(* The configuration does not change, and what it means does not either.   *)
LEMMA MeantKept ==
  ASSUME config' = config, NEW u
  PROVE  MeantHandler(u)' = MeantHandler(u)
  <1>1. Meant(u)' = Meant(u)
    BY DEF Meant
  <1> QED BY <1>1 DEF MeantHandler, HandlerOf

(* While the pool runs the tables do not change either.                    *)
LEMMA TableKept ==
  ASSUME Table, UNCHANGED <<config, nextLoc, routeMap, prefixes>>
  PROVE  Table'
  <1>1. PrefixTableMirrorsRoutes'
    BY DEF Table, PrefixTableMirrorsRoutes
  <1>2. \A i, u : First(i, u)' <=> First(i, u)
    BY DEF First
  <1>3. \A i : HandlerOf(i)' = HandlerOf(i)
    BY DEF HandlerOf
  <1> QED BY <1>1, <1>2, <1>3 DEF Table

(* The recorded list only grows.                                           *)
Grows == list' = list \/ \E e \in Seq(Chars) \X Nat : list' = Append(list, e)

(* So what agreed with the tables and the list still does.                 *)
LEMMA SoundKept ==
  ASSUME TypeOK, UNCHANGED <<config, routeMap, prefixes>>, Grows,
         NEW r \in ThreadStates, NEW l \in BOOLEAN, Sound(r, l)
  PROVE  Sound(r, l)'
  <1>1. Matched(r)'
    BY DEF Sound, Matched, Longest
  <1>2. Chosen(r, l)'
    <2>1. MeantHandler(r.uri)' = MeantHandler(r.uri)
      BY MeantKept
    <2> QED BY <2>1 DEF Sound, Chosen, ServingRec
  <1>3. /\ list \in Seq(Seq(Chars) \X Nat) /\ Len(list) \in Nat /\ Len(list') \in Nat
        /\ Len(list) <= Len(list')
        /\ \A i \in DOMAIN list : i \in DOMAIN list' /\ list'[i] = list[i]
        /\ \A q \in Seq(Seq(Chars) \X Nat) : IsPrefix(q, list) => IsPrefix(q, list')
    <2>1. list \in Seq(Seq(Chars) \X Nat)
      BY DEF TypeOK
    <2>2. CASE list' = list
      BY <2>1, <2>2, SeqElements
    <2>3. ASSUME NEW e \in Seq(Chars) \X Nat, list' = Append(list, e)
          PROVE  /\ Len(list) \in Nat /\ Len(list') \in Nat
                 /\ Len(list) <= Len(list')
                 /\ \A i \in DOMAIN list : i \in DOMAIN list' /\ list'[i] = list[i]
                 /\ \A q \in Seq(Seq(Chars) \X Nat) :
                      IsPrefix(q, list) => IsPrefix(q, list')
      <3>1. PICK S : S = Seq(Chars) \X Nat
        OBVIOUS
      <3>2. list \in Seq(S) /\ e \in S
        BY <2>1, <3>1, <2>3
      <3>3. /\ Len(list) \in Nat /\ Len(list') \in Nat
            /\ Len(list) <= Len(list')
            /\ \A i \in DOMAIN list : i \in DOMAIN list' /\ list'[i] = list[i]
        BY <2>3, <3>2
      <3>4. \A q \in Seq(S) : IsPrefix(q, list) => IsPrefix(q, Append(list, e))
        BY <3>2, PrefixGrows
      <3> QED BY <2>3, <3>1, <3>3, <3>4
    <2> QED BY <2>1, <2>2, <2>3 DEF Grows
  <1>4. PageSound(r)'
    <2>1. r.seen \in Nat /\ r.num \in Nat /\ r.rows \in Seq(Seq(Chars) \X Nat)
      BY Zenon DEF ThreadStates
    <2>2. PageSound(r)
      BY DEF Sound
    <2> QED BY <1>3, <2>1, <2>2 DEF PageSound, ServingRec
  <1>5. Listed(r, l)'
    BY <1>3 DEF Sound, Listed
  <1> QED BY <1>1, <1>2, <1>4, <1>5 DEF Sound

-----------------------------------------------------------------------------
(* The sets that are counted are finite.                                   *)
LEMMA CountedFinite ==
  /\ IsFiniteSet(Recorded) /\ Cardinality(Recorded) \in Nat
  /\ IsFiniteSet(Recorded') /\ Cardinality(Recorded') \in Nat
  /\ IsFiniteSet(AtWork) /\ Cardinality(AtWork) \in Nat
  /\ IsFiniteSet(AtWork') /\ Cardinality(AtWork') \in Nat
  <1>1. /\ Recorded \subseteq Threads /\ Recorded' \subseteq Threads
        /\ AtWork \subseteq Threads /\ AtWork' \subseteq Threads
    BY DEF Recorded, AtWork
  <1> QED BY <1>1, RouterAssumption, FS_Subset, FS_CardinalityType

(* Most steps neither record nor answer.                                   *)
LEMMA CountsKept ==
  ASSUME IInv, UNCHANGED <<list, answered, arrived>>,
         Recorded' = Recorded, AtWork' \subseteq AtWork
  PROVE  Counts'
  <1>1. Cardinality(AtWork') <= Cardinality(AtWork)
    BY CountedFinite, FS_Subset
  <1>2. arrived \in Nat /\ answered \in Nat
    BY RouterAssumption DEF IInv, TypeOK
  <1>3. Len(list') = answered' + Cardinality(Recorded')
    BY DEF IInv, Counts
  <1> QED BY <1>1, <1>2, <1>3, CountedFinite DEF IInv, Counts

(* A step of thread t, whose record becomes q: what is to be shown of it   *)
(* is that q agrees with the tables, that t holds the mutexes it should,   *)
(* and that the counts are right.                                          *)
LEMMA ThreadStep ==
  ASSUME IInv, NEW t \in Threads, NEW q \in ThreadStates, Set(t, q),
         phase = "serving", UNCHANGED <<config, phase, nextLoc, routeMap, prefixes>>,
         q.route \in DOMAIN routeMap \cup {<<>>}, Grows,
         lock' \in [Mutexes -> Actors \cup {Nobody}],
         lock'["config"] = lock["config"],
         lock'["route_map"] \in {t, Nobody} \/ lock'["route_map"] = lock["route_map"],
         lock'["log"] \in {t, Nobody} \/ lock'["log"] = lock["log"],
         \A u \in Threads \ {t} : /\ lock["route_map"] = u => lock'["route_map"] = u
                                  /\ lock["log"] = u => lock'["log"] = u,
         lock'["route_map"] = t <=> q.pc \in {"scan", "validProxy"},
         NEW l \in BOOLEAN, l <=> lock'["log"] = t,
         l => q.pc \in {"match", "scan", "lookup", "validProxy"},
         Sound(q, l), arrived' \in 0 .. MaxRequests, answered' \in 0 .. arrived',
         Counts'
  PROVE  IInv'
  <1> USE RouterAssumption
  <1>1. /\ th \in [Threads -> ThreadStates] /\ th' = [th EXCEPT ![t] = q]
        /\ th' \in [Threads -> ThreadStates]
        /\ th'[t] = q /\ \A u \in Threads \ {t} : th'[u] = th[u]
    BY DEF IInv, TypeOK, Set
  <1>2. TypeOK'
    <2>1. list' \in Seq(Seq(Chars) \X Nat)
      <3>1. PICK S : S = Seq(Chars) \X Nat
        OBVIOUS
      <3>2. list \in Seq(S) /\ (list' = list \/ \E e \in S : list' = Append(list, e))
        BY <3>1 DEF Grows, IInv, TypeOK
      <3>3. list' \in Seq(S)
        BY <3>2
      <3> QED BY <3>1, <3>3
    <2>2. \A u \in Threads : th'[u].route \in DOMAIN routeMap \cup {<<>>}
      BY <1>1 DEF IInv, TypeOK
    <2> QED BY <1>1, <2>1, <2>2 DEF IInv, TypeOK
  <1>3. Table'
    BY TableKept DEF IInv
  <1>4. \A u \in Threads \ {t} : /\ lock'["route_map"] = u <=> lock["route_map"] = u
                                 /\ lock'["log"] = u <=> lock["log"] = u
    OBVIOUS
  <1>5. Order'
    BY <1>1, <1>4 DEF IInv, Order, Logging
  <1>6. ASSUME NEW u \in Threads PROVE Sound(th[u], Logging(u))'
    <2>1. CASE u = t
      <3>1. Sound(q, l)'
        BY SoundKept DEF IInv
      <3>2. th'[u] = q /\ (Logging(u)' <=> l)
        BY <1>1, <2>1 DEF Logging
      <3> QED BY <3>1, <3>2 DEF Sound, Matched, Chosen, PageSound, Listed
    <2>2. CASE u # t
      <3>1. PICK r \in ThreadStates : r = th[u]
        BY <1>1
      <3>2. PICK b \in BOOLEAN : b = Logging(u)
        BY DEF Logging
      <3>3. Sound(r, b)
        BY <3>1, <3>2 DEF IInv
      <3>4. Sound(r, b)'
        BY <3>3, SoundKept DEF IInv
      <3>5. th'[u] = r /\ (Logging(u)' <=> b)
        BY <1>1, <1>4, <2>2, <3>1, <3>2 DEF Logging
      <3> QED BY <3>4, <3>5 DEF Sound, Matched, Chosen, PageSound, Listed
    <2> QED BY <2>1, <2>2
  <1> QED BY <1>2, <1>3, <1>5, <1>6 DEF IInv

(* Mutex m goes to x in a step of thread t: nothing happens to it, or t    *)
(* takes it, or t releases it.                                             *)
Moved(m, x, t) ==
  \/ x = lock[m]
  \/ x = t /\ lock[m] = Nobody
  \/ x = Nobody /\ lock[m] = t

(* A step of a thread inside route_request that touches no list.           *)
LEMMA QuietStep ==
  ASSUME IInv, NEW t \in Threads, NEW q \in ThreadStates, Set(t, q),
         th[t].pc # "idle",
         UNCHANGED <<config, phase, nextLoc, routeMap, prefixes, list, arrived, answered>>,
         q.route \in DOMAIN routeMap \cup {<<>>},
         NEW rm, NEW lg, lock' = [lock EXCEPT !["route_map"] = rm, !["log"] = lg],
         Moved("route_map", rm, t), Moved("log", lg, t),
         rm = t <=> q.pc \in {"scan", "validProxy"},
         lg = t => q.pc \in {"match", "scan", "lookup", "validProxy"},
         Sound(q, lg = t),
         q.pc \in {"log", "finish"} \/ lg = t
           <=> th[t].pc \in {"log", "finish"} \/ Logging(t)
  PROVE  IInv'
  <1>1. /\ lock \in [Mutexes -> Actors \cup {Nobody}] /\ th \in [Threads -> ThreadStates]
        /\ rm \in Actors \cup {Nobody} /\ lg \in Actors \cup {Nobody}
    BY DEF IInv, TypeOK, Moved, Mutexes, Actors
  <1>2. /\ lock' \in [Mutexes -> Actors \cup {Nobody}]
        /\ lock'["config"] = lock["config"] /\ lock'["route_map"] = rm /\ lock'["log"] = lg
    BY <1>1 DEF Mutexes
  <1>3. th'[t] = q /\ \A u \in Threads \ {t} : th'[u] = th[u]
    BY <1>1 DEF Set
  <1>4. \A u \in Threads \ {t} : /\ lock["route_map"] = u => lock'["route_map"] = u
                                 /\ lock["log"] = u <=> lock'["log"] = u
    BY <1>2, RouterAssumption DEF Moved
  <1>5. Recorded' = Recorded
    <2>1. \A u \in Threads : u \in Recorded' <=> u \in Recorded
      BY <1>2, <1>3, <1>4 DEF Recorded, Logging
    <2> QED BY <2>1 DEF Recorded
  <1>6. AtWork' \subseteq AtWork
    BY <1>3 DEF AtWork
  <1>7. Counts'
    BY <1>5, <1>6, CountsKept
  <1>8. PICK l \in BOOLEAN : l = (lg = t)
    OBVIOUS
  <1>9. phase = "serving" /\ Grows
    BY DEF IInv, Order, Grows
  <1>10. arrived' \in 0 .. MaxRequests /\ answered' \in 0 .. arrived'
    BY DEF IInv, TypeOK
  <1> QED BY <1>2, <1>4, <1>7, <1>8, <1>9, <1>10, ThreadStep DEF Moved

(* The mutexes of a step that does not touch them.                         *)
LEMMA LockKept ==
  ASSUME IInv, NEW t
  PROVE  /\ lock = [lock EXCEPT !["route_map"] = lock["route_map"], !["log"] = lock["log"]]
         /\ Moved("route_map", lock["route_map"], t) /\ Moved("log", lock["log"], t)
  BY DEF IInv, TypeOK, Moved

(* What is known of a thread inside route_request.                         *)
LEMMA InRequest ==
  ASSUME IInv, NEW t \in Threads, th[t].pc # "idle"
  PROVE  /\ th[t] \in ThreadStates /\ Sound(th[t], Logging(t))
         /\ phase = "serving" /\ nextLoc = Len(config.locs) + 1
         /\ th[t].route \in DOMAIN routeMap \cup {<<>>}
         /\ DOMAIN routeMap \subseteq Seq(Chars) /\ <<>> \notin DOMAIN routeMap
         /\ \A u \in DOMAIN routeMap :
              /\ routeMap[u] \in Names
              /\ \E b \in DOMAIN config.blocks : config.blocks[b] = routeMap[u]
  <1>1. /\ th[t] \in ThreadStates /\ Sound(th[t], Logging(t))
        /\ phase = "serving" /\ nextLoc = Len(config.locs) + 1
        /\ th[t].route \in DOMAIN routeMap \cup {<<>>}
    BY DEF IInv, TypeOK, Order
  <1>2. nextLoc - 1 = Len(config.locs)
    BY <1>1, ConfigType DEF IInv
  <1>3. /\ DOMAIN routeMap = {config.locs[i].uri : i \in 1 .. Len(config.locs)}
        /\ \A u \in DOMAIN routeMap : \E i \in 1 .. Len(config.locs) :
             routeMap[u] = HandlerOf(i)
    BY <1>2 DEF IInv, Table
  <1>4. /\ \A i \in 1 .. Len(config.locs) :
             /\ config.locs[i].uri \in Seq(Chars) /\ config.locs[i].uri # <<>>
             /\ HandlerOf(i) \in Names
             /\ \E b \in DOMAIN config.blocks : config.blocks[b] = HandlerOf(i)
    BY ConfigType, Zenon DEF IInv, HandlerOf
  <1> QED BY <1>1, <1>3, <1>4, Zenon

-----------------------------------------------------------------------------
(* longest_prefix_match takes route_map_lock_ and has seen no prefix yet.  *)
LEMMA MatchStep ==
  ASSUME IInv, NEW t \in Threads, LongestPrefixMatch(t) PROVE IInv'
  <1> DEFINE r == th[t]
             pc == IF DOMAIN routeMap = {} THEN "lookup" ELSE "scan"
  <1>1. r.pc = "match" /\ lock["route_map"] = Nobody
    BY DEF LongestPrefixMatch, Free
  <1>2. /\ r \in ThreadStates /\ Sound(r, Logging(t)) /\ DOMAIN routeMap \subseteq Seq(Chars)
    BY <1>1, InRequest
  <1>3. PICK q \in ThreadStates :
          /\ Set(t, q)
          /\ q.pc = pc /\ q.route = <<>> /\ q.left = DOMAIN routeMap
          /\ q.uri = r.uri /\ q.handler = r.handler /\ q.seen = r.seen /\ q.code = r.code
    <2> DEFINE q == [r EXCEPT !.pc = pc, !.route = <<>>, !.left = DOMAIN routeMap]
    <2>1. pc \in PCs /\ <<>> \in Seq(Chars) /\ DOMAIN routeMap \in SUBSET Seq(Chars)
      BY <1>2 DEF PCs
    <2> HIDE DEF pc
    <2>2. /\ q \in ThreadStates
          /\ q.pc = pc /\ q.route = <<>> /\ q.left = DOMAIN routeMap
          /\ q.uri = r.uri /\ q.handler = r.handler /\ q.seen = r.seen /\ q.code = r.code
      BY <1>2, <2>1, Zenon DEF ThreadStates
    <2>3. Set(t, q)
      BY DEF LongestPrefixMatch, Scan, pc
    <2> QED BY <2>2, <2>3, Zenon
  <1>4. PICK rm : rm = IF DOMAIN routeMap = {} THEN Nobody ELSE t
    OBVIOUS
  <1>5. /\ lock' = [lock EXCEPT !["route_map"] = rm, !["log"] = lock["log"]]
        /\ Moved("route_map", rm, t) /\ Moved("log", lock["log"], t)
    BY <1>1, <1>4, LockKept DEF LongestPrefixMatch, Scan, Moved, IInv, TypeOK
  <1>6. Sound(q, Logging(t))
    BY <1>1, <1>2, <1>3 DEF Sound, Matched, Longest, Chosen, PageSound, Listed, Selected
  <1>7. Sound(q, lock["log"] = t)
    BY <1>6 DEF Logging
  <1>8. rm = t <=> q.pc \in {"scan", "validProxy"}
    BY <1>3, <1>4, RouterAssumption
  <1> QED BY <1>1, <1>3, <1>5, <1>7, <1>8, QuietStep
           DEF LongestPrefixMatch, Scan, Logging

(* One round of its loop.                                                  *)
LEMMA CompareStep ==
  ASSUME IInv, NEW t \in Threads, ComparePrefix(t) PROVE IInv'
  <1> DEFINE r == th[t]
  <1>1. r.pc = "scan" /\ lock["route_map"] = t
    BY DEF ComparePrefix, IInv, Order
  <1>2. /\ r \in ThreadStates /\ Sound(r, Logging(t)) /\ DOMAIN routeMap \subseteq Seq(Chars)
        /\ <<>> \notin DOMAIN routeMap
    BY <1>1, InRequest
  <1>3. PICK p \in r.left : Scan(t, Longer(r.uri, r.route, p), r.left \ {p})
    BY DEF ComparePrefix
  <1>4. PICK left : left = r.left \ {p}
    OBVIOUS
  <1>5. /\ Longest(r.uri, r.route, DOMAIN routeMap \ r.left)
        /\ r.left \subseteq DOMAIN routeMap
    BY <1>1, <1>2 DEF Sound, Matched
  <1>6. r.uri \in Seq(Chars) /\ r.route \in Seq(Chars)
    BY <1>2, Zenon DEF ThreadStates
  <1>7. PICK best \in Seq(Chars) : /\ best = Longer(r.uri, r.route, p)
                                   /\ Longest(r.uri, best, DOMAIN routeMap \ left)
    <2>1. /\ Longest(r.uri, Longer(r.uri, r.route, p), (DOMAIN routeMap \ r.left) \cup {p})
          /\ Longer(r.uri, r.route, p) \in Seq(Chars)
      <3>1. p \in Seq(Chars) /\ p # <<>>
              /\ DOMAIN routeMap \ r.left \in SUBSET Seq(Chars)
        BY <1>2, <1>5
      <3> QED BY <1>5, <1>6, <3>1, LongerStep
    <2>2. DOMAIN routeMap \ left = (DOMAIN routeMap \ r.left) \cup {p}
      BY <1>4, <1>5
    <2> QED BY <2>1, <2>2
  <1>8. PICK pc \in PCs : pc = IF left = {} THEN "lookup" ELSE "scan"
    BY DEF PCs
  <1>9. PICK q \in ThreadStates :
          /\ Set(t, q)
          /\ q.pc = pc /\ q.route = best /\ q.left = left
          /\ q.uri = r.uri /\ q.handler = r.handler /\ q.seen = r.seen /\ q.code = r.code
    <2> DEFINE q == [r EXCEPT !.pc = pc, !.route = best, !.left = left]
    <2>1. left \in SUBSET Seq(Chars)
      BY <1>2, <1>4, <1>5
    <2>2. /\ q \in ThreadStates
          /\ q.pc = pc /\ q.route = best /\ q.left = left
          /\ q.uri = r.uri /\ q.handler = r.handler /\ q.seen = r.seen /\ q.code = r.code
      BY <1>2, <2>1, Zenon DEF ThreadStates
    <2>3. Set(t, q)
      BY <1>3, <1>4, <1>7, <1>8 DEF Scan
    <2> QED BY <2>2, <2>3, Zenon
  <1>10. PICK rm : rm = IF left = {} THEN Nobody ELSE t
    OBVIOUS
  <1>11. /\ lock' = [lock EXCEPT !["route_map"] = rm, !["log"] = lock["log"]]
         /\ Moved("route_map", rm, t) /\ Moved("log", lock["log"], t)
    BY <1>1, <1>3, <1>4, <1>10, LockKept DEF Scan, Moved, IInv, TypeOK
  <1>12. Sound(q, Logging(t))
    <2>1. Matched(q)
      BY <1>4, <1>5, <1>7, <1>8, <1>9 DEF Matched
    <2> QED BY <1>1, <1>2, <1>8, <1>9, <2>1 DEF Sound, Chosen, PageSound, Listed, Selected
  <1>13. Sound(q, lock["log"] = t)
    BY <1>12 DEF Logging
  <1>14. rm = t <=> q.pc \in {"scan", "validProxy"}
    BY <1>8, <1>9, <1>10, RouterAssumption
  <1>15. q.route \in DOMAIN routeMap \cup {<<>>}
    BY <1>7, <1>9 DEF Longest
  <1> QED BY <1>1, <1>3, <1>8, <1>9, <1>11, <1>13, <1>14, <1>15, QuietStep
           DEF Scan, Logging

-----------------------------------------------------------------------------
(* A look-up that found handler h: the first one chooses the handler, the  *)
(* second, by the log statement, finds the one that was chosen.            *)
LEMMA FoundStep ==
  ASSUME IInv, NEW t \in Threads, th[t].pc \in {"lookup", "validProxy"},
         NEW h \in Handlers, h = MeantHandler(th[t].uri),
         h = "default" \/ \E b \in DOMAIN config.blocks : config.blocks[b] = h,
         Set(t, Found(t, h)),
         NEW rm, rm # t, Moved("route_map", rm, t),
         lock' = [lock EXCEPT !["route_map"] = rm,
                              !["log"] = IF @ = t THEN Nobody ELSE @],
         UNCHANGED <<config, phase, nextLoc, routeMap, prefixes, list, arrived, answered>>
  PROVE  IInv'
  <1> USE RouterAssumption
  <1> DEFINE r == th[t]
  <1>1. /\ r \in ThreadStates /\ Sound(r, Logging(t))
        /\ r.route \in DOMAIN routeMap \cup {<<>>}
    BY InRequest
  <1>2. PICK lg : /\ lg = IF lock["log"] = t THEN Nobody ELSE lock["log"]
                  /\ lg # t /\ Moved("log", lg, t)
    BY DEF Moved
  <1>3. lock' = [lock EXCEPT !["route_map"] = rm, !["log"] = lg]
    BY <1>2 DEF IInv, TypeOK, Mutexes
  <1>4. CASE Logging(t)
    <2>1. PICK q \in ThreadStates :
            /\ Set(t, q)
            /\ q.pc = "finish" /\ q.logged = h /\ q.route = r.route /\ q.left = r.left
            /\ q.uri = r.uri /\ q.handler = r.handler /\ q.seen = r.seen /\ q.code = r.code
      <3> DEFINE q == [r EXCEPT !.pc = "finish", !.logged = h]
      <3>1. "finish" \in PCs
        BY DEF PCs
      <3>2. /\ q \in ThreadStates
            /\ q.pc = "finish" /\ q.logged = h /\ q.route = r.route /\ q.left = r.left
            /\ q.uri = r.uri /\ q.handler = r.handler /\ q.seen = r.seen /\ q.code = r.code
        BY <1>1, <3>1, Zenon DEF ThreadStates
      <3>3. Set(t, q)
        BY <1>4 DEF Found
      <3> QED BY <3>2, <3>3, Zenon
    <2>2. Sound(q, FALSE)
      <3>1. Matched(q)
        BY <1>1, <2>1 DEF Sound, Matched
      <3>2. Chosen(q, FALSE)
        BY <1>1, <1>4, <2>1 DEF Sound, Chosen, Selected
      <3>3. PageSound(q) /\ Listed(q, FALSE)
        BY <1>1, <1>4, <2>1 DEF Sound, PageSound, Listed
      <3> QED BY <3>1, <3>2, <3>3 DEF Sound
    <2>3. Sound(q, lg = t)
      BY <1>2, <2>2
    <2> QED BY <1>1, <1>2, <1>3, <1>4, <2>1, <2>3, QuietStep
  <1>5. CASE ~Logging(t)
    <2>1. PICK q \in ThreadStates :
            /\ Set(t, q)
            /\ q.pc = "config" /\ q.handler = h /\ q.route = r.route /\ q.left = r.left
            /\ q.uri = r.uri /\ q.seen = r.seen
      <3> DEFINE q == [r EXCEPT !.pc = "config", !.handler = h]
      <3>1. "config" \in PCs
        BY DEF PCs
      <3>2. /\ q \in ThreadStates
            /\ q.pc = "config" /\ q.handler = h /\ q.route = r.route /\ q.left = r.left
            /\ q.uri = r.uri /\ q.seen = r.seen
        BY <1>1, <3>1, Zenon DEF ThreadStates
      <3>3. Set(t, q)
        BY <1>5 DEF Found
      <3> QED BY <3>2, <3>3, Zenon
    <2>2. Sound(q, FALSE)
      <3>1. Matched(q)
        BY <1>1, <2>1 DEF Sound, Matched
      <3>2. Chosen(q, FALSE)
        BY <2>1 DEF Chosen
      <3>3. PageSound(q) /\ Listed(q, FALSE)
        BY <1>1, <2>1 DEF Sound, PageSound, Listed
      <3> QED BY <3>1, <3>2, <3>3 DEF Sound
    <2>3. Sound(q, lg = t)
      BY <1>2, <2>2
    <2> QED BY <1>1, <1>2, <1>3, <1>5, <2>1, <2>3, QuietStep
  <1> QED BY <1>4, <1>5

(* get_route_handler finds the route in the map, or takes the lock and     *)
(* goes on to the proxies.                                                 *)
LEMMA LookupStep ==
  ASSUME IInv, NEW t \in Threads, GetRouteHandler(t) PROVE IInv'
  <1> USE RouterAssumption
  <1> DEFINE r == th[t]
  <1>1. r.pc = "lookup" /\ lock["route_map"] = Nobody
    BY DEF GetRouteHandler, Free
  <1>2. /\ r \in ThreadStates /\ Sound(r, Logging(t)) /\ nextLoc = Len(config.locs) + 1
        /\ r.route \in DOMAIN routeMap \cup {<<>>}
        /\ \A u \in DOMAIN routeMap :
             /\ routeMap[u] \in Names
             /\ \E b \in DOMAIN config.blocks : config.blocks[b] = routeMap[u]
    BY <1>1, InRequest
  <1>3. r.uri \in Seq(Chars) /\ r.route \in Seq(Chars)
    BY <1>2, Zenon DEF ThreadStates
  <1>4. r.left = {} /\ Longest(r.uri, r.route, DOMAIN routeMap)
    <2>1. r.left = {} /\ Longest(r.uri, r.route, DOMAIN routeMap \ r.left)
      BY <1>1, <1>2 DEF Sound, Matched
    <2>2. DOMAIN routeMap \ r.left = DOMAIN routeMap
      BY <2>1
    <2> QED BY <2>1, <2>2
  <1>5. CASE /\ r.route \in DOMAIN routeMap
             /\ Set(t, Found(t, routeMap[r.route]))
             /\ lock' = [lock EXCEPT !["log"] = IF @ = t THEN Nobody ELSE @]
    <2>1. PICK h : h = routeMap[r.route]
      OBVIOUS
    <2>2. h = MeantHandler(r.uri)
      BY <1>2, <1>3, <1>4, <1>5, <2>1, MeantByRoute DEF IInv
    <2>3. h \in Handlers /\ \E b \in DOMAIN config.blocks : config.blocks[b] = h
      BY <1>2, <1>5, <2>1 DEF Handlers
    <2>4. PICK rm : rm = Nobody /\ rm # t /\ Moved("route_map", rm, t)
      BY <1>1 DEF Moved
    <2>5. lock' = [lock EXCEPT !["route_map"] = rm,
                               !["log"] = IF @ = t THEN Nobody ELSE @]
      BY <1>1, <1>5, <2>4 DEF IInv, TypeOK, Mutexes
    <2> QED BY <1>1, <1>5, <2>1, <2>2, <2>3, <2>4, <2>5, FoundStep DEF GetRouteHandler
  <1>6. CASE /\ r.route \notin DOMAIN routeMap
             /\ Set(t, [r EXCEPT !.pc = "validProxy"])
             /\ lock' = [lock EXCEPT !["route_map"] = t]
    <2>1. PICK q \in ThreadStates :
            /\ Set(t, q)
            /\ q.pc = "validProxy" /\ q.route = r.route /\ q.left = r.left
            /\ q.uri = r.uri /\ q.handler = r.handler /\ q.seen = r.seen /\ q.code = r.code
      <3> DEFINE q == [r EXCEPT !.pc = "validProxy"]
      <3>1. "validProxy" \in PCs
        BY DEF PCs
      <3>2. /\ q \in ThreadStates
            /\ q.pc = "validProxy" /\ q.route = r.route /\ q.left = r.left
            /\ q.uri = r.uri /\ q.handler = r.handler /\ q.seen = r.seen /\ q.code = r.code
        BY <1>2, <3>1, Zenon DEF ThreadStates
      <3> QED BY <1>6, <3>2, Zenon
    <2>2. Sound(q, Logging(t))
      BY <1>1, <1>2, <1>6, <2>1
         DEF Sound, Matched, Chosen, PageSound, Listed, Selected
    <2>3. Sound(q, lock["log"] = t)
      BY <2>2 DEF Logging
    <2>4. /\ lock' = [lock EXCEPT !["route_map"] = t, !["log"] = lock["log"]]
          /\ Moved("route_map", t, t) /\ Moved("log", lock["log"], t)
      BY <1>1, <1>6 DEF Moved, IInv, TypeOK
    <2>5. lock["log"] = t => q.pc \in {"match", "scan", "lookup", "validProxy"}
      BY <2>1
    <2>6. q.pc \in {"log", "finish"} \/ lock["log"] = t
            <=> r.pc \in {"log", "finish"} \/ Logging(t)
      BY <1>1, <2>1 DEF Logging
    <2> QED BY <1>1, <1>2, <2>1, <2>3, <2>4, <2>5, <2>6, QuietStep DEF GetRouteHandler
  <1> QED BY <1>5, <1>6 DEF GetRouteHandler

(* No location is empty, so a URI that no location is a prefix of gets the *)
(* default handler even when there is a proxy.                             *)
LEMMA CheckProxyStep ==
  ASSUME IInv, NEW t \in Threads, CheckProxy(t) PROVE IInv'
  <1> USE RouterAssumption
  <1> DEFINE r == th[t]
  <1>1. r.pc = "validProxy" /\ lock["route_map"] = t
    BY DEF CheckProxy, IInv, Order
  <1>2. /\ r \in ThreadStates /\ Sound(r, Logging(t)) /\ nextLoc = Len(config.locs) + 1
        /\ r.route \in DOMAIN routeMap \cup {<<>>}
    BY <1>1, InRequest
  <1>3. r.uri \in Seq(Chars) /\ r.route \in Seq(Chars)
    BY <1>2, Zenon DEF ThreadStates
  <1>4. /\ Longest(r.uri, r.route, DOMAIN routeMap) /\ r.route \notin DOMAIN routeMap
    <2>1. r.left = {} /\ Longest(r.uri, r.route, DOMAIN routeMap \ r.left)
            /\ r.route \notin DOMAIN routeMap
      BY <1>1, <1>2 DEF Sound, Matched
    <2>2. DOMAIN routeMap \ r.left = DOMAIN routeMap
      BY <2>1
    <2> QED BY <2>1, <2>2
  <1>5. PICK h : h = "default"
    OBVIOUS
  <1>6. h = MeantHandler(r.uri)
    BY <1>2, <1>3, <1>4, <1>5, MeantByRoute DEF IInv
  <1>7. \A b : ~ValidProxy(b, r.route)
    <2>1. r.route = <<>>
      BY <1>2, <1>4
    <2>2. \A i \in DOMAIN config.locs : config.locs[i].uri # <<>>
      BY ConfigType DEF IInv
    <2> QED BY <2>1, <2>2 DEF ValidProxy
  <1>8. Set(t, Found(t, h))
    <2>1. Set(t, Found(t, IF HandlerConfig("proxy") # 0
                             /\ ValidProxy(HandlerConfig("proxy"), r.route)
                          THEN "proxy" ELSE "default"))
      BY DEF CheckProxy
    <2> QED BY <1>5, <1>7, <2>1
  <1>9. PICK rm : rm = Nobody /\ rm # t /\ Moved("route_map", rm, t)
    BY <1>1 DEF Moved
  <1>10. lock' = [lock EXCEPT !["route_map"] = rm,
                              !["log"] = IF @ = t THEN Nobody ELSE @]
    BY <1>9 DEF CheckProxy
  <1>11. h \in Handlers
    BY <1>5 DEF Handlers
  <1> QED BY <1>1, <1>5, <1>6, <1>8, <1>9, <1>10, <1>11, FoundStep DEF CheckProxy

-----------------------------------------------------------------------------
(* Between the look-up and the recording a thread holds no mutex.          *)
Unlocked == {"config", "handle", "list", "prefixes", "record"}

(* A thread that is at no place of a look-up holds no mutex.               *)
LEMMA NotLogging ==
  ASSUME IInv, NEW t \in Threads,
         th[t].pc \notin {"match", "scan", "lookup", "validProxy"}
  PROVE  ~Logging(t) /\ lock["log"] # t /\ lock["route_map"] # t
  BY DEF IInv, Order, Logging

(* A step of a thread between look-up and recording takes no mutex and     *)
(* appends nothing, so only the thread's own state has to be sound.        *)
LEMMA UnlockedStep ==
  ASSUME IInv, NEW t \in Threads, NEW q \in ThreadStates, Set(t, q),
         th[t].pc \in Unlocked, q.pc \in Unlocked \cup {"idle"},
         UNCHANGED <<config, phase, nextLoc, routeMap, prefixes, list, lock,
                     arrived, answered>>,
         q.route \in DOMAIN routeMap \cup {<<>>}, Sound(q, FALSE)
  PROVE  IInv'
  <1>1. ~Logging(t) /\ lock["log"] # t /\ lock["route_map"] # t
    BY NotLogging DEF Unlocked
  <1>2. /\ lock' = [lock EXCEPT !["route_map"] = lock["route_map"], !["log"] = lock["log"]]
        /\ Moved("route_map", lock["route_map"], t) /\ Moved("log", lock["log"], t)
    BY LockKept
  <1>3. Sound(q, lock["log"] = t)
    BY <1>1
  <1>4. /\ th[t].pc # "idle"
        /\ q.pc \notin {"scan", "validProxy", "log", "finish"}
        /\ th[t].pc \notin {"log", "finish"}
    BY DEF Unlocked
  <1> QED BY <1>1, <1>2, <1>3, <1>4, QuietStep

(* The rest of select_handler: a handler that is not the default one was   *)
(* named by a block, so there is a block to hand to it.                    *)
LEMMA ConfigStep ==
  ASSUME IInv, NEW t \in Threads, GetHandlerConfig(t) PROVE IInv'
  <1> DEFINE r == th[t]
             h == IF r.handler \in Known THEN r.handler ELSE "default"
  <1>1. r.pc = "config"
    BY DEF GetHandlerConfig
  <1>2. /\ r \in ThreadStates /\ Sound(r, Logging(t))
        /\ r.route \in DOMAIN routeMap \cup {<<>>}
    BY <1>1, InRequest
  <1>3. PICK b \in Nat : b = HandlerConfig(h)
    BY ConfigFound DEF IInv
  <1>4. PICK q \in ThreadStates :
          /\ Set(t, q)
          /\ q.pc = "handle" /\ q.block = b /\ q.route = r.route /\ q.left = r.left
          /\ q.uri = r.uri /\ q.handler = r.handler /\ q.seen = r.seen
    <2> DEFINE q == [r EXCEPT !.pc = "handle", !.block = b]
    <2>1. "handle" \in PCs
      BY DEF PCs
    <2>2. /\ q \in ThreadStates
          /\ q.pc = "handle" /\ q.block = b /\ q.route = r.route /\ q.left = r.left
          /\ q.uri = r.uri /\ q.handler = r.handler /\ q.seen = r.seen
      BY <1>2, <2>1, Zenon DEF ThreadStates
    <2>3. Set(t, q)
      BY <1>3 DEF GetHandlerConfig
    <2> QED BY <2>2, <2>3, Zenon
  <1>5. ServingRec(q) \in NeedsConfig => q.block # 0
    <2> SUFFICES ASSUME ServingRec(q) \in NeedsConfig PROVE b # 0
      BY <1>4
    <2>1. h = r.handler /\ r.handler # "default"
      BY <1>4 DEF ServingRec, NeedsConfig
    <2>2. \E c \in DOMAIN config.blocks : config.blocks[c] = r.handler
      BY <1>1, <1>2, <2>1 DEF Sound, Chosen
    <2>3. HandlerConfig(r.handler) # 0
      BY <2>2, ConfigFound DEF IInv
    <2> QED BY <1>3, <2>1, <2>3
  <1>6. Sound(q, FALSE)
    <2>1. Matched(q)
      BY <1>1, <1>2, <1>4 DEF Sound, Matched
    <2>2. Chosen(q, FALSE)
      BY <1>1, <1>2, <1>4, <1>5 DEF Sound, Chosen, Selected
    <2>3. PageSound(q) /\ Listed(q, FALSE)
      BY <1>1, <1>2, <1>4 DEF Sound, PageSound, Listed
    <2> QED BY <2>1, <2>2, <2>3 DEF Sound
  <1> QED BY <1>1, <1>2, <1>4, <1>6, UnlockedStep DEF GetHandlerConfig, Unlocked

(* handle_request of any handler.                                          *)
LEMMA HandleStep ==
  ASSUME IInv, NEW t \in Threads, HandleRequest(t) PROVE IInv'
  <1> DEFINE r == th[t]
  <1>1. /\ r.pc = "handle"
        /\ UNCHANGED <<config, phase, nextLoc, routeMap, prefixes, list, lock,
                       arrived, answered>>
    BY DEF HandleRequest
  <1>2. /\ r \in ThreadStates /\ Sound(r, Logging(t))
        /\ r.route \in DOMAIN routeMap \cup {<<>>}
    BY <1>1, InRequest
  <1>3. Serving(t) = ServingRec(r)
    BY DEF Serving, ServingRec
  <1>4. CASE Serving(t) = "status" /\ Set(t, [r EXCEPT !.pc = "list", !.num = Len(list)])
    <2>1. PICK n \in Nat : n = Len(list)
      BY SeqElements DEF IInv, TypeOK
    <2>2. PICK q \in ThreadStates :
            /\ Set(t, q)
            /\ q.pc = "list" /\ q.num = n /\ q.route = r.route /\ q.left = r.left
            /\ q.uri = r.uri /\ q.handler = r.handler /\ q.seen = r.seen
      <3> DEFINE q == [r EXCEPT !.pc = "list", !.num = n]
      <3>1. "list" \in PCs
        BY DEF PCs
      <3>2. /\ q \in ThreadStates
            /\ q.pc = "list" /\ q.num = n /\ q.route = r.route /\ q.left = r.left
            /\ q.uri = r.uri /\ q.handler = r.handler /\ q.seen = r.seen
        BY <1>2, <3>1, Zenon DEF ThreadStates
      <3> QED BY <1>4, <2>1, <3>2, Zenon
    <2>3. Sound(q, FALSE)
      <3>1. Matched(q)
        BY <1>1, <1>2, <2>2 DEF Sound, Matched
      <3>2. Chosen(q, FALSE)
        BY <1>1, <1>2, <2>2 DEF Sound, Chosen, Selected
      <3>3. PageSound(q) /\ Listed(q, FALSE)
        BY <1>1, <1>2, <2>1, <2>2 DEF Sound, PageSound, Listed
      <3> QED BY <3>1, <3>2, <3>3 DEF Sound
    <2> QED BY <1>1, <1>2, <2>2, <2>3, UnlockedStep DEF Unlocked
  <1>5. CASE /\ Serving(t) # "status"
             /\ \E c \in Codes[Serving(t)] : Set(t, [r EXCEPT !.pc = "record", !.code = c])
    <2>1. \A h \in DOMAIN Codes : Codes[h] \subseteq Nat
      BY DEF Codes
    <2>2. Serving(t) \in DOMAIN Codes
      BY DEF Serving, Known, Codes
    <2>3. PICK c \in Nat : Set(t, [r EXCEPT !.pc = "record", !.code = c])
      BY <1>5, <2>1, <2>2
    <2>4. PICK q \in ThreadStates :
            /\ Set(t, q)
            /\ q.pc = "record" /\ q.route = r.route /\ q.left = r.left
            /\ q.uri = r.uri /\ q.handler = r.handler /\ q.seen = r.seen
      <3> DEFINE q == [r EXCEPT !.pc = "record", !.code = c]
      <3>1. "record" \in PCs
        BY DEF PCs
      <3>2. /\ q \in ThreadStates
            /\ q.pc = "record" /\ q.route = r.route /\ q.left = r.left
            /\ q.uri = r.uri /\ q.handler = r.handler /\ q.seen = r.seen
        BY <1>2, <3>1, Zenon DEF ThreadStates
      <3> QED BY <2>3, <3>2, Zenon
    <2>5. ServingRec(q) # "status"
      BY <1>3, <1>5, <2>4 DEF ServingRec
    <2>6. Sound(q, FALSE)
      <3>1. Matched(q)
        BY <1>1, <1>2, <2>4 DEF Sound, Matched
      <3>2. Chosen(q, FALSE)
        BY <1>1, <1>2, <2>4 DEF Sound, Chosen, Selected
      <3>3. PageSound(q) /\ Listed(q, FALSE)
        BY <1>1, <1>2, <2>4, <2>5 DEF Sound, PageSound, Listed
      <3> QED BY <3>1, <3>2, <3>3 DEF Sound
    <2> QED BY <1>1, <1>2, <2>4, <2>6, UnlockedStep DEF Unlocked
  <1>6. CASE Set(t, Resting)
    <2>1. Resting.pc = "idle" /\ Resting.route = <<>>
      BY DEF Resting
    <2> QED BY <1>1, <1>6, <2>1, RestingType, RestingSound, UnlockedStep DEF Unlocked
  <1> QED BY <1>4, <1>5, <1>6 DEF HandleRequest

(* The status page copies the list, which is at least as long as when its  *)
(* size was read ...                                                       *)
LEMMA ListStep ==
  ASSUME IInv, NEW t \in Threads, GetUrlResponseList(t) PROVE IInv'
  <1> DEFINE r == th[t]
  <1>1. r.pc = "list"
    BY DEF GetUrlResponseList
  <1>2. /\ r \in ThreadStates /\ Sound(r, Logging(t))
        /\ r.route \in DOMAIN routeMap \cup {<<>>}
    BY <1>1, InRequest
  <1>3. r.num \in Nat /\ r.seen \in Nat /\ r.seen <= r.num /\ r.num <= Len(list)
    <2>1. r.num \in Nat /\ r.seen \in Nat
      BY <1>2, Zenon DEF ThreadStates
    <2> QED BY <1>1, <1>2, <2>1 DEF Sound, PageSound
  <1>4. PICK S : S = Seq(Chars) \X Nat
    OBVIOUS
  <1>5. list \in Seq(S)
    BY <1>4 DEF IInv, TypeOK
  <1>6. PICK rows \in Seq(S) : /\ rows = IF r.num = 0 THEN <<>> ELSE list
                               /\ r.num <= Len(rows) /\ IsPrefix(rows, list)
    <2>1. <<>> \in Seq(S) /\ Len(<<>>) = 0
      OBVIOUS
    <2>2. IsPrefix(list, list) /\ IsPrefix(<<>>, list)
      BY <1>5, PrefixRefl
    <2>3. CASE r.num = 0
      <3>1. PICK z : z = <<>> /\ z \in Seq(S) /\ Len(z) = 0 /\ IsPrefix(z, list)
        BY <2>1, <2>2, Zenon
      <3>2. z = IF r.num = 0 THEN <<>> ELSE list
        BY <2>3, <3>1
      <3>3. r.num <= Len(z)
        BY <2>3, <3>1
      <3> QED BY <3>1, <3>2, <3>3, Zenon
    <2>4. CASE r.num # 0
      BY <1>3, <1>5, <2>2, <2>4
    <2> QED BY <2>3, <2>4
  <1>7. PICK q \in ThreadStates :
          /\ Set(t, q)
          /\ q.pc = "prefixes" /\ q.rows = rows /\ q.route = r.route /\ q.left = r.left
          /\ q.uri = r.uri /\ q.handler = r.handler /\ q.seen = r.seen /\ q.num = r.num
    <2> DEFINE q == [r EXCEPT !.pc = "prefixes", !.rows = rows]
    <2>1. "prefixes" \in PCs
      BY DEF PCs
    <2>2. /\ q \in ThreadStates
          /\ q.pc = "prefixes" /\ q.rows = rows /\ q.route = r.route /\ q.left = r.left
          /\ q.uri = r.uri /\ q.handler = r.handler /\ q.seen = r.seen /\ q.num = r.num
      BY <1>2, <1>4, <2>1, Zenon DEF ThreadStates
    <2>3. Set(t, q)
      BY <1>6 DEF GetUrlResponseList
    <2> QED BY <2>2, <2>3, Zenon
  <1>8. Sound(q, FALSE)
    <2>1. Matched(q)
      BY <1>1, <1>2, <1>7 DEF Sound, Matched
    <2>2. Chosen(q, FALSE)
      BY <1>1, <1>2, <1>7 DEF Sound, Chosen, Selected
    <2>3. q.seen <= Len(list)
      BY <1>1, <1>2, <1>7 DEF Sound, PageSound
    <2>4. PageSound(q) /\ Listed(q, FALSE)
      BY <1>3, <1>6, <1>7, <2>3 DEF PageSound, Listed
    <2> QED BY <2>1, <2>2, <2>4 DEF Sound
  <1> QED BY <1>1, <1>2, <1>7, <1>8, UnlockedStep DEF GetUrlResponseList, Unlocked

(* ... and then the table of the prefixes.                                 *)
LEMMA PrefixesStep ==
  ASSUME IInv, NEW t \in Threads, GetPrefixHandlerList(t) PROVE IInv'
  <1> DEFINE r == th[t]
  <1>1. r.pc = "prefixes"
    BY DEF GetPrefixHandlerList
  <1>2. /\ r \in ThreadStates /\ Sound(r, Logging(t))
        /\ r.route \in DOMAIN routeMap \cup {<<>>}
    BY <1>1, InRequest
  <1>3. PICK q \in ThreadStates :
          /\ Set(t, q)
          /\ q.pc = "record" /\ q.rows = r.rows /\ q.route = r.route /\ q.left = r.left
          /\ q.uri = r.uri /\ q.handler = r.handler /\ q.seen = r.seen /\ q.num = r.num
          /\ q.table = prefixes
    <2> DEFINE q == [r EXCEPT !.pc = "record", !.table = prefixes, !.code = 200]
    <2>1. "record" \in PCs /\ 200 \in Nat
      BY DEF PCs
    <2>2. prefixes \in Seq(Seq(Chars) \X Names)
      BY DEF IInv, TypeOK
    <2>3. /\ q \in ThreadStates
          /\ q.pc = "record" /\ q.rows = r.rows /\ q.route = r.route /\ q.left = r.left
          /\ q.uri = r.uri /\ q.handler = r.handler /\ q.seen = r.seen /\ q.num = r.num
          /\ q.table = prefixes
      BY <1>2, <2>1, <2>2, Zenon DEF ThreadStates
    <2>4. Set(t, q)
      BY DEF GetPrefixHandlerList
    <2> QED BY <2>3, <2>4, Zenon
  <1>4. Sound(q, FALSE)
    <2>1. Matched(q)
      BY <1>1, <1>2, <1>3 DEF Sound, Matched
    <2>2. Chosen(q, FALSE)
      BY <1>1, <1>2, <1>3 DEF Sound, Chosen, Selected
    <2>3. PageSound(q) /\ Listed(q, FALSE)
      BY <1>1, <1>2, <1>3 DEF Sound, PageSound, Listed
    <2> QED BY <2>1, <2>2, <2>3 DEF Sound
  <1> QED BY <1>1, <1>2, <1>3, <1>4, UnlockedStep DEF GetPrefixHandlerList, Unlocked

-----------------------------------------------------------------------------
(* request_recorder: one more row, one more thread past recording.         *)
LEMMA RecordStep ==
  ASSUME IInv, NEW t \in Threads, RequestRecorder(t) PROVE IInv'
  <1> USE RouterAssumption
  <1> DEFINE r == th[t]
  <1>1. /\ r.pc = "record" /\ list' = Append(list, <<r.uri, r.code>>)
        /\ UNCHANGED <<config, phase, nextLoc, routeMap, prefixes, lock, arrived, answered>>
    BY DEF RequestRecorder
  <1>2. /\ r \in ThreadStates /\ Sound(r, Logging(t)) /\ phase = "serving"
        /\ r.route \in DOMAIN routeMap \cup {<<>>}
    BY <1>1, InRequest
  <1>3. ~Logging(t) /\ lock["log"] # t /\ lock["route_map"] # t
    BY <1>1, NotLogging
  <1>4. PICK S : S = Seq(Chars) \X Nat
    OBVIOUS
  <1>5. PICK e \in S : e = <<r.uri, r.code>>
    <2>1. r.uri \in Seq(Chars) /\ r.code \in Nat
      BY <1>2, Zenon DEF ThreadStates
    <2> QED BY <1>4, <2>1
  <1>6. list \in Seq(S) /\ Grows
    BY <1>1, <1>4, <1>5 DEF IInv, TypeOK, Grows
  <1>7. /\ Len(list) \in Nat /\ Len(list') = Len(list) + 1
        /\ Len(list) + 1 \in DOMAIN list' /\ list'[Len(list) + 1] = e
    BY <1>1, <1>5, <1>6
  <1>8. PICK q \in ThreadStates :
          /\ Set(t, q)
          /\ q.pc = "log" /\ q.code = r.code /\ q.route = r.route /\ q.left = r.left
          /\ q.uri = r.uri /\ q.handler = r.handler /\ q.seen = r.seen
    <2> DEFINE q == [r EXCEPT !.pc = "log"]
    <2>1. "log" \in PCs
      BY DEF PCs
    <2>2. /\ q \in ThreadStates
          /\ q.pc = "log" /\ q.code = r.code /\ q.route = r.route /\ q.left = r.left
          /\ q.uri = r.uri /\ q.handler = r.handler /\ q.seen = r.seen
      BY <1>2, <2>1, Zenon DEF ThreadStates
    <2>3. Set(t, q)
      BY DEF RequestRecorder
    <2> QED BY <2>2, <2>3, Zenon
  <1>9. /\ th \in [Threads -> ThreadStates] /\ th'[t] = q
        /\ \A u \in Threads \ {t} : th'[u] = th[u]
    BY <1>8 DEF IInv, TypeOK, Set
  <1>10. Counts'
    <2>1. Recorded' = Recorded \cup {t} /\ t \notin Recorded
      BY <1>1, <1>3, <1>8, <1>9 DEF Recorded, Logging
    <2>2. Cardinality(Recorded') = Cardinality(Recorded) + 1
      BY <2>1, CountedFinite, FS_AddElement
    <2>3. AtWork' = AtWork
      BY <1>1, <1>8, <1>9 DEF AtWork
    <2>4. answered \in Nat
      BY DEF IInv, TypeOK
    <2> QED BY <1>1, <1>7, <2>2, <2>3, <2>4, CountedFinite DEF IInv, Counts
  <1>11. Matched(q) /\ Chosen(q, FALSE) /\ PageSound(q)
    <2>1. Matched(q)
      BY <1>1, <1>2, <1>8 DEF Sound, Matched
    <2>2. Chosen(q, FALSE)
      BY <1>1, <1>2, <1>8 DEF Sound, Chosen, Selected
    <2>3. PageSound(q)
      BY <1>1, <1>2, <1>8 DEF Sound, PageSound
    <2> QED BY <2>1, <2>2, <2>3
  <1>12. ASSUME NEW u \in Threads \ {t} PROVE Sound(th[u], Logging(u))'
    <2>1. PICK x \in ThreadStates : x = th[u]
      BY <1>9
    <2>2. PICK b \in BOOLEAN : b = Logging(u)
      BY DEF Logging
    <2>3. Sound(x, b)'
      BY <1>1, <1>6, <2>1, <2>2, SoundKept DEF IInv
    <2>4. th'[u] = x /\ (Logging(u)' <=> b)
      BY <1>1, <1>9, <2>1, <2>2 DEF Logging
    <2> QED BY <2>3, <2>4 DEF Sound, Matched, Chosen, PageSound, Listed
  <1>13. Sound(th[t], Logging(t))'
    <2>1. Matched(q)'
      BY <1>1, <1>11 DEF Matched, Longest
    <2>2. Chosen(q, FALSE)'
      <3>1. MeantHandler(q.uri)' = MeantHandler(q.uri)
        BY <1>1, MeantKept
      <3> QED BY <1>8, <1>11, <3>1 DEF Chosen
    <2>3. PageSound(q)'
      <3>1. q.seen \in Nat
        BY Zenon DEF ThreadStates
      <3> QED BY <1>7, <1>8, <1>11, <3>1 DEF PageSound
    <2>4. Listed(q, FALSE)'
      BY <1>5, <1>7, <1>8 DEF Listed
    <2>5. th'[t] = q /\ Logging(t)' = FALSE
      BY <1>1, <1>3, <1>9 DEF Logging
    <2> QED BY <2>1, <2>2, <2>3, <2>4, <2>5 DEF Sound, Matched, Chosen, PageSound, Listed
  <1>14. TypeOK'
    <2>1. list' \in Seq(S)
      BY <1>1, <1>5, <1>6
    <2>2. th' \in [Threads -> ThreadStates]
      BY <1>8 DEF Set, IInv, TypeOK
    <2>3. \A u \in Threads : th'[u].route \in DOMAIN routeMap \cup {<<>>}
      BY <1>2, <1>8, <1>9 DEF IInv, TypeOK
    <2> QED BY <1>1, <1>4, <2>1, <2>2, <2>3 DEF IInv, TypeOK
  <1>15. Table'
    BY <1>1, TableKept DEF IInv
  <1>16. Order'
    BY <1>1, <1>3, <1>8, <1>9, <1>2 DEF IInv, Order, Logging
  <1> QED BY <1>10, <1>12, <1>13, <1>14, <1>15, <1>16 DEF IInv

(* log_lock_.lock().                                                       *)
LEMMA BeginLogStep ==
  ASSUME IInv, NEW t \in Threads, BeginLog(t) PROVE IInv'
  <1> USE RouterAssumption
  <1> DEFINE r == th[t]
  <1>1. r.pc = "log" /\ lock["log"] = Nobody
    BY DEF BeginLog, Free
  <1>2. /\ r \in ThreadStates /\ Sound(r, Logging(t))
        /\ r.route \in DOMAIN routeMap \cup {<<>>}
    BY <1>1, InRequest
  <1>3. PICK q \in ThreadStates :
          /\ Set(t, q)
          /\ q.pc = "match" /\ q.code = r.code /\ q.route = r.route /\ q.left = r.left
          /\ q.uri = r.uri /\ q.handler = r.handler /\ q.seen = r.seen
    <2> DEFINE q == [r EXCEPT !.pc = "match"]
    <2>1. "match" \in PCs
      BY DEF PCs
    <2>2. /\ q \in ThreadStates
          /\ q.pc = "match" /\ q.code = r.code /\ q.route = r.route /\ q.left = r.left
          /\ q.uri = r.uri /\ q.handler = r.handler /\ q.seen = r.seen
      BY <1>2, <2>1, Zenon DEF ThreadStates
    <2>3. Set(t, q)
      BY DEF BeginLog
    <2> QED BY <2>2, <2>3, Zenon
  <1>4. Sound(q, TRUE)
    <2>1. Matched(q)
      BY <1>1, <1>2, <1>3 DEF Sound, Matched
    <2>2. Chosen(q, TRUE)
      BY <1>1, <1>2, <1>3 DEF Sound, Chosen, Selected
    <2>3. PageSound(q) /\ Listed(q, TRUE)
      BY <1>1, <1>2, <1>3 DEF Sound, PageSound, Listed
    <2> QED BY <2>1, <2>2, <2>3 DEF Sound
  <1>5. PICK lg : lg = t /\ Moved("log", lg, t) /\ Sound(q, lg = t)
    BY <1>1, <1>4 DEF Moved
  <1>6. /\ lock' = [lock EXCEPT !["route_map"] = lock["route_map"], !["log"] = lg]
        /\ Moved("route_map", lock["route_map"], t)
    BY <1>5 DEF BeginLog, Moved, IInv, TypeOK
  <1>7. lock["route_map"] = t <=> q.pc \in {"scan", "validProxy"}
    BY <1>1, <1>3, NotLogging
  <1> QED BY <1>1, <1>2, <1>3, <1>5, <1>6, <1>7, QuietStep DEF BeginLog

(* route_request returns: the thread is no longer past recording, and one  *)
(* more response has been answered.                                        *)
LEMMA FinishStep ==
  ASSUME IInv, NEW t \in Threads, Finish(t) PROVE IInv'
  <1> USE RouterAssumption
  <1>1. /\ th[t].pc = "finish" /\ answered' = answered + 1 /\ Set(t, Resting)
        /\ UNCHANGED <<config, phase, nextLoc, routeMap, prefixes, list, lock, arrived>>
    BY DEF Finish
  <1>2. ~Logging(t) /\ lock["log"] # t /\ lock["route_map"] # t
    BY <1>1, NotLogging
  <1>3. Resting.pc = "idle" /\ Resting.route = <<>>
    BY DEF Resting
  <1>4. th'[t] = Resting /\ \A u \in Threads \ {t} : th'[u] = th[u]
    BY <1>1 DEF Set, IInv, TypeOK
  <1>5. Recorded = Recorded' \cup {t} /\ t \notin Recorded'
    BY <1>1, <1>2, <1>3, <1>4 DEF Recorded, Logging
  <1>6. AtWork = AtWork' \cup {t} /\ t \notin AtWork'
    BY <1>1, <1>3, <1>4 DEF AtWork
  <1>7. /\ Cardinality(Recorded) = Cardinality(Recorded') + 1
        /\ Cardinality(AtWork) = Cardinality(AtWork') + 1
    BY <1>5, <1>6, CountedFinite, FS_AddElement
  <1>8. answered \in Nat /\ arrived \in Nat
    BY DEF IInv, TypeOK
  <1>9. Counts'
    BY <1>1, <1>7, <1>8, CountedFinite DEF IInv, Counts
  <1>10. arrived' \in 0 .. MaxRequests /\ answered' \in 0 .. arrived'
    <2>1. answered + Cardinality(AtWork) <= arrived
      BY DEF IInv, Counts
    <2>2. answered + 1 <= arrived
      BY <1>7, <1>8, <2>1, CountedFinite
    <2>3. arrived \in 0 .. MaxRequests
      BY DEF IInv, TypeOK
    <2> QED BY <1>1, <1>8, <2>2, <2>3
  <1>11. phase = "serving" /\ Grows
    BY <1>1, InRequest DEF Grows
  <1>12. PICK l \in BOOLEAN : l = FALSE
    OBVIOUS
  <1>13. Sound(Resting, l)
    BY <1>12, RestingSound
  <1>14. lock' \in [Mutexes -> Actors \cup {Nobody}]
    BY <1>1 DEF IInv, TypeOK
  <1> QED BY <1>1, <1>2, <1>3, <1>9, <1>10, <1>11, <1>12, <1>13, <1>14,
             RestingType, ThreadStep

(* route_request is called.                                                *)
LEMMA ArriveStep ==
  ASSUME IInv, NEW t \in Threads, NEW uri \in Uris, Arrive(t, uri) PROVE IInv'
  <1> USE RouterAssumption
  <1>1. /\ phase = "serving" /\ th[t].pc = "idle" /\ arrived < MaxRequests
        /\ arrived' = arrived + 1
        /\ Set(t, [Resting EXCEPT !.pc = "match", !.uri = uri, !.seen = Len(list)])
        /\ UNCHANGED <<config, phase, nextLoc, routeMap, prefixes, list, lock, answered>>
    BY DEF Arrive
  <1>2. PICK n \in Nat : n = Len(list)
    BY SeqElements DEF IInv, TypeOK
  <1>3. PICK q \in ThreadStates :
          /\ Set(t, q)
          /\ q.pc = "match" /\ q.route = <<>> /\ q.left = {} /\ q.seen = n
    <2> DEFINE q == [Resting EXCEPT !.pc = "match", !.uri = uri, !.seen = n]
    <2>1. "match" \in PCs /\ uri \in Seq(Chars)
      BY DEF PCs
    <2>2. q \in ThreadStates
      BY <2>1, RestingType, Zenon DEF ThreadStates
    <2>3. q.pc = "match" /\ q.route = <<>> /\ q.left = {} /\ q.seen = n
      BY Zenon DEF Resting
    <2>4. Set(t, q)
      BY <1>1, <1>2
    <2> QED BY <2>2, <2>3, <2>4, Zenon
  <1>4. ~Logging(t) /\ lock["log"] # t /\ lock["route_map"] # t
    BY <1>1, NotLogging
  <1>5. PICK l \in BOOLEAN : l = FALSE
    OBVIOUS
  <1>6. Sound(q, l)
    BY <1>2, <1>3, <1>5 DEF Sound, Matched, Chosen, PageSound, Listed, Selected
  <1>7. th'[t] = q /\ \A u \in Threads \ {t} : th'[u] = th[u]
    BY <1>3 DEF Set, IInv, TypeOK
  <1>8. arrived \in Nat /\ answered \in 0 .. arrived
    BY DEF IInv, TypeOK
  <1>9. Counts'
    <2>1. Recorded' = Recorded
      BY <1>1, <1>3, <1>4, <1>7 DEF Recorded, Logging
    <2>2. AtWork' = AtWork \cup {t} /\ t \notin AtWork
      BY <1>1, <1>3, <1>7 DEF AtWork
    <2>3. Cardinality(AtWork') = Cardinality(AtWork) + 1
      BY <2>2, CountedFinite, FS_AddElement
    <2> QED BY <1>1, <1>8, <2>1, <2>3, CountedFinite DEF IInv, Counts
  <1>10. arrived' \in 0 .. MaxRequests /\ answered' \in 0 .. arrived'
    BY <1>1, <1>8
  <1>11. Grows /\ lock' \in [Mutexes -> Actors \cup {Nobody}]
    BY <1>1 DEF Grows, IInv, TypeOK
  <1> QED BY <1>1, <1>3, <1>4, <1>5, <1>6, <1>9, <1>10, <1>11, ThreadStep

-----------------------------------------------------------------------------
(* Registration happens while every thread of the pool rests; those agree  *)
(* with any table.                                                         *)
LEMMA IdleSound ==
  ASSUME IInv, UNCHANGED <<th, list>>, \A t \in Threads : lock'["log"] = t => lock["log"] = t,
         phase # "serving"
  PROVE  /\ \A t \in Threads : Sound(th[t], Logging(t))'
         /\ \A t \in Threads : th[t].pc = "idle" /\ ~Logging(t) /\ ~Logging(t)'
         /\ Recorded' = Recorded /\ AtWork' = AtWork
  <1>1. \A t \in Threads : th[t].pc = "idle" /\ ~Logging(t) /\ ~Logging(t)'
    BY DEF IInv, Order, Logging
  <1>2. \A t \in Threads : Sound(th[t], Logging(t))'
    <2> TAKE t \in Threads
    <2>1. th'[t].pc = "idle" /\ th'[t].left = {} /\ ~Logging(t)'
      BY <1>1 DEF IInv, Sound, Matched
    <2> QED BY <2>1 DEF Sound, Matched, Chosen, PageSound, Listed, Selected
  <1>3. Recorded' = Recorded /\ AtWork' = AtWork
    BY <1>1 DEF Recorded, AtWork
  <1> QED BY <1>1, <1>2, <1>3

(* register_routes_from_config takes and releases config_lock_.            *)
LEMMA BeginRegisterStep == IInv /\ BeginRegister => IInv'
  <1> USE RouterAssumption
  <1> SUFFICES ASSUME IInv, BeginRegister PROVE IInv'
    OBVIOUS
  <1>1. /\ phase = "setup" /\ phase' = "registering" /\ lock' = [lock EXCEPT !["config"] = Main]
        /\ UNCHANGED <<config, nextLoc, routeMap, prefixes, list, th, arrived, answered>>
    BY DEF BeginRegister
  <1>2. lock \in [Mutexes -> Actors \cup {Nobody}] /\ Main \in Actors
    BY DEF IInv, TypeOK, Actors
  <1>3. /\ lock' \in [Mutexes -> Actors \cup {Nobody}] /\ lock'["config"] = Main
        /\ lock'["route_map"] = lock["route_map"] /\ lock'["log"] = lock["log"]
    BY <1>1, <1>2 DEF Mutexes
  <1>4. /\ \A t \in Threads : Sound(th[t], Logging(t))'
        /\ Recorded' = Recorded /\ AtWork' = AtWork
    BY <1>1, <1>3, IdleSound
  <1>5. TypeOK'
    BY <1>1, <1>3 DEF IInv, TypeOK
  <1>6. Table'
    BY <1>1, TableKept DEF IInv
  <1>7. Order'
    BY <1>1, <1>3 DEF IInv, Order, Logging
  <1>8. Counts'
    BY <1>1, <1>4, CountsKept
  <1> QED BY <1>4, <1>5, <1>6, <1>7, <1>8 DEF IInv

(* EndRegister: config_lock_ is released with every location registered.   *)
LEMMA EndRegisterStep == IInv /\ EndRegister => IInv'
  <1> USE RouterAssumption
  <1> SUFFICES ASSUME IInv, EndRegister PROVE IInv'
    OBVIOUS
  <1>1. /\ phase = "registering" /\ phase' = "serving"
        /\ lock' = [lock EXCEPT !["config"] = Nobody] /\ nextLoc > Len(config.locs)
        /\ UNCHANGED <<config, nextLoc, routeMap, prefixes, list, th, arrived, answered>>
    BY DEF EndRegister
  <1>2. lock \in [Mutexes -> Actors \cup {Nobody}]
    BY DEF IInv, TypeOK
  <1>3. /\ lock' \in [Mutexes -> Actors \cup {Nobody}] /\ lock'["config"] = Nobody
        /\ lock'["route_map"] = lock["route_map"] /\ lock'["log"] = lock["log"]
    BY <1>1, <1>2 DEF Mutexes
  <1>4. /\ \A t \in Threads : Sound(th[t], Logging(t))'
        /\ Recorded' = Recorded /\ AtWork' = AtWork
    BY <1>1, <1>3, IdleSound
  <1>5. TypeOK'
    BY <1>1, <1>3 DEF IInv, TypeOK
  <1>6. Table'
    BY <1>1, TableKept DEF IInv
  <1>7. nextLoc = Len(config.locs) + 1
    BY <1>1, ConfigType DEF IInv, TypeOK
  <1>8. Order'
    BY <1>1, <1>3, <1>7 DEF IInv, Order, Logging
  <1>9. Counts'
    BY <1>1, <1>4, CountsKept
  <1> QED BY <1>4, <1>5, <1>6, <1>8, <1>9 DEF IInv

(* register_route: the first location of a URI goes into both tables, and  *)
(* a later one into neither.                                               *)
LEMMA RegisterTable ==
  ASSUME IInv, RegisterRoute
  PROVE  /\ Table' /\ nextLoc' \in 1 .. Len(config.locs) + 1
         /\ DOMAIN routeMap \subseteq DOMAIN routeMap'
         /\ DOMAIN routeMap' \subseteq {config.locs[i].uri : i \in DOMAIN config.locs}
         /\ prefixes' \in Seq(Seq(Chars) \X Names)
  <1> DEFINE uri == config.locs[nextLoc].uri
             h == HandlerOf(nextLoc)
  <1>1. /\ nextLoc <= Len(config.locs) /\ nextLoc' = nextLoc + 1 /\ config' = config
        /\ IF uri \in DOMAIN routeMap
           THEN UNCHANGED <<routeMap, prefixes>>
           ELSE /\ prefixes' = Append(prefixes, <<uri, h>>)
                /\ routeMap' = [u \in DOMAIN routeMap \cup {uri} |->
                                  IF u = uri THEN h ELSE routeMap[u]]
    BY DEF RegisterRoute, HandlerOf
  <1>2. /\ Len(config.locs) \in Nat /\ nextLoc \in 1 .. Len(config.locs)
        /\ DOMAIN config.locs = 1 .. Len(config.locs)
        /\ uri \in Seq(Chars) /\ h \in Names
    <2>1. Len(config.locs) \in Nat /\ DOMAIN config.locs = 1 .. Len(config.locs)
      BY ConfigType DEF IInv
    <2>2. nextLoc \in 1 .. Len(config.locs)
      BY <1>1, <2>1 DEF IInv, TypeOK
    <2> QED BY <2>1, <2>2, ConfigType, Zenon DEF IInv
  <1>3. /\ nextLoc - 1 \in Nat /\ nextLoc' - 1 = nextLoc
        /\ 1 .. nextLoc = (1 .. nextLoc - 1) \cup {nextLoc} /\ nextLoc \notin 1 .. nextLoc - 1
    BY <1>1, <1>2
  <1>4. /\ DOMAIN routeMap = {config.locs[i].uri : i \in 1 .. nextLoc - 1}
        /\ \A u \in DOMAIN routeMap : \E i \in 1 .. nextLoc - 1 :
             First(i, u) /\ routeMap[u] = HandlerOf(i)
        /\ IsFiniteSet(DOMAIN routeMap)
        /\ PrefixTableMirrorsRoutes
    BY DEF IInv, Table
  <1>5. \A i : HandlerOf(i)' = HandlerOf(i)
    BY <1>1 DEF HandlerOf
  <1>6. \A i, u : First(i, u) => First(i, u)'
    <2> SUFFICES ASSUME NEW i, NEW u, First(i, u) PROVE First(i, u)'
      OBVIOUS
    <2>1. /\ i \in 1 .. nextLoc - 1 /\ config.locs[i].uri = u
          /\ \A j \in 1 .. nextLoc - 1 : config.locs[j].uri = u => i <= j
      BY DEF First
    <2>2. i <= nextLoc /\ i \in 1 .. nextLoc
      BY <1>2, <2>1
    <2>3. \A j \in 1 .. nextLoc : config.locs[j].uri = u => i <= j
      BY <1>3, <2>1, <2>2
    <2> QED BY <1>1, <1>3, <2>1, <2>2, <2>3 DEF First
  <1>7. DOMAIN routeMap' = DOMAIN routeMap \cup {uri}
    BY <1>1
  <1>8. DOMAIN routeMap' = {config.locs[i].uri : i \in 1 .. nextLoc' - 1}
    BY <1>3, <1>4, <1>7
  <1>9. \A u \in DOMAIN routeMap' : \E i \in 1 .. nextLoc' - 1 :
          First(i, u)' /\ routeMap'[u] = HandlerOf(i)
    <2> TAKE u \in DOMAIN routeMap'
    <2>1. CASE u \in DOMAIN routeMap
      <3>1. routeMap'[u] = routeMap[u]
        BY <1>1, <2>1
      <3>2. PICK i \in 1 .. nextLoc - 1 : First(i, u) /\ routeMap[u] = HandlerOf(i)
        BY <1>4, <2>1
      <3>3. i \in 1 .. nextLoc' - 1
        BY <1>3
      <3> QED BY <1>6, <3>1, <3>2, <3>3
    <2>2. CASE u \notin DOMAIN routeMap
      <3>1. u = uri /\ routeMap'[u] = h
        BY <1>1, <1>7, <2>2
      <3>2. \A j \in 1 .. nextLoc - 1 : config.locs[j].uri # u
        BY <1>4, <2>2
      <3>3. \A j \in 1 .. nextLoc : config.locs[j].uri = u => nextLoc <= j
        BY <1>2, <1>3, <3>2
      <3>4. nextLoc \in 1 .. nextLoc' - 1
        BY <1>2, <1>3
      <3>5. PICK n : n = nextLoc
        OBVIOUS
      <3>6. First(n, u)'
        BY <1>1, <1>3, <3>1, <3>3, <3>4, <3>5 DEF First
      <3> QED BY <3>1, <3>4, <3>5, <3>6
    <2> QED BY <2>1, <2>2
  <1>10. IsFiniteSet(DOMAIN routeMap')
    BY <1>4, <1>7, FS_AddElement
  <1>11. PrefixTableMirrorsRoutes' /\ prefixes' \in Seq(Seq(Chars) \X Names)
    <2>1. PICK S : S = Seq(Chars) \X Names
      OBVIOUS
    <2>2. PICK e \in S : e = <<uri, h>>
      BY <1>2, <2>1
    <2>3. prefixes \in Seq(S)
      BY <2>1 DEF IInv, TypeOK
    <2>4. /\ {prefixes[i] : i \in DOMAIN prefixes} = {<<u, routeMap[u]>> : u \in DOMAIN routeMap}
          /\ Len(prefixes) = Cardinality(DOMAIN routeMap)
      BY <1>4 DEF PrefixTableMirrorsRoutes
    <2>5. CASE uri \in DOMAIN routeMap
      <3>1. routeMap' = routeMap /\ prefixes' = prefixes
        BY <1>1, <2>5, Zenon
      <3>2. PrefixTableMirrorsRoutes'
        BY <2>4, <3>1, Zenon DEF PrefixTableMirrorsRoutes
      <3>3. prefixes' \in Seq(Seq(Chars) \X Names)
        BY <2>1, <2>3, <3>1, Zenon
      <3> QED BY <3>2, <3>3
    <2>6. CASE uri \notin DOMAIN routeMap
      <3>1. prefixes' = Append(prefixes, e) /\ prefixes' \in Seq(S)
        <4>1. prefixes' = Append(prefixes, e)
          BY <1>1, <2>2, <2>6, Zenon
        <4>2. Append(prefixes, e) \in Seq(S)
          BY <2>3
        <4> QED BY <4>1, <4>2, Zenon
      <3>2. /\ Len(prefixes') = Len(prefixes) + 1
            /\ DOMAIN prefixes' = DOMAIN prefixes \cup {Len(prefixes) + 1}
            /\ prefixes'[Len(prefixes) + 1] = e
            /\ \A i \in DOMAIN prefixes : prefixes'[i] = prefixes[i]
        BY <2>3, <3>1
      <3>3. {prefixes'[i] : i \in DOMAIN prefixes'} =
              {prefixes[i] : i \in DOMAIN prefixes} \cup {e}
        BY <3>2
      <3>4. /\ routeMap'[uri] = h /\ \A u \in DOMAIN routeMap : routeMap'[u] = routeMap[u]
        BY <1>1, <2>6
      <3>5. {<<u, routeMap'[u]>> : u \in DOMAIN routeMap'} =
              {<<u, routeMap[u]>> : u \in DOMAIN routeMap} \cup {e}
        BY <1>7, <2>2, <3>4
      <3>6. Cardinality(DOMAIN routeMap') = Cardinality(DOMAIN routeMap) + 1
        BY <1>4, <1>7, <2>6, FS_AddElement
      <3>7. {prefixes'[i] : i \in DOMAIN prefixes'} =
              {<<u, routeMap'[u]>> : u \in DOMAIN routeMap'}
        BY <2>4, <3>3, <3>5, Zenon
      <3>8. Len(prefixes') = Cardinality(DOMAIN routeMap')
        BY <2>4, <3>2, <3>6
      <3> QED BY <2>1, <3>1, <3>7, <3>8 DEF PrefixTableMirrorsRoutes
    <2> QED BY <2>5, <2>6
  <1>12. nextLoc' \in 1 .. Len(config.locs) + 1
    BY <1>1, <1>2
  <1>13. DOMAIN routeMap' \subseteq {config.locs[i].uri : i \in DOMAIN config.locs}
    BY <1>2, <1>7 DEF IInv, TypeOK
  <1>14. Table'
    <2>1. \A u \in DOMAIN routeMap' : \E i \in 1 .. nextLoc' - 1 :
            First(i, u)' /\ routeMap'[u] = HandlerOf(i)'
      BY <1>5, <1>9, Zenon
    <2>2. DOMAIN routeMap' = {config'.locs[i].uri : i \in 1 .. nextLoc' - 1}
      BY <1>1, <1>8, Zenon
    <2> QED BY <1>10, <1>11, <2>1, <2>2, Zenon DEF Table
  <1> QED BY <1>7, <1>11, <1>12, <1>13, <1>14

(* RegisterRoute extends the map and the table together, before any thread *)
(* has begun.                                                              *)
LEMMA RegisterRouteStep == IInv /\ RegisterRoute => IInv'
  <1> SUFFICES ASSUME IInv, RegisterRoute PROVE IInv'
    OBVIOUS
  <1>1. /\ phase = "registering"
        /\ UNCHANGED <<config, phase, list, lock, th, arrived, answered>>
    BY DEF RegisterRoute
  <1>2. /\ Table' /\ nextLoc' \in 1 .. Len(config.locs) + 1
        /\ DOMAIN routeMap \subseteq DOMAIN routeMap'
        /\ DOMAIN routeMap' \subseteq {config.locs[i].uri : i \in DOMAIN config.locs}
        /\ prefixes' \in Seq(Seq(Chars) \X Names)
    BY RegisterTable
  <1>3. /\ \A t \in Threads : Sound(th[t], Logging(t))'
        /\ Recorded' = Recorded /\ AtWork' = AtWork
    BY <1>1, IdleSound
  <1>4. TypeOK'
    BY <1>1, <1>2 DEF IInv, TypeOK
  <1>5. Order'
    BY <1>1 DEF IInv, Order, Logging
  <1>6. Counts'
    BY <1>1, <1>3, CountsKept
  <1> QED BY <1>2, <1>3, <1>4, <1>5, <1>6 DEF IInv

-----------------------------------------------------------------------------
(* Every step preserves the invariant.                                     *)
LEMMA NextIInv == IInv /\ [Next]_vars => IInv'
  <1> SUFFICES ASSUME IInv, [Next]_vars PROVE IInv'
    OBVIOUS
  <1>1. CASE UNCHANGED vars
    <2>1. TypeOK' /\ Order'
      BY <1>1 DEF vars, IInv, TypeOK, Order, Logging
    <2>2. Table'
      BY <1>1, TableKept DEF vars, IInv
    <2>3. Counts'
      BY <1>1 DEF vars, IInv, Counts, Recorded, AtWork, Logging
    <2>4. ASSUME NEW t \in Threads PROVE Sound(th[t], Logging(t))'
      <3>1. PICK r \in ThreadStates : r = th[t]
        BY DEF IInv, TypeOK
      <3>2. PICK b \in BOOLEAN : b = Logging(t)
        BY DEF Logging
      <3>3. Sound(r, b)'
        BY <1>1, <3>1, <3>2, SoundKept DEF IInv, vars, Grows
      <3>4. th'[t] = r /\ (Logging(t)' <=> b)
        BY <1>1, <3>1, <3>2 DEF vars, Logging
      <3> QED BY <3>3, <3>4 DEF Sound, Matched, Chosen, PageSound, Listed
    <2> QED BY <2>1, <2>2, <2>3, <2>4 DEF IInv
  <1>2. CASE Register
    BY <1>2, BeginRegisterStep, RegisterRouteStep, EndRegisterStep DEF Register
  <1>3. ASSUME NEW t \in Threads, Step(t) PROVE IInv'
    BY <1>3, MatchStep, CompareStep, LookupStep, CheckProxyStep, ConfigStep, HandleStep,
       ListStep, PrefixesStep, RecordStep, BeginLogStep, FinishStep DEF Step
  <1>4. ASSUME NEW t \in Threads, NEW uri \in Uris, Arrive(t, uri) PROVE IInv'
    BY <1>4, ArriveStep
  <1> QED BY <1>1, <1>2, <1>3, <1>4 DEF Next

(* IInv holds in every reachable state of the router.                      *)
THEOREM Invariance == Spec => []IInv
  BY InitIInv, NextIInv, PTL DEF Spec

-----------------------------------------------------------------------------
(* Every variable keeps its type, and the route a look-up is given is one  *)
(* of the registered ones or none.                                         *)
THEOREM TypeCorrect == Spec => []TypeOK
  <1>1. IInv => TypeOK
    BY DEF IInv
  <1> QED BY <1>1, Invariance, PTL

(* Whatever the order in which longest_prefix_match meets the prefixes,    *)
(* select_handler and the log statement find the handler that the          *)
(* configuration means.                                                    *)
THEOREM HandlerIsRight == Spec => []RightHandler
  <1>1. IInv => RightHandler
    <2> SUFFICES ASSUME IInv, NEW t \in Threads
                 PROVE  /\ th[t].pc \in PCs \ {"idle", "match", "scan", "lookup",
                                               "validProxy", "config"} =>
                             th[t].handler = MeantHandler(th[t].uri)
                        /\ th[t].pc = "finish" => th[t].logged = th[t].handler
      BY DEF RightHandler, MeantHandler, HandlerOf
    <2>1. Chosen(th[t], Logging(t))
      BY DEF IInv, Sound
    <2> QED BY <2>1 DEF Chosen, Selected, PCs
  <1> QED BY <1>1, Invariance, PTL

(* The status page's table of prefixes is the route map.                   *)
THEOREM TableIsRouteMap == Spec => []PrefixTableMirrorsRoutes
  <1>1. IInv => PrefixTableMirrorsRoutes
    BY DEF IInv, Table
  <1> QED BY <1>1, Invariance, PTL

(* No handler that dereferences its configuration is constructed with NULL.*)
THEOREM HandlersAreConfigured == Spec => []HandlerHasConfig
  <1>1. IInv => HandlerHasConfig
    BY DEF IInv, Sound, Chosen, HandlerHasConfig, Serving, ServingRec
  <1> QED BY <1>1, Invariance, PTL

(* The recorded list has one row for each response, and none for a throw.  *)
THEOREM EachResponseRecorded == Spec => []RecordedOnce
  <1>1. IInv => RecordedOnce
    <2> SUFFICES ASSUME IInv PROVE RecordedOnce
      OBVIOUS
    <2>1. Len(list) = answered + Cardinality(Recorded)
      BY DEF IInv, Counts
    <2>2. \A t \in Recorded : \E i \in DOMAIN list : list[i] = <<th[t].uri, th[t].code>>
      BY DEF IInv, Sound, Listed, Recorded
    <2> QED BY <2>1, <2>2 DEF RecordedOnce, Recorded
  <1> QED BY <1>1, Invariance, PTL

(* The status page is sound though it is read in three pieces.             *)
THEOREM StatusPageIsSound == Spec => []StatusPageSound
  <1>1. IInv => StatusPageSound
    BY DEF IInv, Sound, PageSound, StatusPageSound, Serving, ServingRec
  <1> QED BY <1>1, Invariance, PTL

(* Main and the threads take route_map_lock_ and config_lock_ in opposite  *)
(* orders, but never at the same time.                                     *)
THEOREM LocksDoNotCycle == Spec => []NoLockCycle
  <1>1. IInv => NoLockCycle
    <2> USE RouterAssumption
    <2> SUFFICES ASSUME IInv, NEW p \in Actors, NEW q \in Actors,
                        NEW m \in Needs(p), NEW n \in Needs(q), lock[m] = q, lock[n] = p
                 PROVE  FALSE
      BY DEF NoLockCycle
    <2>1. Needs(Main) \subseteq {"config", "route_map"}
      BY DEF Needs
    <2>2. \A t \in Threads :
            /\ th[t].pc \in {"match", "lookup"} => Needs(t) = {"route_map"}
            /\ th[t].pc \in {"validProxy", "config"} => Needs(t) = {"config"}
            /\ th[t].pc = "log" => Needs(t) = {"log"}
            /\ th[t].pc \notin {"match", "lookup", "validProxy", "config", "log"}
                 => Needs(t) = {}
      BY DEF Needs
    <2>3. m \in Mutexes /\ n \in Mutexes
      BY <2>1, <2>2 DEF Actors, Mutexes
    <2>4. ASSUME lock["config"] \in Actors
          PROVE  /\ lock["config"] = Main /\ phase = "registering"
                 /\ \A t \in Threads : th[t].pc = "idle"
                 /\ Needs(Main) \subseteq {"route_map"}
      <3>1. lock["config"] = Main /\ phase = "registering"
        BY <2>4 DEF IInv, Order, Actors
      <3> QED BY <3>1 DEF IInv, Order, Needs
    <2>5. ASSUME NEW t \in Actors, lock["route_map"] = t
          PROVE  t \in Threads /\ Needs(t) \subseteq {"config"}
      <3>1. t \in Threads /\ th[t].pc \in {"scan", "validProxy"}
        BY <2>5 DEF IInv, Order, Actors
      <3> QED BY <2>2, <3>1
    <2>6. ASSUME NEW t \in Actors, lock["log"] = t
          PROVE  t \in Threads /\ "log" \notin Needs(t)
      <3>1. t \in Threads /\ th[t].pc \in {"match", "scan", "lookup", "validProxy"}
        BY <2>6 DEF IInv, Order, Actors, Logging
      <3> QED BY <2>2, <3>1
    <2>7. CASE m = "config" \/ n = "config"
      BY <2>2, <2>3, <2>4, <2>5, <2>6, <2>7 DEF Mutexes
    <2>8. CASE m # "config" /\ n # "config"
      BY <2>3, <2>5, <2>6, <2>8 DEF Mutexes
    <2> QED BY <2>7, <2>8
  <1> QED BY <1>1, Invariance, PTL

=============================================================================
