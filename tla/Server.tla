------------------------------- MODULE Server -------------------------------
(***************************************************************************)
(* The accept loop, the session objects and the thread pool of the web     *)
(* server: src/server.cc, src/session.cc and the run phase of              *)
(* src/server_main.cc.                                                     *)
(*                                                                         *)
(* Every connection is served by one heap-allocated session object.  The   *)
(* callbacks of its asynchronous operations carry the raw pointer `this`,  *)
(* so the object lives exactly as long as the code keeps one (and only     *)
(* one) operation outstanding on it and deletes it in the last callback.   *)
(* A session is named here by its address; operator new may hand out an    *)
(* address again as soon as it has been freed.                             *)
(*                                                                         *)
(* External parts, modelled from how the code uses them: the io_service    *)
(* (a set of operations, completed in any order, each completion run once  *)
(* by some idle pool thread), the TCP socket and the remote peer, and the  *)
(* process's fate when an exception leaves a pool thread.                  *)
(***************************************************************************)
EXTENDS Naturals, FiniteSets

CONSTANTS
  Sessions,   \* the addresses operator new may return for a session object
  NoSession,  \* the session of a thread that executes no handler
  Threads,    \* the pool threads that execute io_service::run
  Requests,   \* the requests the peers send, as [size, head, ok] records
  MaxLength,  \* session::max_length, the size of the read buffer data_
  MaxChunks,  \* the most write_some calls one response needs (model bound)
  MaxHung     \* the most handlers that never return (model bound)

(***************************************************************************)
(* A request is `size` units long, its status line ends within the first   *)
(* `head` units, and `ok` says whether the whole of it is valid HTTP.      *)
(***************************************************************************)
ASSUME ServerAssumption ==
  /\ NoSession \notin Sessions
  /\ Threads # {}
  /\ Requests \subseteq [size : Nat \ {0}, head : Nat \ {0}, ok : BOOLEAN]
  /\ MaxLength \in Nat \ {0}
  /\ MaxChunks \in Nat \ {0}
  /\ MaxHung \in Nat

VARIABLES
  proc,       \* the process: what main() has done, or how it ended
  router,     \* router_ # nullptr
  isRunning,  \* server::isRunning
  live,       \* the session objects that are allocated
  io,         \* outstanding operations and queued completions
  task,       \* the handler each pool thread is executing
  peer,       \* the remote end of each session's socket
  sess,       \* the state of each session and of its response
  sig         \* TRUE once SIGINT or SIGTERM has been raised

vars == <<proc, router, isRunning, live, io, task, peer, sess, sig>>

-----------------------------------------------------------------------------
(* Types.                                                                  *)

Procs   == {"boot", "routed", "running", "exited", "aborted"}
Kinds   == {"accept", "read", "write"}
Ops     == [kind : Kinds, s : Sessions, st : {"pending", "ok", "err"}]
Replies == {"none", "routed", "bad_request", "server_error"}

Idle  == [pc |-> "idle", s |-> NoSession, st |-> "ok"]
Tasks == {Idle} \cup [pc : {"accept", "read", "route", "hung", "write"},
                      s : Sessions, st : {"ok", "err"}]

NoRequest == [size |-> 0, head |-> 0, ok |-> FALSE]
NoPeer    == [st |-> "none", req |-> NoRequest, sent |-> 0]
NewSess   == [got |-> 0, writes |-> 0, reply |-> "none", left |-> 0,
              intact |-> TRUE]

(***************************************************************************)
(* peer[s].sent is what has arrived of the request; sess[s].got is         *)
(* bytes_transferred of the read, writes the async_write calls started,    *)
(* reply the response they carry, left the chunks still to be sent and     *)
(* intact whether every chunk sent came from the response's own memory.    *)
(***************************************************************************)
TypeOK ==
  /\ proc \in Procs
  /\ router \in BOOLEAN
  /\ isRunning \in BOOLEAN
  /\ live \subseteq Sessions
  /\ io \subseteq Ops
  /\ task \in [Threads -> Tasks]
  /\ peer \in [Sessions -> [st   : {"none", "open", "eof", "reset"},
                            req  : Requests \cup {NoRequest},
                            sent : Nat]]
  /\ sess \in [Sessions -> [got : Nat, writes : Nat, reply : Replies,
                            left : Nat, intact : BOOLEAN]]
  /\ sig \in BOOLEAN

Init ==
  /\ proc = "boot"
  /\ router = FALSE
  /\ isRunning = FALSE
  /\ live = {}
  /\ io = {}
  /\ task = [t \in Threads |-> Idle]
  /\ peer = [s \in Sessions |-> NoPeer]
  /\ sess = [s \in Sessions |-> NewSess]
  /\ sig = FALSE

-----------------------------------------------------------------------------
(* Building blocks.                                                        *)

Op(kind, s, st) == [kind |-> kind, s |-> s, st |-> st]

(* The pending operation c completes with result st.                       *)
Complete(c, st) == io' = (io \ {c}) \cup {[c EXCEPT !.st = st]}

Busy(t)      == task[t].pc # "idle"
Return(t)    == task' = [task EXCEPT ![t] = Idle]
HungThreads  == {t \in Threads : task[t].pc = "hung"}

(***************************************************************************)
(* server::start_accept: allocate a blank session at some free address n   *)
(* and wait for a connection on its socket.  l and o are the live objects  *)
(* and the operations that the caller leaves behind.                       *)
(***************************************************************************)
StartAccept(l, o, n) ==
  /\ n \in Sessions \ l
  /\ live' = IF router THEN l \cup {n} ELSE l
  /\ io' = IF router THEN o \cup {Op("accept", n, "pending")} ELSE o
  /\ isRunning' = router

(* session::write(data): async_write sends the first chunk of the k-chunk  *)
(* response at once, while `data` is still alive, and leaves the rest to   *)
(* later write_some calls.                                                 *)
Write(s, reply, k) ==
  LET reset == peer[s].st = "reset"
  IN /\ io' = io \cup {Op("write", s, IF reset THEN "err"
                                      ELSE IF k = 1 THEN "ok" ELSE "pending")}
     /\ sess' = [sess EXCEPT ![s].writes = @ + 1,
                             ![s].reply  = reply,
                             ![s].left   = IF reset THEN k ELSE k - 1]

(* session::handle_error and session::handle_invalid_request: one-chunk    *)
(* 500 and 400 responses.                                                  *)
HandleError(s) == Write(s, "server_error", 1)

HandleInvalidRequest(s) == Write(s, "bad_request", 1)

(* delete this: the object is gone and its socket with it.                 *)
Delete(s) ==
  /\ live' = live \ {s}
  /\ peer' = [peer EXCEPT ![s] = NoPeer]
  /\ sess' = [sess EXCEPT ![s] = NewSess]

(* request::is_valid for the first `got` units of request r: the status    *)
(* line must be there, and nothing is said of what has not arrived.        *)
IsValid(r, got) == r.ok /\ got >= r.head

-----------------------------------------------------------------------------
(* main().                                                                 *)

(* server::create_router succeeds if the configuration has a router block; *)
(* otherwise main throws, catches and returns.                             *)
CreateRouter ==
  /\ proc = "boot"
  /\ \E found \in BOOLEAN :
       /\ router' = found
       /\ proc' = IF found THEN "routed" ELSE "exited"
  /\ UNCHANGED <<isRunning, live, io, task, peer, sess, sig>>

(* The first start_accept, then server::run starts the pool threads.       *)
Run ==
  /\ proc = "routed"
  /\ \E n \in Sessions : StartAccept(live, io, n)
  /\ proc' = IF router THEN "running" ELSE "exited"
  /\ UNCHANGED <<router, task, peer, sess, sig>>

(* SIGINT or SIGTERM is raised; a pool thread will run signal_handler.     *)
Signal ==
  /\ proc \in {"boot", "routed", "running"}
  /\ ~sig
  /\ sig' = TRUE
  /\ UNCHANGED <<proc, router, isRunning, live, io, task, peer, sess>>

(* A mutant: the handler's test of `error` is inverted and nothing exits.  *)
SignalHandlerIgnores(t) ==
  /\ proc = "running"
  /\ sig
  /\ ~Busy(t)
  /\ UNCHANGED vars

(* signal_handler: exit(1), on whichever pool thread is idle.              *)
SignalHandler(t) ==
  /\ proc = "running"
  /\ sig
  /\ ~Busy(t)
  /\ proc' = "exited"
  /\ UNCHANGED <<router, isRunning, live, io, task, peer, sess, sig>>

-----------------------------------------------------------------------------
(* The peers and the sockets.                                              *)

(* A peer connects.  The free address that the next start_accept will need *)
(* is the model's bound on simultaneous connections.                       *)
Connect(s) ==
  /\ proc = "running"
  /\ live # Sessions
  /\ Op("accept", s, "pending") \in io
  /\ Complete(Op("accept", s, "pending"), "ok")
  /\ \E r \in Requests :
       peer' = [peer EXCEPT ![s] = [st |-> "open", req |-> r, sent |-> 0]]
  /\ UNCHANGED <<proc, router, isRunning, live, task, sess, sig>>

AcceptFails(s) ==
  /\ proc = "running"
  /\ Op("accept", s, "pending") \in io
  /\ Complete(Op("accept", s, "pending"), "err")
  /\ UNCHANGED <<proc, router, isRunning, live, task, peer, sess, sig>>

(* Another piece of the request arrives.                                   *)
Send(s) ==
  /\ proc = "running"
  /\ peer[s].st = "open"
  /\ \E n \in (peer[s].sent + 1) .. peer[s].req.size :
       peer' = [peer EXCEPT ![s].sent = n]
  /\ UNCHANGED <<proc, router, isRunning, live, io, task, sess, sig>>

(* The peer stops sending, or its connection is torn down.                 *)
Leave(s, st) ==
  /\ proc = "running"
  /\ peer[s].st \in (IF st = "eof" THEN {"open"} ELSE {"open", "eof"})
  /\ peer' = [peer EXCEPT ![s].st = st]
  /\ UNCHANGED <<proc, router, isRunning, live, io, task, sess, sig>>

(* async_read_some completes with what has arrived, at most MaxLength.     *)
ReadSome(s) ==
  /\ proc = "running"
  /\ Op("read", s, "pending") \in io
  /\ peer[s].sent > 0
  /\ Complete(Op("read", s, "pending"), "ok")
  /\ sess' = [sess EXCEPT ![s].got = IF peer[s].sent <= MaxLength
                                     THEN peer[s].sent ELSE MaxLength]
  /\ UNCHANGED <<proc, router, isRunning, live, task, peer, sig>>

(* async_read_some fails: end of file or a reset, and nothing to read.     *)
ReadFails(s) ==
  /\ proc = "running"
  /\ Op("read", s, "pending") \in io
  /\ peer[s].sent = 0
  /\ peer[s].st \in {"eof", "reset"}
  /\ Complete(Op("read", s, "pending"), "err")
  /\ UNCHANGED <<proc, router, isRunning, live, task, peer, sess, sig>>

(* A mutant: one write_some too many.                                      *)
WriteSomeOffByOne(s) ==
  /\ proc = "running"
  /\ Op("write", s, "pending") \in io
  /\ peer[s].st # "reset"
  /\ sess' = [sess EXCEPT ![s].left = @ - 1]
  /\ IF sess[s].left = 0 THEN Complete(Op("write", s, "pending"), "ok")
                         ELSE UNCHANGED io
  /\ UNCHANGED <<proc, router, isRunning, live, task, peer, sig>>

(* A later write_some of a multi-chunk response, run by an idle thread.    *)
(* session::write has returned and `data` is destroyed: the bytes sent are *)
(* whatever that memory holds now, the response's own or not.              *)
WriteSome(s) ==
  /\ proc = "running"
  /\ Op("write", s, "pending") \in io
  /\ peer[s].st # "reset"
  /\ \E t \in Threads : ~Busy(t)
  /\ \E own \in BOOLEAN :
       sess' = [sess EXCEPT ![s].left = @ - 1, ![s].intact = @ /\ own]
  /\ IF sess[s].left = 1 THEN Complete(Op("write", s, "pending"), "ok")
                         ELSE UNCHANGED io
  /\ UNCHANGED <<proc, router, isRunning, live, task, peer, sig>>

WriteFails(s) ==
  /\ proc = "running"
  /\ Op("write", s, "pending") \in io
  /\ peer[s].st = "reset"
  /\ Complete(Op("write", s, "pending"), "err")
  /\ UNCHANGED <<proc, router, isRunning, live, task, peer, sess, sig>>

-----------------------------------------------------------------------------
(* The handlers, each run by a pool thread.                                *)

(* io_service::run takes a queued completion for execution by thread t.    *)
Dispatch(t, c) ==
  /\ proc = "running"
  /\ ~Busy(t)
  /\ c \in io
  /\ c.st # "pending"
  /\ io' = io \ {c}
  /\ task' = [task EXCEPT ![t] = [pc |-> c.kind, s |-> c.s, st |-> c.st]]
  /\ UNCHANGED <<proc, router, isRunning, live, peer, sess, sig>>

(* Three mutants: the session is started before the error is looked at,    *)
(* the acceptor is re-armed only after a successful accept, and a failed   *)
(* accept is answered by handle_error like a failed read.                  *)
HandleAcceptStartsFirst(t) ==
  /\ proc = "running"
  /\ task[t].pc = "accept"
  /\ LET s == task[t].s
         l == IF task[t].st = "ok" THEN live ELSE live \ {s}
     IN \E n \in Sessions \ live :
          StartAccept(l, io \cup {Op("read", s, "pending")}, n)
  /\ Return(t)
  /\ UNCHANGED <<proc, router, peer, sess, sig>>

HandleAcceptStopsOnError(t) ==
  /\ proc = "running"
  /\ task[t].pc = "accept"
  /\ LET s == task[t].s
     IN \/ /\ task[t].st = "ok"
           /\ \E n \in Sessions :
                StartAccept(live, io \cup {Op("read", s, "pending")}, n)
        \/ /\ task[t].st = "err"
           /\ live' = live \ {s}
           /\ UNCHANGED <<io, isRunning>>
  /\ Return(t)
  /\ UNCHANGED <<proc, router, peer, sess, sig>>

HandleAcceptAnswers(t) ==
  /\ proc = "running"
  /\ task[t].pc = "accept"
  /\ LET s == task[t].s
     IN \E n \in Sessions :
          \/ /\ task[t].st = "ok"
             /\ StartAccept(live, io \cup {Op("read", s, "pending")}, n)
             /\ sess' = sess
          \/ /\ task[t].st = "err"
             /\ StartAccept(live, io \cup {Op("write", s, "err")}, n)
             /\ sess' = [sess EXCEPT ![s].writes = @ + 1]
  /\ Return(t)
  /\ UNCHANGED <<proc, router, peer, sig>>

(* server::handle_accept: start the session (whose start() begins a read)  *)
(* or delete it; then accept again in either case.                         *)
HandleAccept(t) ==
  /\ proc = "running"
  /\ task[t].pc = "accept"
  /\ LET s == task[t].s
     IN \E n \in Sessions :
          \/ /\ task[t].st = "ok"
             /\ StartAccept(live, io \cup {Op("read", s, "pending")}, n)
          \/ /\ task[t].st = "err"
             /\ StartAccept(live \ {s}, io, n)
  /\ Return(t)
  /\ UNCHANGED <<proc, router, peer, sess, sig>>

(* Three mutants: handle_read reads on while the request is being served,  *)
(* deletes the session when the read failed, or forgets that case.         *)
HandleReadRearms(t) ==
  /\ proc = "running"
  /\ task[t].pc = "read"
  /\ task' = [task EXCEPT ![t].pc = "route"]
  /\ io' = io \cup {Op("read", task[t].s, "pending")}
  /\ UNCHANGED <<proc, router, isRunning, live, peer, sess, sig>>

HandleReadDeletes(t) ==
  /\ proc = "running"
  /\ task[t].pc = "read"
  /\ \/ /\ task[t].st = "ok"
        /\ task' = [task EXCEPT ![t].pc = "route"]
        /\ UNCHANGED <<live, peer, sess>>
     \/ task[t].st = "err" /\ Delete(task[t].s) /\ Return(t)
  /\ UNCHANGED <<proc, router, isRunning, io, sig>>

HandleReadForgets(t) ==
  /\ proc = "running"
  /\ task[t].pc = "read"
  /\ \/ task[t].st = "ok" /\ task' = [task EXCEPT ![t].pc = "route"]
     \/ task[t].st = "err" /\ Return(t)
  /\ UNCHANGED <<proc, router, isRunning, live, io, peer, sess, sig>>

(* session::handle_read: parse what was read; a valid request goes to the  *)
(* router, an invalid one is answered 400 and a failed read 500.           *)
HandleRead(t) ==
  /\ proc = "running"
  /\ task[t].pc = "read"
  /\ LET s == task[t].s
     IN \/ /\ task[t].st = "ok"
           /\ IsValid(peer[s].req, sess[s].got)
           /\ task' = [task EXCEPT ![t].pc = "route"]
           /\ UNCHANGED <<io, sess>>
        \/ /\ task[t].st = "ok"
           /\ ~IsValid(peer[s].req, sess[s].got)
           /\ HandleInvalidRequest(s)
           /\ Return(t)
        \/ /\ task[t].st = "err"
           /\ HandleError(s)
           /\ Return(t)
  /\ UNCHANGED <<proc, router, isRunning, live, peer, sig>>

(* A mutant: the exception handler also runs after a response was written. *)
HandleValidRequestTwice(t) ==
  /\ proc = "running"
  /\ task[t].pc = "route"
  /\ io' = io \cup {Op("write", task[t].s, "ok")}
  /\ sess' = [sess EXCEPT ![task[t].s].writes = @ + 2]
  /\ Return(t)
  /\ UNCHANGED <<proc, router, isRunning, live, peer, sig>>

(* session::handle_valid_request: the router returns a response to write,  *)
(* or throws and handle_success answers 500.                               *)
HandleValidRequest(t) ==
  /\ proc = "running"
  /\ task[t].pc = "route"
  /\ LET s == task[t].s
     IN \/ \E k \in 1 .. MaxChunks : Write(s, "routed", k)
        \/ HandleError(s)
  /\ Return(t)
  /\ UNCHANGED <<proc, router, isRunning, live, peer, sig>>

(* A route handler that blocks for ever: the reverse proxy's synchronous   *)
(* reads have no timeout.                                                  *)
Hang(t) ==
  /\ proc = "running"
  /\ task[t].pc = "route"
  /\ Cardinality(HungThreads) < MaxHung
  /\ task' = [task EXCEPT ![t].pc = "hung"]
  /\ UNCHANGED <<proc, router, isRunning, live, io, peer, sess, sig>>

(* A mutant: only close() deletes the session.                             *)
HandleWriteLeaks(t) ==
  /\ proc = "running"
  /\ task[t].pc = "write"
  /\ \/ task[t].st = "ok" /\ Delete(task[t].s)
     \/ task[t].st = "err" /\ UNCHANGED <<live, peer, sess>>
  /\ Return(t)
  /\ UNCHANGED <<proc, router, isRunning, io, sig>>

(* session::handle_write: after a successful write, close() shuts the      *)
(* socket down and deletes the session; after a failed one, just delete.   *)
HandleWrite(t) ==
  /\ proc = "running"
  /\ task[t].pc = "write"
  /\ LET s == task[t].s
     IN task[t].st = "ok" => peer[s].st # "reset"
  /\ Delete(task[t].s)
  /\ Return(t)
  /\ UNCHANGED <<proc, router, isRunning, io, sig>>

(* close() on a connection the peer has reset: shutdown() throws, nothing  *)
(* catches it in the pool thread, and the process is terminated.           *)
CloseThrows(t) ==
  /\ proc = "running"
  /\ task[t].pc = "write"
  /\ task[t].st = "ok"
  /\ peer[task[t].s].st = "reset"
  /\ proc' = "aborted"
  /\ UNCHANGED <<router, isRunning, live, io, task, peer, sess, sig>>

-----------------------------------------------------------------------------
Peers(s) ==
  \/ Connect(s)
  \/ AcceptFails(s)
  \/ Send(s)
  \/ Leave(s, "eof")
  \/ Leave(s, "reset")

Socket(s) ==
  \/ ReadSome(s)
  \/ ReadFails(s)
  \/ WriteSome(s)
  \/ WriteFails(s)

Handler(t) ==
  \/ HandleAccept(t)
  \/ HandleRead(t)
  \/ HandleValidRequest(t)
  \/ HandleWrite(t)
  \/ CloseThrows(t)

Next ==
  \/ CreateRouter
  \/ Run
  \/ Signal
  \/ \E s \in Sessions : Peers(s) \/ Socket(s)
  \/ \E t \in Threads : \/ SignalHandler(t)
                        \/ Hang(t)
                        \/ Handler(t)
                        \/ \E c \in io : Dispatch(t, c)

Spec == Init /\ [][Next]_vars

(***************************************************************************)
(* Fairness.  A pool thread that executes a handler goes on executing it,  *)
(* except where the handler itself blocks (Hang).  io_service runs         *)
(* completions in the order they were queued, so one that is queued for    *)
(* ever while threads keep becoming idle is run: strong fairness, because  *)
(* every thread may be busy in between.  The kernel reports what arrived   *)
(* or failed on a socket.  A peer that stays connected drains what it is   *)
(* sent.  Nothing is assumed of when peers connect, send or leave.         *)
(***************************************************************************)
Fairness ==
  /\ WF_vars(CreateRouter)
  /\ WF_vars(Run)
  /\ SF_vars(\E t \in Threads : SignalHandler(t))
  /\ \A t \in Threads : WF_vars(Handler(t))
  /\ \A s \in Sessions :
       /\ WF_vars(ReadSome(s) \/ ReadFails(s) \/ WriteFails(s))
       /\ SF_vars(WriteSome(s))
       /\ SF_vars(\E t \in Threads, c \in Ops : c.s = s /\ Dispatch(t, c))

FairSpec == Spec /\ Fairness

-----------------------------------------------------------------------------
(* Properties.                                                             *)

(* No use after free: every outstanding operation, queued completion and   *)
(* executing handler that carries a session pointer (`this`, new_session)  *)
(* carries the address of an object that has not been deleted.             *)
NoDangling ==
  /\ \A c \in io : c.s \in live
  /\ \A t \in Threads : Busy(t) => task[t].s \in live

(* No two pool threads ever work on one session, and none can start to: a  *)
(* session has at most one operation outstanding or handler executing,     *)
(* which is what lets session's members be used without a lock or strand.  *)
NoRace ==
  /\ \A c, d \in io : c.s = d.s => c = d
  /\ \A t, u \in Threads : Busy(t) /\ task[t].s = task[u].s => t = u
  /\ \A c \in io, t \in Threads : c.s # task[t].s

(* No leak: a session object that is allocated is always reachable from an *)
(* operation or a handler that will get to `delete this`.                  *)
NoLeak ==
  \A s \in live : \/ \E c \in io : c.s = s
                  \/ \E t \in Threads : task[t].s = s

Accepting(s) ==
  \/ \E c \in io : c.s = s /\ c.kind = "accept"
  \/ \E t \in Threads : task[t].s = s /\ task[t].pc = "accept"

(* handle_accept re-arms the acceptor whatever happened: while the server  *)
(* runs there is always exactly one session waiting for a connection.      *)
AcceptLoop ==
  /\ proc = "running" => \E s \in Sessions : Accepting(s)
  /\ \A s, r \in Sessions : Accepting(s) /\ Accepting(r) => s = r

Writing(s) ==
  \/ \E c \in io : c.s = s /\ c.kind = "write"
  \/ \E t \in Threads : task[t].s = s /\ task[t].pc = "write"

(* A session's write is started once, by whichever of the three answering  *)
(* paths its request takes, and is what keeps the session from then on.    *)
OneReply ==
  \A s \in Sessions :
    /\ sess[s].writes <= 1
    /\ sess[s].writes = 1 <=> Writing(s)

(* A session that a peer connected to is deleted only after it has been    *)
(* given its one response (handle_write is the only way out of it).        *)
AnsweredBeforeFreed ==
  [][\A s \in live \ live' : peer[s].st = "none" \/ sess[s].writes = 1]_vars

(* A peer that has sent something, or has left, is answered and released   *)
(* unless its route handler blocks or the process goes down: no schedule   *)
(* of the pool strands a session.                                          *)
Served ==
  \A s \in Sessions :
    peer[s].sent > 0 \/ peer[s].st \in {"eof", "reset"}
      ~> \/ peer[s].st = "none"
         \/ \E t \in HungThreads : task[t].s = s
         \/ proc # "running"

(* SIGINT and SIGTERM end the process as long as one pool thread is not    *)
(* blocked in a route handler.                                             *)
TerminatesOnSignal == sig ~> proc \in {"exited", "aborted"}

(***************************************************************************)
(* The abstract service of module HttpService, and the phase each session  *)
(* object is in.                                                           *)
(***************************************************************************)
Phase(s) ==
  IF s \notin live THEN "free"
  ELSE IF Accepting(s) THEN "listening"
  ELSE IF sess[s].writes = 0 THEN "connected"
  ELSE "answered"

Service == INSTANCE HttpService
             WITH Slots <- Sessions,
                  up    <- (proc = "running"),
                  phase <- [s \in Sessions |-> Phase(s)]

(* The server implements the abstract service: a connection takes the      *)
(* phases of HttpService in order, and taking one arms the next.           *)
ImplementsService == Service!Spec

(* What server.cc says of handle_accept: whatever happened, it goes on to  *)
(* handle subsequent incoming connections.  While isRunning is set and no  *)
(* one has asked the process to exit, it is there to accept.               *)
KeepsAccepting == isRunning => proc \in {"routed", "running", "exited"}

(* What static_file_handler.cc says a response is: the bytes the handler   *)
(* put in it, all the way to the peer.                                     *)
ResponseIntact == \A s \in Sessions : sess[s].intact

(* What the README says the server is: a server for HTTP 1.1.  A request   *)
(* that is well formed is never answered 400 Bad Request.                  *)
ValidNeverRefused ==
  \A s \in Sessions : sess[s].reply = "bad_request" => ~peer[s].req.ok

=============================================================================
