------------------------ MODULE ServerServiceProofs ------------------------
(***************************************************************************)
(* Server implements HttpService, and no connected session is freed        *)
(* without its response: proofs from the inductive invariant IInv of       *)
(* ServerProofs, for every instance.                                       *)
(***************************************************************************)
EXTENDS ServerProofs

(* A step that leaves the accept operations with the sessions that have    *)
(* them, the allocated objects and the write counts alone changes no phase.*)
LEMMA HiddenStep ==
  ASSUME IInv, proc' = "running" <=> proc = "running", live' = live,
         \A s \in Sessions : Accepting(s)' <=> Accepting(s),
         \A s \in Sessions : sess'[s].writes = sess[s].writes
  PROVE  UNCHANGED Service!vars
  <1>1. \A s \in Sessions : Phase(s)' = Phase(s)
    BY DEF Phase
  <1>2. [s \in Sessions |-> Phase(s)]' = [s \in Sessions |-> Phase(s)]
    BY <1>1
  <1>3. (proc = "running")' <=> (proc = "running")
    OBVIOUS
  <1> QED BY <1>2, <1>3 DEF Service!vars

(* Initially every address is free and the service is down.                *)
LEMMA ServiceInit == Init => Service!Init
  BY DEF Init, Service!Init, Phase

(* exit(1) in signal_handler, and an exception in close(), stop the        *)
(* service.                                                                *)
LEMMA ServiceStop ==
  ASSUME IInv, proc = "running", proc' # "running",
         UNCHANGED <<live, io, task, sess>>
  PROVE  Service!Next
  <1>1. \A s \in Sessions : Accepting(s)' <=> Accepting(s)
    BY DEF Accepting
  <1>2. [s \in Sessions |-> Phase(s)]' = [s \in Sessions |-> Phase(s)]
    BY <1>1 DEF Phase
  <1>3. Service!Stop
    BY <1>2 DEF Service!Stop
  <1> QED BY <1>3 DEF Service!Next

(* The first start_accept.                                                 *)
LEMMA ServiceRun == IInv /\ Run => Service!Next
  <1> USE ServerAssumption
  <1> SUFFICES ASSUME IInv, Run PROVE Service!Next
    OBVIOUS
  <1>1. /\ proc = "routed" /\ router /\ live = {} /\ io = {}
        /\ task = [t \in Threads |-> Idle]
    BY DEF IInv, Quiet, Run
  <1>2. PICK n \in Sessions :
          /\ live' = {n} /\ io' = {Op("accept", n, "pending")} /\ proc' = "running"
          /\ UNCHANGED <<task, sess>>
    BY <1>1 DEF Run, StartAccept
  <1>3. \A s \in Sessions : Phase(s) = "free"
    BY <1>1 DEF Phase
  <1>4. Accepting(n)'
    BY <1>2 DEF Accepting, Op
  <1>5. \A s \in Sessions : Phase(s)' = IF s = n THEN "listening" ELSE "free"
    BY <1>2, <1>4 DEF Phase
  <1>6. [s \in Sessions |-> Phase(s)]' =
          [[s \in Sessions |-> Phase(s)] EXCEPT ![n] = "listening"]
    BY <1>3, <1>5
  <1>7. Service!Start(n)
    BY <1>1, <1>2, <1>3, <1>6 DEF Service!Start
  <1> QED BY <1>7 DEF Service!Next

(* The completion of an operation, and its dispatch to a pool thread, keep *)
(* the kind of the operation and its session.                              *)
LEMMA CompleteAccepting ==
  ASSUME NEW c \in io, NEW st, Complete(c, st), io \subseteq Ops, UNCHANGED task
  PROVE  \A s \in Sessions : Accepting(s)' <=> Accepting(s)
  <1>1. [c EXCEPT !.st = st].s = c.s /\ [c EXCEPT !.st = st].kind = c.kind
    BY DEF Ops
  <1> QED BY <1>1 DEF Accepting, Complete

(* A completion of an accept becomes the handler of the same accept.       *)
LEMMA DispatchAccepting ==
  ASSUME IInv, NEW t \in Threads, NEW c \in io, Dispatch(t, c)
  PROVE  \A s \in Sessions : Accepting(s)' <=> Accepting(s)
  <1>1. /\ io' = io \ {c} /\ task[t].pc = "idle"
        /\ task' = [task EXCEPT ![t] = [pc |-> c.kind, s |-> c.s, st |-> c.st]]
        /\ task \in [Threads -> Tasks]
    BY DEF Dispatch, Busy, IInv, TypeOK
  <1>2. \A u \in Threads : task'[u] = IF u = t THEN [pc |-> c.kind, s |-> c.s, st |-> c.st]
                                      ELSE task[u]
    BY <1>1
  <1> QED BY <1>1, <1>2 DEF Accepting

(* handle_accept: the connection is taken, or given up, and another        *)
(* session object listens; it may have the address that was just freed.    *)
LEMMA ServiceHandleAccept ==
  ASSUME IInv, NEW t \in Threads, HandleAccept(t)
  PROVE  Service!Next \/ UNCHANGED Service!vars
  <1> USE ServerAssumption
  <1> DEFINE s == task[t].s
  <1>1. /\ proc = "running" /\ proc' = "running" /\ task[t].pc = "accept" /\ router
        /\ s \in Sessions /\ s \in live /\ Accepting(s) /\ live \subseteq Sessions
        /\ task \in [Threads -> Tasks] /\ task' = [task EXCEPT ![t] = Idle]
        /\ UNCHANGED sess
    <2>1. task[t] \in Tasks /\ task[t].pc = "accept"
      BY DEF HandleAccept, IInv, TypeOK
    <2>2. s \in Sessions
      BY <2>1 DEF Tasks, Idle
    <2> QED BY <2>1, <2>2 DEF HandleAccept, Return, IInv, TypeOK, Quiet, NoDangling, Busy, Accepting
  <1>2. /\ \A c \in io : c.s # s
        /\ \A u \in Threads : task[u].s = s => u = t
        /\ \A u \in Threads : task'[u] = IF u = t THEN Idle ELSE task[u]
        /\ Idle.s \notin Sessions
    BY <1>1 DEF IInv, NoRace, Busy, Idle
  <1>3. sess[s].writes = 0
    <2>1. ~Writing(s)
      BY <1>1, <1>2 DEF Writing
    <2>2. sess[s].writes \in Nat
      BY <1>1 DEF IInv, TypeOK
    <2> QED BY <1>1, <2>1, <2>2 DEF IInv, OneReply
  <1>4. \A r \in Sessions : Accepting(r) <=> r = s
    BY <1>1 DEF IInv, AcceptLoop
  <1>5. \A c \in io : c.kind # "accept"
    <2>1. \A c \in io : c.s \in Sessions
      BY DEF IInv, TypeOK, Ops
    <2> QED BY <1>2, <1>4, <2>1 DEF Accepting
  <1>6. \A u \in Threads \ {t} : task[u].pc # "accept"
    <2>1. \A u \in Threads : task[u].pc = "accept" => task[u].s \in Sessions
      BY <1>1 DEF Tasks, Idle
    <2> QED BY <1>2, <1>4, <2>1 DEF Accepting
  <1>7. CASE task[t].st = "ok" /\ \E n \in Sessions :
               StartAccept(live, io \cup {Op("read", s, "pending")}, n)
    <2>1. PICK n \in Sessions :
            /\ n \notin live /\ live' = live \cup {n}
            /\ io' = io \cup {Op("read", s, "pending"), Op("accept", n, "pending")}
      BY <1>1, <1>7 DEF StartAccept
    <2>2. \A r \in Sessions : Accepting(r)' <=> r = n
      <3>1. Accepting(n)'
        <4>1. /\ Op("accept", n, "pending").s = n
              /\ Op("accept", n, "pending").kind = "accept"
          BY DEF Op
        <4>2. Op("accept", n, "pending") \in io'
          BY <2>1
        <4> QED BY <4>1, <4>2 DEF Accepting
      <3>2. ASSUME NEW r \in Sessions, Accepting(r)' PROVE r = n
        BY <1>2, <1>5, <1>6, <2>1, <3>2 DEF Accepting, Op, Idle
      <3> QED BY <3>1, <3>2
    <2>3. n # s
      BY <1>1, <2>1
    <2>4. /\ Phase(s) = "listening" /\ Phase(n) = "free"
          /\ \A r \in Sessions : Phase(r)' = IF r = s THEN "connected"
                                   ELSE IF r = n THEN "listening" ELSE Phase(r)
      BY <1>1, <1>3, <1>4, <2>1, <2>2, <2>3 DEF Phase
    <2>5. [r \in Sessions |-> Phase(r)]' =
            [[r \in Sessions |-> Phase(r)] EXCEPT ![s] = "connected", ![n] = "listening"]
      BY <1>1, <2>3, <2>4
    <2>6. PICK x \in Sessions : x = s
      BY <1>1
    <2>7. Service!Accept(x, n)
      BY <1>1, <2>4, <2>5, <2>6 DEF Service!Accept
    <2> QED BY <2>7 DEF Service!Next
  <1>8. CASE task[t].st = "err" /\ \E n \in Sessions : StartAccept(live \ {s}, io, n)
    <2>1. PICK n \in Sessions :
            /\ n \notin live \ {s} /\ live' = (live \ {s}) \cup {n}
            /\ io' = io \cup {Op("accept", n, "pending")}
      BY <1>1, <1>8 DEF StartAccept
    <2>2. \A r \in Sessions : Accepting(r)' <=> r = n
      <3>1. Accepting(n)'
        <4>1. /\ Op("accept", n, "pending").s = n
              /\ Op("accept", n, "pending").kind = "accept"
          BY DEF Op
        <4>2. Op("accept", n, "pending") \in io'
          BY <2>1
        <4> QED BY <4>1, <4>2 DEF Accepting
      <3>2. ASSUME NEW r \in Sessions, Accepting(r)' PROVE r = n
        BY <1>2, <1>5, <1>6, <2>1, <3>2 DEF Accepting, Op, Idle
      <3> QED BY <3>1, <3>2
    <2>3. CASE n = s
      <3>1. live' = live
        BY <1>1, <2>1, <2>3
      <3> QED BY <1>1, <1>4, <2>2, <2>3, <3>1, HiddenStep
    <2>4. CASE n # s
      <3>1. /\ Phase(s) = "listening" /\ Phase(n) = "free"
            /\ \A r \in Sessions : Phase(r)' = IF r = s THEN "free"
                                     ELSE IF r = n THEN "listening" ELSE Phase(r)
        BY <1>1, <1>4, <2>1, <2>2, <2>4 DEF Phase
      <3>2. [r \in Sessions |-> Phase(r)]' =
              [[r \in Sessions |-> Phase(r)] EXCEPT ![s] = "free", ![n] = "listening"]
        BY <1>1, <2>4, <3>1
      <3>3. PICK x \in Sessions : x = s
        BY <1>1
      <3>4. Service!Refuse(x, n)
        BY <1>1, <3>1, <3>2, <3>3 DEF Service!Refuse
      <3> QED BY <3>4 DEF Service!Next
    <2> QED BY <2>3, <2>4
  <1> QED BY <1>7, <1>8 DEF HandleAccept

(* session::write, by whichever path, answers the session that the thread  *)
(* works on.                                                               *)
LEMMA ServiceAnswer ==
  ASSUME IInv, NEW t \in Threads, task[t].pc \in {"read", "route"},
         NEW reply, NEW k, Write(task[t].s, reply, k), Return(t),
         proc = "running", UNCHANGED <<proc, live>>
  PROVE  Service!Next
  <1> USE ServerAssumption
  <1> DEFINE s == task[t].s
  <1>1. /\ s \in Sessions /\ s \in live
        /\ task \in [Threads -> Tasks] /\ task' = [task EXCEPT ![t] = Idle]
    <2>1. task[t] \in Tasks
      BY DEF IInv, TypeOK
    <2>2. s \in Sessions
      BY <2>1 DEF Tasks, Idle
    <2> QED BY <2>2 DEF Return, IInv, TypeOK, NoDangling, Busy
  <1>2. /\ \A c \in io : c.s # s
        /\ \A u \in Threads : task[u].s = s => u = t
        /\ \A u \in Threads : task'[u] = IF u = t THEN Idle ELSE task[u]
        /\ Idle.s \notin Sessions
    BY <1>1 DEF IInv, NoRace, Busy, Idle
  <1>3. sess[s].writes = 0
    <2>1. ~Writing(s)
      BY <1>1, <1>2 DEF Writing
    <2>2. sess[s].writes \in Nat
      BY <1>1 DEF IInv, TypeOK
    <2> QED BY <1>1, <2>1, <2>2 DEF IInv, OneReply
  <1>4. PICK st : io' = io \cup {Op("write", s, st)}
    BY DEF Write
  <1>5. \A r \in Sessions : Accepting(r)' <=> Accepting(r)
    <2>1. Op("write", s, st).kind = "write"
      BY DEF Op
    <2> QED BY <1>1, <1>2, <1>4, <2>1 DEF Accepting, Idle
  <1>6. ~Accepting(s)
    BY <1>1, <1>2 DEF Accepting
  <1>7. \A r \in Sessions : sess'[r].writes = IF r = s THEN 1 ELSE sess[r].writes
    <2>1. sess' = [sess EXCEPT ![s].writes = @ + 1, ![s].reply = reply,
                               ![s].left = IF peer[s].st = "reset" THEN k ELSE k - 1]
      BY DEF Write
    <2>2. PICK l : l = IF peer[s].st = "reset" THEN k ELSE k - 1
      OBVIOUS
    <2>3. sess' = [sess EXCEPT ![s] =
                     [sess[s] EXCEPT !.writes = @ + 1, !.reply = reply, !.left = l]]
      BY <2>1, <2>2
    <2>4. /\ sess \in [Sessions -> [got : Nat, writes : Nat, reply : Replies,
                                    left : Nat, intact : BOOLEAN]]
      BY DEF IInv, TypeOK
    <2>5. [sess[s] EXCEPT !.writes = @ + 1, !.reply = reply, !.left = l].writes = 1
      BY <1>1, <1>3, <2>4
    <2> QED BY <1>1, <2>3, <2>4, <2>5
  <1>8. /\ Phase(s) = "connected"
        /\ \A r \in Sessions : Phase(r)' = IF r = s THEN "answered" ELSE Phase(r)
    BY <1>1, <1>3, <1>5, <1>6, <1>7 DEF Phase
  <1>9. [r \in Sessions |-> Phase(r)]' =
          [[r \in Sessions |-> Phase(r)] EXCEPT ![s] = "answered"]
    BY <1>1, <1>8
  <1>10. PICK x \in Sessions : x = s
    BY <1>1
  <1>11. Service!Answer(x)
    BY <1>1, <1>8, <1>9, <1>10 DEF Service!Answer
  <1> QED BY <1>11 DEF Service!Next

(* handle_write releases the session, which was answered.                  *)
LEMMA ServiceRelease ==
  ASSUME IInv, NEW t \in Threads, HandleWrite(t) PROVE Service!Next
  <1> USE ServerAssumption
  <1> DEFINE s == task[t].s
  <1>1. /\ proc = "running" /\ proc' = "running" /\ task[t].pc = "write"
        /\ s \in Sessions /\ s \in live
        /\ task \in [Threads -> Tasks] /\ task' = [task EXCEPT ![t] = Idle]
        /\ live' = live \ {s} /\ sess' = [sess EXCEPT ![s] = NewSess] /\ io' = io
    <2>1. task[t] \in Tasks /\ task[t].pc = "write"
      BY DEF HandleWrite, IInv, TypeOK
    <2>2. s \in Sessions
      BY <2>1 DEF Tasks, Idle
    <2> QED BY <2>1, <2>2 DEF HandleWrite, Delete, Return, IInv, TypeOK, NoDangling, Busy
  <1>2. /\ \A c \in io : c.s # s
        /\ \A u \in Threads : task[u].s = s => u = t
        /\ \A u \in Threads : task'[u] = IF u = t THEN Idle ELSE task[u]
        /\ Idle.s \notin Sessions
    BY <1>1 DEF IInv, NoRace, Busy, Idle
  <1>3. sess[s].writes = 1
    BY <1>1 DEF IInv, OneReply, Writing
  <1>4. \A r \in Sessions : Accepting(r)' <=> Accepting(r)
    BY <1>1, <1>2 DEF Accepting, Idle
  <1>5. ~Accepting(s)
    BY <1>1, <1>2 DEF Accepting
  <1>6. \A r \in Sessions : r # s => sess'[r] = sess[r]
    BY <1>1 DEF IInv, TypeOK
  <1>7. /\ Phase(s) = "answered"
        /\ \A r \in Sessions : Phase(r)' = IF r = s THEN "free" ELSE Phase(r)
    BY <1>1, <1>3, <1>4, <1>5, <1>6 DEF Phase
  <1>8. [r \in Sessions |-> Phase(r)]' =
          [[r \in Sessions |-> Phase(r)] EXCEPT ![s] = "free"]
    BY <1>1, <1>7
  <1>9. PICK x \in Sessions : x = s
    BY <1>1
  <1>10. Service!Release(x)
    BY <1>1, <1>7, <1>8, <1>9 DEF Service!Release
  <1> QED BY <1>10 DEF Service!Next

(* The peers and the sockets only complete operations.                     *)
LEMMA ServicePeers ==
  ASSUME IInv, NEW s \in Sessions, Peers(s) PROVE UNCHANGED Service!vars
  <1>1. io \subseteq Ops
    BY DEF IInv, TypeOK
  <1>2. CASE Connect(s) \/ AcceptFails(s)
    <2>1. \A r \in Sessions : Accepting(r)' <=> Accepting(r)
      BY <1>1, <1>2, CompleteAccepting DEF Connect, AcceptFails
    <2> QED BY <1>2, <2>1, HiddenStep DEF Connect, AcceptFails
  <1>3. CASE Send(s) \/ Leave(s, "eof") \/ Leave(s, "reset")
    <2>1. \A r \in Sessions : Accepting(r)' <=> Accepting(r)
      BY <1>3 DEF Send, Leave, Accepting
    <2> QED BY <1>3, <2>1, HiddenStep DEF Send, Leave
  <1> QED BY <1>2, <1>3 DEF Peers

(* What happens on a socket after the accept is not seen by the service.   *)
LEMMA ServiceSocket ==
  ASSUME IInv, NEW s \in Sessions, Socket(s) PROVE UNCHANGED Service!vars
  <1>1. /\ io \subseteq Ops
        /\ sess \in [Sessions -> [got : Nat, writes : Nat, reply : Replies,
                                  left : Nat, intact : BOOLEAN]]
    BY DEF IInv, TypeOK
  <1>2. CASE ReadFails(s) \/ WriteFails(s)
    <2>1. \A r \in Sessions : Accepting(r)' <=> Accepting(r)
      BY <1>1, <1>2, CompleteAccepting DEF ReadFails, WriteFails
    <2> QED BY <1>2, <2>1, HiddenStep DEF ReadFails, WriteFails
  <1>3. CASE ReadSome(s)
    <2>1. \A r \in Sessions : Accepting(r)' <=> Accepting(r)
      BY <1>1, <1>3, CompleteAccepting DEF ReadSome
    <2>2. PICK g : sess' = [sess EXCEPT ![s].got = g]
      BY <1>3 DEF ReadSome
    <2>3. \A r \in Sessions : sess'[r].writes = sess[r].writes
      BY <1>1, <2>2
    <2> QED BY <1>3, <2>1, <2>3, HiddenStep DEF ReadSome
  <1>4. CASE WriteSome(s)
    <2>1. \A r \in Sessions : Accepting(r)' <=> Accepting(r)
      <3>1. CASE UNCHANGED io
        BY <1>4, <3>1 DEF WriteSome, Accepting
      <3>2. CASE Complete(Op("write", s, "pending"), "ok")
        BY <1>1, <1>4, <3>2, CompleteAccepting DEF WriteSome
      <3> QED BY <1>4, <3>1, <3>2 DEF WriteSome
    <2>2. PICK own \in BOOLEAN :
            sess' = [sess EXCEPT ![s].left = @ - 1, ![s].intact = @ /\ own]
      BY <1>4 DEF WriteSome
    <2>3. PICK q : q = [sess[s] EXCEPT !.left = @ - 1, !.intact = @ /\ own]
      OBVIOUS
    <2>4. q.writes = sess[s].writes
      BY <1>1, <2>3
    <2>5. sess' = [sess EXCEPT ![s] = q]
      BY <2>2, <2>3
    <2>6. \A r \in Sessions : sess'[r].writes = sess[r].writes
      BY <1>1, <2>4, <2>5
    <2> QED BY <1>4, <2>1, <2>6, HiddenStep DEF WriteSome
  <1> QED BY <1>2, <1>3, <1>4 DEF Socket

(* A thread that goes on to the router, or blocks there, is not seen.      *)
LEMMA ServiceRoute ==
  ASSUME IInv, NEW t \in Threads, NEW pc \in {"route", "hung"},
         task[t].pc \in {"read", "route"}, task' = [task EXCEPT ![t].pc = pc],
         UNCHANGED <<proc, live, io, sess>>
  PROVE  UNCHANGED Service!vars
  <1>1. task[t] \in Tasks /\ task \in [Threads -> Tasks] /\ task[t].pc # "idle"
    BY DEF IInv, TypeOK
  <1>2. \A u \in Threads : /\ task'[u].s = task[u].s
                           /\ task'[u].pc = IF u = t THEN pc ELSE task[u].pc
    BY <1>1 DEF Tasks, Idle
  <1>3. \A r \in Sessions : Accepting(r)' <=> Accepting(r)
    BY <1>2 DEF Accepting
  <1> QED BY <1>3, HiddenStep

(* The server implements the abstract service.                             *)
THEOREM ServerImplementsService == Spec => ImplementsService
  <1>1. IInv /\ [Next]_vars => [Service!Next]_Service!vars
    <2> SUFFICES ASSUME IInv, [Next]_vars
                 PROVE  Service!Next \/ UNCHANGED Service!vars
      OBVIOUS
    <2>1. CASE CreateRouter \/ Signal
      <3>1. \A s \in Sessions : Accepting(s)' <=> Accepting(s)
        BY <2>1 DEF CreateRouter, Signal, Accepting
      <3>2. /\ live' = live /\ sess' = sess
            /\ proc' = "running" <=> proc = "running"
        BY <2>1 DEF CreateRouter, Signal
      <3> QED BY <3>1, <3>2, HiddenStep
    <2>2. CASE Run
      BY <2>2, ServiceRun
    <2>3. ASSUME NEW s \in Sessions, Peers(s) \/ Socket(s)
          PROVE  UNCHANGED Service!vars
      BY <2>3, ServicePeers, ServiceSocket
    <2>4. ASSUME NEW t \in Threads, SignalHandler(t) \/ CloseThrows(t)
          PROVE  Service!Next
      BY <2>4, ServiceStop DEF SignalHandler, CloseThrows
    <2>5. ASSUME NEW t \in Threads, Hang(t) PROVE UNCHANGED Service!vars
      BY <2>5, ServiceRoute DEF Hang
    <2>6. ASSUME NEW t \in Threads, HandleRead(t)
          PROVE  Service!Next \/ UNCHANGED Service!vars
      <3>1. /\ proc = "running" /\ task[t].pc = "read" /\ UNCHANGED <<proc, live>>
        BY <2>6 DEF HandleRead
      <3>2. CASE task' = [task EXCEPT ![t].pc = "route"] /\ UNCHANGED <<io, sess>>
        BY <3>1, <3>2, ServiceRoute
      <3>3. CASE HandleInvalidRequest(task[t].s) /\ Return(t)
        BY <3>1, <3>3, ServiceAnswer DEF HandleInvalidRequest
      <3>4. CASE HandleError(task[t].s) /\ Return(t)
        BY <3>1, <3>4, ServiceAnswer DEF HandleError
      <3> QED BY <2>6, <3>2, <3>3, <3>4 DEF HandleRead
    <2>7. ASSUME NEW t \in Threads, HandleValidRequest(t) PROVE Service!Next
      <3>1. /\ proc = "running" /\ task[t].pc = "route" /\ UNCHANGED <<proc, live>>
            /\ Return(t)
        BY <2>7 DEF HandleValidRequest
      <3>2. PICK reply, k : Write(task[t].s, reply, k)
        BY <2>7 DEF HandleValidRequest, HandleError
      <3> QED BY <3>1, <3>2, ServiceAnswer
    <2>8. ASSUME NEW t \in Threads, NEW c \in io, Dispatch(t, c)
          PROVE  UNCHANGED Service!vars
      <3>1. \A s \in Sessions : Accepting(s)' <=> Accepting(s)
        BY <2>8, DispatchAccepting
      <3> QED BY <2>8, <3>1, HiddenStep DEF Dispatch
    <2>9. CASE UNCHANGED vars
      <3>1. \A s \in Sessions : Accepting(s)' <=> Accepting(s)
        BY <2>9 DEF vars, Accepting
      <3> QED BY <2>9, <3>1, HiddenStep DEF vars
    <2> QED BY <2>1, <2>2, <2>3, <2>4, <2>5, <2>6, <2>7, <2>8, <2>9,
               ServiceHandleAccept, ServiceRelease DEF Next, Handler
  <1> QED BY <1>1, ServiceInit, Invariance, PTL
           DEF Spec, ImplementsService, Service!Spec

-----------------------------------------------------------------------------
(* A session object that is free, or that waits for a connection it has    *)
(* not been given, has no peer.                                            *)
NoPeerYet ==
  /\ \A s \in Sessions \ live : peer[s].st = "none"
  /\ \A c \in io : c.kind = "accept" /\ c.st # "ok" => peer[c.s].st = "none"
  /\ \A t \in Threads : task[t].pc = "accept" /\ task[t].st # "ok"
                          => peer[task[t].s].st = "none"

(* What most steps do to it: no peer appears, and an accept that has not   *)
(* succeeded was there before or waits on an object without a peer.        *)
LEMMA NoPeerFrame ==
  ASSUME IInv, NoPeerYet, TypeOK',
         \A s \in Sessions : peer[s].st = "none" => peer'[s].st = "none",
         \A s \in Sessions \ live' : s \notin live \/ peer'[s].st = "none",
         \A c \in io' : c.kind = "accept" /\ c.st # "ok"
                          => c \in io \/ peer[c.s].st = "none",
         \A t \in Threads : task'[t].pc = "accept" /\ task'[t].st # "ok"
                          => \/ task'[t] = task[t]
                             \/ peer[task'[t].s].st = "none"
  PROVE  NoPeerYet'
  <1>1. \A c \in io' : c.s \in Sessions
    BY DEF TypeOK, Ops
  <1>2. \A t \in Threads : task'[t].pc = "accept" => task'[t].s \in Sessions
    BY DEF TypeOK, Tasks, Idle
  <1>3. \A s \in Sessions \ live' : peer'[s].st = "none"
    BY DEF NoPeerYet
  <1>4. \A c \in io' : c.kind = "accept" /\ c.st # "ok" => peer'[c.s].st = "none"
    BY <1>1 DEF NoPeerYet
  <1>5. \A t \in Threads : task'[t].pc = "accept" /\ task'[t].st # "ok"
                             => peer'[task'[t].s].st = "none"
    BY <1>2 DEF NoPeerYet
  <1> QED BY <1>3, <1>4, <1>5 DEF NoPeerYet

(* Every step preserves it.  The accept that brings a peer is the only     *)
(* operation of its session.                                               *)
LEMMA NoPeerStep == IInv /\ NoPeerYet /\ [Next]_vars => NoPeerYet'
  <1> USE ServerAssumption
  <1> SUFFICES ASSUME IInv, NoPeerYet, [Next]_vars PROVE NoPeerYet'
    OBVIOUS
  <1>1. TypeOK /\ TypeOK'
    BY NextIInv DEF IInv
  <1>2. CASE CreateRouter \/ Signal \/ UNCHANGED vars
    BY <1>1, <1>2, NoPeerFrame DEF CreateRouter, Signal, vars
  <1>3. CASE Run
    <2>1. PICK n \in Sessions \ live :
            live \subseteq live' /\ io' \subseteq io \cup {Op("accept", n, "pending")}
      BY <1>3 DEF Run, StartAccept
    <2>2. peer[n].st = "none" /\ Op("accept", n, "pending").s = n
      BY DEF NoPeerYet, Op
    <2> QED BY <1>1, <1>3, <2>1, <2>2, NoPeerFrame DEF Run
  <1>4. ASSUME NEW s \in Sessions, Connect(s) PROVE NoPeerYet'
    <2> DEFINE c == Op("accept", s, "pending")
    <2>1. c \in io /\ c.s = s /\ c.kind = "accept" /\ s \in live
      BY <1>4 DEF Connect, Op, IInv, NoDangling
    <2>2. PICK d : d = [c EXCEPT !.st = "ok"]
      OBVIOUS
    <2>3. d.st = "ok" /\ io' = (io \ {c}) \cup {d}
      BY <1>4, <2>2 DEF Connect, Complete, Op
    <2>4. \A r \in Sessions : r # s => peer'[r] = peer[r]
      BY <1>1, <1>4 DEF Connect, TypeOK
    <2>5. \A e \in io : e # c => e.s # s
      BY <2>1 DEF IInv, NoRace
    <2>6. \A t \in Threads : task[t].s # s
      BY <2>1 DEF IInv, NoRace
    <2>7. live' = live /\ task' = task
      BY <1>4 DEF Connect
    <2>8. \A e \in io : e.s \in Sessions
      BY <1>1 DEF TypeOK, Ops
    <2>9. \A t \in Threads : task[t].pc = "accept" => task[t].s \in Sessions
      BY <1>1 DEF TypeOK, Tasks, Idle
    <2> HIDE DEF c
    <2>10. \A r \in Sessions \ live' : peer'[r].st = "none"
      BY <2>1, <2>4, <2>7 DEF NoPeerYet
    <2>11. \A e \in io' : e.kind = "accept" /\ e.st # "ok" => peer'[e.s].st = "none"
      BY <2>3, <2>4, <2>5, <2>8 DEF NoPeerYet
    <2>12. \A t \in Threads : task'[t].pc = "accept" /\ task'[t].st # "ok"
                                => peer'[task'[t].s].st = "none"
      BY <2>4, <2>6, <2>7, <2>9 DEF NoPeerYet
    <2> QED BY <2>10, <2>11, <2>12 DEF NoPeerYet
  <1>5. ASSUME NEW c \in io, NEW st \in {"ok", "err"}, Complete(c, st),
               c.st = "pending", UNCHANGED <<live, task, peer>>
        PROVE  NoPeerYet'
    <2>1. PICK d : d = [c EXCEPT !.st = st]
      OBVIOUS
    <2>2. d.s = c.s /\ d.kind = c.kind
      BY <1>1, <2>1 DEF TypeOK, Ops
    <2>3. io' = (io \ {c}) \cup {d}
      BY <1>5, <2>1 DEF Complete
    <2>4. \A e \in io' : e.kind = "accept" /\ e.st # "ok"
                           => e \in io \/ peer[e.s].st = "none"
      BY <1>5, <2>2, <2>3 DEF NoPeerYet
    <2> QED BY <1>1, <1>5, <2>4, NoPeerFrame
  <1>6. ASSUME NEW s \in Sessions, Peers(s) \/ Socket(s) PROVE NoPeerYet'
    <2>0. \A k \in Kinds : Op(k, s, "pending").st = "pending"
      BY DEF Op
    <2>1. CASE AcceptFails(s)
      BY <1>5, <2>0, <2>1 DEF AcceptFails, Kinds
    <2>2. CASE ReadSome(s) \/ ReadFails(s) \/ WriteFails(s)
      BY <1>5, <2>0, <2>2 DEF ReadSome, ReadFails, WriteFails, Kinds
    <2>3. CASE WriteSome(s)
      <3>1. CASE UNCHANGED io
        BY <1>1, <2>3, <3>1, NoPeerFrame DEF WriteSome
      <3>2. CASE Complete(Op("write", s, "pending"), "ok")
        BY <1>5, <2>0, <2>3, <3>2 DEF WriteSome, Kinds
      <3> QED BY <2>3, <3>1, <3>2 DEF WriteSome
    <2>4. CASE Send(s) \/ Leave(s, "eof") \/ Leave(s, "reset")
      <3>1. \A r \in Sessions : peer[r].st = "none" => peer'[r].st = "none"
        BY <1>1, <2>4 DEF Send, Leave, TypeOK
      <3>2. UNCHANGED <<live, io, task>>
        BY <2>4 DEF Send, Leave
      <3> QED BY <1>1, <3>1, <3>2, NoPeerFrame
    <2> QED BY <1>4, <1>6, <2>1, <2>2, <2>3, <2>4 DEF Peers, Socket
  <1>7. ASSUME NEW t \in Threads, Return(t)
        PROVE  \A u \in Threads : task'[u].pc = "accept" => task'[u] = task[u]
    BY <1>1, <1>7 DEF Return, TypeOK, Idle
  <1>8. ASSUME NEW t \in Threads, HandleAccept(t) PROVE NoPeerYet'
    <2> DEFINE s == task[t].s
    <2>0. UNCHANGED peer
      BY <1>8 DEF HandleAccept
    <2>1. PICK n \in Sessions :
            \/ /\ task[t].st = "ok"
               /\ StartAccept(live, io \cup {Op("read", s, "pending")}, n)
            \/ /\ task[t].st = "err"
               /\ StartAccept(live \ {s}, io, n)
      BY <1>8 DEF HandleAccept
    <2>2. /\ Op("accept", n, "pending").s = n
          /\ Op("read", s, "pending").kind = "read"
      BY DEF Op
    <2>3. CASE task[t].st = "ok" /\ StartAccept(live, io \cup {Op("read", s, "pending")}, n)
      <3>1. /\ n \notin live /\ live \subseteq live'
            /\ io' \subseteq io \cup {Op("read", s, "pending"), Op("accept", n, "pending")}
        BY <2>3 DEF StartAccept
      <3>2. peer[n].st = "none"
        BY <3>1 DEF NoPeerYet
      <3> QED BY <1>1, <1>7, <1>8, <2>0, <2>2, <3>1, <3>2, NoPeerFrame DEF HandleAccept
    <2>4. CASE task[t].st = "err" /\ StartAccept(live \ {s}, io, n)
      <3>1. peer[s].st = "none"
        BY <1>8, <2>4 DEF HandleAccept, NoPeerYet
      <3>2. /\ n \notin live \ {s} /\ live \ {s} \subseteq live'
            /\ io' \subseteq io \cup {Op("accept", n, "pending")}
        BY <2>4 DEF StartAccept
      <3>3. peer[n].st = "none"
        BY <3>1, <3>2 DEF NoPeerYet
      <3> QED BY <1>1, <1>7, <1>8, <2>0, <2>2, <3>1, <3>2, <3>3, NoPeerFrame DEF HandleAccept
    <2> QED BY <2>1, <2>3, <2>4
  <1>9. ASSUME NEW t \in Threads, NEW reply, NEW k, Write(task[t].s, reply, k), Return(t),
               UNCHANGED <<live, peer>>
        PROVE  NoPeerYet'
    <2>1. PICK d : d.kind = "write" /\ io' = io \cup {d}
      <3>1. PICK st : io' = io \cup {Op("write", task[t].s, st)}
        BY <1>9 DEF Write
      <3>2. Op("write", task[t].s, st).kind = "write"
        BY DEF Op
      <3> QED BY <3>1, <3>2
    <2> QED BY <1>1, <1>7, <1>9, <2>1, NoPeerFrame
  <1>10. ASSUME NEW t \in Threads, NEW pc \in {"route", "hung"},
                task' = [task EXCEPT ![t].pc = pc], UNCHANGED <<live, io, peer>>,
                task[t].pc \in {"read", "route"}
         PROVE  NoPeerYet'
    <2>1. task'[t].pc = pc /\ \A u \in Threads : u # t => task'[u] = task[u]
      BY <1>1, <1>10 DEF TypeOK, Tasks, Idle
    <2> QED BY <1>1, <1>10, <2>1, NoPeerFrame
  <1>11. ASSUME NEW t \in Threads, HandleRead(t) PROVE NoPeerYet'
    <2>1. CASE task' = [task EXCEPT ![t].pc = "route"] /\ UNCHANGED <<io, sess>>
      BY <1>10, <1>11, <2>1 DEF HandleRead
    <2>2. CASE (HandleInvalidRequest(task[t].s) \/ HandleError(task[t].s)) /\ Return(t)
      BY <1>9, <1>11, <2>2 DEF HandleRead, HandleInvalidRequest, HandleError
    <2> QED BY <1>11, <2>1, <2>2 DEF HandleRead
  <1>12. ASSUME NEW t \in Threads, HandleValidRequest(t) PROVE NoPeerYet'
    <2>1. PICK reply, k : Write(task[t].s, reply, k)
      BY <1>12 DEF HandleValidRequest, HandleError
    <2> QED BY <1>9, <1>12, <2>1 DEF HandleValidRequest
  <1>13. ASSUME NEW t \in Threads, HandleWrite(t) PROVE NoPeerYet'
    <2>1. /\ live' = live \ {task[t].s} /\ peer' = [peer EXCEPT ![task[t].s] = NoPeer]
          /\ Return(t) /\ io' = io
      BY <1>13 DEF HandleWrite, Delete
    <2>2. \A r \in Sessions : peer'[r] = IF r = task[t].s THEN NoPeer ELSE peer[r]
      BY <1>1, <2>1 DEF TypeOK
    <2>3. NoPeer.st = "none"
      BY DEF NoPeer
    <2> QED BY <1>1, <1>7, <2>1, <2>2, <2>3, NoPeerFrame
  <1>14. ASSUME NEW t \in Threads, Hang(t) PROVE NoPeerYet'
    BY <1>10, <1>14 DEF Hang
  <1>15. ASSUME NEW t \in Threads, SignalHandler(t) \/ CloseThrows(t) PROVE NoPeerYet'
    BY <1>1, <1>15, NoPeerFrame DEF SignalHandler, CloseThrows
  <1>16. ASSUME NEW t \in Threads, NEW c \in io, Dispatch(t, c) PROVE NoPeerYet'
    <2>1. PICK h : h = [pc |-> c.kind, s |-> c.s, st |-> c.st]
      OBVIOUS
    <2>2. h.pc = c.kind /\ h.s = c.s /\ h.st = c.st
      BY <2>1
    <2>3. \A u \in Threads : task'[u] = IF u = t THEN h ELSE task[u]
      BY <1>1, <1>16, <2>1 DEF Dispatch, TypeOK
    <2>4. h.pc = "accept" /\ h.st # "ok" => peer[h.s].st = "none"
      BY <2>2 DEF NoPeerYet
    <2>5. io' \subseteq io /\ UNCHANGED <<live, peer>>
      BY <1>16 DEF Dispatch
    <2> QED BY <1>1, <2>3, <2>4, <2>5, NoPeerFrame
  <1> QED BY <1>2, <1>3, <1>6, <1>8, <1>11, <1>12, <1>13, <1>14, <1>15, <1>16
           DEF Next, Handler

(* Two invariants, one of the objects and one of their peers.              *)
LEMMA PeerInvariance == Spec => []NoPeerYet
  <1>1. Init => NoPeerYet
    <2> SUFFICES ASSUME Init PROVE NoPeerYet
      OBVIOUS
    <2>1. \A s \in Sessions : peer[s].st = "none"
      BY DEF Init, NoPeer
    <2>2. io = {} /\ \A t \in Threads : task[t].pc = "idle"
      BY DEF Init, Idle
    <2> QED BY <2>1, <2>2 DEF NoPeerYet
  <1> QED BY <1>1, NoPeerStep, Invariance, PTL DEF Spec

(* handle_accept frees an object nobody connected to, handle_write one     *)
(* whose response was started; nothing else frees a session.               *)
THEOREM FreedOnlyAfterReply == Spec => AnsweredBeforeFreed
  <1>1. IInv /\ NoPeerYet /\ [Next]_vars
          => [\A s \in live \ live' : peer[s].st = "none" \/ sess[s].writes = 1]_vars
    <2> USE ServerAssumption
    <2> SUFFICES ASSUME IInv, NoPeerYet, Next, NEW s \in live \ live'
                 PROVE  peer[s].st = "none" \/ sess[s].writes = 1
      BY DEF vars
    <2>1. CASE CreateRouter \/ Signal
      BY <2>1 DEF CreateRouter, Signal
    <2>2. CASE Run
      BY <2>2 DEF Run, StartAccept
    <2>3. ASSUME NEW r \in Sessions, Peers(r) \/ Socket(r) PROVE FALSE
      BY <2>3 DEF Peers, Socket, Connect, AcceptFails, Send, Leave, ReadSome, ReadFails,
                  WriteSome, WriteFails
    <2>4. ASSUME NEW t \in Threads, SignalHandler(t) \/ Hang(t) \/ HandleRead(t)
                   \/ HandleValidRequest(t) \/ CloseThrows(t) \/ \E c \in io : Dispatch(t, c)
          PROVE  FALSE
      BY <2>4 DEF SignalHandler, Hang, HandleRead, HandleValidRequest, CloseThrows, Dispatch
    <2>5. ASSUME NEW t \in Threads, HandleAccept(t) PROVE peer[s].st = "none"
      <3>1. task[t].st = "err" /\ s = task[t].s
        BY <2>5 DEF HandleAccept, StartAccept
      <3> QED BY <2>5, <3>1 DEF HandleAccept, NoPeerYet
    <2>6. ASSUME NEW t \in Threads, HandleWrite(t) PROVE sess[s].writes = 1
      <3>1. s = task[t].s /\ task[t].pc = "write" /\ s \in Sessions
        BY <2>6 DEF HandleWrite, Delete, IInv, TypeOK
      <3>2. Writing(s)
        BY <3>1 DEF Writing
      <3> QED BY <3>1, <3>2 DEF IInv, OneReply
    <2> QED BY <2>1, <2>2, <2>3, <2>4, <2>5, <2>6 DEF Next, Handler
  <1> QED BY <1>1, Invariance, PeerInvariance, PTL DEF Spec, AnsweredBeforeFreed

=============================================================================
