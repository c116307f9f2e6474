---------------------------- MODULE ServerProofs ----------------------------
(***************************************************************************)
(* Proofs about module Server, for every set of sessions and threads, every *)
(* set of requests and every bound.                                        *)
(*                                                                         *)
(* The safety invariants of Server rest on each other: a completion may be  *)
(* run because its session is alive (NoDangling), it is alive because no    *)
(* other handler could have deleted it (NoRace), and so on.  They are       *)
(* inductive together, with the two facts below, and are proved as one      *)
(* invariant, IInv.                                                        *)
(***************************************************************************)
EXTENDS Server, TLAPS

(* Nothing is allocated or outstanding before start_accept, which finds a   *)
(* router.                                                                 *)
Quiet ==
  /\ proc = "boot" \/ proc = "routed" =>
       live = {} /\ io = {} /\ task = [t \in Threads |-> Idle]
  /\ proc = "routed" \/ proc = "running" => router

(* A write that is still pending has chunks left.                           *)
PendingLeft ==
  \A s \in Sessions : Op("write", s, "pending") \in io => sess[s].left >= 1

IInv ==
  /\ TypeOK
  /\ Quiet
  /\ PendingLeft
  /\ NoDangling
  /\ NoRace
  /\ NoLeak
  /\ AcceptLoop
  /\ OneReply

-----------------------------------------------------------------------------
(* Initially nothing is allocated.                                          *)
LEMMA InitIInv == Init => IInv
  <1> USE ServerAssumption
  <1> SUFFICES ASSUME Init PROVE IInv
    OBVIOUS
  <1>1. TypeOK
    BY DEF Init, TypeOK, Procs, Tasks, Idle, NoPeer, NoRequest, NewSess, Replies
  <1>2. \A t \in Threads : task[t] = Idle
    BY DEF Init
  <1>3. Quiet /\ PendingLeft /\ NoDangling /\ NoRace /\ NoLeak
    BY <1>2 DEF Init, Quiet, PendingLeft, NoDangling, NoRace, NoLeak, Busy, Idle
  <1>4. \A s \in Sessions : ~Accepting(s) /\ ~Writing(s)
    BY <1>2 DEF Init, Accepting, Writing, Idle
  <1>5. AcceptLoop /\ OneReply
    BY <1>4 DEF Init, AcceptLoop, OneReply, NewSess
  <1> QED BY <1>1, <1>3, <1>5 DEF IInv

-----------------------------------------------------------------------------
(* Type correctness of a step.  WriteSome decrements a counter, which is    *)
(* why the step needs PendingLeft.                                          *)
LEMMA TypeStep == TypeOK /\ PendingLeft /\ Next => TypeOK'
  <1> USE ServerAssumption DEF TypeOK
  <1> SUFFICES ASSUME TypeOK, PendingLeft, Next PROVE TypeOK'
    OBVIOUS
  <1> DEFINE SessRec == [got : Nat, writes : Nat, reply : Replies,
                         left : Nat, intact : BOOLEAN]
  <1>a. ASSUME NEW s \in Sessions, NEW reply \in Replies, NEW k \in Nat \ {0},
               Write(s, reply, k)
        PROVE  io' \subseteq Ops /\ sess' \in [Sessions -> SessRec]
    <2>1. io' \subseteq Ops
      BY <1>a DEF Write, Op, Ops, Kinds
    <2>2. sess[s].writes + 1 \in Nat
      OBVIOUS
    <2>3. PICK m \in Nat : m = IF peer[s].st = "reset" THEN k ELSE k - 1
      OBVIOUS
    <2>4. [sess[s] EXCEPT !.writes = @ + 1, !.reply = reply, !.left = m]
            \in SessRec
      <3>1. sess[s] \in SessRec
        OBVIOUS
      <3> HIDE DEF TypeOK
      <3> QED BY <2>2, <3>1
    <2>5. sess' = [sess EXCEPT ![s] =
            [sess[s] EXCEPT !.writes = @ + 1, !.reply = reply, !.left = m]]
      BY <1>a, <2>3 DEF Write
    <2> QED BY <2>1, <2>4, <2>5
  <1>b. ASSUME NEW l \in SUBSET Sessions, NEW o \in SUBSET Ops,
               NEW n \in Sessions, StartAccept(l, o, n)
        PROVE  live' \subseteq Sessions /\ io' \subseteq Ops
                 /\ isRunning' \in BOOLEAN
    BY <1>b DEF StartAccept, Op, Ops, Kinds
  <1>c. ASSUME NEW c \in io, NEW st \in {"ok", "err"}, Complete(c, st)
        PROVE  io' \subseteq Ops
    BY <1>c DEF Complete, Ops
  <1>d. ASSUME NEW t \in Threads, Return(t) PROVE task' \in [Threads -> Tasks]
    BY <1>d DEF Return, Tasks
  <1>e. ASSUME NEW t \in Threads, task[t].pc # "idle"
        PROVE  /\ task[t].s \in Sessions
               /\ task[t].st \in {"ok", "err"}
               /\ \A pc \in {"route", "hung"} :
                    [task EXCEPT ![t].pc = pc] \in [Threads -> Tasks]
    BY <1>e DEF Tasks, Idle
  <1>1. CASE CreateRouter
    BY <1>1 DEF CreateRouter, Procs
  <1>2. CASE Run
    BY <1>2, <1>b DEF Run, Procs
  <1>3. CASE Signal
    BY <1>3 DEF Signal
  <1>4. ASSUME NEW s \in Sessions, Peers(s) PROVE TypeOK'
    <2>1. CASE Connect(s)
      BY <2>1, <1>c DEF Connect
    <2>2. CASE AcceptFails(s)
      BY <2>2, <1>c DEF AcceptFails
    <2>3. CASE Send(s)
      <3>0. peer[s].req \in Requests \cup {NoRequest}
        OBVIOUS
      <3>1. peer[s].sent \in Nat /\ peer[s].req.size \in Nat
        BY <3>0 DEF NoRequest
      <3>2. PICK n \in (peer[s].sent + 1) .. peer[s].req.size :
              peer' = [peer EXCEPT ![s].sent = n]
        BY <2>3 DEF Send
      <3>3. n \in Nat
        BY <3>1
      <3> QED BY <2>3, <3>2, <3>3 DEF Send
    <2>4. ASSUME NEW st \in {"eof", "reset"}, Leave(s, st) PROVE TypeOK'
      BY <2>4 DEF Leave
    <2> QED BY <1>4, <2>1, <2>2, <2>3, <2>4 DEF Peers
  <1>5. ASSUME NEW s \in Sessions, Socket(s) PROVE TypeOK'
    <2>1. CASE ReadSome(s)
      BY <2>1, <1>c DEF ReadSome
    <2>2. CASE ReadFails(s)
      BY <2>2, <1>c DEF ReadFails
    <2>3. CASE WriteSome(s)
      <3>1. io' \subseteq Ops
        BY <2>3, <1>c DEF WriteSome
      <3>2. sess[s].left - 1 \in Nat
        BY <2>3 DEF WriteSome, PendingLeft
      <3>3. PICK own \in BOOLEAN :
              sess' = [sess EXCEPT ![s].left = @ - 1, ![s].intact = @ /\ own]
        BY <2>3 DEF WriteSome
      <3>4. [sess[s] EXCEPT !.left = @ - 1, !.intact = @ /\ own] \in SessRec
        BY <3>2
      <3>5. sess' = [sess EXCEPT ![s] =
              [sess[s] EXCEPT !.left = @ - 1, !.intact = @ /\ own]]
        BY <3>3
      <3>6. sess' \in [Sessions -> SessRec]
        BY <3>4, <3>5
      <3> QED BY <2>3, <3>1, <3>6 DEF WriteSome
    <2>4. CASE WriteFails(s)
      BY <2>4, <1>c DEF WriteFails
    <2> QED BY <1>5, <2>1, <2>2, <2>3, <2>4 DEF Socket
  <1>6. ASSUME NEW t \in Threads, Handler(t) PROVE TypeOK'
    <2>1. CASE HandleAccept(t)
      <3>1. task[t].s \in Sessions
        BY <2>1, <1>e DEF HandleAccept
      <3>2. io \cup {Op("read", task[t].s, "pending")} \subseteq Ops
        BY <3>1 DEF Op, Ops, Kinds
      <3>3. live' \subseteq Sessions /\ io' \subseteq Ops /\ isRunning' \in BOOLEAN
        BY <2>1, <3>2, <1>b DEF HandleAccept
      <3> QED BY <2>1, <3>3, <1>d DEF HandleAccept
    <2>2. CASE HandleRead(t)
      <3>1. task[t].s \in Sessions
        BY <2>2, <1>e DEF HandleRead
      <3>2. task' \in [Threads -> Tasks]
        BY <2>2, <1>d, <1>e DEF HandleRead
      <3>3. "bad_request" \in Replies /\ "server_error" \in Replies
        BY DEF Replies
      <3> QED BY <2>2, <3>1, <3>2, <3>3, <1>a DEF HandleRead, HandleError, HandleInvalidRequest
    <2>3. CASE HandleValidRequest(t)
      <3>1. task[t].s \in Sessions
        BY <2>3, <1>e DEF HandleValidRequest
      <3>2. "routed" \in Replies /\ "server_error" \in Replies
        BY DEF Replies
      <3> QED BY <2>3, <3>1, <3>2, <1>a, <1>d DEF HandleValidRequest, HandleError
    <2>4. CASE HandleWrite(t)
      <3>1. NoPeer \in [st   : {"none", "open", "eof", "reset"},
                        req  : Requests \cup {NoRequest},
                        sent : Nat]
        BY DEF NoPeer
      <3>2. NewSess \in [got : Nat, writes : Nat, reply : Replies,
                         left : Nat, intact : BOOLEAN]
        BY DEF NewSess, Replies
      <3> QED BY <2>4, <3>1, <3>2, <1>d DEF HandleWrite, Delete
    <2>5. CASE CloseThrows(t)
      BY <2>5 DEF CloseThrows, Procs
    <2> QED BY <1>6, <2>1, <2>2, <2>3, <2>4, <2>5 DEF Handler
  <1>7. ASSUME NEW t \in Threads, SignalHandler(t) PROVE TypeOK'
    BY <1>7 DEF SignalHandler, Procs
  <1>8. ASSUME NEW t \in Threads, Hang(t) PROVE TypeOK'
    BY <1>8, <1>e DEF Hang
  <1>9. ASSUME NEW t \in Threads, NEW c \in io, Dispatch(t, c) PROVE TypeOK'
    BY <1>9 DEF Dispatch, Tasks, Ops, Kinds
  <1> QED BY <1>1, <1>2, <1>3, <1>4, <1>5, <1>6, <1>7, <1>8, <1>9 DEF Next

-----------------------------------------------------------------------------
(* The part of IInv that is not the type invariant.                        *)
Safe ==
  /\ Quiet
  /\ PendingLeft
  /\ NoDangling
  /\ NoRace
  /\ NoLeak
  /\ AcceptLoop
  /\ OneReply

(* A step that leaves the sessions, their operations and the handlers      *)
(* alone preserves it.                                                     *)
LEMMA FrameStep ==
  ASSUME IInv, UNCHANGED <<router, live, io, task, sess>>,
         proc' = proc \/ proc' \in {"exited", "aborted"}
  PROVE  Safe'
  <1>1. \A s \in Sessions : Accepting(s)' = Accepting(s) /\ Writing(s)' = Writing(s)
    BY DEF Accepting, Writing
  <1>2. Quiet' /\ PendingLeft' /\ NoDangling' /\ NoRace' /\ NoLeak'
    BY DEF IInv, Quiet, PendingLeft, NoDangling, NoRace, NoLeak, Busy, Op
  <1>3. AcceptLoop' /\ OneReply'
    BY <1>1 DEF IInv, AcceptLoop, OneReply
  <1> QED BY <1>2, <1>3 DEF Safe

(* So does the completion of a pending operation: the operation keeps its  *)
(* kind and its session.                                                   *)
LEMMA CompleteStep ==
  ASSUME IInv, TypeOK', proc = "running",
         UNCHANGED <<proc, router, live, task>>,
         NEW c \in io, NEW st \in {"ok", "err"}, Complete(c, st),
         \A s \in Sessions : /\ sess'[s].writes = sess[s].writes
                             /\ s # c.s => sess'[s].left = sess[s].left
  PROVE  Safe'
  <1> DEFINE d == [c EXCEPT !.st = st]
  <1>1. io' = (io \ {c}) \cup {d}
    BY DEF Complete
  <1>2. c \in Ops /\ io \subseteq Ops
    BY DEF IInv, TypeOK
  <1>3. d.kind = c.kind /\ d.s = c.s /\ d.st = st
    BY <1>2 DEF Ops
  <1> HIDE DEF d
  <1>4. \A s \in Sessions : Accepting(s)' = Accepting(s) /\ Writing(s)' = Writing(s)
    BY <1>1, <1>3 DEF Accepting, Writing
  <1>5. NoDangling' /\ NoLeak'
    BY <1>1, <1>3 DEF IInv, NoDangling, NoLeak, Busy
  <1>6. NoRace'
    BY <1>1, <1>3 DEF IInv, NoRace, Busy
  <1>7. AcceptLoop' /\ OneReply'
    BY <1>4 DEF IInv, AcceptLoop, OneReply
  <1>8. PendingLeft'
    <2> SUFFICES ASSUME NEW s \in Sessions, Op("write", s, "pending") \in io'
                 PROVE  sess'[s].left >= 1
      BY DEF PendingLeft, Op
    <2> DEFINE e == Op("write", s, "pending")
    <2>1. e.s = s /\ e.st = "pending"
      BY DEF Op
    <2>2. e # d
      BY <2>1, <1>3
    <2>3. e \in io /\ e # c
      BY <1>1, <2>2
    <2>4. s # c.s
      BY <2>1, <2>3 DEF IInv, NoRace
    <2> QED BY <2>3, <2>4 DEF IInv, PendingLeft
  <1>9. Quiet'
    BY DEF IInv, Quiet
  <1> QED BY <1>5, <1>6, <1>7, <1>8, <1>9 DEF Safe

(* Dispatching a completion turns it into the handler of the same session. *)
LEMMA DispatchStep ==
  ASSUME IInv, TypeOK', NEW t \in Threads, NEW c \in io, Dispatch(t, c)
  PROVE  Safe'
  <1> DEFINE h == [pc |-> c.kind, s |-> c.s, st |-> c.st]
  <1>1. c \in Ops /\ io \subseteq Ops
    BY DEF IInv, TypeOK
  <1>2. h.pc = c.kind /\ h.s = c.s /\ h.pc # "idle"
    BY <1>1 DEF Ops, Kinds
  <1>3. task \in [Threads -> Tasks] /\ ~Busy(t)
    BY DEF IInv, TypeOK, Dispatch
  <1>4. task[t].s \notin Sessions /\ task[t].pc = "idle"
    BY <1>3, ServerAssumption DEF Busy, Tasks, Idle
  <1>5. task'[t] = h /\ \A u \in Threads \ {t} : task'[u] = task[u]
    BY <1>3 DEF Dispatch
  <1> HIDE DEF h
  <1>6. io' = io \ {c} /\ UNCHANGED <<proc, router, live, sess>>
    BY DEF Dispatch
  <1>7. c.s \in Sessions
    BY <1>1 DEF Ops
  <1>8. \A s \in Sessions : Accepting(s)' = Accepting(s) /\ Writing(s)' = Writing(s)
    <2> TAKE s \in Sessions
    <2>1. \A k \in {"accept", "write"} :
            (\E d \in io' : d.s = s /\ d.kind = k)
               \/ (\E u \in Threads : task'[u].s = s /\ task'[u].pc = k)
            <=> (\E d \in io : d.s = s /\ d.kind = k)
               \/ (\E u \in Threads : task[u].s = s /\ task[u].pc = k)
      BY <1>2, <1>4, <1>5, <1>6
    <2> QED BY <2>1 DEF Accepting, Writing
  <1>9. NoDangling' /\ NoLeak'
    <2>1. NoDangling'
      BY <1>2, <1>5, <1>6 DEF IInv, NoDangling, Busy
    <2>2. live \subseteq Sessions
      BY DEF IInv, TypeOK
    <2>3. NoLeak'
      BY <1>2, <1>4, <1>5, <1>6, <2>2 DEF IInv, NoLeak
    <2> QED BY <2>1, <2>3
  <1>10. NoRace'
    BY <1>2, <1>4, <1>5, <1>6, <1>7 DEF IInv, NoRace, Busy
  <1>11. AcceptLoop' /\ OneReply'
    BY <1>6, <1>8 DEF IInv, AcceptLoop, OneReply
  <1>12. PendingLeft'
    BY <1>6 DEF IInv, PendingLeft, Op
  <1>13. Quiet'
    BY <1>6 DEF IInv, Quiet, Dispatch
  <1> QED BY <1>9, <1>10, <1>11, <1>12, <1>13 DEF Safe

(* A handler that goes on to the router, or hangs there, keeps its session *)
(* as it is.                                                               *)
LEMMA RouteStep ==
  ASSUME IInv, TypeOK', NEW t \in Threads, NEW pc \in {"route", "hung"},
         task[t].pc \in {"read", "route"}, proc = "running",
         task' = [task EXCEPT ![t].pc = pc],
         UNCHANGED <<proc, router, live, io, sess>>
  PROVE  Safe'
  <1>1. task \in [Threads -> Tasks]
    BY DEF IInv, TypeOK
  <1>2. task'[t].pc = pc /\ task'[t].s = task[t].s
    BY <1>1 DEF Tasks, Idle
  <1>3. \A u \in Threads : u # t => task'[u] = task[u]
    BY <1>1
  <1>4. \A s \in Sessions : Accepting(s)' = Accepting(s) /\ Writing(s)' = Writing(s)
    BY <1>2, <1>3 DEF Accepting, Writing
  <1>5. \A u \in Threads : task'[u].s = task[u].s /\ (Busy(u)' <=> Busy(u))
    BY <1>2, <1>3 DEF Busy
  <1>6. NoDangling' /\ NoRace' /\ NoLeak'
    BY <1>5 DEF IInv, NoDangling, NoRace, NoLeak
  <1>7. AcceptLoop' /\ OneReply' /\ PendingLeft' /\ Quiet'
    BY <1>4 DEF IInv, AcceptLoop, OneReply, PendingLeft, Quiet, Op
  <1> QED BY <1>6, <1>7 DEF Safe

(* A handler that writes hands its session over to the write.              *)
LEMMA WriteStep ==
  ASSUME IInv, TypeOK', NEW t \in Threads, task[t].pc \in {"read", "route"},
         proc = "running", NEW reply \in Replies, NEW k \in Nat \ {0},
         Write(task[t].s, reply, k), Return(t),
         UNCHANGED <<proc, router, live>>
  PROVE  Safe'
  <1>1. task \in [Threads -> Tasks] /\ io \subseteq Ops
    BY DEF IInv, TypeOK
  <1>8. PICK s \in Sessions : task[t].s = s
    BY <1>1 DEF Tasks, Idle
  <1>2. s \in Sessions /\ Busy(t)
    BY DEF Busy
  <1> DEFINE w == Op("write", s, IF peer[s].st = "reset" THEN "err"
                                 ELSE IF k = 1 THEN "ok" ELSE "pending")
  <1>3. w.kind = "write" /\ w.s = s
    BY DEF Op
  <1>4. w.st = "pending" => k > 1 /\ sess'[s].left = k - 1
    <2>1. w.st = "pending" => peer[s].st # "reset" /\ k # 1
      BY DEF Op
    <2>2. sess \in [Sessions -> [got : Nat, writes : Nat, reply : Replies,
                                 left : Nat, intact : BOOLEAN]]
      BY DEF IInv, TypeOK
    <2>3. peer[s].st # "reset" => sess'[s].left = k - 1
      BY <1>8, <2>2 DEF Write
    <2> QED BY <2>1, <2>3
  <1>5. io' = io \cup {w}
    BY <1>8 DEF Write
  <1> HIDE DEF w
  <1>6. /\ task'[t] = Idle
        /\ \A u \in Threads : u # t => task'[u] = task[u]
    BY <1>1 DEF Return
  <1>7. /\ sess'[s].writes = sess[s].writes + 1
        /\ \A r \in Sessions : r # s => sess'[r] = sess[r]
    BY <1>8 DEF Write, IInv, TypeOK
  <1>9. Idle.pc = "idle" /\ Idle.s \notin Sessions
    BY ServerAssumption DEF Idle
  <1>10. /\ \A c \in io : c.s # s
         /\ \A u \in Threads : u # t => task[u].s # s
    BY <1>2, <1>8 DEF IInv, NoRace
  <1>11. ~Accepting(s) /\ ~Writing(s)
    BY <1>8, <1>10 DEF Accepting, Writing
  <1>12. ~Accepting(s)' /\ Writing(s)'
    BY <1>2, <1>3, <1>5, <1>6, <1>9, <1>10 DEF Accepting, Writing
  <1>13. \A r \in Sessions : r # s =>
           Accepting(r)' = Accepting(r) /\ Writing(r)' = Writing(r)
    BY <1>3, <1>5, <1>6, <1>8, <1>9 DEF Accepting, Writing
  <1>14. NoDangling'
    BY <1>2, <1>3, <1>5, <1>6, <1>8, <1>9 DEF IInv, NoDangling, Busy
  <1>15. NoRace'
    <2>1. \A c, d \in io' : c.s = d.s => c = d
      BY <1>3, <1>5, <1>10 DEF IInv, NoRace
    <2>2. \A u \in Threads : task'[u].s # s /\ (u = t => ~Busy(u)')
      BY <1>2, <1>6, <1>9, <1>10 DEF Busy
    <2>3. \A u, v \in Threads : Busy(u)' /\ task'[u].s = task'[v].s => u = v
      <3> SUFFICES ASSUME NEW u \in Threads, NEW v \in Threads, Busy(u)',
                          task'[u].s = task'[v].s
                   PROVE  u = v
        OBVIOUS
      <3>1. u # t /\ task'[u] = task[u] /\ Busy(u)
        BY <2>2, <1>6 DEF Busy
      <3>2. task[u].s \in Sessions
        BY <3>1, <1>1 DEF Busy, Tasks, Idle
      <3>3. v # t /\ task'[v] = task[v]
        BY <3>1, <3>2, <1>6, <1>9
      <3> QED BY <3>1, <3>3 DEF IInv, NoRace
    <2>4. \A c \in io', u \in Threads : c.s # task'[u].s
      <3>1. \A c \in io : c.s \in Sessions
        BY <1>1 DEF Ops
      <3> QED BY <2>2, <3>1, <1>3, <1>5, <1>6, <1>9 DEF IInv, NoRace
    <2> QED BY <2>1, <2>3, <2>4 DEF NoRace
  <1>16. NoLeak'
    BY <1>3, <1>5, <1>6, <1>8 DEF IInv, NoLeak
  <1>17. AcceptLoop'
    BY <1>11, <1>12, <1>13 DEF IInv, AcceptLoop
  <1>18. OneReply'
    <2>1. sess[s].writes = 0
      <3>1. sess[s].writes \in Nat
        BY DEF IInv, TypeOK
      <3>2. sess[s].writes <= 1 /\ sess[s].writes # 1
        BY <1>11 DEF IInv, OneReply
      <3> QED BY <3>1, <3>2
    <2> QED BY <2>1, <1>7, <1>12, <1>13 DEF IInv, OneReply
  <1>19. PendingLeft'
    <2> SUFFICES ASSUME NEW r \in Sessions, Op("write", r, "pending") \in io'
                 PROVE  sess'[r].left >= 1
      BY DEF PendingLeft, Op
    <2> DEFINE e == Op("write", r, "pending")
    <2>1. e.s = r /\ e.st = "pending"
      BY DEF Op
    <2>2. CASE e = w
      BY <2>1, <2>2, <1>3, <1>4
    <2>3. CASE e # w
      BY <2>1, <2>3, <1>5, <1>7, <1>10 DEF IInv, PendingLeft
    <2> QED BY <2>2, <2>3
  <1>20. Quiet'
    BY DEF IInv, Quiet
  <1> QED BY <1>14, <1>15, <1>16, <1>17, <1>18, <1>19, <1>20 DEF Safe

(* handle_accept hands its session over to the read or frees it, and gives *)
(* a fresh one to the acceptor.                                            *)
LEMMA AcceptStep ==
  ASSUME IInv, TypeOK', NEW t \in Threads, HandleAccept(t)
  PROVE  Safe'
  <1>1. task \in [Threads -> Tasks] /\ io \subseteq Ops /\ live \subseteq Sessions
    BY DEF IInv, TypeOK
  <1>2. PICK s \in Sessions : task[t].s = s
    BY <1>1 DEF HandleAccept, Tasks, Idle
  <1>3. Busy(t) /\ task[t].pc = "accept" /\ proc = "running" /\ router
    BY DEF HandleAccept, Busy, IInv, Quiet
  <1>4. PICK n \in Sessions :
          \/ /\ task[t].st = "ok"
             /\ StartAccept(live, io \cup {Op("read", s, "pending")}, n)
          \/ /\ task[t].st = "err"
             /\ StartAccept(live \ {s}, io, n)
    BY <1>2 DEF HandleAccept
  <1> DEFINE a == Op("accept", n, "pending")
             r == Op("read", s, "pending")
  <1>5. /\ a.s = n /\ a.kind = "accept" /\ r.s = s /\ r.kind = "read"
        /\ a.st = "pending" /\ r.st = "pending"
    BY DEF Op
  <1>6. \/ /\ n \notin live
           /\ live' = live \cup {n}
           /\ io' = io \cup {r, a}
        \/ /\ n \notin live \ {s}
           /\ live' = (live \ {s}) \cup {n}
           /\ io' = io \cup {a}
    BY <1>3, <1>4 DEF StartAccept
  <1> HIDE DEF a, r
  <1>7. /\ task'[t] = Idle
        /\ \A u \in Threads : u # t => task'[u] = task[u]
        /\ UNCHANGED <<proc, router, sess>>
    BY <1>1 DEF HandleAccept, Return
  <1>8. Idle.pc = "idle" /\ Idle.s \notin Sessions
    BY ServerAssumption DEF Idle
  <1>9. /\ s \in live
        /\ \A c \in io : c.s # s
        /\ \A u \in Threads : u # t => task[u].s # s
    BY <1>2, <1>3 DEF IInv, NoRace, NoDangling
  <1>10. /\ \A c \in io : c.s # n
         /\ \A u \in Threads : u # t => task[u].s # n
    <2>1. n \notin live \ {s}
      BY <1>6
    <2>2. \A u \in Threads : task[u].s = n => Busy(u)
      BY <1>1, <1>8 DEF Tasks, Busy
    <2> QED BY <2>1, <2>2, <1>9 DEF IInv, NoDangling
  <1>11. \A x \in Sessions : Accepting(x) => x = s
    <2>1. Accepting(s)
      BY <1>2, <1>3 DEF Accepting
    <2> QED BY <2>1 DEF IInv, AcceptLoop
  <1>12. Accepting(n)' /\ \A x \in Sessions : Accepting(x)' => x = n
    <2>1. Accepting(n)'
      BY <1>5, <1>6 DEF Accepting
    <2>2. ASSUME NEW x \in Sessions, Accepting(x)', x # n PROVE FALSE
      <3>1. ~ \E u \in Threads : task'[u].s = x /\ task'[u].pc = "accept"
        BY <1>2, <1>3, <1>7, <1>8, <1>9, <1>11 DEF Accepting
      <3>2. PICK c \in io' : c.s = x /\ c.kind = "accept"
        BY <2>2, <3>1 DEF Accepting
      <3>3. c \in io
        BY <3>2, <2>2, <1>5, <1>6
      <3> QED BY <3>2, <3>3, <1>9, <1>11 DEF Accepting
    <2> QED BY <2>1, <2>2
  <1>13. \A x \in Sessions : Writing(x)' = Writing(x)
    BY <1>3, <1>5, <1>6, <1>7, <1>8 DEF Writing
  <1>14. NoDangling'
    <2>1. \A c \in io' : c.s \in live'
      BY <1>5, <1>6, <1>9 DEF IInv, NoDangling
    <2>2. \A u \in Threads : Busy(u)' => task'[u].s \in live'
      BY <1>6, <1>7, <1>8, <1>9 DEF IInv, NoDangling, Busy
    <2> QED BY <2>1, <2>2 DEF NoDangling
  <1>15. NoRace'
    <2>0. r \in io' => s # n
      BY <1>5, <1>6, <1>9
    <2>1. \A c, d \in io' : c.s = d.s => c = d
      BY <1>5, <1>6, <1>9, <1>10, <2>0 DEF IInv, NoRace
    <2>2. \A u \in Threads : /\ task'[u].s # s
                             /\ task'[u].s # n
                             /\ u = t => ~Busy(u)'
      BY <1>7, <1>8, <1>9, <1>10 DEF Busy
    <2>3. \A u, v \in Threads : Busy(u)' /\ task'[u].s = task'[v].s => u = v
      <3> SUFFICES ASSUME NEW u \in Threads, NEW v \in Threads, Busy(u)',
                          task'[u].s = task'[v].s
                   PROVE  u = v
        OBVIOUS
      <3>1. u # t /\ task'[u] = task[u] /\ Busy(u)
        BY <2>2, <1>7 DEF Busy
      <3>2. task[u].s \in Sessions
        BY <3>1, <1>1 DEF Busy, Tasks, Idle
      <3>3. v # t /\ task'[v] = task[v]
        BY <3>1, <3>2, <1>7, <1>8
      <3> QED BY <3>1, <3>3 DEF IInv, NoRace
    <2>4. \A c \in io', u \in Threads : c.s # task'[u].s
      <3>1. \A c \in io : c.s \in Sessions
        BY <1>1 DEF Ops
      <3> QED BY <2>2, <3>1, <1>5, <1>6, <1>7, <1>8 DEF IInv, NoRace
    <2> QED BY <2>1, <2>3, <2>4 DEF NoRace
  <1>16. NoLeak'
    BY <1>2, <1>5, <1>6, <1>7 DEF IInv, NoLeak
  <1>17. AcceptLoop'
    BY <1>12 DEF AcceptLoop
  <1>18. OneReply'
    BY <1>7, <1>13 DEF IInv, OneReply
  <1>19. PendingLeft'
    <2>1. \A x \in Sessions : Op("write", x, "pending").kind = "write"
      BY DEF Op
    <2>2. \A x \in Sessions : Op("write", x, "pending") \in io'
                              => Op("write", x, "pending") \in io
      BY <1>5, <1>6, <2>1
    <2> QED BY <1>7, <2>2 DEF IInv, PendingLeft, Op
  <1>20. Quiet'
    BY <1>3, <1>7 DEF Quiet
  <1> QED BY <1>14, <1>15, <1>16, <1>17, <1>18, <1>19, <1>20 DEF Safe

(* handle_write frees its session, which nothing else refers to.           *)
LEMMA ReleaseStep ==
  ASSUME IInv, TypeOK', NEW t \in Threads, HandleWrite(t)
  PROVE  Safe'
  <1>1. task \in [Threads -> Tasks] /\ io \subseteq Ops
    BY DEF IInv, TypeOK
  <1>2. PICK s \in Sessions : task[t].s = s
    BY <1>1 DEF HandleWrite, Tasks, Idle
  <1>3. Busy(t) /\ task[t].pc = "write" /\ proc = "running"
    BY DEF HandleWrite, Busy
  <1>4. /\ task'[t] = Idle
        /\ \A u \in Threads : u # t => task'[u] = task[u]
        /\ UNCHANGED <<proc, router, io>>
        /\ live' = live \ {s}
    BY <1>1, <1>2 DEF HandleWrite, Return, Delete
  <1>5. /\ sess'[s].writes = 0
        /\ \A x \in Sessions : x # s => sess'[x] = sess[x]
    BY <1>2 DEF HandleWrite, Delete, NewSess, IInv, TypeOK
  <1>6. Idle.pc = "idle" /\ Idle.s \notin Sessions
    BY ServerAssumption DEF Idle
  <1>7. /\ \A c \in io : c.s # s
        /\ \A u \in Threads : u # t => task[u].s # s
    BY <1>2, <1>3 DEF IInv, NoRace
  <1>8. \A x \in Sessions : /\ Accepting(x)' = Accepting(x)
                            /\ Writing(x)' <=> Writing(x) /\ x # s
    BY <1>2, <1>3, <1>4, <1>6, <1>7 DEF Accepting, Writing
  <1>9. \A u \in Threads : Busy(u)' => u # t /\ Busy(u) /\ task'[u] = task[u]
    BY <1>4, <1>6 DEF Busy
  <1>10. NoDangling' /\ NoLeak'
    BY <1>2, <1>4, <1>7, <1>9 DEF IInv, NoDangling, NoLeak
  <1>11. NoRace'
    <2>1. \A u, v \in Threads : Busy(u)' /\ task'[u].s = task'[v].s => u = v
      <3> SUFFICES ASSUME NEW u \in Threads, NEW v \in Threads, Busy(u)',
                          task'[u].s = task'[v].s
                   PROVE  u = v
        OBVIOUS
      <3>1. task[u].s \in Sessions
        BY <1>9, <1>1 DEF Busy, Tasks, Idle
      <3>2. v # t
        BY <3>1, <1>9, <1>4, <1>6
      <3> QED BY <3>2, <1>4, <1>9 DEF IInv, NoRace
    <2>2. \A c \in io : c.s \in Sessions
      BY <1>1 DEF Ops
    <2> QED BY <2>1, <2>2, <1>4, <1>6 DEF IInv, NoRace
  <1>12. AcceptLoop'
    BY <1>4, <1>8 DEF IInv, AcceptLoop
  <1>13. OneReply'
    BY <1>5, <1>8 DEF IInv, OneReply
  <1>14. PendingLeft'
    <2>1. \A x \in Sessions : Op("write", x, "pending").s = x
      BY DEF Op
    <2> QED BY <1>4, <1>5, <1>7, <2>1 DEF IInv, PendingLeft, Op
  <1>15. Quiet'
    BY <1>3, <1>4 DEF IInv, Quiet
  <1> QED BY <1>10, <1>11, <1>12, <1>13, <1>14, <1>15 DEF Safe

(* The first start_accept puts the first session where nothing was.        *)
LEMMA RunStep ==
  ASSUME IInv, TypeOK', Run
  PROVE  Safe'
  <1>1. live = {} /\ io = {} /\ router /\ \A t \in Threads : task[t] = Idle
    BY DEF Run, IInv, Quiet
  <1>2. PICK n \in Sessions : StartAccept(live, io, n)
    BY DEF Run
  <1> DEFINE a == Op("accept", n, "pending")
  <1>3. live' = {n} /\ io' = {a}
    BY <1>1, <1>2 DEF StartAccept
  <1>4. a.s = n /\ a.kind = "accept" /\ a.st = "pending"
    BY DEF Op
  <1> HIDE DEF a
  <1>5. proc' = "running" /\ UNCHANGED <<router, task, sess>>
    BY <1>1 DEF Run
  <1>6. Idle.pc = "idle" /\ Idle.s \notin Sessions
    BY ServerAssumption DEF Idle
  <1>7. \A x \in Sessions : ~Writing(x) /\ ~Writing(x)' /\ (Accepting(x)' <=> x = n)
    BY <1>1, <1>3, <1>4, <1>5, <1>6 DEF Writing, Accepting
  <1>8. NoDangling' /\ NoRace' /\ NoLeak'
    BY <1>1, <1>3, <1>4, <1>5, <1>6 DEF NoDangling, NoRace, NoLeak, Busy
  <1>9. AcceptLoop' /\ OneReply'
    BY <1>5, <1>7 DEF IInv, AcceptLoop, OneReply
  <1>10. PendingLeft'
    BY <1>3, <1>4 DEF PendingLeft, Op
  <1>11. Quiet'
    BY <1>1, <1>5 DEF Quiet
  <1> QED BY <1>8, <1>9, <1>10, <1>11 DEF Safe

(* A write_some that does not finish the response leaves chunks to send.   *)
LEMMA ChunkStep ==
  ASSUME IInv, TypeOK', NEW s \in Sessions, WriteSome(s)
  PROVE  Safe'
  <1>1. PICK own \in BOOLEAN :
          sess' = [sess EXCEPT ![s].left = @ - 1, ![s].intact = @ /\ own]
    BY DEF WriteSome
  <1>2. sess \in [Sessions -> [got : Nat, writes : Nat, reply : Replies,
                               left : Nat, intact : BOOLEAN]]
    BY DEF IInv, TypeOK
  <1>3. /\ sess'[s].left = sess[s].left - 1
        /\ \A x \in Sessions : /\ sess'[x].writes = sess[x].writes
                               /\ x # s => sess'[x].left = sess[x].left
    BY <1>1, <1>2
  <1>4. /\ proc = "running"
        /\ UNCHANGED <<proc, router, live, task>>
        /\ Op("write", s, "pending") \in io
    BY DEF WriteSome
  <1>5. CASE sess[s].left = 1
    <2>1. Complete(Op("write", s, "pending"), "ok")
      BY <1>5 DEF WriteSome
    <2>2. Op("write", s, "pending").s = s
      BY DEF Op
    <2> QED BY <1>3, <1>4, <2>1, <2>2, CompleteStep
  <1>6. CASE sess[s].left # 1
    <2>1. io' = io
      BY <1>6 DEF WriteSome
    <2>2. \A x \in Sessions : Accepting(x)' = Accepting(x) /\ Writing(x)' = Writing(x)
      BY <1>4, <2>1 DEF Accepting, Writing
    <2>3. sess[s].left \in Nat /\ sess[s].left >= 1
      BY <1>2, <1>4 DEF IInv, PendingLeft
    <2>4. sess'[s].left >= 1
      BY <1>3, <1>6, <2>3
    <2>5. PendingLeft'
      BY <1>3, <2>1, <2>4 DEF IInv, PendingLeft, Op
    <2>6. Quiet' /\ NoDangling' /\ NoRace' /\ NoLeak'
      BY <1>4, <2>1 DEF IInv, Quiet, NoDangling, NoRace, NoLeak, Busy
    <2>7. AcceptLoop' /\ OneReply'
      BY <1>3, <1>4, <2>2 DEF IInv, AcceptLoop, OneReply
    <2> QED BY <2>5, <2>6, <2>7 DEF Safe
  <1> QED BY <1>5, <1>6

-----------------------------------------------------------------------------
(* Every step preserves the invariant.                                     *)
LEMMA NextIInv == IInv /\ [Next]_vars => IInv'
  <1> SUFFICES ASSUME IInv, [Next]_vars PROVE IInv'
    OBVIOUS
  <1>1. CASE UNCHANGED vars
    <2>1. TypeOK'
      BY <1>1 DEF vars, IInv, TypeOK
    <2>2. Safe'
      BY <1>1, FrameStep DEF vars
    <2> QED BY <2>1, <2>2 DEF IInv, Safe
  <1>2. CASE Next
    <2>1. TypeOK'
      BY <1>2, TypeStep DEF IInv
    <2>2. ASSUME CreateRouter PROVE Safe'
      <3>1. UNCHANGED <<live, io, task, sess>>
        BY <2>2 DEF CreateRouter
      <3>2. \A x \in Sessions :
              Accepting(x)' = Accepting(x) /\ Writing(x)' = Writing(x)
        BY <3>1 DEF Accepting, Writing
      <3>3. Quiet'
        BY <2>2 DEF CreateRouter, IInv, Quiet
      <3>4. PendingLeft' /\ NoDangling' /\ NoRace' /\ NoLeak'
        BY <3>1 DEF IInv, PendingLeft, NoDangling, NoRace, NoLeak, Busy, Op
      <3>5. proc' # "running"
        BY <2>2 DEF CreateRouter
      <3>6. AcceptLoop' /\ OneReply'
        BY <3>1, <3>2, <3>5 DEF IInv, AcceptLoop, OneReply
      <3> QED BY <3>3, <3>4, <3>6 DEF Safe
    <2>3. ASSUME Run PROVE Safe'
      BY <2>1, <2>3, RunStep
    <2>4. ASSUME Signal PROVE Safe'
      BY <2>4, FrameStep DEF Signal
    <2>5. ASSUME NEW s \in Sessions, Peers(s) PROVE Safe'
      <3>1. \A k \in Kinds : Op(k, s, "pending").s = s
        BY DEF Op
      <3>2. CASE Connect(s)
        BY <2>1, <3>2, <3>1, CompleteStep DEF Connect
      <3>3. CASE AcceptFails(s)
        BY <2>1, <3>3, <3>1, CompleteStep DEF AcceptFails
      <3>4. CASE Send(s)
        BY <3>4, FrameStep DEF Send
      <3>5. CASE Leave(s, "eof")
        BY <3>5, FrameStep DEF Leave
      <3>6. CASE Leave(s, "reset")
        BY <3>6, FrameStep DEF Leave
      <3> QED BY <2>5, <3>2, <3>3, <3>4, <3>5, <3>6 DEF Peers
    <2>6. ASSUME NEW s \in Sessions, Socket(s) PROVE Safe'
      <3>1. CASE ReadSome(s)
        <4>1. sess \in [Sessions -> [got : Nat, writes : Nat, reply : Replies,
                                     left : Nat, intact : BOOLEAN]]
          BY DEF IInv, TypeOK
        <4>2. \A x \in Sessions : /\ sess'[x].writes = sess[x].writes
                                  /\ sess'[x].left = sess[x].left
          BY <3>1, <4>1 DEF ReadSome
        <4> QED BY <2>1, <3>1, <4>2, CompleteStep DEF ReadSome
      <3>2. CASE ReadFails(s)
        BY <2>1, <3>2, CompleteStep DEF ReadFails
      <3>3. CASE WriteSome(s)
        BY <2>1, <3>3, ChunkStep
      <3>4. CASE WriteFails(s)
        BY <2>1, <3>4, CompleteStep DEF WriteFails
      <3> QED BY <2>6, <3>1, <3>2, <3>3, <3>4 DEF Socket
    <2>7. ASSUME NEW t \in Threads, Handler(t) PROVE Safe'
      <3> USE ServerAssumption
      <3>1. CASE HandleAccept(t)
        BY <2>1, <3>1, AcceptStep
      <3>2. CASE HandleRead(t)
        <4>1. CASE task' = [task EXCEPT ![t].pc = "route"] /\ UNCHANGED <<io, sess>>
          BY <2>1, <3>2, <4>1, RouteStep DEF HandleRead
        <4>2. ASSUME NEW reply \in {"bad_request", "server_error"},
                     Write(task[t].s, reply, 1), Return(t)
              PROVE  Safe'
          BY <2>1, <3>2, <4>2, WriteStep DEF HandleRead, Replies
        <4> QED BY <3>2, <4>1, <4>2 DEF HandleRead, HandleError, HandleInvalidRequest
      <3>3. CASE HandleValidRequest(t)
        <4>1. PICK reply \in Replies, k \in Nat \ {0} : Write(task[t].s, reply, k)
          BY <3>3 DEF HandleValidRequest, HandleError, Replies
        <4> QED BY <2>1, <3>3, <4>1, WriteStep DEF HandleValidRequest
      <3>4. CASE HandleWrite(t)
        BY <2>1, <3>4, ReleaseStep
      <3>5. CASE CloseThrows(t)
        BY <3>5, FrameStep DEF CloseThrows
      <3> QED BY <2>7, <3>1, <3>2, <3>3, <3>4, <3>5 DEF Handler
    <2>8. ASSUME NEW t \in Threads, SignalHandler(t) PROVE Safe'
      BY <2>8, FrameStep DEF SignalHandler
    <2>9. ASSUME NEW t \in Threads, Hang(t) PROVE Safe'
      BY <2>1, <2>9, RouteStep DEF Hang
    <2>10. ASSUME NEW t \in Threads, NEW c \in io, Dispatch(t, c) PROVE Safe'
      BY <2>1, <2>10, DispatchStep
    <2>11. Safe'
      BY <1>2, <2>2, <2>3, <2>4, <2>5, <2>6, <2>7, <2>8, <2>9, <2>10 DEF Next
    <2> QED BY <2>1, <2>11 DEF IInv, Safe
  <1> QED BY <1>1, <1>2

LEMMA Invariance == Spec => []IInv
  BY InitIInv, NextIInv, PTL DEF Spec

-----------------------------------------------------------------------------
(* Every variable keeps its type; in particular no chunk counter of a      *)
(* response ever goes below zero.                                          *)
THEOREM TypeCorrect == Spec => []TypeOK
  <1>1. IInv => TypeOK
    BY DEF IInv
  <1> QED BY <1>1, Invariance, PTL

(* No callback of server.cc or session.cc ever runs on a deleted session.  *)
THEOREM NoUseAfterFree == Spec => []NoDangling
  <1>1. IInv => NoDangling
    BY DEF IInv
  <1> QED BY <1>1, Invariance, PTL

(* Two pool threads never work on the same session.                        *)
THEOREM SessionsAreExclusive == Spec => []NoRace
  <1>1. IInv => NoRace
    BY DEF IInv
  <1> QED BY <1>1, Invariance, PTL

(* Every allocated session is on its way to `delete this`.                 *)
THEOREM SessionsAreOwned == Spec => []NoLeak
  <1>1. IInv => NoLeak
    BY DEF IInv
  <1> QED BY <1>1, Invariance, PTL

(* While the server runs, exactly one session waits for a connection.      *)
THEOREM AlwaysAccepting == Spec => []AcceptLoop
  <1>1. IInv => AcceptLoop
    BY DEF IInv
  <1> QED BY <1>1, Invariance, PTL

(* A session starts at most one write.                                     *)
THEOREM RepliesOnce == Spec => []OneReply
  <1>1. IInv => OneReply
    BY DEF IInv
  <1> QED BY <1>1, Invariance, PTL

=============================================================================
