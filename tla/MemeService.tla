---------------------------- MODULE MemeService ----------------------------
(***************************************************************************)
(* What /memes promises its clients: an atomic store of memes.  A request  *)
(* takes effect in one step between its call and its reply, or is refused  *)
(* and has no effect, and the reply tells which.  A GET that is answered   *)
(* with a meme got what the store held at one moment of the call.          *)
(***************************************************************************)
CONSTANTS Threads, Ids, Contents, None

VARIABLES store,  \* the content of each meme, None if there is none
          call    \* the request each thread serves

vars == <<store, call>>

Methods == {"POST", "PUT", "DELETE", "GET", "LIST", "OTHER"}
NoCall  == [st |-> "idle", m |-> "OTHER", id |-> None, c |-> None, res |-> None]

Init ==
  /\ store = [i \in Ids |-> None]
  /\ call = [t \in Threads |-> NoCall]

Call(t, m, i, c) ==
  /\ call[t].st = "idle"
  /\ call' = [call EXCEPT ![t] =
                [st |-> "called", m |-> m, id |-> i, c |-> c, res |-> None]]
  /\ UNCHANGED store

(* A new meme gets an id of its own choosing, which no meme has.           *)
Post(t, i) ==
  /\ call[t].st = "called"
  /\ call[t].m = "POST"
  /\ store[i] = None
  /\ store' = [store EXCEPT ![i] = call[t].c]
  /\ call' = [call EXCEPT ![t].st = "ok", ![t].id = i]

(* PUT and DELETE of a meme that does not exist succeed and do nothing.    *)
Put(t) ==
  /\ call[t].st = "called"
  /\ call[t].m = "PUT"
  /\ store' = [store EXCEPT ![call[t].id] = IF @ = None THEN None ELSE call[t].c]
  /\ call' = [call EXCEPT ![t].st = "ok"]

Delete(t) ==
  /\ call[t].st = "called"
  /\ call[t].m = "DELETE"
  /\ store' = [store EXCEPT ![call[t].id] = None]
  /\ call' = [call EXCEPT ![t].st = "ok"]

Get(t) ==
  /\ call[t].st = "called"
  /\ call[t].m = "GET"
  /\ store[call[t].id] # None
  /\ call' = [call EXCEPT ![t].st = "ok", ![t].res = store[call[t].id]]
  /\ UNCHANGED store

(* Answered without a meme: a listing or a page, an error, or not found.   *)
Other(t) ==
  /\ call[t].st = "called"
  /\ \E st \in IF call[t].m \in {"LIST", "OTHER"} THEN {"ok", "refused"}
               ELSE {"refused"} :
       call' = [call EXCEPT ![t].st = st]
  /\ UNCHANGED store

Reply(t) ==
  /\ call[t].st \in {"ok", "refused"}
  /\ call' = [call EXCEPT ![t] = NoCall]
  /\ UNCHANGED store

(* The process dies: the calls are lost, the store is not.                 *)
Crash ==
  /\ call' = [t \in Threads |-> NoCall]
  /\ UNCHANGED store

Next ==
  \/ Crash
  \/ \E t \in Threads :
       \/ Put(t) \/ Delete(t) \/ Get(t) \/ Other(t) \/ Reply(t)
       \/ \E i \in Ids : Post(t, i)
       \/ \E m \in Methods, i \in Ids \cup {None}, c \in Contents \cup {None} :
            Call(t, m, i, c)

Spec == Init /\ [][Next]_vars

=============================================================================
