-------------------------- MODULE MemeStoreProofs --------------------------
(***************************************************************************)
(* Proofs about module MemeStore, for every set of threads, ids and        *)
(* contents and every bound: its invariants, and that it implements the    *)
(* atomic store of MemeService.                                            *)
(*                                                                         *)
(* The safety of the store rests on what a request remembers between two   *)
(* of its transactions, so the inductive invariant says what the record of *)
(* a request holds at each point of the handler (Shape) and how that stays *)
(* true of the rows while other requests commit (Agrees).                  *)
(***************************************************************************)
EXTENDS MemeStore, FiniteSetTheorems, TLAPS

Row     == [c : Contents \cup {None}, n : Nat]
Pcs     == {"idle", "open", "handle", "write", "reserved", "exclusive",
            "read", "reading", "got", "done"}
Stmts   == {"none", "create", "insert", "update", "delete", "count", "select"}
Codes   == {0, 200, 201, 303, 400, 404, 405, 500}
Records == [pc : Pcs, m : Methods, id : Ids \cup {None}, ok : BOOLEAN,
            c : Contents \cup {None}, stmt : Stmts, row : Row,
            list : SUBSET Ids, code : Codes, eff : BOOLEAN,
            like : SUBSET Contents,
            past : SUBSET (Contents \cup {None}), moments : SUBSET SUBSET Ids]

Types ==
  /\ table \in BOOLEAN /\ exclusive \in BOOLEAN
  /\ db \in [Ids -> Row]
  /\ shared \subseteq Threads
  /\ reserved \in Threads \cup {None}
  /\ th \in [Threads -> Records]
  /\ used \subseteq Ids /\ gone \subseteq used
  /\ views \in [Ids -> Nat]
  /\ requests \in 0 .. MaxRequests /\ crashes \in Nat

Executing(r) == r.pc \in {"write", "reserved", "exclusive"}
Inserting(r) == Executing(r) /\ r.stmt = "insert"

(* What the record of a request holds, by the method and the point that    *)
(* its handler has reached.                                                *)
Shape(r) ==
  /\ r.m \in {"PUT", "DELETE", "GET"} => r.id \in Ids
  /\ r.m \in {"LIST", "OTHER"} => r.id = None
  /\ r.m \in {"POST", "PUT"} => r.c \in Contents
  /\ r.pc # "done" => r.code = 0 /\ ~r.eff
  /\ r.pc \in {"read", "reading", "got"} => r.m \in {"GET", "LIST"}
  /\ Executing(r) =>
       \/ r.stmt = "create" /\ r.row = NoRow
       \/ r.stmt = "insert" /\ r.m = "POST" /\ r.id \in Ids
       \/ r.stmt = "update" /\ r.m = "PUT"
       \/ r.stmt = "delete" /\ r.m = "DELETE"
       \/ r.stmt = "count" /\ r.m = "GET" /\ r.row # NoRow
  /\ r.row # NoRow => /\ r.m = "GET" /\ r.row.c # None
                      /\ r.pc \in {"got", "done"} \/ Executing(r)
  /\ r.list # {} => r.m = "LIST" /\ r.pc \in {"reading", "got", "done"}
  /\ r.pc = "done" =>
       /\ r.code # 0
       /\ r.m \in {"POST", "PUT", "DELETE"} => (r.code \in {200, 201} <=> r.eff)
       /\ r.m \in {"POST", "PUT", "DELETE"} /\ ~r.eff => r.code \in {400, 500}
       /\ r.m = "GET" => (r.code = 200 <=> r.row # NoRow)
       /\ r.m = "GET" /\ r.row = NoRow => r.code \in {400, 404, 500}

(* What a LIST has read: as long as it holds its lock, rows of the table as *)
(* it is; when it has given the lock up, the table of one moment.          *)
Listed(r) ==
  /\ r.pc # "done" => Matching(db, r.like) \in r.moments
  /\ r.pc = "reading" => r.list \subseteq Matching(db, r.like)
  /\ r.pc \in {"got", "done"} => r.list = {} \/ r.list \in r.moments

(* How the record of a request fits the rows, whatever was committed since *)
(* the request began.                                                      *)
Agrees(r) ==
  /\ Inserting(r) => r.id \in used /\ r.id \notin gone /\ db[r.id] = NoRow
  /\ r.row # NoRow => r.row.n <= views[r.id]
  /\ Executing(r) /\ r.stmt = "count" => r.row.n + 1 <= views[r.id]
  /\ r.m = "LIST" => Listed(r)

(* No two requests insert a meme with the same id.                         *)
OwnIds ==
  \A t, u \in Threads :
    Inserting(th[t]) /\ Inserting(th[u]) /\ th[t].id = th[u].id => t = u

(* The rows: one that is not there has no counter, an id not yet generated *)
(* has none, and neither has a deleted one; a counter counts views.        *)
Rows ==
  \A i \in Ids : /\ db[i].c = None => db[i] = NoRow
                 /\ i \notin used \/ i \in gone => db[i] = NoRow
                 /\ db[i].n <= views[i]

(* The locks are held by the threads that are in a transaction, and a      *)
(* writer that may commit is alone.                                        *)
Locks ==
  /\ shared = {t \in Threads : th[t].pc = "reading"}
  /\ \A t \in Threads : th[t].pc \in {"reserved", "exclusive"} <=> reserved = t
  /\ \A t \in Threads : th[t].pc = "exclusive" => exclusive
  /\ exclusive => shared = {}

(* The requests that may still show a meme; each of them shows at most one.*)
Unshown ==
  {t \in Threads : \/ th[t].pc \in {"open", "handle", "read", "reading", "got"}
                   \/ Executing(th[t]) /\ th[t].stmt = "create"}

ShownAtMostOnce == \A i \in Ids : views[i] + Cardinality(Unshown) <= requests

IInv ==
  /\ Types
  /\ \A t \in Threads : Shape(th[t])
  /\ \A t \in Threads : Agrees(th[t])
  /\ OwnIds
  /\ Rows
  /\ Locks
  /\ ShownAtMostOnce

-----------------------------------------------------------------------------
(* Initially every thread rests and there is no row.                       *)
LEMMA InitIInv == Init => IInv
  <1> USE MemeAssumption
  <1> SUFFICES ASSUME Init PROVE IInv
    OBVIOUS
  <1>0. Resting \in Records
    BY DEF Resting, Records, Pcs, Methods, Stmts, Codes, Row, NoRow
  <1>1. Types
    <2>1. NoRow \in Row
      BY DEF Row, NoRow
    <2>2. requests \in 0 .. MaxRequests /\ crashes \in Nat
      BY DEF Init
    <2>3. views \in [Ids -> Nat] /\ db \in [Ids -> Row] /\ th \in [Threads -> Records]
      BY <1>0, <2>1 DEF Init
    <2> QED BY <2>2, <2>3 DEF Init, Types
  <1>2. \A t \in Threads : th[t] = Resting
    BY DEF Init
  <1>3. Shape(Resting) /\ Agrees(Resting)
    BY DEF Shape, Agrees, Resting, Executing, Inserting, NoRow
  <1>4. OwnIds /\ Locks
    BY <1>2 DEF OwnIds, Locks, Init, Resting, Executing, Inserting
  <1>5. Rows
    BY DEF Rows, Init, NoRow
  <1>6. Unshown = {}
    BY <1>2 DEF Unshown, Resting, Executing
  <1>7. ShownAtMostOnce
    BY <1>6, FS_EmptySet DEF ShownAtMostOnce, Init
  <1> QED BY <1>1, <1>2, <1>3, <1>4, <1>5, <1>7 DEF IInv

-----------------------------------------------------------------------------
(* What the handler makes of the result of a statement.                    *)
LEMMA ReturnedShape ==
  ASSUME NEW r \in Records, Shape(r), Executing(r),
         NEW e \in BOOLEAN, NEW done \in BOOLEAN,
         r.stmt = "create" => ~e,
         r.stmt \in {"insert", "update", "delete"} => (e <=> done),
         NEW q, q = Returned([r EXCEPT !.eff = e], done)
  PROVE  /\ q \in Records /\ Shape(q)
         /\ q.pc \in {"handle", "done"}
         /\ q.m = r.m /\ q.id = r.id /\ q.c = r.c /\ q.row = r.row
         /\ q.list = r.list /\ q.like = r.like /\ q.moments = r.moments /\ q.stmt = r.stmt
         /\ r.stmt = "create" <=> q.pc = "handle"
         /\ q.eff <=> e
  <1>1. PICK pc \in Pcs, code \in Codes :
          /\ q = [r EXCEPT !.eff = e, !.pc = pc, !.code = code]
          /\ pc = IF r.stmt = "create" THEN "handle" ELSE "done"
          /\ r.stmt = "create" => code = r.code
          /\ r.stmt = "count" => code = 200
          /\ r.stmt = "insert" => code = IF e THEN 201 ELSE 500
          /\ r.stmt \in {"update", "delete"} => code = IF e THEN 200 ELSE 500
    <2>1. CASE r.stmt = "create"
      <3>1. q = [r EXCEPT !.eff = e, !.pc = "handle", !.code = r.code]
        BY <2>1 DEF Returned, Records
      <3>2. r.code \in Codes
        BY DEF Records
      <3> QED BY <2>1, <3>1, <3>2 DEF Pcs
    <2>2. CASE r.stmt = "count"
      <3>1. q = [r EXCEPT !.eff = e, !.pc = "done", !.code = 200]
        BY <2>2 DEF Returned, Records
      <3> QED BY <2>2, <3>1 DEF Pcs, Codes
    <2>3. CASE r.stmt = "insert"
      <3>1. CASE e
        <4>1. q = [r EXCEPT !.eff = e, !.pc = "done", !.code = 201]
          BY <2>3, <3>1 DEF Returned, Records
        <4>2. 201 \in Codes /\ "done" \in Pcs
          BY DEF Pcs, Codes
        <4> QED BY <2>3, <3>1, <4>1, <4>2
      <3>2. CASE ~e
        <4>1. q = [r EXCEPT !.eff = e, !.pc = "done", !.code = 500]
          BY <2>3, <3>2 DEF Returned, Records
        <4> QED BY <2>3, <3>2, <4>1 DEF Pcs, Codes
      <3> QED BY <3>1, <3>2
    <2>4. CASE r.stmt \in {"update", "delete"}
      <3>1. CASE e
        <4>1. q = [r EXCEPT !.eff = e, !.pc = "done", !.code = 200]
          BY <2>4, <3>1 DEF Returned, Records
        <4> QED BY <2>4, <3>1, <4>1 DEF Pcs, Codes
      <3>2. CASE ~e
        <4>1. q = [r EXCEPT !.eff = e, !.pc = "done", !.code = 500]
          BY <2>4, <3>2 DEF Returned, Records
        <4> QED BY <2>4, <3>2, <4>1 DEF Pcs, Codes
      <3> QED BY <3>1, <3>2
    <2> QED BY <2>1, <2>2, <2>3, <2>4 DEF Shape
  <1>2. /\ q \in Records
        /\ q.pc = pc /\ q.m = r.m /\ q.id = r.id /\ q.c = r.c /\ q.code = code
        /\ q.row = r.row /\ q.list = r.list /\ q.like = r.like /\ q.moments = r.moments
        /\ q.stmt = r.stmt /\ q.eff = e
    <2>1. q = [r EXCEPT !.eff = e, !.pc = pc, !.code = code]
      BY <1>1
    <2>2. q \in Records
      <3>1. PICK q1 \in Records : q1 = [r EXCEPT !.eff = e, !.pc = pc]
        BY Zenon DEF Records
      <3>2. q = [q1 EXCEPT !.code = code]
        BY <2>1, <3>1
      <3> QED BY <3>2, Zenon DEF Records
    <2>3. /\ q.pc = pc /\ q.m = r.m /\ q.id = r.id /\ q.c = r.c /\ q.code = code
          /\ q.row = r.row /\ q.list = r.list
      BY <2>1, Zenon DEF Records
    <2>4. /\ q.like = r.like /\ q.moments = r.moments
          /\ q.stmt = r.stmt /\ q.eff = e
      BY <2>1, Zenon DEF Records
    <2> QED BY <2>2, <2>3, <2>4
  <1>3. Shape(q)
    <2>1. r.list = {}
      BY DEF Shape, Executing
    <2> QED BY <1>1, <1>2, <2>1 DEF Shape, Executing
  <1> QED BY <1>1, <1>2, <1>3

-----------------------------------------------------------------------------
(* A step of thread t that leaves the rows alone: what is to be shown of   *)
(* it is what it makes of the record of t.                                 *)
LEMMA LocalStep ==
  ASSUME IInv, Types', NEW t \in Threads,
         \A u \in Threads \ {t} : th'[u] = th[u],
         db' = db, gone' = gone, used \subseteq used',
         \A i \in Ids : views[i] <= views'[i],
         Shape(th'[t]), Agrees(th[t])',
         Inserting(th'[t]) =>
           \/ Inserting(th[t]) /\ th'[t].id = th[t].id
           \/ th'[t].id \notin used
  PROVE  /\ \A u \in Threads : Shape(th[u])'
         /\ \A u \in Threads : Agrees(th[u])'
         /\ OwnIds' /\ Rows'
  <1>1. ASSUME NEW u \in Threads PROVE Shape(th'[u])
    BY <1>1 DEF IInv
  <1>2. ASSUME NEW u \in Threads PROVE Agrees(th[u])'
    <2>1. CASE u = t
      BY <2>1
    <2>2. CASE u # t
      <3>1. th'[u] = th[u] /\ Shape(th[u]) /\ Agrees(th[u]) /\ th[u] \in Records
        BY <2>2 DEF IInv, Types
      <3>2. \A like \in SUBSET Contents : Matching(db', like) = Matching(db, like)
        OBVIOUS
      <3>3. th[u].row # NoRow => th[u].id \in Ids /\ th[u].row.n \in Nat
        BY <3>1 DEF Shape, Records, Row
      <3>4. \A i \in Ids : views[i] \in Nat /\ views'[i] \in Nat
        BY DEF IInv, Types
      <3>5. Executing(th[u]) /\ th[u].stmt = "count" => th[u].row # NoRow
        BY <3>1 DEF Shape
      <3> QED BY <3>1, <3>2, <3>3, <3>4, <3>5 DEF Agrees, Listed, Inserting
    <2> QED BY <2>1, <2>2
  <1>3. OwnIds'
    <2>1. \A u \in Threads : Inserting(th[u]) => th[u].id \in used
      BY DEF IInv, Agrees
    <2> QED BY <2>1 DEF IInv, OwnIds
  <1>4. Rows'
    <2>1. \A i \in Ids : views[i] \in Nat /\ views'[i] \in Nat /\ db[i].n \in Nat
      BY DEF IInv, Types, Row
    <2> QED BY <2>1 DEF IInv, Rows
  <1> QED BY <1>1, <1>2, <1>3, <1>4

(* The number of requests that may still show a meme.                      *)
LEMMA UnshownFinite ==
  /\ IsFiniteSet(Unshown) /\ Cardinality(Unshown) \in Nat
  /\ IsFiniteSet(Unshown') /\ Cardinality(Unshown') \in Nat
  <1>1. Unshown \subseteq Threads /\ Unshown' \subseteq Threads
    BY DEF Unshown
  <1> QED BY <1>1, MemeAssumption, FS_Subset, FS_CardinalityType

(* Most steps show nothing.                                                *)
LEMMA ShownStep ==
  ASSUME IInv, views' = views, requests' = requests, Unshown' \subseteq Unshown
  PROVE  ShownAtMostOnce'
  <1>1. Cardinality(Unshown') <= Cardinality(Unshown)
    BY UnshownFinite, FS_Subset
  <1>2. requests \in Nat /\ \A i \in Ids : views[i] \in Nat
    BY MemeAssumption DEF IInv, Types
  <1> QED BY <1>1, <1>2, UnshownFinite DEF IInv, ShownAtMostOnce

(* A step of thread t between two points at which it holds no lock.        *)
LEMMA LocksKept ==
  ASSUME IInv, NEW t \in Threads, UNCHANGED locks,
         \A u \in Threads \ {t} : th'[u] = th[u],
         th[t].pc \notin {"reserved", "exclusive", "reading"},
         th'[t].pc \notin {"reserved", "exclusive", "reading"}
  PROVE  Locks'
  <1>1. \A u \in Threads :
          /\ th'[u].pc = "reading" <=> th[u].pc = "reading"
          /\ th'[u].pc = "exclusive" <=> th[u].pc = "exclusive"
          /\ th'[u].pc = "reserved" <=> th[u].pc = "reserved"
    OBVIOUS
  <1> QED BY <1>1 DEF IInv, Locks, locks

-----------------------------------------------------------------------------
(* The record of a request that arrives.                                   *)
LEMMA RequestRecord ==
  ASSUME IInv, NEW t \in Threads, Request(t)
  PROVE  \E q \in Records :
           /\ th' = [th EXCEPT ![t] = q]
           /\ q.pc = "open" /\ q.stmt = "none" /\ q.row = NoRow
           /\ q.list = {} /\ q.code = 0 /\ q.eff = FALSE
           /\ q.m \in {"PUT", "DELETE", "GET"} => q.id \in Ids
           /\ q.m \notin {"PUT", "DELETE", "GET"} => q.id = None
           /\ q.m \in {"POST", "PUT"} => q.c \in Contents
           /\ q.m = "LIST" => Matching(db, q.like) \in q.moments
  <1> USE MemeAssumption
  <1>1. PICK m \in Methods :
          \E i \in IF m \in {"PUT", "DELETE", "GET"} THEN Ids ELSE {None} :
          \E c \in IF m \in {"POST", "PUT"} THEN Contents ELSE {None} :
          \E ok \in IF m \in {"POST", "PUT", "DELETE", "LIST"} THEN BOOLEAN ELSE {TRUE} :
          \E like \in IF m = "LIST" /\ ok THEN SUBSET Contents ELSE {{}} :
            Set(t, [Resting EXCEPT !.pc = "open", !.m = m, !.id = i, !.c = c, !.ok = ok,
                      !.like = like,
                      !.past = IF i = None THEN {} ELSE {db[i].c},
                      !.moments = IF m = "LIST" THEN {Matching(db, like)} ELSE {}])
    BY Zenon DEF Request
  <1>2. PICK i \in IF m \in {"PUT", "DELETE", "GET"} THEN Ids ELSE {None},
             c \in IF m \in {"POST", "PUT"} THEN Contents ELSE {None},
             ok \in IF m \in {"POST", "PUT", "DELETE", "LIST"} THEN BOOLEAN ELSE {TRUE} :
          \E like \in IF m = "LIST" /\ ok THEN SUBSET Contents ELSE {{}} :
            Set(t, [Resting EXCEPT !.pc = "open", !.m = m, !.id = i, !.c = c, !.ok = ok,
                      !.like = like,
                      !.past = IF i = None THEN {} ELSE {db[i].c},
                      !.moments = IF m = "LIST" THEN {Matching(db, like)} ELSE {}])
    BY <1>1, Zenon
  <1>a. PICK like \in SUBSET Contents :
            Set(t, [Resting EXCEPT !.pc = "open", !.m = m, !.id = i, !.c = c, !.ok = ok,
                      !.like = like,
                      !.past = IF i = None THEN {} ELSE {db[i].c},
                      !.moments = IF m = "LIST" THEN {Matching(db, like)} ELSE {}])
    <2>1. (IF m = "LIST" /\ ok THEN SUBSET Contents ELSE {{}}) \subseteq SUBSET Contents
      OBVIOUS
    <2> QED BY <1>2, <2>1, Zenon
  <1>3. /\ i \in Ids \cup {None} /\ c \in Contents \cup {None} /\ ok \in BOOLEAN
        /\ m \in {"PUT", "DELETE", "GET"} => i \in Ids
        /\ m \notin {"PUT", "DELETE", "GET"} => i = None
        /\ m \in {"POST", "PUT"} => c \in Contents
    BY Zenon
  <1>4. PICK past \in SUBSET (Contents \cup {None}) :
          past = IF i = None THEN {} ELSE {db[i].c}
    BY <1>3 DEF IInv, Types, Row
  <1>5. PICK moments \in SUBSET SUBSET Ids :
          moments = IF m = "LIST" THEN {Matching(db, like)} ELSE {}
    BY DEF Matching
  <1>6. PICK q : q = [Resting EXCEPT !.pc = "open", !.m = m, !.id = i, !.c = c,
                        !.ok = ok, !.like = like, !.past = past, !.moments = moments]
    OBVIOUS
  <1>7. th' = [th EXCEPT ![t] = q]
    BY <1>a, <1>4, <1>5, <1>6, Zenon DEF Set
  <1>8. q \in Records
    <2>1. Resting \in Records
      BY DEF Resting, Records, Pcs, Methods, Stmts, Codes, Row, NoRow
    <2>2. "open" \in Pcs
      BY DEF Pcs
    <2> QED BY <1>3, <1>6, <2>1, <2>2, Zenon DEF Records
  <1>9. /\ q.pc = "open" /\ q.stmt = "none" /\ q.row = NoRow
        /\ q.list = {} /\ q.code = 0 /\ q.eff = FALSE
        /\ q.m = m /\ q.id = i /\ q.c = c /\ q.like = like /\ q.moments = moments
    BY <1>6, Zenon DEF Resting
  <1>10. /\ q.m \in {"PUT", "DELETE", "GET"} => q.id \in Ids
         /\ q.m \notin {"PUT", "DELETE", "GET"} => q.id = None
         /\ q.m \in {"POST", "PUT"} => q.c \in Contents
    BY <1>3, <1>9
  <1>11. q.m = "LIST" => Matching(db, q.like) \in q.moments
    BY <1>5, <1>9
  <1> QED BY <1>7, <1>8, <1>9, <1>10, <1>11, Zenon

(* A request that arrives: it has touched no row, and it counts among the  *)
(* requests that may show one.                                             *)
LEMMA RequestStep ==
  ASSUME IInv, NEW t \in Threads, Request(t) PROVE IInv'
  <1> USE MemeAssumption
  <1>1. PICK q \in Records :
          /\ th' = [th EXCEPT ![t] = q]
          /\ q.pc = "open" /\ q.stmt = "none" /\ q.row = NoRow
          /\ q.list = {} /\ q.code = 0 /\ q.eff = FALSE
          /\ q.m \in {"PUT", "DELETE", "GET"} => q.id \in Ids
          /\ q.m \notin {"PUT", "DELETE", "GET"} => q.id = None
          /\ q.m \in {"POST", "PUT"} => q.c \in Contents
          /\ q.m = "LIST" => Matching(db, q.like) \in q.moments
    BY RequestRecord
  <1>3. /\ th'[t] = q /\ \A u \in Threads \ {t} : th'[u] = th[u]
        /\ th' \in [Threads -> Records]
    BY <1>1 DEF IInv, Types
  <1>4. Types'
    BY <1>3 DEF IInv, Types, Request, locks
  <1>5. Shape(q)
    BY <1>1 DEF Shape, Executing
  <1>6. UNCHANGED <<table, db, locks, used, gone, views>>
    BY DEF Request
  <1>7. Agrees(th[t])'
    BY <1>1, <1>3, <1>6 DEF Agrees, Listed, Executing, Inserting
  <1>8. ~Inserting(q)
    BY <1>1 DEF Inserting, Executing
  <1>9. \A j \in Ids : views[j] <= views'[j]
    BY <1>6 DEF IInv, Types
  <1>10. /\ \A u \in Threads : Shape(th[u])'
         /\ \A u \in Threads : Agrees(th[u])'
         /\ OwnIds' /\ Rows'
    BY <1>3, <1>4, <1>5, <1>6, <1>7, <1>8, <1>9, LocalStep
  <1>11. Locks'
    BY <1>1, <1>3, <1>6, LocksKept DEF Request
  <1>12. ShownAtMostOnce'
    <2>1. Unshown' = Unshown \cup {t} /\ t \notin Unshown
      BY <1>1, <1>3 DEF Unshown, Executing, Request
    <2>2. Cardinality(Unshown') = Cardinality(Unshown) + 1
      BY <2>1, UnshownFinite, FS_AddElement
    <2>3. requests \in Nat /\ \A j \in Ids : views[j] \in Nat
      BY DEF IInv, Types
    <2> QED BY <2>2, <2>3, <1>6, UnshownFinite DEF IInv, ShownAtMostOnce, Request
  <1> QED BY <1>4, <1>10, <1>11, <1>12 DEF IInv

-----------------------------------------------------------------------------
(* The steps that change neither the table nor the number of views.        *)
LEMMA SilentStep ==
  ASSUME IInv, NEW t \in Threads, NEW q \in Records, th' = [th EXCEPT ![t] = q],
         UNCHANGED <<table, db, gone, views, requests, crashes>>,
         shared' \subseteq Threads, reserved' \in Threads \cup {None},
         exclusive' \in BOOLEAN, used \subseteq used', used' \subseteq Ids,
         Shape(q), Agrees(q)', Locks',
         Inserting(q) => \/ Inserting(th[t]) /\ q.id = th[t].id
                         \/ q.id \notin used,
         t \in Unshown' => t \in Unshown
  PROVE  IInv'
  <1>1. /\ th'[t] = q /\ \A u \in Threads \ {t} : th'[u] = th[u]
        /\ th' \in [Threads -> Records]
    BY DEF IInv, Types
  <1>2. Types'
    BY <1>1 DEF IInv, Types
  <1>3. \A j \in Ids : views[j] <= views'[j]
    BY DEF IInv, Types
  <1>4. Agrees(th[t])'
    BY <1>1
  <1>5. /\ \A u \in Threads : Shape(th[u])'
        /\ \A u \in Threads : Agrees(th[u])'
        /\ OwnIds' /\ Rows'
    BY <1>1, <1>2, <1>3, <1>4, LocalStep
  <1>6. Unshown' \subseteq Unshown
    BY <1>1 DEF Unshown
  <1>7. ShownAtMostOnce'
    BY <1>6, ShownStep
  <1> QED BY <1>2, <1>5, <1>7 DEF IInv

(* The constructor: the request goes to its handler, or to CREATE TABLE.   *)
LEMMA OpenStep ==
  ASSUME IInv, NEW t \in Threads, Open(t) PROVE IInv'
  <1> DEFINE r == th[t]
  <1>1. /\ r \in Records /\ r.pc = "open" /\ Shape(r) /\ Agrees(r)
        /\ UNCHANGED <<table, db, locks, used, gone, views, requests, crashes>>
    BY DEF IInv, Types, Open
  <1>2. PICK pc \in Pcs, stmt \in Stmts :
          /\ th' = [th EXCEPT ![t] = [r EXCEPT !.pc = pc, !.stmt = stmt]]
          /\ \/ pc = "handle"
             \/ pc = "write" /\ stmt = "create"
    <2>1. CASE table
      <3>1. r.stmt \in Stmts /\ "handle" \in Pcs
        BY <1>1 DEF Records, Pcs
      <3>2. [r EXCEPT !.pc = "handle"] = [r EXCEPT !.pc = "handle", !.stmt = r.stmt]
        BY <1>1 DEF Records
      <3> QED BY <2>1, <3>1, <3>2 DEF Open, Set
    <2>2. CASE ~table
      BY <2>2 DEF Open, Set, Pcs, Stmts
    <2> QED BY <2>1, <2>2
  <1>3. PICK q \in Records :
          /\ th' = [th EXCEPT ![t] = q]
          /\ q.pc = pc /\ q.stmt = stmt /\ q.m = r.m /\ q.id = r.id /\ q.c = r.c
          /\ q.row = r.row /\ q.list = r.list /\ q.code = r.code /\ q.eff = r.eff
          /\ q.like = r.like /\ q.moments = r.moments
    <2> DEFINE q == [r EXCEPT !.pc = pc, !.stmt = stmt]
    <2>1. /\ q \in Records
          /\ q.pc = pc /\ q.stmt = stmt /\ q.m = r.m /\ q.id = r.id /\ q.c = r.c
          /\ q.row = r.row /\ q.list = r.list /\ q.code = r.code /\ q.eff = r.eff
          /\ q.like = r.like /\ q.moments = r.moments
      BY <1>1, Zenon DEF Records
    <2> QED BY <1>2, <2>1, Zenon
  <1>4. Shape(q)
    BY <1>1, <1>2, <1>3 DEF Shape, Executing
  <1>5. Agrees(q)'
    BY <1>1, <1>2, <1>3 DEF Agrees, Listed, Shape, Executing, Inserting
  <1>6. th'[t] = q /\ \A u \in Threads \ {t} : th'[u] = th[u]
    BY <1>3 DEF IInv, Types
  <1>7. Locks'
    BY <1>1, <1>2, <1>3, <1>6, LocksKept
  <1>8. ~Inserting(q) /\ t \in Unshown
    BY <1>1, <1>2, <1>3 DEF Inserting, Executing, Unshown
  <1> QED BY <1>1, <1>3, <1>4, <1>5, <1>7, <1>8, SilentStep
           DEF IInv, Types, locks

(* The response goes out.                                                  *)
LEMMA ReplyStep ==
  ASSUME IInv, NEW t \in Threads, Reply(t) PROVE IInv'
  <1>1. /\ th[t].pc = "done" /\ th' = [th EXCEPT ![t] = Resting]
        /\ UNCHANGED <<table, db, locks, used, gone, views, requests, crashes>>
    BY DEF Reply, Set
  <1>2. Resting \in Records
    BY MemeAssumption
       DEF Resting, Records, Pcs, Methods, Stmts, Codes, Row, NoRow
  <1>3. Shape(Resting) /\ Agrees(Resting)'
    BY DEF Shape, Agrees, Resting, Executing, Inserting, NoRow
  <1>4. /\ th'[t] = Resting /\ \A u \in Threads \ {t} : th'[u] = th[u]
        /\ Resting.pc = "idle"
    BY <1>1 DEF IInv, Types, Resting
  <1>5. Locks'
    BY <1>1, <1>4, LocksKept
  <1>6. ~Inserting(Resting) /\ t \notin Unshown'
    BY <1>4 DEF Inserting, Executing, Unshown
  <1> QED BY <1>1, <1>2, <1>3, <1>5, <1>6, SilentStep DEF IInv, Types, locks

(* handle_request: a refusal has no effect, an insert gets an id of its    *)
(* own, and the other statements start with what the request brought.      *)
LEMMA HandleRequestStep ==
  ASSUME IInv, NEW t \in Threads, HandleRequest(t) PROVE IInv'
  <1> USE MemeAssumption
  <1> DEFINE r == th[t]
  <1>1. /\ r \in Records /\ r.pc = "handle" /\ Shape(r) /\ Agrees(r)
        /\ UNCHANGED <<table, db, locks, gone, views, requests, crashes>>
        /\ used \subseteq Ids
    BY DEF IInv, Types, HandleRequest
  <1>2. ASSUME NEW code \in Codes, UNCHANGED used,
               th' = [th EXCEPT ![t] = [r EXCEPT !.pc = "done", !.code = code]],
               \/ ~r.ok /\ code \in {400, 500}
               \/ r.m = "OTHER" /\ code \in Pages
        PROVE  IInv'
    <2>1. "done" \in Pcs
      BY DEF Pcs
    <2>3. PICK q \in Records :
            /\ th' = [th EXCEPT ![t] = q]
            /\ q.pc = "done" /\ q.stmt = r.stmt /\ q.m = r.m /\ q.id = r.id /\ q.c = r.c
            /\ q.row = r.row /\ q.list = r.list /\ q.code = code /\ q.eff = r.eff
            /\ q.like = r.like /\ q.moments = r.moments
      <3> DEFINE q == [r EXCEPT !.pc = "done", !.code = code]
      <3>1. /\ q \in Records
            /\ q.pc = "done" /\ q.stmt = r.stmt /\ q.m = r.m /\ q.id = r.id /\ q.c = r.c
            /\ q.row = r.row /\ q.list = r.list /\ q.code = code /\ q.eff = r.eff
            /\ q.like = r.like /\ q.moments = r.moments
        BY <1>1, <2>1, Zenon DEF Records
      <3> QED BY <1>2, <3>1, Zenon
    <2>4. Shape(q)
      BY <1>1, <1>2, <2>3 DEF Shape, Executing, Pages
    <2>5. Agrees(q)'
      BY <1>1, <1>2, <2>3 DEF Agrees, Listed, Shape, Executing, Inserting
    <2>6. th'[t] = q /\ \A u \in Threads \ {t} : th'[u] = th[u]
      BY <2>3 DEF IInv, Types
    <2>7. Locks'
      BY <1>1, <1>2, <2>3, <2>6, LocksKept
    <2>8. ~Inserting(q) /\ t \in Unshown
      BY <1>1, <1>2, <2>3, <2>6 DEF Inserting, Executing, Unshown
    <2> QED BY <1>1, <1>2, <2>3, <2>4, <2>5, <2>7, <2>8, SilentStep
             DEF IInv, Types, locks
  <1>3. ASSUME NEW i \in Ids \ used, used' = used \cup {i}, r.m = "POST",
               th' = [th EXCEPT ![t] =
                        [r EXCEPT !.pc = "write", !.stmt = "insert", !.id = i]]
        PROVE  IInv'
    <2>1. "write" \in Pcs /\ "insert" \in Stmts /\ i \in Ids \cup {None}
      BY DEF Pcs, Stmts
    <2>3. PICK q \in Records :
            /\ th' = [th EXCEPT ![t] = q]
            /\ q.pc = "write" /\ q.stmt = "insert" /\ q.m = r.m /\ q.id = i /\ q.c = r.c
            /\ q.row = r.row /\ q.list = r.list /\ q.code = r.code /\ q.eff = r.eff
            /\ q.like = r.like /\ q.moments = r.moments
      <3> DEFINE q == [r EXCEPT !.pc = "write", !.stmt = "insert", !.id = i]
      <3>1. /\ q \in Records
            /\ q.pc = "write" /\ q.stmt = "insert" /\ q.m = r.m /\ q.id = i /\ q.c = r.c
            /\ q.row = r.row /\ q.list = r.list /\ q.code = r.code /\ q.eff = r.eff
            /\ q.like = r.like /\ q.moments = r.moments
        BY <1>1, <2>1, Zenon DEF Records
      <3> QED BY <1>3, <3>1, Zenon
    <2>4. Shape(q)
      BY <1>1, <1>3, <2>3 DEF Shape, Executing
    <2>5. Agrees(q)'
      BY <1>1, <1>3, <2>3 DEF IInv, Types, Rows, Agrees, Shape, Executing, Inserting
    <2>6. th'[t] = q /\ \A u \in Threads \ {t} : th'[u] = th[u]
      BY <2>3 DEF IInv, Types
    <2>7. Locks'
      BY <1>1, <1>3, <2>3, <2>6, LocksKept
    <2>8. q.id \notin used /\ t \in Unshown
      BY <1>1, <1>3, <2>3, <2>6 DEF Inserting, Executing, Unshown
    <2> QED BY <1>1, <1>3, <2>3, <2>4, <2>5, <2>7, <2>8, SilentStep
             DEF IInv, Types, locks
  <1>4. ASSUME NEW pc \in Pcs, NEW stmt \in Stmts, UNCHANGED used,
               th' = [th EXCEPT ![t] = [r EXCEPT !.pc = pc, !.stmt = stmt]],
               \/ pc = "write" /\ stmt = "update" /\ r.m = "PUT"
               \/ pc = "write" /\ stmt = "delete" /\ r.m = "DELETE"
               \/ pc = "read" /\ stmt = "select" /\ r.m \in {"GET", "LIST"}
        PROVE  IInv'
    <2>3. PICK q \in Records :
            /\ th' = [th EXCEPT ![t] = q]
            /\ q.pc = pc /\ q.stmt = stmt /\ q.m = r.m /\ q.id = r.id /\ q.c = r.c
            /\ q.row = r.row /\ q.list = r.list /\ q.code = r.code /\ q.eff = r.eff
            /\ q.like = r.like /\ q.moments = r.moments
      <3> DEFINE q == [r EXCEPT !.pc = pc, !.stmt = stmt]
      <3>1. /\ q \in Records
            /\ q.pc = pc /\ q.stmt = stmt /\ q.m = r.m /\ q.id = r.id /\ q.c = r.c
            /\ q.row = r.row /\ q.list = r.list /\ q.code = r.code /\ q.eff = r.eff
            /\ q.like = r.like /\ q.moments = r.moments
        BY <1>1, Zenon DEF Records
      <3> QED BY <1>4, <3>1, Zenon
    <2>4. Shape(q)
      BY <1>1, <1>4, <2>3 DEF Shape, Executing
    <2>5. Agrees(q)'
      BY <1>1, <1>4, <2>3 DEF Agrees, Listed, Shape, Executing, Inserting
    <2>6. th'[t] = q /\ \A u \in Threads \ {t} : th'[u] = th[u]
      BY <2>3 DEF IInv, Types
    <2>7. Locks'
      BY <1>1, <1>4, <2>3, <2>6, LocksKept
    <2>8. ~Inserting(q) /\ t \in Unshown
      BY <1>1, <1>4, <2>3, <2>6 DEF Inserting, Executing, Unshown
    <2> QED BY <1>1, <1>4, <2>3, <2>4, <2>5, <2>7, <2>8, SilentStep
             DEF IInv, Types, locks
  <1>5. CASE ~r.ok /\ \E code \in Refusals(r.m) :
               UNCHANGED used /\ Set(t, [r EXCEPT !.pc = "done", !.code = code])
    <2>1. Refusals(r.m) \subseteq {400, 500} /\ {400, 500} \subseteq Codes
      BY DEF Refusals, Codes
    <2>2. PICK code \in Refusals(r.m) :
            th' = [th EXCEPT ![t] = [r EXCEPT !.pc = "done", !.code = code]]
      BY <1>5 DEF Set
    <2>3. code \in Codes /\ code \in {400, 500}
      BY <2>1
    <2> QED BY <1>2, <1>5, <2>2, <2>3, Zenon
  <1>6. CASE r.m = "OTHER" /\ \E code \in Pages :
               UNCHANGED used /\ Set(t, [r EXCEPT !.pc = "done", !.code = code])
    <2>1. PICK code \in Pages :
            th' = [th EXCEPT ![t] = [r EXCEPT !.pc = "done", !.code = code]]
      BY <1>6 DEF Set
    <2>2. code \in Codes
      BY DEF Pages, Codes
    <2> QED BY <1>2, <1>6, <2>1, <2>2, Zenon
  <1>7. CASE r.m = "POST" /\ GenerateNewMeme(t)
    BY <1>3, <1>7 DEF GenerateNewMeme, Set
  <1>8. CASE /\ r.m \in {"PUT", "DELETE"} /\ UNCHANGED used
             /\ Set(t, [r EXCEPT !.pc = "write",
                          !.stmt = IF r.m = "PUT" THEN "update" ELSE "delete"])
    <2>1. "write" \in Pcs /\ {"update", "delete"} \subseteq Stmts
      BY DEF Pcs, Stmts
    <2>2. CASE r.m = "PUT"
      BY <1>4, <1>8, <2>1, <2>2 DEF Set
    <2>3. CASE r.m = "DELETE"
      BY <1>4, <1>8, <2>1, <2>3 DEF Set
    <2> QED BY <1>8, <2>2, <2>3
  <1>9. CASE /\ r.m \in {"GET", "LIST"} /\ UNCHANGED used
             /\ Set(t, [r EXCEPT !.pc = "read", !.stmt = "select"])
    <2>1. "read" \in Pcs /\ "select" \in Stmts
      BY DEF Pcs, Stmts
    <2> QED BY <1>4, <1>9, <2>1 DEF Set
  <1> QED BY <1>5, <1>6, <1>7, <1>8, <1>9 DEF HandleRequest

(* What the handler makes of a statement that was not committed.           *)
LEMMA ReturnedFailed ==
  ASSUME NEW r \in Records, Shape(r), Executing(r), NEW done \in BOOLEAN,
         r.stmt \in {"insert", "update", "delete"} => ~done,
         NEW q, q = Returned(r, done)
  PROVE  /\ q \in Records /\ Shape(q)
         /\ q.pc \in {"handle", "done"}
         /\ q.m = r.m /\ q.id = r.id /\ q.c = r.c /\ q.row = r.row
         /\ q.list = r.list /\ q.like = r.like /\ q.moments = r.moments /\ q.stmt = r.stmt
         /\ r.stmt = "create" <=> q.pc = "handle"
         /\ ~q.eff
  <1>1. PICK e \in BOOLEAN : ~e /\ r.eff = e
    BY DEF Records, Shape, Executing
  <1>2. r = [r EXCEPT !.eff = e]
    BY <1>1, Zenon DEF Records
  <1>3. q = Returned([r EXCEPT !.eff = e], done)
    BY <1>2
  <1>4. /\ r.stmt = "create" => ~e
        /\ r.stmt \in {"insert", "update", "delete"} => (e <=> done)
    BY <1>1
  <1> QED BY <1>1, <1>3, <1>4, ReturnedShape

(* A statement that returns without a commit.                              *)
LEMMA NotCommitted ==
  ASSUME IInv, NEW t \in Threads, Executing(th[t]), NEW done \in BOOLEAN,
         th[t].stmt \in {"insert", "update", "delete"} => ~done,
         th' = [th EXCEPT ![t] = Returned(th[t], done)],
         UNCHANGED <<table, db, shared, exclusive, used, gone, views, requests, crashes>>,
         reserved' \in Threads \cup {None},
         th'[t].pc \in {"handle", "done"} => Locks'
  PROVE  IInv'
  <1> DEFINE r == th[t]
  <1>1. r \in Records /\ Shape(r) /\ Agrees(r) /\ Executing(r) /\ ~r.eff
    BY DEF IInv, Types, Shape, Executing
  <1>2. PICK q : q = Returned(r, done)
    OBVIOUS
  <1>3. /\ q \in Records /\ Shape(q)
        /\ q.pc \in {"handle", "done"}
        /\ q.m = r.m /\ q.id = r.id /\ q.row = r.row
        /\ q.list = r.list /\ q.like = r.like /\ q.moments = r.moments /\ q.stmt = r.stmt
        /\ r.stmt = "create" <=> q.pc = "handle"
    BY <1>1, <1>2, ReturnedFailed
  <1>4. Agrees(q)'
    BY <1>1, <1>3 DEF Agrees, Listed, Shape, Executing, Inserting
  <1>5. th'[t] = q /\ th' = [th EXCEPT ![t] = q]
    BY <1>2 DEF IInv, Types
  <1>6. Locks'
    BY <1>3, <1>5
  <1>7. ~Inserting(q) /\ (t \in Unshown' => t \in Unshown)
    BY <1>1, <1>3, <1>5 DEF Inserting, Executing, Unshown
  <1> QED BY <1>3, <1>4, <1>5, <1>6, <1>7, SilentStep DEF IInv, Types

(* RESERVED, or SQLITE_BUSY: the locks stay with the threads that are in a *)
(* transaction.                                                            *)
LEMMA BeginWriteStep ==
  ASSUME IInv, NEW t \in Threads, BeginWrite(t) PROVE IInv'
  <1> USE MemeAssumption
  <1> DEFINE r == th[t]
  <1>1. /\ r \in Records /\ r.pc = "write" /\ Shape(r) /\ Agrees(r)
        /\ UNCHANGED <<table, db, shared, exclusive, used, gone, views, requests, crashes>>
    BY DEF IInv, Types, BeginWrite
  <1>2. CASE /\ reserved = None /\ reserved' = t
             /\ Set(t, [r EXCEPT !.pc = "reserved"])
    <2>1. "reserved" \in Pcs /\ th' = [th EXCEPT ![t] = [r EXCEPT !.pc = "reserved"]]
      BY <1>2 DEF Pcs, Set
    <2>3. PICK q \in Records :
            /\ th' = [th EXCEPT ![t] = q]
            /\ q.pc = "reserved" /\ q.stmt = r.stmt /\ q.m = r.m /\ q.id = r.id /\ q.c = r.c
            /\ q.row = r.row /\ q.list = r.list /\ q.code = r.code /\ q.eff = r.eff
            /\ q.like = r.like /\ q.moments = r.moments
      <3> DEFINE q == [r EXCEPT !.pc = "reserved"]
      <3>1. /\ q \in Records
            /\ q.pc = "reserved" /\ q.stmt = r.stmt /\ q.m = r.m /\ q.id = r.id /\ q.c = r.c
            /\ q.row = r.row /\ q.list = r.list /\ q.code = r.code /\ q.eff = r.eff
            /\ q.like = r.like /\ q.moments = r.moments
        BY <1>1, <2>1, Zenon DEF Records
      <3> QED BY <2>1, <3>1, Zenon
    <2>4. Shape(q)
      BY <1>1, <1>2, <2>3 DEF Shape, Executing
    <2>5. Agrees(q)'
      BY <1>1, <1>2, <2>3 DEF Agrees, Listed, Shape, Executing, Inserting
    <2>6. th'[t] = q /\ \A u \in Threads \ {t} : th'[u] = th[u]
      BY <2>3 DEF IInv, Types
    <2>7. Locks'
      BY <1>1, <1>2, <2>3, <2>6 DEF IInv, Locks
    <2>8. (Inserting(q) => Inserting(r) /\ q.id = r.id) /\ (t \in Unshown' => t \in Unshown)
      BY <1>1, <1>2, <2>3, <2>6 DEF Inserting, Executing, Unshown
    <2> QED BY <1>1, <1>2, <2>3, <2>4, <2>5, <2>7, <2>8, SilentStep
             DEF IInv, Types, locks
  <1>3. CASE /\ UNCHANGED reserved
             /\ Set(t, Returned(r, r.stmt = "create"))
    <2>1. Executing(r) /\ th' = [th EXCEPT ![t] = Returned(r, r.stmt = "create")]
      BY <1>1, <1>3 DEF Executing, Set
    <2>2. \A u \in Threads \ {t} : th'[u] = th[u]
      BY <2>1 DEF IInv, Types
    <2>3. th'[t].pc \in {"handle", "done"} => Locks'
      BY <1>1, <1>3, <2>2, LocksKept DEF locks
    <2>4. (r.stmt = "create") \in BOOLEAN
      OBVIOUS
    <2>5. reserved' \in Threads \cup {None}
      BY <1>3 DEF IInv, Types
    <2>6. r.stmt \in {"insert", "update", "delete"} => ~(r.stmt = "create")
      OBVIOUS
    <2> QED BY <1>1, <2>1, <2>3, <2>4, <2>5, <2>6, NotCommitted
  <1> QED BY <1>2, <1>3 DEF BeginWrite

(* EXCLUSIVE is taken only when nobody reads; otherwise the transaction is *)
(* rolled back.                                                            *)
LEMMA RaiseLockStep ==
  ASSUME IInv, NEW t \in Threads, RaiseLock(t) PROVE IInv'
  <1> USE MemeAssumption
  <1> DEFINE r == th[t]
  <1>1. /\ r \in Records /\ r.pc = "reserved" /\ Shape(r) /\ Agrees(r)
        /\ UNCHANGED <<table, db, shared, used, gone, views, requests, crashes>>
    BY DEF IInv, Types, RaiseLock
  <1>2. CASE /\ shared = {} /\ exclusive' = TRUE /\ UNCHANGED reserved
             /\ Set(t, [r EXCEPT !.pc = "exclusive"])
    <2>1. "exclusive" \in Pcs /\ th' = [th EXCEPT ![t] = [r EXCEPT !.pc = "exclusive"]]
      BY <1>2 DEF Pcs, Set
    <2>3. PICK q \in Records :
            /\ th' = [th EXCEPT ![t] = q]
            /\ q.pc = "exclusive" /\ q.stmt = r.stmt /\ q.m = r.m /\ q.id = r.id /\ q.c = r.c
            /\ q.row = r.row /\ q.list = r.list /\ q.code = r.code /\ q.eff = r.eff
            /\ q.like = r.like /\ q.moments = r.moments
      <3> DEFINE q == [r EXCEPT !.pc = "exclusive"]
      <3>1. /\ q \in Records
            /\ q.pc = "exclusive" /\ q.stmt = r.stmt /\ q.m = r.m /\ q.id = r.id /\ q.c = r.c
            /\ q.row = r.row /\ q.list = r.list /\ q.code = r.code /\ q.eff = r.eff
            /\ q.like = r.like /\ q.moments = r.moments
        BY <1>1, <2>1, Zenon DEF Records
      <3> QED BY <2>1, <3>1, Zenon
    <2>4. Shape(q)
      BY <1>1, <1>2, <2>3 DEF Shape, Executing
    <2>5. Agrees(q)'
      BY <1>1, <1>2, <2>3 DEF Agrees, Listed, Shape, Executing, Inserting
    <2>6. th'[t] = q /\ \A u \in Threads \ {t} : th'[u] = th[u]
      BY <2>3 DEF IInv, Types
    <2>7. Locks'
      BY <1>1, <1>2, <2>3, <2>6 DEF IInv, Locks
    <2>8. (Inserting(q) => Inserting(r) /\ q.id = r.id) /\ (t \in Unshown' => t \in Unshown)
      BY <1>1, <1>2, <2>3, <2>6 DEF Inserting, Executing, Unshown
    <2> QED BY <1>1, <1>2, <2>3, <2>4, <2>5, <2>7, <2>8, SilentStep
             DEF IInv, Types, locks
  <1>3. CASE /\ reserved' = None /\ UNCHANGED exclusive
             /\ Set(t, Returned(r, FALSE))
    <2>1. Executing(r) /\ th' = [th EXCEPT ![t] = Returned(r, FALSE)]
      BY <1>1, <1>3 DEF Executing, Set
    <2>2. \A u \in Threads \ {t} : th'[u] = th[u]
      BY <2>1 DEF IInv, Types
    <2>3. th'[t].pc \in {"handle", "done"} => Locks'
      BY <1>1, <1>3, <2>2 DEF IInv, Locks
    <2> QED BY <1>1, <1>3, <2>1, <2>3, NotCommitted
  <1> QED BY <1>2, <1>3 DEF RaiseLock

(* SHARED is taken only when nobody may commit.                            *)
LEMMA BeginReadStep ==
  ASSUME IInv, NEW t \in Threads, BeginRead(t) PROVE IInv'
  <1> USE MemeAssumption
  <1> DEFINE r == th[t]
  <1>1. /\ r \in Records /\ r.pc = "read" /\ Shape(r) /\ Agrees(r)
        /\ UNCHANGED <<table, db, reserved, exclusive, used, gone, views, requests, crashes>>
    BY DEF IInv, Types, BeginRead
  <1>2. PICK pc \in Pcs :
          /\ th' = [th EXCEPT ![t] = [r EXCEPT !.pc = pc]]
          /\ \/ pc = "reading" /\ ~exclusive /\ shared' = shared \cup {t}
             \/ pc = "got" /\ shared' = shared
    BY DEF BeginRead, Set, Pcs
  <1>3. PICK q \in Records :
          /\ th' = [th EXCEPT ![t] = q]
          /\ q.pc = pc /\ q.stmt = r.stmt /\ q.m = r.m /\ q.id = r.id /\ q.c = r.c
          /\ q.row = r.row /\ q.list = r.list /\ q.code = r.code /\ q.eff = r.eff
          /\ q.like = r.like /\ q.moments = r.moments
    <2> DEFINE q == [r EXCEPT !.pc = pc]
    <2>1. /\ q \in Records
          /\ q.pc = pc /\ q.stmt = r.stmt /\ q.m = r.m /\ q.id = r.id /\ q.c = r.c
          /\ q.row = r.row /\ q.list = r.list /\ q.code = r.code /\ q.eff = r.eff
          /\ q.like = r.like /\ q.moments = r.moments
      BY <1>1, Zenon DEF Records
    <2> QED BY <1>2, <2>1, Zenon
  <1>4. Shape(q)
    BY <1>1, <1>2, <1>3 DEF Shape, Executing
  <1>5. Agrees(q)'
    BY <1>1, <1>2, <1>3 DEF Agrees, Listed, Shape, Executing, Inserting
  <1>6. th'[t] = q /\ \A u \in Threads \ {t} : th'[u] = th[u]
    BY <1>3 DEF IInv, Types
  <1>7. Locks'
    BY <1>1, <1>2, <1>3, <1>6 DEF IInv, Locks
  <1>8. ~Inserting(q) /\ t \in Unshown
    BY <1>1, <1>2, <1>3, <1>6 DEF Inserting, Executing, Unshown
  <1> QED BY <1>1, <1>2, <1>3, <1>4, <1>5, <1>7, <1>8, SilentStep
           DEF IInv, Types, locks

(* One more row of a list: it is in the table, which no commit can change  *)
(* as long as the lock is held.                                            *)
LEMMA ReadRowStep ==
  ASSUME IInv, NEW t \in Threads, ReadRow(t) PROVE IInv'
  <1> USE MemeAssumption
  <1> DEFINE r == th[t]
  <1>1. /\ r \in Records /\ r.pc = "reading" /\ r.m = "LIST" /\ Shape(r) /\ Agrees(r)
        /\ UNCHANGED <<table, db, locks, used, gone, views, requests, crashes>>
    BY DEF IInv, Types, ReadRow
  <1>2. PICK list \in SUBSET Ids :
          /\ list \subseteq Matching(db, r.like)
          /\ th' = [th EXCEPT ![t] = [r EXCEPT !.list = list]]
    <2>1. PICK i \in Matching(db, r.like) \ r.list :
            th' = [th EXCEPT ![t] = [r EXCEPT !.list = r.list \cup {i}]]
      BY DEF ReadRow, Set
    <2>2. PICK list : list = r.list \cup {i}
      OBVIOUS
    <2>3. list \subseteq Matching(db, r.like)
      BY <1>1, <2>1, <2>2 DEF Agrees, Listed
    <2>4. Matching(db, r.like) \subseteq Ids
      BY DEF Matching
    <2> QED BY <2>1, <2>2, <2>3, <2>4
  <1>3. PICK q \in Records :
          /\ th' = [th EXCEPT ![t] = q]
          /\ q.pc = r.pc /\ q.stmt = r.stmt /\ q.m = r.m /\ q.id = r.id /\ q.c = r.c
          /\ q.row = r.row /\ q.list = list /\ q.code = r.code /\ q.eff = r.eff
          /\ q.like = r.like /\ q.moments = r.moments
    <2> DEFINE q == [r EXCEPT !.list = list]
    <2>1. /\ q \in Records
          /\ q.pc = r.pc /\ q.stmt = r.stmt /\ q.m = r.m /\ q.id = r.id /\ q.c = r.c
          /\ q.row = r.row /\ q.list = list /\ q.code = r.code /\ q.eff = r.eff
          /\ q.like = r.like /\ q.moments = r.moments
      BY <1>1, Zenon DEF Records
    <2> QED BY <1>2, <2>1, Zenon
  <1>4. Shape(q)
    BY <1>1, <1>3 DEF Shape, Executing
  <1>5. Agrees(q)'
    BY <1>1, <1>2, <1>3 DEF Agrees, Listed, Shape, Executing, Inserting
  <1>6. th'[t] = q /\ \A u \in Threads \ {t} : th'[u] = th[u]
    BY <1>3 DEF IInv, Types
  <1>7. Locks'
    <2>1. \A u \in Threads : th'[u].pc = th[u].pc
      BY <1>3, <1>6
    <2> QED BY <1>1, <2>1 DEF IInv, Locks, locks
  <1>8. ~Inserting(q) /\ t \in Unshown
    BY <1>1, <1>3 DEF Inserting, Executing, Unshown
  <1> QED BY <1>1, <1>3, <1>4, <1>5, <1>7, <1>8, SilentStep
           DEF IInv, Types, locks

(* The row that a GET has read counts no more views than were shown, and   *)
(* the list of a LIST is what the table holds at this moment.              *)
LEMMA FinishReadStep ==
  ASSUME IInv, NEW t \in Threads, FinishRead(t) PROVE IInv'
  <1> USE MemeAssumption
  <1> DEFINE r == th[t]
  <1>1. /\ r \in Records /\ r.pc = "reading" /\ Shape(r) /\ Agrees(r)
        /\ UNCHANGED <<table, db, reserved, exclusive, used, gone, views, requests, crashes>>
        /\ shared' = shared \ {t}
        /\ r.m = "LIST" => Matching(db, r.like) \subseteq r.list
    BY DEF IInv, Types, FinishRead
  <1>2. PICK row \in Row :
          row = IF r.m = "GET" THEN db[r.id] ELSE NoRow
    <2>1. NoRow \in Row
      BY DEF NoRow, Row
    <2>2. r.m = "GET" => db[r.id] \in Row
      BY <1>1 DEF Shape, IInv, Types
    <2> QED BY <2>1, <2>2
  <1>3. PICK q \in Records :
          /\ th' = [th EXCEPT ![t] = q]
          /\ q.pc = "got" /\ q.stmt = r.stmt /\ q.m = r.m /\ q.id = r.id /\ q.c = r.c
          /\ q.row = row /\ q.list = r.list /\ q.code = r.code /\ q.eff = r.eff
          /\ q.like = r.like /\ q.moments = r.moments
    <2> DEFINE q == [r EXCEPT !.pc = "got", !.row = row]
    <2>1. "got" \in Pcs /\ th' = [th EXCEPT ![t] = q]
      BY <1>2 DEF Pcs, FinishRead, Set
    <2>2. /\ q \in Records
          /\ q.pc = "got" /\ q.stmt = r.stmt /\ q.m = r.m /\ q.id = r.id /\ q.c = r.c
          /\ q.row = row /\ q.list = r.list /\ q.code = r.code /\ q.eff = r.eff
          /\ q.like = r.like /\ q.moments = r.moments
      BY <1>1, <2>1, Zenon DEF Records
    <2> QED BY <2>1, <2>2, Zenon
  <1>a. r.m = "GET" => /\ r.id \in Ids /\ row.n <= views[r.id]
                       /\ row.c = None => row = NoRow
    BY <1>1, <1>2 DEF Shape, IInv, Rows
  <1>b. r.m = "LIST" => r.list \in r.moments
    <2>1. r.m = "LIST" => r.list = Matching(db, r.like)
      BY <1>1 DEF Agrees, Listed
    <2> QED BY <1>1, <2>1 DEF Agrees, Listed
  <1>4. Shape(q)
    BY <1>1, <1>2, <1>3, <1>a DEF Shape, Executing
  <1>5. Agrees(q)'
    BY <1>1, <1>2, <1>3, <1>a, <1>b DEF Agrees, Listed, Shape, Executing, Inserting
  <1>6. th'[t] = q /\ \A u \in Threads \ {t} : th'[u] = th[u]
    BY <1>3 DEF IInv, Types
  <1>7. Locks'
    BY <1>1, <1>2, <1>3, <1>6 DEF IInv, Locks
  <1>8. ~Inserting(q) /\ t \in Unshown
    BY <1>1, <1>2, <1>3, <1>6 DEF Inserting, Executing, Unshown
  <1> QED BY <1>1, <1>2, <1>3, <1>4, <1>5, <1>7, <1>8, SilentStep
           DEF IInv, Types, locks

(* A GET that shows its meme is counted, and what it will write back       *)
(* counts its own view.                                                    *)
LEMMA UseResultStep ==
  ASSUME IInv, NEW t \in Threads, UseResult(t) PROVE IInv'
  <1> USE MemeAssumption
  <1> DEFINE r == th[t]
  <1>1. /\ r \in Records /\ r.pc = "got" /\ Shape(r) /\ Agrees(r)
        /\ UNCHANGED <<table, db, locks, used, gone, requests, crashes>>
    BY DEF IInv, Types, UseResult
  <1>2. ASSUME NEW code \in {200, 404}, UNCHANGED views,
               Set(t, [r EXCEPT !.pc = "done", !.code = code]),
               \/ r.m = "LIST"
               \/ r.m = "GET" /\ r.row = NoRow /\ code = 404
        PROVE  IInv'
    <2>1. /\ "done" \in Pcs /\ code \in Codes
          /\ th' = [th EXCEPT ![t] = [r EXCEPT !.pc = "done", !.code = code]]
      BY <1>2 DEF Pcs, Codes, Set
    <2>3. PICK q \in Records :
            /\ th' = [th EXCEPT ![t] = q]
            /\ q.pc = "done" /\ q.stmt = r.stmt /\ q.m = r.m /\ q.id = r.id /\ q.c = r.c
            /\ q.row = r.row /\ q.list = r.list /\ q.code = code /\ q.eff = r.eff
            /\ q.like = r.like /\ q.moments = r.moments
      <3> DEFINE q == [r EXCEPT !.pc = "done", !.code = code]
      <3>1. /\ q \in Records
            /\ q.pc = "done" /\ q.stmt = r.stmt /\ q.m = r.m /\ q.id = r.id /\ q.c = r.c
            /\ q.row = r.row /\ q.list = r.list /\ q.code = code /\ q.eff = r.eff
            /\ q.like = r.like /\ q.moments = r.moments
        BY <1>1, <2>1, Zenon DEF Records
      <3> QED BY <2>1, <3>1, Zenon
    <2>4. Shape(q)
      BY <1>1, <1>2, <2>3 DEF Shape, Executing
    <2>5. Agrees(q)'
      BY <1>1, <1>2, <2>3 DEF Agrees, Listed, Shape, Executing, Inserting
    <2>6. th'[t] = q /\ \A u \in Threads \ {t} : th'[u] = th[u]
      BY <2>3 DEF IInv, Types
    <2>7. Locks'
      BY <1>1, <1>2, <2>3, <2>6, LocksKept
    <2>8. ~Inserting(q) /\ t \in Unshown
      BY <1>1, <1>2, <2>3, <2>6 DEF Inserting, Executing, Unshown
    <2> QED BY <1>1, <1>2, <2>3, <2>4, <2>5, <2>7, <2>8, SilentStep
             DEF IInv, Types, locks
  <1>3. CASE /\ r.m = "GET" /\ r.row # NoRow
             /\ Set(t, [r EXCEPT !.pc = "write", !.stmt = "count"])
             /\ views' = [views EXCEPT ![r.id] = @ + 1]
    <2>1. /\ "write" \in Pcs /\ "count" \in Stmts
          /\ th' = [th EXCEPT ![t] = [r EXCEPT !.pc = "write", !.stmt = "count"]]
      BY <1>3 DEF Pcs, Stmts, Set
    <2>2. /\ r.id \in Ids /\ views[r.id] \in Nat /\ r.row.n \in Nat
          /\ views' \in [Ids -> Nat] /\ views'[r.id] = views[r.id] + 1
          /\ \A i \in Ids : views[i] \in Nat /\ views[i] <= views'[i]
                            /\ views'[i] <= views[i] + 1
      BY <1>1, <1>3 DEF Shape, IInv, Types, Records, Row
    <2>3. PICK q \in Records :
            /\ th' = [th EXCEPT ![t] = q]
            /\ q.pc = "write" /\ q.stmt = "count" /\ q.m = r.m /\ q.id = r.id /\ q.c = r.c
            /\ q.row = r.row /\ q.list = r.list /\ q.code = r.code /\ q.eff = r.eff
            /\ q.like = r.like /\ q.moments = r.moments
      <3> DEFINE q == [r EXCEPT !.pc = "write", !.stmt = "count"]
      <3>1. /\ q \in Records
            /\ q.pc = "write" /\ q.stmt = "count" /\ q.m = r.m /\ q.id = r.id /\ q.c = r.c
            /\ q.row = r.row /\ q.list = r.list /\ q.code = r.code /\ q.eff = r.eff
            /\ q.like = r.like /\ q.moments = r.moments
        BY <1>1, <2>1, Zenon DEF Records
      <3> QED BY <2>1, <3>1, Zenon
    <2>4. Shape(q)
      BY <1>1, <1>3, <2>3 DEF Shape, Executing
    <2>5. th'[t] = q /\ \A u \in Threads \ {t} : th'[u] = th[u]
      BY <2>3 DEF IInv, Types
    <2>6. Agrees(q)'
      BY <1>1, <1>3, <2>2, <2>3 DEF Agrees, Listed, Shape, Executing, Inserting
    <2>7. Types'
      BY <1>1, <2>2, <2>3 DEF IInv, Types, locks
    <2>8. Agrees(th[t])' /\ ~Inserting(q)
      BY <2>3, <2>5, <2>6 DEF Inserting
    <2>9. /\ \A u \in Threads : Shape(th[u])'
          /\ \A u \in Threads : Agrees(th[u])'
          /\ OwnIds' /\ Rows'
      BY <1>1, <2>2, <2>4, <2>5, <2>7, <2>8, LocalStep
    <2>10. Locks'
      BY <1>1, <2>3, <2>5, LocksKept
    <2>11. ShownAtMostOnce'
      <3>1. Unshown' = Unshown \ {t} /\ t \in Unshown
        BY <1>1, <2>3, <2>5 DEF Unshown, Executing
      <3>2. Cardinality(Unshown') = Cardinality(Unshown) - 1
        BY <3>1, UnshownFinite, FS_RemoveElement
      <3>3. requests \in Nat /\ requests' = requests
        BY <1>1 DEF IInv, Types
      <3>4. \A i \in Ids : views'[i] \in Nat
        BY <2>2
      <3> QED BY <2>2, <3>2, <3>3, <3>4, UnshownFinite DEF IInv, ShownAtMostOnce
    <2> QED BY <2>7, <2>9, <2>10, <2>11 DEF IInv
  <1> QED BY <1>2, <1>3 DEF UseResult

(* A restart forgets the requests and keeps the rows.                      *)
LEMMA CrashStep ==
  ASSUME IInv, Crash PROVE IInv'
  <1> USE MemeAssumption
  <1>1. \A t \in Threads : th'[t] = Resting
    BY DEF Crash
  <1>2. Resting \in Records /\ Resting.pc = "idle"
    BY DEF Resting, Records, Pcs, Methods, Stmts, Codes, Row, NoRow
  <1>3. Types'
    <2>1. th' \in [Threads -> Records] /\ crashes' \in Nat
      BY <1>2 DEF IInv, Types, Crash
    <2> QED BY <2>1 DEF IInv, Types, Crash
  <1>4. Shape(Resting) /\ Agrees(Resting)' /\ ~Inserting(Resting)
    BY DEF Shape, Agrees, Resting, Executing, Inserting, NoRow
  <1>5. OwnIds' /\ Locks'
    BY <1>1, <1>2, <1>4 DEF OwnIds, Locks, Crash
  <1>6. Rows'
    BY DEF IInv, Rows, Crash
  <1>7. Unshown' \subseteq Unshown
    BY <1>1, <1>2 DEF Unshown, Executing
  <1>8. ShownAtMostOnce'
    BY <1>7, ShownStep DEF Crash
  <1>9. \A t \in Threads : Shape(th[t])' /\ Agrees(th[t])'
    BY <1>1, <1>4
  <1> QED BY <1>3, <1>5, <1>6, <1>8, <1>9 DEF IInv

-----------------------------------------------------------------------------
(* The rows after a statement.  Only an insert brings back a row that is   *)
(* not there, a counter that is written was read before its view, and the  *)
(* rows of other requests' pending inserts stay empty.                     *)
LEMMA WrittenRows ==
  ASSUME IInv, NEW t \in Threads, Executing(th[t]), NEW d, d = Written(th[t])
  PROVE  /\ d \in [Ids -> Row]
         /\ \A i \in Ids :
              /\ d[i].c = None => d[i] = NoRow
              /\ db[i] = NoRow => d[i] = NoRow \/ (Inserting(th[t]) /\ i = th[t].id)
              /\ d[i].n <= views[i]
         /\ th[t].stmt = "create" => d = db
  <1> USE MemeAssumption
  <1> DEFINE r == th[t]
  <1>1. /\ r \in Records /\ Shape(r) /\ Agrees(r) /\ db \in [Ids -> Row] /\ Rows
        /\ NoRow \in Row
    BY DEF IInv, Types, NoRow, Row
  <1>2. \A i \in Ids : db[i].c \in Contents \cup {None} /\ db[i].n \in Nat
                        /\ views[i] \in Nat
    BY DEF IInv, Types, Row
  <1>3. r.stmt # "create" => r.id \in Ids
    BY <1>1 DEF Shape
  <1>4. ASSUME NEW i \in Ids, NEW row \in Row, i = r.id, d = [db EXCEPT ![i] = row],
               row.c = None => row = NoRow,
               db[i] = NoRow => row = NoRow \/ Inserting(r),
               row.n <= views[i], r.stmt # "create"
        PROVE  /\ d \in [Ids -> Row]
               /\ \A j \in Ids :
                    /\ d[j].c = None => d[j] = NoRow
                    /\ db[j] = NoRow => d[j] = NoRow \/ (Inserting(r) /\ j = r.id)
                    /\ d[j].n <= views[j]
    BY <1>1, <1>4 DEF Rows
  <1>5. CASE r.stmt = "create"
    <2>1. d = db
      BY <1>5 DEF Written
    <2> QED BY <1>1, <2>1 DEF Rows
  <1>6. CASE r.stmt = "insert"
    <2>1. PICK row \in Row : row = [c |-> r.c, n |-> 0]
      BY <1>1 DEF Records, Row
    <2>2. d = [db EXCEPT ![r.id] = row]
      BY <1>6, <2>1 DEF Written
    <2>3. row.c # None /\ row.n = 0 /\ Inserting(r)
      BY <1>1, <1>6, <2>1 DEF Shape, Inserting
    <2>4. r.id \in Ids /\ row.n <= views[r.id]
      BY <1>2, <1>3, <1>6, <2>3
    <2> QED BY <1>4, <1>6, <2>2, <2>3, <2>4
  <1>7. CASE r.stmt = "update"
    <2>1. PICK row \in Row :
            row = IF db[r.id].c = None THEN db[r.id] ELSE [db[r.id] EXCEPT !.c = r.c]
      <3>1. r.id \in Ids /\ r.c \in Contents
        BY <1>1, <1>3, <1>7 DEF Shape
      <3> QED BY <1>1, <3>1 DEF Row
    <2>2. d = [db EXCEPT ![r.id] = row]
      BY <1>1, <1>3, <1>7, <2>1 DEF Written
    <2>3. r.id \in Ids /\ r.c \in Contents /\ db[r.id] \in Row
      BY <1>1, <1>3, <1>7 DEF Shape
    <2>4. /\ row.n = db[r.id].n
          /\ db[r.id].c = None => row = db[r.id]
          /\ row.c = None => row = db[r.id]
      BY <2>1, <2>3 DEF Row
    <2> QED BY <1>1, <1>2, <1>4, <1>7, <2>2, <2>3, <2>4 DEF Rows, NoRow
  <1>8. CASE r.stmt = "delete"
    <2>1. d = [db EXCEPT ![r.id] = NoRow]
      BY <1>8 DEF Written
    <2>2. r.id \in Ids /\ NoRow.n <= views[r.id]
      BY <1>2, <1>3, <1>8 DEF NoRow
    <2> QED BY <1>1, <1>4, <1>8, <2>1, <2>2
  <1>9. CASE r.stmt = "count"
    <2>1. /\ r.id \in Ids /\ db[r.id] \in Row /\ r.row.n + 1 \in Nat
          /\ r.row.n + 1 <= views[r.id]
      BY <1>1, <1>3, <1>9 DEF Shape, Records, Row, Agrees
    <2>2. PICK row \in Row :
            row = IF db[r.id].c = None THEN db[r.id]
                  ELSE [db[r.id] EXCEPT !.n = r.row.n + 1]
      BY <2>1 DEF Row
    <2>3. d = [db EXCEPT ![r.id] = row]
      BY <1>1, <1>3, <1>9, <2>2 DEF Written
    <2>4. /\ row.n <= views[r.id]
          /\ db[r.id].c = None => row = db[r.id]
          /\ row.c = None => row = db[r.id]
      BY <1>1, <2>1, <2>2 DEF Row, Rows
    <2> QED BY <1>1, <1>2, <1>4, <1>9, <2>1, <2>3, <2>4 DEF Rows, NoRow
  <1> QED BY <1>1, <1>5, <1>6, <1>7, <1>8, <1>9 DEF Shape

(* What a commit makes of the records: its own request has returned, the   *)
(* other ones only note what they could now have seen.                     *)
LEMMA CommitRecords ==
  ASSUME IInv, NEW t \in Threads, Commit(t)
  PROVE  /\ th' \in [Threads -> Records]
         /\ \A u \in Threads \ {t} :
              /\ th'[u].pc = th[u].pc /\ th'[u].m = th[u].m /\ th'[u].id = th[u].id
              /\ th'[u].c = th[u].c /\ th'[u].stmt = th[u].stmt
              /\ th'[u].row = th[u].row /\ th'[u].list = th[u].list
              /\ th'[u].code = th[u].code /\ th'[u].eff = th[u].eff
              /\ th'[u].like = th[u].like
              /\ th[u].m = "LIST" =>
                   th'[u].moments = th[u].moments \cup {Matching(db', th[u].like)}
         /\ Shape(th'[t]) /\ th'[t].pc \in {"handle", "done"}
         /\ th'[t].m = th[t].m /\ th'[t].id = th[t].id /\ th'[t].row = th[t].row
         /\ th'[t].c = th[t].c
         /\ th'[t].list = th[t].list /\ th'[t].like = th[t].like
         /\ th'[t].moments = th[t].moments
         /\ th'[t].stmt = th[t].stmt
         /\ th[t].stmt = "create" <=> th'[t].pc = "handle"
         /\ th'[t].eff <=> th[t].stmt # "create"
  <1> DEFINE r == th[t]
  <1>1. /\ \A u \in Threads : th[u] \in Records /\ Shape(th[u])
        /\ r.pc = "exclusive" /\ Executing(r) /\ db' = Written(r)
    BY DEF IInv, Types, Commit, Executing
  <1>2. db' \in [Ids -> Row]
    BY <1>1, WrittenRows
  <1>3. PICK e \in BOOLEAN : e = (r.stmt # "create")
    OBVIOUS
  <1>4. th' = [u \in Threads |->
                 IF u = t THEN Returned([r EXCEPT !.eff = e], TRUE)
                 ELSE [th[u] EXCEPT !.past = IF th[u].id = None THEN @
                                             ELSE @ \cup {db'[th[u].id].c},
                                    !.moments = IF th[u].m # "LIST" THEN @
                                                ELSE @ \cup {Matching(db', th[u].like)}]]
    BY <1>3 DEF Commit
  <1>5. PICK q : q = Returned([r EXCEPT !.eff = e], TRUE)
    OBVIOUS
  <1>6. th'[t] = q
    BY <1>4, <1>5
  <1>7. /\ q \in Records /\ Shape(q)
        /\ q.pc \in {"handle", "done"}
        /\ q.m = r.m /\ q.id = r.id /\ q.c = r.c /\ q.row = r.row
        /\ q.list = r.list /\ q.like = r.like /\ q.moments = r.moments /\ q.stmt = r.stmt
        /\ r.stmt = "create" <=> q.pc = "handle"
        /\ q.eff <=> e
    <2>1. PICK done \in BOOLEAN : done = TRUE
      OBVIOUS
    <2>2. /\ r.stmt = "create" => ~e
          /\ r.stmt \in {"insert", "update", "delete"} => (e <=> done)
          /\ r \in Records /\ Shape(r) /\ Executing(r)
      BY <1>1, <1>3, <2>1
    <2>3. q = Returned([r EXCEPT !.eff = e], done)
      BY <1>5, <2>1, Zenon
    <2> QED BY <2>2, <2>3, ReturnedShape
  <1>8. ASSUME NEW u \in Threads \ {t}
        PROVE  /\ th'[u] \in Records
               /\ th'[u].pc = th[u].pc /\ th'[u].m = th[u].m /\ th'[u].id = th[u].id
               /\ th'[u].c = th[u].c /\ th'[u].stmt = th[u].stmt
               /\ th'[u].row = th[u].row /\ th'[u].list = th[u].list
               /\ th'[u].code = th[u].code /\ th'[u].eff = th[u].eff
               /\ th'[u].like = th[u].like
               /\ th[u].m = "LIST" =>
                    th'[u].moments = th[u].moments \cup {Matching(db', th[u].like)}
    <2> DEFINE v == th[u]
    <2>1. v \in Records
      BY <1>1
    <2>2. PICK past \in SUBSET (Contents \cup {None}) :
            past = IF v.id = None THEN v.past ELSE v.past \cup {db'[v.id].c}
      BY <1>2, <2>1 DEF Records, Row
    <2>3. PICK moments \in SUBSET SUBSET Ids :
            moments = IF v.m # "LIST" THEN v.moments
                      ELSE v.moments \cup {Matching(db', v.like)}
      <3>1. v.moments \in SUBSET SUBSET Ids
        BY <2>1 DEF Records
      <3>2. Matching(db', v.like) \in SUBSET Ids
        BY DEF Matching
      <3> QED BY <3>1, <3>2
    <2>4. th'[u] = [v EXCEPT !.past = past, !.moments = moments]
      BY <1>4, <2>1, <2>2, <2>3, Zenon
    <2> DEFINE q2 == [v EXCEPT !.past = past, !.moments = moments]
    <2>5. /\ q2 \in Records
          /\ q2.pc = v.pc /\ q2.m = v.m /\ q2.id = v.id /\ q2.c = v.c
          /\ q2.stmt = v.stmt /\ q2.row = v.row /\ q2.list = v.list
          /\ q2.code = v.code /\ q2.eff = v.eff /\ q2.like = v.like
          /\ q2.moments = moments /\ q2.past = past
      BY <2>1, Zenon DEF Records
    <2> QED BY <2>2, <2>3, <2>4, <2>5
  <1>9. th' \in [Threads -> Records]
    <2>1. \A u \in Threads : th'[u] \in Records
      BY <1>6, <1>7, <1>8
    <2>2. th' = [u \in Threads |-> th'[u]]
      BY <1>4
    <2> QED BY <2>1, <2>2
  <1>10. th'[t].eff <=> r.stmt # "create"
    BY <1>3, <1>6, <1>7
  <1> QED BY <1>1, <1>6, <1>7, <1>8, <1>9, <1>10 DEF Shape

(* A commit: the rows of the other requests stay as their records need     *)
(* them.                                                                   *)
LEMMA CommitStep ==
  ASSUME IInv, NEW t \in Threads, Commit(t) PROVE IInv'
  <1> USE MemeAssumption
  <1>1. /\ th[t].pc = "exclusive" /\ db' = Written(th[t]) /\ Executing(th[t])
        /\ reserved' = None /\ exclusive' = FALSE /\ table' = TRUE
        /\ gone' = gone \cup {i \in Present : db'[i].c = None}
        /\ UNCHANGED <<shared, used, views, requests, crashes>>
    BY DEF Commit, Executing
  <1>2. /\ \A u \in Threads : th[u] \in Records /\ Shape(th[u]) /\ Agrees(th[u])
        /\ Rows /\ OwnIds /\ gone \subseteq used /\ used \subseteq Ids
    BY DEF IInv, Types
  <1>3. /\ db' \in [Ids -> Row]
        /\ \A i \in Ids :
             /\ db'[i].c = None => db'[i] = NoRow
             /\ db[i] = NoRow => db'[i] = NoRow \/ (Inserting(th[t]) /\ i = th[t].id)
             /\ db'[i].n <= views[i]
        /\ th[t].stmt = "create" => db' = db
    BY <1>1, WrittenRows
  <1>4. /\ th' \in [Threads -> Records]
        /\ \A u \in Threads \ {t} :
             /\ th'[u].pc = th[u].pc /\ th'[u].m = th[u].m /\ th'[u].id = th[u].id
             /\ th'[u].c = th[u].c /\ th'[u].stmt = th[u].stmt
             /\ th'[u].row = th[u].row /\ th'[u].list = th[u].list
             /\ th'[u].code = th[u].code /\ th'[u].eff = th[u].eff
             /\ th'[u].like = th[u].like
             /\ th[u].m = "LIST" =>
                  th'[u].moments = th[u].moments \cup {Matching(db', th[u].like)}
        /\ Shape(th'[t]) /\ th'[t].pc \in {"handle", "done"}
        /\ th'[t].m = th[t].m /\ th'[t].id = th[t].id /\ th'[t].row = th[t].row
        /\ th'[t].list = th[t].list /\ th'[t].like = th[t].like
         /\ th'[t].moments = th[t].moments
        /\ th'[t].stmt = th[t].stmt
        /\ th[t].stmt = "create" <=> th'[t].pc = "handle"
    BY CommitRecords
  <1>5. Types'
    <2>1. gone' \subseteq used'
      BY <1>1, <1>2 DEF Present, Rows, NoRow
    <2> QED BY <1>1, <1>3, <1>4, <2>1 DEF IInv, Types
  <1>6. ASSUME NEW u \in Threads PROVE Shape(th'[u])
    <2>1. CASE u = t
      BY <1>4, <2>1
    <2>2. CASE u # t
      BY <1>2, <1>4, <2>2 DEF Shape, Executing
    <2> QED BY <2>1, <2>2
  <1>7. ASSUME NEW u \in Threads PROVE Agrees(th[u])'
    <2>1. CASE u = t
      <3>1. th'[t].pc = "handle" => db' = db
        BY <1>3, <1>4
      <3>a. th[t].list = {}
        BY <1>1, <1>2 DEF Shape
      <3>2. ~Executing(th'[t])
        BY <1>4 DEF Executing
      <3> QED BY <1>1, <1>2, <1>4, <2>1, <3>1, <3>2, <3>a
             DEF Agrees, Listed, Inserting, Executing
    <2>2. CASE u # t
      <3>1. Agrees(th[u]) /\ Shape(th[u])
        BY <1>2
      <3>2. /\ Inserting(th[u])' <=> Inserting(th[u])
            /\ Executing(th[u])' <=> Executing(th[u])
        BY <1>4, <2>2 DEF Inserting, Executing
      <3>3. Inserting(th[u]) =>
              th[u].id \in used' /\ th[u].id \notin gone' /\ db'[th[u].id] = NoRow
        <4> SUFFICES ASSUME Inserting(th[u])
                     PROVE  /\ th[u].id \in used' /\ th[u].id \notin gone'
                            /\ db'[th[u].id] = NoRow
          OBVIOUS
        <4>1. /\ th[u].id \in used /\ th[u].id \notin gone /\ db[th[u].id] = NoRow
              /\ th[u].id \in Ids
          BY <1>2, <3>1 DEF Agrees
        <4>2. ~(Inserting(th[t]) /\ th[t].id = th[u].id)
          BY <1>2, <2>2 DEF OwnIds
        <4> QED BY <1>1, <1>3, <4>1, <4>2 DEF Present, NoRow
      <3>4. th[u].pc # "reading"
        BY <1>1 DEF IInv, Locks
      <3>5. th[u].m = "LIST" => Listed(th[u])'
        BY <1>4, <2>2, <3>1, <3>4 DEF Agrees, Listed
      <3> QED BY <1>1, <1>4, <2>2, <3>1, <3>2, <3>3, <3>5 DEF Agrees
    <2> QED BY <2>1, <2>2
  <1>8. OwnIds'
    <2>1. \A u \in Threads : Inserting(th'[u]) => u # t /\ Inserting(th[u])
      BY <1>4 DEF Inserting, Executing
    <2> QED BY <1>2, <1>4, <2>1 DEF OwnIds
  <1>9. Rows'
    <2>1. Inserting(th[t]) => th[t].id \in used /\ th[t].id \notin gone
      BY <1>2 DEF Agrees
    <2> QED BY <1>1, <1>2, <1>3, <2>1 DEF Rows, Present
  <1>10. Locks'
    <2>1. \A u \in Threads : th[u].pc \in {"reserved", "exclusive"} <=> u = t
      BY <1>1 DEF IInv, Locks
    <2>2. \A u \in Threads : th'[u].pc \notin {"reserved", "exclusive"}
      BY <1>4, <2>1
    <2>3. \A u \in Threads : th'[u].pc = "reading" <=> th[u].pc = "reading"
      BY <1>1, <1>4
    <2> QED BY <1>1, <2>2, <2>3 DEF IInv, Locks
  <1>11. Unshown' \subseteq Unshown
    BY <1>1, <1>4 DEF Unshown, Executing
  <1>12. ShownAtMostOnce'
    BY <1>1, <1>11, ShownStep
  <1> QED BY <1>5, <1>6, <1>7, <1>8, <1>9, <1>10, <1>12 DEF IInv

-----------------------------------------------------------------------------
(* Every step preserves the invariant.                                     *)
LEMMA NextIInv == IInv /\ [Next]_vars => IInv'
  <1>1. CASE Next
    BY <1>1, RequestStep, OpenStep, HandleRequestStep, BeginWriteStep,
       RaiseLockStep, CommitStep, BeginReadStep, ReadRowStep, FinishReadStep,
       UseResultStep, ReplyStep, CrashStep DEF Next
  <1>2. CASE UNCHANGED vars
    BY <1>2 DEF vars, locks, IInv, Types, Agrees, Listed, OwnIds, Rows, Locks,
       Unshown, ShownAtMostOnce
  <1> QED BY <1>1, <1>2

(* The inductive invariant holds throughout.                               *)
THEOREM Invariance == Spec => []IInv
  BY InitIInv, NextIInv, PTL DEF Spec

(* The type invariant; in particular a view counter is bounded by the      *)
(* number of requests, and a finished request has an answer.               *)
THEOREM TypeCorrect == Spec => []TypeOK
  <1>1. IInv => TypeOK
    <2> SUFFICES ASSUME IInv PROVE TypeOK
      OBVIOUS
    <2>1. \A i \in Ids : db[i] \in [c : Contents \cup {None}, n : 0 .. MaxRequests]
      <3> SUFFICES ASSUME NEW i \in Ids
                   PROVE  db[i] \in [c : Contents \cup {None}, n : 0 .. MaxRequests]
        OBVIOUS
      <3>1. /\ db[i] \in Row /\ views[i] \in Nat /\ db[i].n <= views[i]
            /\ views[i] + Cardinality(Unshown) <= requests
            /\ requests \in Nat /\ requests <= MaxRequests
        BY MemeAssumption DEF IInv, Types, Rows, ShownAtMostOnce
      <3>2. db[i].n \in 0 .. MaxRequests
        BY <3>1, UnshownFinite, MemeAssumption DEF Row
      <3> QED BY <3>1, <3>2 DEF Row
    <2>2. db \in [Ids -> [c : Contents \cup {None}, n : 0 .. MaxRequests]]
      BY <2>1 DEF IInv, Types
    <2>3. \A t \in Threads : /\ th[t].m \in Methods
                             /\ th[t].id \in Ids \cup {None}
                             /\ th[t].pc = "done" => th[t].code # 0
      BY DEF IInv, Types, Records, Shape
    <2> QED BY <2>2, <2>3 DEF IInv, Types, TypeOK
  <1> QED BY <1>1, Invariance, PTL

(* A reply to a POST, PUT or DELETE tells what became of it, whichever     *)
(* lock its statement failed to get.                                       *)
THEOREM RepliesTellEffect == Spec => []ReplyTellsEffect
  <1>1. IInv => ReplyTellsEffect
    BY DEF IInv, Shape, ReplyTellsEffect
  <1> QED BY <1>1, Invariance, PTL

(* A list is read row by row while other requests go on, and yet it is the *)
(* table of one moment of the call: the SHARED lock that the loop holds    *)
(* keeps every commit away from it.                                        *)
THEOREM ListsAreUntorn == Spec => []ListOfOneMoment
  <1>1. IInv => ListOfOneMoment
    BY DEF IInv, Agrees, Listed, ListOfOneMoment
  <1> QED BY <1>1, Invariance, PTL

(* A deleted meme never comes back.                                        *)
THEOREM DeletedStaysGone == Spec => []GoneStaysGone
  <1>1. IInv => GoneStaysGone
    BY DEF IInv, Types, Rows, GoneStaysGone, NoRow
  <1> QED BY <1>1, Invariance, PTL

(* A view counter never exceeds the number of times its meme was shown.    *)
THEOREM CountersBounded == Spec => []CounterBounded
  <1>1. IInv => CounterBounded
    BY DEF IInv, Rows, CounterBounded
  <1> QED BY <1>1, Invariance, PTL

(* A connection about to commit is the only one in a transaction: the loop *)
(* over the rows of a SELECT meets no commit, and no write another one.    *)
CommitsAlone ==
  \A t, u \in Threads :
    th[t].pc = "exclusive" /\ u # t =>
      th[u].pc \notin {"reading", "reserved", "exclusive"}

(* SHARED, RESERVED and EXCLUSIVE as sql_lib.cc meets them keep a commit   *)
(* apart from every other transaction.                                     *)
THEOREM CommitExcludesAll == Spec => []CommitsAlone
  <1>1. IInv => CommitsAlone
    BY DEF IInv, Locks, CommitsAlone
  <1> QED BY <1>1, Invariance, PTL

-----------------------------------------------------------------------------
(* The refinement.  What a request shows of itself, in the three cases     *)
(* that matter: it is under way, it has read a meme, it is answered.       *)
LEMMA Shown ==
  ASSUME NEW r \in Records, Shape(r)
  PROVE  /\ r.pc \notin {"idle", "done"} /\ r.row = NoRow =>
              ShownCall(r) = [st |-> "called", m |-> r.m,
                              id |-> IF r.m = "POST" THEN None ELSE r.id,
                              c |-> r.c, res |-> None]
         /\ r.pc # "idle" /\ r.row # NoRow =>
              ShownCall(r) = [st |-> "ok", m |-> "GET", id |-> r.id,
                              c |-> r.c, res |-> r.row.c]
         /\ r.pc = "done" /\ r.row = NoRow /\ r.code < 400 =>
              ShownCall(r) = [st |-> "ok", m |-> r.m,
                              id |-> IF r.m # "POST" \/ r.eff THEN r.id ELSE None,
                              c |-> r.c, res |-> None]
         /\ r.pc = "done" /\ r.row = NoRow /\ r.code >= 400 =>
              ShownCall(r) = [st |-> "refused", m |-> r.m,
                              id |-> IF r.m # "POST" \/ r.eff THEN r.id ELSE None,
                              c |-> r.c, res |-> None]
  <1>1. CASE r.pc \notin {"idle", "done"} /\ r.row = NoRow
    BY <1>1 DEF ShownCall, Shape
  <1>2. CASE r.pc # "idle" /\ r.row # NoRow
    BY <1>2 DEF ShownCall, Shape
  <1>3. CASE r.pc = "done" /\ r.row = NoRow
    <2>1. r.code \in Nat
      BY DEF Records, Codes
    <2> QED BY <1>3, <2>1 DEF ShownCall
  <1> QED BY <1>1, <1>2, <1>3

(* Initially there is no meme and no call.                                 *)
LEMMA ServiceInit == Init => Service!Init
  BY DEF Init, Service!Init, Service!NoCall, ShownCall, Resting, NoRow

(* A step of thread t that leaves the rows alone changes what t shows.     *)
LEMMA LocalCall ==
  ASSUME IInv, NEW t \in Threads, NEW q, th' = [th EXCEPT ![t] = q], db' = db
  PROVE  /\ [u \in Threads |-> ShownCall(th[u])]' =
              [[u \in Threads |-> ShownCall(th[u])] EXCEPT ![t] = ShownCall(q)]
         /\ [i \in Ids |-> db[i].c]' = [i \in Ids |-> db[i].c]
  <1>1. \A u \in Threads : th'[u] = IF u = t THEN q ELSE th[u]
    BY DEF IInv, Types
  <1>2. \A u \in Threads : ShownCall(th'[u]) = IF u = t THEN ShownCall(q) ELSE ShownCall(th[u])
    BY <1>1
  <1>3. [u \in Threads |-> ShownCall(th'[u])] =
          [[u \in Threads |-> ShownCall(th[u])] EXCEPT ![t] = ShownCall(q)]
    BY <1>2
  <1> QED BY <1>3

(* ... and if t shows the same as before, it is a step of nobody.          *)
LEMMA HiddenStep ==
  ASSUME IInv, NEW t \in Threads, NEW q, th' = [th EXCEPT ![t] = q], db' = db,
         ShownCall(q) = ShownCall(th[t])
  PROVE  UNCHANGED Service!vars
  BY LocalCall DEF Service!vars

(* A request under way that has read nothing and is answered: with an      *)
(* error, or without a meme.                                               *)
LEMMA AnswerStep ==
  ASSUME IInv, IInv', NEW t \in Threads, NEW q, th' = [th EXCEPT ![t] = q], db' = db,
         th[t].pc \notin {"idle", "done"}, th[t].row = NoRow,
         q.pc = "done", q.m = th[t].m, q.id = th[t].id, q.c = th[t].c, ~q.eff,
         q.row = NoRow, q.code >= 400 \/ (q.code < 400 /\ q.m \in {"LIST", "OTHER"})
  PROVE  Service!Next
  <1> DEFINE call == [u \in Threads |-> ShownCall(th[u])]
  <1>1. th[t] \in Records /\ Shape(th[t]) /\ q \in Records /\ Shape(q)
    <2>1. th'[t] = q
      BY DEF IInv, Types
    <2> QED BY <2>1 DEF IInv, Types
  <1>2. /\ ShownCall(th[t]) = [st |-> "called", m |-> q.m,
                               id |-> IF q.m = "POST" THEN None ELSE q.id,
                               c |-> q.c, res |-> None]
        /\ q.code < 400 =>
              ShownCall(q) = [st |-> "ok", m |-> q.m,
                              id |-> IF q.m = "POST" THEN None ELSE q.id,
                              c |-> q.c, res |-> None]
        /\ q.code >= 400 =>
              ShownCall(q) = [st |-> "refused", m |-> q.m,
                              id |-> IF q.m = "POST" THEN None ELSE q.id,
                              c |-> q.c, res |-> None]
    BY <1>1, Shown
  <1>3. PICK st \in {"ok", "refused"} :
          /\ ShownCall(q) = [ShownCall(th[t]) EXCEPT !.st = st]
          /\ st = "ok" => q.m \in {"LIST", "OTHER"}
    <2>1. CASE q.code >= 400
      BY <1>2, <2>1
    <2>2. CASE q.code < 400 /\ q.m \in {"LIST", "OTHER"}
      BY <1>2, <2>2
    <2> QED BY <2>1, <2>2
  <1>4. /\ call' = [call EXCEPT ![t] = ShownCall(q)]
        /\ [i \in Ids |-> db[i].c]' = [i \in Ids |-> db[i].c]
    BY LocalCall
  <1>5. call' = [call EXCEPT ![t].st = st] /\ call[t].st = "called" /\ call[t].m = q.m
    <2>1. call[t] = ShownCall(th[t])
      OBVIOUS
    <2>2. [call EXCEPT ![t].st = st] = [call EXCEPT ![t] = [ShownCall(th[t]) EXCEPT !.st = st]]
      BY <2>1, Zenon
    <2>3. call' = [call EXCEPT ![t].st = st]
      BY <1>3, <1>4, <2>2, Zenon
    <2> QED BY <1>2, <2>1, <2>3
  <1>6. Service!Other(t)
    BY <1>3, <1>4, <1>5 DEF Service!Other
  <1> QED BY <1>6 DEF Service!Next

(* A request under way that stays under way, or has its meme and keeps it. *)
LEMMA UnderWayStep ==
  ASSUME IInv, IInv', NEW t \in Threads, NEW q, th' = [th EXCEPT ![t] = q], db' = db,
         th[t].pc \notin {"idle", "done"}, q.pc # "idle",
         q.row = th[t].row, q.pc = "done" => q.row # NoRow,
         q.m = th[t].m, q.c = th[t].c, q.id = th[t].id \/ q.m = "POST"
  PROVE  UNCHANGED Service!vars
  <1>1. th[t] \in Records /\ Shape(th[t]) /\ q \in Records /\ Shape(q)
    <2>1. th'[t] = q
      BY DEF IInv, Types
    <2> QED BY <2>1 DEF IInv, Types
  <1>2. CASE q.row = NoRow
    <2>1. ShownCall(q) = ShownCall(th[t])
      BY <1>1, <1>2, Shown
    <2> QED BY <2>1, HiddenStep
  <1>3. CASE q.row # NoRow
    <2>1. q.m = "GET"
      BY <1>1, <1>3 DEF Shape
    <2>2. ShownCall(q) = ShownCall(th[t])
      BY <1>1, <1>3, <2>1, Shown
    <2> QED BY <2>2, HiddenStep
  <1> QED BY <1>2, <1>3

(* A request that arrives is a call.                                       *)
LEMMA ServiceRequest ==
  ASSUME IInv, IInv', NEW t \in Threads, Request(t) PROVE Service!Next
  <1> USE MemeAssumption
  <1> DEFINE call == [u \in Threads |-> ShownCall(th[u])]
  <1>1. PICK q : th' = [th EXCEPT ![t] = q] /\ q.pc = "open" /\ q.row = NoRow
    BY RequestRecord
  <1>2. db' = db /\ th[t].pc = "idle"
    BY DEF Request
  <1>3. th'[t] = q /\ q \in Records /\ Shape(q)
    <2>1. th'[t] = q
      BY <1>1 DEF IInv, Types
    <2> QED BY <2>1 DEF IInv, Types
  <1>4. PICK i \in Ids \cup {None} :
          ShownCall(q) = [st |-> "called", m |-> q.m, id |-> i, c |-> q.c, res |-> None]
    <2>1. ShownCall(q) = [st |-> "called", m |-> q.m,
                          id |-> IF q.m = "POST" THEN None ELSE q.id,
                          c |-> q.c, res |-> None]
      BY <1>1, <1>3, Shown
    <2>2. (IF q.m = "POST" THEN None ELSE q.id) \in Ids \cup {None}
      BY <1>3 DEF Records
    <2> QED BY <2>1, <2>2
  <1>5. /\ call' = [call EXCEPT ![t] = ShownCall(q)]
        /\ [j \in Ids |-> db[j].c]' = [j \in Ids |-> db[j].c]
    BY <1>1, <1>2, LocalCall
  <1>6. call[t].st = "idle"
    BY <1>2 DEF ShownCall
  <1>7. Service!Call(t, q.m, i, q.c)
    BY <1>4, <1>5, <1>6 DEF Service!Call
  <1>8. q.m \in Service!Methods /\ q.c \in Contents \cup {None}
    BY <1>3 DEF Records, Methods, Service!Methods
  <1> QED BY <1>7, <1>8 DEF Service!Next

(* A refusal or a page is an answer without a meme; starting a statement   *)
(* is not seen.                                                            *)
LEMMA ServiceHandle ==
  ASSUME IInv, IInv', NEW t \in Threads, HandleRequest(t)
  PROVE  Service!Next \/ UNCHANGED Service!vars
  <1> DEFINE r == th[t]
  <1>1. /\ r \in Records /\ r.pc = "handle" /\ Shape(r) /\ db' = db /\ ~r.eff
        /\ r.row = NoRow
    BY DEF IInv, Types, HandleRequest, Shape, Executing
  <1>2. ASSUME NEW code, (r.m = "OTHER" /\ code \in Pages) \/ code \in {400, 500},
               th' = [th EXCEPT ![t] = [r EXCEPT !.pc = "done", !.code = code]]
        PROVE  Service!Next
    <2> DEFINE q == [r EXCEPT !.pc = "done", !.code = code]
    <2>1. /\ q.pc = "done" /\ q.m = r.m /\ q.id = r.id /\ q.c = r.c
          /\ q.eff = r.eff /\ q.row = r.row /\ q.code = code
      BY <1>1, Zenon DEF Records
    <2>2. code >= 400 \/ (code < 400 /\ r.m \in {"LIST", "OTHER"})
      BY <1>2 DEF Pages
    <2>3. PICK q2 : q2 = q
      OBVIOUS
    <2> HIDE DEF q
    <2>4. th' = [th EXCEPT ![t] = q2]
      BY <1>2, <2>3 DEF q
    <2>5. /\ q2.pc = "done" /\ q2.m = r.m /\ q2.id = r.id /\ q2.c = r.c
          /\ ~q2.eff /\ q2.row = NoRow
          /\ q2.code >= 400 \/ (q2.code < 400 /\ q2.m \in {"LIST", "OTHER"})
      BY <1>1, <2>1, <2>2, <2>3
    <2>6. r.pc \notin {"idle", "done"}
      BY <1>1
    <2> QED BY <1>1, <2>4, <2>5, <2>6, AnswerStep
  <1>3. ASSUME NEW q, th' = [th EXCEPT ![t] = q], q.pc \in {"write", "read"},
               q.m = r.m, q.c = r.c, q.row = r.row, q.id = r.id \/ q.m = "POST"
        PROVE  UNCHANGED Service!vars
    BY <1>1, <1>3, UnderWayStep
  <1>5. CASE ~r.ok /\ \E code \in Refusals(r.m) :
               UNCHANGED used /\ Set(t, [r EXCEPT !.pc = "done", !.code = code])
    <2>1. Refusals(r.m) \subseteq {400, 500}
      BY DEF Refusals
    <2>2. PICK code \in Refusals(r.m) :
            th' = [th EXCEPT ![t] = [r EXCEPT !.pc = "done", !.code = code]]
      BY <1>5 DEF Set
    <2> QED BY <1>2, <2>1, <2>2, Zenon
  <1>6. CASE r.m = "OTHER" /\ \E code \in Pages :
               UNCHANGED used /\ Set(t, [r EXCEPT !.pc = "done", !.code = code])
    <2>2. PICK code \in Pages :
            th' = [th EXCEPT ![t] = [r EXCEPT !.pc = "done", !.code = code]]
      BY <1>6 DEF Set
    <2> QED BY <1>2, <1>6, <2>2, Zenon
  <1>7. CASE r.m = "POST" /\ GenerateNewMeme(t)
    <2>1. PICK i \in Ids :
            th' = [th EXCEPT ![t] = [r EXCEPT !.pc = "write", !.stmt = "insert", !.id = i]]
      BY <1>7 DEF GenerateNewMeme, Set
    <2> DEFINE q == [r EXCEPT !.pc = "write", !.stmt = "insert", !.id = i]
    <2>2. q.pc = "write" /\ q.m = r.m /\ q.c = r.c /\ q.row = r.row
      BY <1>1, Zenon DEF Records
    <2> QED BY <1>3, <1>7, <2>1, <2>2, Zenon
  <1>8. ASSUME NEW pc \in {"write", "read"}, NEW stmt,
               th' = [th EXCEPT ![t] = [r EXCEPT !.pc = pc, !.stmt = stmt]]
        PROVE  UNCHANGED Service!vars
    <2> DEFINE q == [r EXCEPT !.pc = pc, !.stmt = stmt]
    <2>2. q.pc = pc /\ q.m = r.m /\ q.c = r.c /\ q.row = r.row /\ q.id = r.id
      BY <1>1, Zenon DEF Records
    <2> QED BY <1>3, <1>8, <2>2, Zenon
  <1>9. CASE /\ r.m \in {"PUT", "DELETE"}
             /\ Set(t, [r EXCEPT !.pc = "write",
                          !.stmt = IF r.m = "PUT" THEN "update" ELSE "delete"])
    BY <1>8, <1>9, Zenon DEF Set
  <1>10. CASE /\ r.m \in {"GET", "LIST"}
              /\ Set(t, [r EXCEPT !.pc = "read", !.stmt = "select"])
    BY <1>8, <1>10, Zenon DEF Set
  <1> QED BY <1>5, <1>6, <1>7, <1>9, <1>10 DEF HandleRequest

(* The constructor is not seen.                                            *)
LEMMA ServiceOpen ==
  ASSUME IInv, IInv', NEW t \in Threads, Open(t) PROVE UNCHANGED Service!vars
  <1> DEFINE r == th[t]
  <1>1. r \in Records /\ r.pc = "open" /\ Shape(r) /\ db' = db /\ r.row = NoRow
    BY DEF IInv, Types, Open, Shape, Executing
  <1>2. ASSUME NEW q, th' = [th EXCEPT ![t] = q], q.pc \in {"handle", "write"},
               q.m = r.m, q.c = r.c, q.row = r.row, q.id = r.id
        PROVE  UNCHANGED Service!vars
    BY <1>1, <1>2, UnderWayStep
  <1>3. CASE table
    <2> DEFINE q == [r EXCEPT !.pc = "handle"]
    <2>1. q.pc = "handle" /\ q.m = r.m /\ q.c = r.c /\ q.row = r.row /\ q.id = r.id
      BY <1>1, Zenon DEF Records
    <2>2. th' = [th EXCEPT ![t] = q]
      BY <1>3 DEF Open, Set
    <2> QED BY <1>2, <2>1, <2>2, Zenon
  <1>4. CASE ~table
    <2> DEFINE q == [r EXCEPT !.pc = "write", !.stmt = "create"]
    <2>1. q.pc = "write" /\ q.m = r.m /\ q.c = r.c /\ q.row = r.row /\ q.id = r.id
      BY <1>1, Zenon DEF Records
    <2>2. th' = [th EXCEPT ![t] = q]
      BY <1>4 DEF Open, Set
    <2> QED BY <1>2, <2>1, <2>2, Zenon
  <1> QED BY <1>3, <1>4

(* A statement that takes its next lock, or begins to read.                *)
LEMMA ServiceLock ==
  ASSUME IInv, IInv', NEW t \in Threads, db' = db,
         th[t].pc \in {"write", "reserved", "read"},
         NEW pc \in {"reserved", "exclusive", "reading", "got"},
         th' = [th EXCEPT ![t] = [th[t] EXCEPT !.pc = pc]]
  PROVE  UNCHANGED Service!vars
  <1>1. th[t] \in Records
    BY DEF IInv, Types
  <1>2. PICK q : q = [th[t] EXCEPT !.pc = pc]
    OBVIOUS
  <1>3. /\ q.pc = pc /\ q.m = th[t].m /\ q.c = th[t].c /\ q.row = th[t].row
        /\ q.id = th[t].id
    BY <1>1, <1>2, Zenon DEF Records
  <1>4. th' = [th EXCEPT ![t] = q]
    BY <1>2
  <1> QED BY <1>3, <1>4, UnderWayStep

(* A statement that fails is an error to the client, except the two whose  *)
(* result is ignored.                                                      *)
LEMMA ServiceFailed ==
  ASSUME IInv, IInv', NEW t \in Threads, Executing(th[t]), NEW done \in BOOLEAN,
         th[t].stmt \in {"insert", "update", "delete"} => ~done,
         th' = [th EXCEPT ![t] = Returned(th[t], done)], db' = db
  PROVE  Service!Next \/ UNCHANGED Service!vars
  <1> DEFINE r == th[t]
  <1>1. r \in Records /\ Shape(r) /\ r.pc \notin {"idle", "done"}
    BY DEF IInv, Types, Executing
  <1>2. PICK q : q = Returned(r, done)
    OBVIOUS
  <1>3. /\ q \in Records /\ Shape(q)
        /\ q.pc \in {"handle", "done"}
        /\ q.m = r.m /\ q.id = r.id /\ q.c = r.c /\ q.row = r.row
        /\ r.stmt = "create" <=> q.pc = "handle"
        /\ ~q.eff
    BY <1>1, <1>2, ReturnedFailed
  <1>4. th' = [th EXCEPT ![t] = q]
    BY <1>2
  <1>5. CASE r.stmt \in {"create", "count"}
    <2>1. q.pc = "done" => q.row # NoRow
      BY <1>1, <1>3, <1>5 DEF Shape
    <2> QED BY <1>1, <1>3, <1>4, <2>1, UnderWayStep
  <1>6. CASE r.stmt \notin {"create", "count"}
    <2>1. r.m \in {"POST", "PUT", "DELETE"} /\ r.row = NoRow
      BY <1>1, <1>6 DEF Shape
    <2>2. q.pc = "done" /\ q.code >= 400
      BY <1>3, <1>6, <2>1 DEF Shape
    <2> QED BY <1>1, <1>3, <1>4, <2>1, <2>2, AnswerStep
  <1> QED BY <1>5, <1>6

(* Taking RESERVED is not seen; failing to get it is an error.             *)
LEMMA ServiceBeginWrite ==
  ASSUME IInv, IInv', NEW t \in Threads, BeginWrite(t)
  PROVE  Service!Next \/ UNCHANGED Service!vars
  <1>1. th[t].pc = "write" /\ db' = db /\ Executing(th[t])
    BY DEF BeginWrite, Executing
  <1>2. CASE Set(t, [th[t] EXCEPT !.pc = "reserved"])
    BY <1>1, <1>2, ServiceLock DEF Set
  <1>3. CASE Set(t, Returned(th[t], th[t].stmt = "create"))
    <2>1. PICK done \in BOOLEAN : done = (th[t].stmt = "create")
      OBVIOUS
    <2>2. th[t].stmt \in {"insert", "update", "delete"} => ~done
      BY <2>1
    <2>3. th' = [th EXCEPT ![t] = Returned(th[t], done)]
      BY <1>3, <2>1, Zenon DEF Set
    <2> QED BY <1>1, <2>2, <2>3, ServiceFailed
  <1> QED BY <1>2, <1>3 DEF BeginWrite

(* Taking EXCLUSIVE is not seen; failing to get it is an error.            *)
LEMMA ServiceRaiseLock ==
  ASSUME IInv, IInv', NEW t \in Threads, RaiseLock(t)
  PROVE  Service!Next \/ UNCHANGED Service!vars
  <1>1. th[t].pc = "reserved" /\ db' = db /\ Executing(th[t])
    BY DEF RaiseLock, Executing
  <1>2. CASE Set(t, [th[t] EXCEPT !.pc = "exclusive"])
    BY <1>1, <1>2, ServiceLock DEF Set
  <1>3. CASE Set(t, Returned(th[t], FALSE))
    <2>1. PICK done \in BOOLEAN : done = FALSE
      OBVIOUS
    <2>2. th' = [th EXCEPT ![t] = Returned(th[t], done)]
      BY <1>3, <2>1, Zenon DEF Set
    <2> QED BY <1>1, <2>1, <2>2, ServiceFailed
  <1> QED BY <1>2, <1>3 DEF RaiseLock

(* Beginning to read is not seen, nor that the SELECT fails.               *)
LEMMA ServiceBeginRead ==
  ASSUME IInv, IInv', NEW t \in Threads, BeginRead(t) PROVE UNCHANGED Service!vars
  <1>1. th[t].pc = "read" /\ db' = db
    BY DEF BeginRead
  <1>2. PICK pc \in {"reading", "got"} : th' = [th EXCEPT ![t] = [th[t] EXCEPT !.pc = pc]]
    BY DEF BeginRead, Set
  <1> QED BY <1>1, <1>2, ServiceLock

(* A row of a list is not seen before the answer.                          *)
LEMMA ServiceReadRow ==
  ASSUME IInv, IInv', NEW t \in Threads, ReadRow(t) PROVE UNCHANGED Service!vars
  <1>1. th[t] \in Records /\ th[t].pc = "reading" /\ db' = db
    BY DEF ReadRow, IInv, Types
  <1>2. PICK list : th' = [th EXCEPT ![t] = [th[t] EXCEPT !.list = list]]
    BY DEF ReadRow, Set
  <1>3. PICK q : q = [th[t] EXCEPT !.list = list]
    OBVIOUS
  <1>4. /\ q.pc = "reading" /\ q.m = th[t].m /\ q.c = th[t].c /\ q.row = th[t].row
        /\ q.id = th[t].id
    BY <1>1, <1>3, Zenon DEF Records
  <1>5. th' = [th EXCEPT ![t] = q]
    BY <1>2, <1>3
  <1> QED BY <1>1, <1>4, <1>5, UnderWayStep

(* A GET takes effect when its SELECT is done.                             *)
LEMMA ServiceFinishRead ==
  ASSUME IInv, IInv', NEW t \in Threads, FinishRead(t)
  PROVE  Service!Next \/ UNCHANGED Service!vars
  <1> USE MemeAssumption
  <1> DEFINE r == th[t]
             call == [u \in Threads |-> ShownCall(th[u])]
  <1>1. /\ r \in Records /\ r.pc = "reading" /\ Shape(r) /\ db' = db /\ r.row = NoRow
    BY DEF IInv, Types, FinishRead, Shape, Executing
  <1>2. PICK row :
          /\ row = IF r.m = "GET" THEN db[r.id] ELSE NoRow
          /\ th' = [th EXCEPT ![t] = [r EXCEPT !.pc = "got", !.row = row]]
    BY DEF FinishRead, Set
  <1>3. PICK q : /\ th' = [th EXCEPT ![t] = q]
                 /\ q.pc = "got" /\ q.m = r.m /\ q.id = r.id /\ q.c = r.c /\ q.row = row
    <2> DEFINE q == [r EXCEPT !.pc = "got", !.row = row]
    <2>1. q.pc = "got" /\ q.m = r.m /\ q.id = r.id /\ q.c = r.c /\ q.row = row
      BY <1>1, Zenon DEF Records
    <2> QED BY <1>2, <2>1, Zenon
  <1>4. CASE row = NoRow
    BY <1>1, <1>3, <1>4, UnderWayStep
  <1>5. CASE row # NoRow
    <2>1. r.m = "GET" /\ row = db[r.id] /\ r.id \in Ids /\ row.c # None
      BY <1>1, <1>2, <1>5 DEF Shape, IInv, Rows
    <2>2. q \in Records /\ Shape(q)
      <3>1. th'[t] = q
        BY <1>3 DEF IInv, Types
      <3> QED BY <3>1 DEF IInv, Types
    <2>3. /\ ShownCall(r) = [st |-> "called", m |-> "GET", id |-> r.id,
                             c |-> r.c, res |-> None]
          /\ ShownCall(q) = [st |-> "ok", m |-> "GET", id |-> r.id,
                             c |-> r.c, res |-> row.c]
      BY <1>1, <1>3, <1>5, <2>1, <2>2, Shown
    <2>4. /\ call' = [call EXCEPT ![t] = ShownCall(q)]
          /\ [j \in Ids |-> db[j].c]' = [j \in Ids |-> db[j].c]
      BY <1>1, <1>3, LocalCall
    <2>5. call[t] = ShownCall(r)
      OBVIOUS
    <2>6. ShownCall(q) = [ShownCall(r) EXCEPT !.st = "ok", !.res = row.c]
      <3>1. PICK a : a = [ShownCall(r) EXCEPT !.st = "ok"]
        OBVIOUS
      <3>2. a = [st |-> "ok", m |-> "GET", id |-> r.id, c |-> r.c, res |-> None]
        BY <2>3, <3>1
      <3>3. PICK x : x = row.c
        OBVIOUS
      <3>4. [a EXCEPT !.res = x] =
              [st |-> "ok", m |-> "GET", id |-> r.id, c |-> r.c, res |-> x]
        BY <3>2
      <3> QED BY <2>3, <3>1, <3>3, <3>4
    <2>7. [call EXCEPT ![t].st = "ok", ![t].res = row.c] = [call EXCEPT ![t] = ShownCall(q)]
      BY <2>5, <2>6
    <2>8. row.c = [j \in Ids |-> db[j].c][call[t].id]
      BY <2>1, <2>3, <2>5
    <2>9. Service!Get(t)
      BY <2>1, <2>3, <2>4, <2>5, <2>7, <2>8 DEF Service!Get
    <2> QED BY <2>9 DEF Service!Next
  <1> QED BY <1>4, <1>5

(* A listing and a 404 are answers without a meme; a GET that has its meme *)
(* was answered when it read it, and the counter is not seen.              *)
LEMMA ServiceUseResult ==
  ASSUME IInv, IInv', NEW t \in Threads, UseResult(t)
  PROVE  Service!Next \/ UNCHANGED Service!vars
  <1> DEFINE r == th[t]
  <1>1. r \in Records /\ r.pc = "got" /\ Shape(r) /\ db' = db /\ ~r.eff
    BY DEF IInv, Types, UseResult, Shape
  <1>2. ASSUME NEW code \in {200, 404}, r.row = NoRow, r.m = "LIST" \/ code = 404,
               th' = [th EXCEPT ![t] = [r EXCEPT !.pc = "done", !.code = code]]
        PROVE  Service!Next
    <2>1. PICK q : q = [r EXCEPT !.pc = "done", !.code = code]
      OBVIOUS
    <2>2. /\ q.pc = "done" /\ q.m = r.m /\ q.id = r.id /\ q.c = r.c
          /\ q.eff = r.eff /\ q.row = r.row /\ q.code = code
      BY <1>1, <2>1, Zenon DEF Records
    <2>3. th' = [th EXCEPT ![t] = q]
      BY <1>2, <2>1
    <2>4. q.code >= 400 \/ (q.code < 400 /\ q.m \in {"LIST", "OTHER"})
      BY <1>2, <2>2
    <2> QED BY <1>1, <1>2, <2>2, <2>3, <2>4, AnswerStep
  <1>3. ASSUME r.m = "GET", r.row # NoRow,
               th' = [th EXCEPT ![t] = [r EXCEPT !.pc = "write", !.stmt = "count"]]
        PROVE  UNCHANGED Service!vars
    <2>1. PICK q : q = [r EXCEPT !.pc = "write", !.stmt = "count"]
      OBVIOUS
    <2>2. q.pc = "write" /\ q.m = r.m /\ q.id = r.id /\ q.c = r.c /\ q.row = r.row
      BY <1>1, <2>1, Zenon DEF Records
    <2>3. th' = [th EXCEPT ![t] = q]
      BY <1>3, <2>1
    <2> QED BY <1>1, <2>2, <2>3, UnderWayStep
  <1>4. r.m = "LIST" => r.row = NoRow
    BY <1>1 DEF Shape
  <1> QED BY <1>1, <1>2, <1>3, <1>4 DEF UseResult, Set

(* The response goes out.                                                  *)
LEMMA ServiceReply ==
  ASSUME IInv, NEW t \in Threads, Reply(t) PROVE Service!Next
  <1> DEFINE call == [u \in Threads |-> ShownCall(th[u])]
  <1>1. /\ th[t] \in Records /\ Shape(th[t]) /\ th[t].pc = "done" /\ db' = db
        /\ th' = [th EXCEPT ![t] = Resting]
    BY DEF IInv, Types, Reply, Set
  <1>2. th[t].code \in Nat
    BY <1>1 DEF Records, Codes
  <1>3. call[t].st \in {"ok", "refused"}
    <2>1. CASE th[t].row # NoRow
      BY <1>1, <2>1, Shown
    <2>2. CASE th[t].row = NoRow
      BY <1>1, <1>2, <2>2, Shown
    <2> QED BY <2>1, <2>2
  <1>4. ShownCall(Resting) = Service!NoCall
    BY DEF ShownCall, Resting, Service!NoCall
  <1>5. /\ call' = [call EXCEPT ![t] = ShownCall(Resting)]
        /\ [j \in Ids |-> db[j].c]' = [j \in Ids |-> db[j].c]
    <2>1. PICK q : q = Resting
      OBVIOUS
    <2> QED BY <1>1, <2>1, LocalCall
  <1>6. Service!Reply(t)
    BY <1>3, <1>4, <1>5 DEF Service!Reply
  <1> QED BY <1>6 DEF Service!Next

(* A restart loses the calls and keeps the store.                          *)
LEMMA ServiceCrash ==
  ASSUME IInv, Crash PROVE Service!Next
  <1>1. ShownCall(Resting) = Service!NoCall
    BY DEF ShownCall, Resting, Service!NoCall
  <1>2. \A t \in Threads : th'[t] = Resting
    BY DEF Crash
  <1>3. [t \in Threads |-> ShownCall(th[t])]' = [t \in Threads |-> Service!NoCall]
    BY <1>1, <1>2
  <1>4. db' = db
    BY DEF Crash
  <1>5. Service!Crash
    BY <1>3, <1>4 DEF Service!Crash
  <1> QED BY <1>5 DEF Service!Next

(* A write takes effect when it is committed.                              *)
LEMMA ServiceCommit ==
  ASSUME IInv, IInv', NEW t \in Threads, Commit(t)
  PROVE  Service!Next \/ UNCHANGED Service!vars
  <1> USE MemeAssumption
  <1> DEFINE r == th[t]
             call  == [u \in Threads |-> ShownCall(th[u])]
             store == [i \in Ids |-> db[i].c]
  <1>1. /\ r.pc = "exclusive" /\ db' = Written(r) /\ Executing(r) /\ r \in Records
        /\ Shape(r) /\ Agrees(r) /\ db \in [Ids -> Row]
        /\ \A i \in Ids : db[i] \in Row /\ (db[i].c = None => db[i] = NoRow)
    BY DEF Commit, Executing, IInv, Types, Rows
  <1>2. PICK q : q = th'[t]
    OBVIOUS
  <1>3. /\ q \in Records /\ Shape(q) /\ q.pc \in {"handle", "done"}
        /\ q.m = r.m /\ q.id = r.id /\ q.row = r.row /\ q.c = r.c
        /\ r.stmt = "create" <=> q.pc = "handle"
        /\ q.eff <=> r.stmt # "create"
    BY <1>2, CommitRecords
  <1>4. \A u \in Threads \ {t} : ShownCall(th'[u]) = ShownCall(th[u])
    <2> SUFFICES ASSUME NEW u \in Threads \ {t}
                 PROVE  ShownCall(th'[u]) = ShownCall(th[u])
      OBVIOUS
    <2>1. /\ th'[u].pc = th[u].pc /\ th'[u].m = th[u].m /\ th'[u].id = th[u].id
          /\ th'[u].c = th[u].c /\ th'[u].row = th[u].row
          /\ th'[u].code = th[u].code /\ th'[u].eff = th[u].eff
      BY CommitRecords
    <2> QED BY <2>1 DEF ShownCall
  <1>5. call' = [call EXCEPT ![t] = ShownCall(q)]
    <2>1. [u \in Threads |-> ShownCall(th'[u])] =
            [[u \in Threads |-> ShownCall(th[u])] EXCEPT ![t] = ShownCall(q)]
      BY <1>2, <1>4
    <2> QED BY <2>1
  <1>6. CASE r.stmt \in {"create", "count"}
    <2>1. store' = store
      <3>1. \A i \in Ids : db'[i].c = db[i].c
        <4>1. CASE r.stmt = "create"
          BY <1>1, <4>1 DEF Written
        <4>2. CASE r.stmt = "count"
          <5>1. r.id \in Ids
            BY <1>1, <4>2 DEF Shape
          <5>2. db' = [db EXCEPT ![r.id] = IF db[r.id].c = None THEN db[r.id]
                                           ELSE [db[r.id] EXCEPT !.n = r.row.n + 1]]
            BY <1>1, <4>2, <5>1 DEF Written
          <5>3. [db[r.id] EXCEPT !.n = r.row.n + 1].c = db[r.id].c
            BY <1>1, <5>1 DEF Row
          <5> QED BY <1>1, <5>1, <5>2, <5>3
        <4> QED BY <1>6, <4>1, <4>2
      <3> QED BY <3>1
    <2>2. ShownCall(q) = ShownCall(r)
      <3>1. CASE r.row = NoRow
        <4>1. q.pc = "handle"
          BY <1>1, <1>3, <1>6, <3>1 DEF Shape
        <4> QED BY <1>1, <1>3, <3>1, <4>1, Shown
      <3>2. CASE r.row # NoRow
        BY <1>1, <1>3, <3>2, Shown
      <3> QED BY <3>1, <3>2
    <2>3. call' = call
      BY <1>5, <2>2
    <2> QED BY <2>1, <2>3 DEF Service!vars
  <1>7. ASSUME r.stmt \in {"insert", "update", "delete"}
        PROVE  /\ ShownCall(r) = [st |-> "called", m |-> r.m,
                                 id |-> IF r.m = "POST" THEN None ELSE r.id,
                                 c |-> r.c, res |-> None]
               /\ ShownCall(q) = [st |-> "ok", m |-> r.m, id |-> r.id,
                                 c |-> r.c, res |-> None]
               /\ r.id \in Ids
    <2>1. r.row = NoRow /\ r.m \in {"POST", "PUT", "DELETE"} /\ r.id \in Ids
      BY <1>1, <1>7 DEF Shape
    <2>2. q.pc = "done" /\ q.eff /\ q.code \in {200, 201}
      BY <1>3, <1>7, <2>1 DEF Shape
    <2>3. q.code < 400
      BY <2>2
    <2> QED BY <1>1, <1>3, <2>1, <2>2, <2>3, Shown
  <1>8. call[t] = ShownCall(r)
    OBVIOUS
  <1>9. CASE r.stmt = "insert"
    <2>1. r.m = "POST" /\ db[r.id] = NoRow
      BY <1>1, <1>9 DEF Shape, Agrees, Inserting
    <2>2. store' = [store EXCEPT ![r.id] = r.c]
      <3>1. \A i \in Ids : db'[i].c = IF i = r.id THEN r.c ELSE db[i].c
        BY <1>1, <1>9 DEF Written
      <3> QED BY <3>1
    <2>3. ShownCall(q) = [ShownCall(r) EXCEPT !.st = "ok", !.id = r.id]
      <3>1. /\ ShownCall(r) = [st |-> "called", m |-> "POST", id |-> None,
                               c |-> r.c, res |-> None]
            /\ ShownCall(q) = [st |-> "ok", m |-> "POST", id |-> r.id,
                               c |-> r.c, res |-> None]
        BY <1>7, <1>9, <2>1
      <3>2. PICK a : a = [ShownCall(r) EXCEPT !.st = "ok"]
        OBVIOUS
      <3>3. a = [st |-> "ok", m |-> "POST", id |-> None, c |-> r.c, res |-> None]
        BY <3>1, <3>2
      <3>4. [a EXCEPT !.id = r.id] =
              [st |-> "ok", m |-> "POST", id |-> r.id, c |-> r.c, res |-> None]
        BY <3>3
      <3> QED BY <3>1, <3>2, <3>4
    <2>4. [call EXCEPT ![t].st = "ok", ![t].id = r.id] = [call EXCEPT ![t] = ShownCall(q)]
      BY <1>8, <2>3
    <2>5. store[r.id] = None /\ call[t].st = "called" /\ call[t].m = "POST"
          /\ call[t].c = r.c /\ r.id \in Ids
      BY <1>7, <1>8, <1>9, <2>1 DEF NoRow
    <2>6. PICK i \in Ids : i = r.id
      BY <2>5
    <2>7. Service!Post(t, i)
      BY <1>5, <2>2, <2>4, <2>5, <2>6 DEF Service!Post
    <2> QED BY <2>7 DEF Service!Next
  <1>10. ASSUME r.stmt \in {"update", "delete"}
         PROVE  /\ call' = [call EXCEPT ![t].st = "ok"]
                /\ call[t].st = "called" /\ call[t].id = r.id /\ r.id \in Ids
                /\ call[t].m = r.m /\ call[t].c = r.c /\ store[r.id] = db[r.id].c
    <2>1. r.m # "POST"
      BY <1>1, <1>10 DEF Shape
    <2>2. ShownCall(q) = [ShownCall(r) EXCEPT !.st = "ok"]
      BY <1>7, <1>10, <2>1
    <2>3. [call EXCEPT ![t].st = "ok"] = [call EXCEPT ![t] = ShownCall(q)]
      BY <1>8, <2>2
    <2> QED BY <1>5, <1>7, <1>8, <1>10, <2>1, <2>3
  <1>11. CASE r.stmt = "update"
    <2>1. r.m = "PUT" /\ r.id \in Ids
      BY <1>1, <1>11 DEF Shape
    <2>2. db' = [db EXCEPT ![r.id] = IF db[r.id].c = None THEN db[r.id]
                                     ELSE [db[r.id] EXCEPT !.c = r.c]]
      BY <1>1, <1>11, <2>1 DEF Written
    <2>3. [db[r.id] EXCEPT !.c = r.c].c = r.c
      BY <1>1, <2>1 DEF Row
    <2>4. \A i \in Ids : db'[i].c = IF i # r.id THEN db[i].c
                                    ELSE IF db[r.id].c = None THEN None ELSE r.c
      BY <1>1, <2>1, <2>2, <2>3
    <2>5. store' = [store EXCEPT ![r.id] = IF store[r.id] = None THEN None ELSE r.c]
      BY <2>1, <2>4
    <2>6. Service!Put(t)
      BY <1>10, <1>11, <2>1, <2>5 DEF Service!Put
    <2> QED BY <2>6 DEF Service!Next
  <1>12. CASE r.stmt = "delete"
    <2>1. r.m = "DELETE" /\ r.id \in Ids
      BY <1>1, <1>12 DEF Shape
    <2>2. db' = [db EXCEPT ![r.id] = NoRow]
      BY <1>1, <1>12 DEF Written
    <2>3. \A i \in Ids : db'[i].c = IF i # r.id THEN db[i].c ELSE None
      BY <1>1, <2>1, <2>2 DEF NoRow
    <2>4. store' = [store EXCEPT ![r.id] = None]
      BY <2>1, <2>3
    <2>5. Service!Delete(t)
      BY <1>10, <1>12, <2>1, <2>4 DEF Service!Delete
    <2> QED BY <2>5 DEF Service!Next
  <1> QED BY <1>1, <1>6, <1>9, <1>11, <1>12 DEF Shape

(* The handler implements the atomic store: every step of it is a step of  *)
(* the store or one that its clients do not see.                           *)
THEOREM StoreImplementsService == Spec => ImplementsService
  <1>1. IInv /\ IInv' /\ [Next]_vars => [Service!Next]_Service!vars
    <2> SUFFICES ASSUME IInv, IInv', [Next]_vars
                 PROVE  Service!Next \/ UNCHANGED Service!vars
      OBVIOUS
    <2>1. CASE Next
      BY <2>1, ServiceRequest, ServiceOpen, ServiceHandle, ServiceBeginWrite,
         ServiceRaiseLock, ServiceCommit, ServiceBeginRead, ServiceReadRow,
         ServiceFinishRead, ServiceUseResult, ServiceReply, ServiceCrash DEF Next
    <2>2. CASE UNCHANGED vars
      BY <2>2 DEF vars, Service!vars
    <2> QED BY <2>1, <2>2
  <1> QED BY <1>1, ServiceInit, Invariance, PTL
           DEF Spec, ImplementsService, Service!Spec
=============================================================================
