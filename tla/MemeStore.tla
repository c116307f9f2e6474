----------------------------- MODULE MemeStore -----------------------------
(***************************************************************************)
(* The meme handler over its SQLite database: src/meme_handler.cc and      *)
(* src/sql_lib.cc.                                                         *)
(*                                                                         *)
(* Every request opens a connection of its own, and each statement is a    *)
(* transaction of its own.  SQLite is external; its rollback-journal locks *)
(* are modelled as sql_lib.cc meets them.  A reader holds SHARED.  A       *)
(* writer holds RESERVED, next to readers, and needs EXCLUSIVE to commit.  *)
(* No busy timeout is set, so a lock that is not free makes the statement  *)
(* fail at once (SQLITE_BUSY) and its transaction is rolled back.          *)
(***************************************************************************)
EXTENDS Naturals, FiniteSets

CONSTANTS
  Threads,       \* pool threads, each with the connection of its request
  Ids,           \* the UUIDs that are generated or asked for
  Contents,      \* (template, top caption, bottom caption) of a valid body
  None,          \* no content, no thread
  MaxRequests,   \* the most requests (model bound)
  MaxCrashes     \* the most restarts of the process (model bound)

ASSUME MemeAssumption ==
  /\ None \notin Contents \cup Ids \cup Threads
  /\ IsFiniteSet(Threads)
  /\ MaxRequests \in Nat
  /\ MaxCrashes \in Nat

VARIABLES
  table,      \* meme_table exists
  db,         \* its committed rows, by id
  shared,     \* the connections that hold a SHARED lock
  reserved,   \* the connection that holds RESERVED, or None
  exclusive,  \* ... and has raised it to EXCLUSIVE
  th,         \* the request each thread serves
  used,       \* the ids random_generator has returned
  gone,       \* the ids whose row has been deleted (history)
  views,      \* the memes shown, by id (history)
  requests, crashes

locks == <<shared, reserved, exclusive>>
vars  == <<table, db, locks, th, used, gone, views, requests, crashes>>

-----------------------------------------------------------------------------
Methods == {"POST", "PUT", "DELETE", "GET", "LIST", "OTHER"}
NoRow   == [c |-> None, n |-> 0]

(***************************************************************************)
(* A thread's request: method m, the id of the URI or the new one, whether *)
(* id and body pass check_id and body_check, the body's content c; then    *)
(* the statement stmt being executed, the row and the ids it returned, the *)
(* response code, and whether a write of the request was committed (eff).  *)
(* like holds the contents that a LIST asks for: all, or those whose       *)
(* captions hold a search term.  History: the contents and the absence of  *)
(* row id since the call (past), and the sets of ids whose row a LIST      *)
(* could have met together since the call (moments).                       *)
(***************************************************************************)
Resting == [pc |-> "idle", m |-> "OTHER", id |-> None, ok |-> TRUE, c |-> None,
            stmt |-> "none", row |-> NoRow, list |-> {}, code |-> 0,
            eff |-> FALSE, like |-> {}, past |-> {}, moments |-> {}]

Present == {i \in Ids : db[i].c # None}

(* The rows that meme_list (all contents) or meme_search (LIKE '%...%' on  *)
(* either caption) selects.                                                *)
Matching(rows, like) == {i \in Ids : rows[i].c \in like}

Init ==
  /\ table = FALSE
  /\ db = [i \in Ids |-> NoRow]
  /\ shared = {} /\ reserved = None /\ exclusive = FALSE
  /\ th = [t \in Threads |-> Resting]
  /\ used = {} /\ gone = {}
  /\ views = [i \in Ids |-> 0]
  /\ requests = 0 /\ crashes = 0

Set(t, r) == th' = [th EXCEPT ![t] = r]

(* The router has selected the meme handler for a request.                 *)
Request(t) ==
  /\ th[t].pc = "idle"
  /\ requests < MaxRequests
  /\ requests' = requests + 1
  /\ \E m \in Methods :
     \E i \in IF m \in {"PUT", "DELETE", "GET"} THEN Ids ELSE {None} :
     \E c \in IF m \in {"POST", "PUT"} THEN Contents ELSE {None} :
     \E ok \in IF m \in {"POST", "PUT", "DELETE", "LIST"} THEN BOOLEAN ELSE {TRUE} :
     \E like \in IF m = "LIST" /\ ok THEN SUBSET Contents ELSE {{}} :
       Set(t, [Resting EXCEPT !.pc = "open", !.m = m, !.id = i, !.c = c, !.ok = ok,
                 !.like = like,
                 !.past = IF i = None THEN {} ELSE {db[i].c},
                 !.moments = IF m = "LIST" THEN {Matching(db, like)} ELSE {}])
  /\ UNCHANGED <<table, db, locks, used, gone, views, crashes>>

(* The constructor connects; CREATE TABLE IF NOT EXISTS is a write only if *)
(* there is no table, and its failure is ignored.                          *)
Open(t) ==
  /\ th[t].pc = "open"
  /\ Set(t, IF table THEN [th[t] EXCEPT !.pc = "handle"]
            ELSE [th[t] EXCEPT !.pc = "write", !.stmt = "create"])
  /\ UNCHANGED <<table, db, locks, used, gone, views, requests, crashes>>

(* The response to a request whose id or body is refused: 400 from the     *)
(* checks themselves, 500 where UriDecode throws in body_check or          *)
(* meme_search.                                                            *)
Refusals(m) ==
  CASE m = "DELETE" -> {400}
    [] m = "LIST"   -> {500}
    [] OTHER        -> {400, 500}

(* redirect_request and invalid_method.                                    *)
Pages == {303, 405}

(* generate_new_meme: a fresh random UUID and an INSERT.                   *)
GenerateNewMeme(t) ==
  \E i \in Ids \ used :
    /\ used' = used \cup {i}
    /\ Set(t, [th[t] EXCEPT !.pc = "write", !.stmt = "insert", !.id = i])

(* handle_request: refuse the request, answer what needs no row, or start  *)
(* the request's statement.                                                *)
HandleRequest(t) ==
  /\ th[t].pc = "handle"
  /\ \/ /\ ~th[t].ok
        /\ \E code \in Refusals(th[t].m) :
             Set(t, [th[t] EXCEPT !.pc = "done", !.code = code])
        /\ UNCHANGED used
     \/ /\ th[t].m = "OTHER"
        /\ \E code \in Pages :
             Set(t, [th[t] EXCEPT !.pc = "done", !.code = code])
        /\ UNCHANGED used
     \/ /\ th[t].ok /\ th[t].m = "POST"
        /\ GenerateNewMeme(t)
     \/ /\ th[t].ok /\ th[t].m \in {"PUT", "DELETE"}
        /\ Set(t, [th[t] EXCEPT !.pc = "write",
                     !.stmt = IF th[t].m = "PUT" THEN "update" ELSE "delete"])
        /\ UNCHANGED used
     \/ /\ th[t].ok /\ th[t].m \in {"GET", "LIST"}
        /\ Set(t, [th[t] EXCEPT !.pc = "read", !.stmt = "select"])
        /\ UNCHANGED used
  /\ UNCHANGED <<table, db, locks, gone, views, requests, crashes>>

-----------------------------------------------------------------------------
(* insert_record, update_record, delete_record, create_table.              *)

(* Mutants: a failed insert is not answered; a failed update is answered   *)
(* like a successful one.                                                  *)
ReturnedSilent(r, done) ==
  CASE r.stmt = "create" -> [r EXCEPT !.pc = "handle"]
    [] r.stmt = "insert" -> [r EXCEPT !.pc = "done", !.code = IF done THEN 201 ELSE 0]
    [] OTHER             -> [r EXCEPT !.pc = "done", !.code = IF done THEN 200 ELSE 500]

ReturnedIgnores(r, done) ==
  CASE r.stmt = "create" -> [r EXCEPT !.pc = "handle"]
    [] r.stmt = "insert" -> [r EXCEPT !.pc = "done", !.code = IF done THEN 201 ELSE 500]
    [] OTHER             -> [r EXCEPT !.pc = "done", !.code = 200]

(* What the handler does when the statement of r returns true or false:    *)
(* the constructor and the view counter ignore it.                         *)
Returned(r, done) ==
  CASE r.stmt = "create" -> [r EXCEPT !.pc = "handle"]
    [] r.stmt = "count"  -> [r EXCEPT !.pc = "done", !.code = 200]
    [] r.stmt = "insert" -> [r EXCEPT !.pc = "done", !.code = IF done THEN 201 ELSE 500]
    [] OTHER             -> [r EXCEPT !.pc = "done", !.code = IF done THEN 200 ELSE 500]

(* sqlite3_step of a write: RESERVED, or SQLITE_BUSY while another writer  *)
(* is active.  A statement on a table that is not there was not prepared.  *)
BeginWrite(t) ==
  /\ th[t].pc = "write"
  /\ IF reserved = None /\ (table <=> th[t].stmt # "create")
     THEN /\ reserved' = t
          /\ Set(t, [th[t] EXCEPT !.pc = "reserved"])
     ELSE /\ Set(t, Returned(th[t], th[t].stmt = "create"))
          /\ UNCHANGED reserved
  /\ UNCHANGED <<table, db, shared, exclusive, used, gone, views, requests, crashes>>

(* To commit it takes EXCLUSIVE; with a reader active that is SQLITE_BUSY  *)
(* and the transaction is rolled back.                                     *)
RaiseLock(t) ==
  /\ th[t].pc = "reserved"
  /\ IF shared = {}
     THEN /\ exclusive' = TRUE
          /\ Set(t, [th[t] EXCEPT !.pc = "exclusive"])
          /\ UNCHANGED reserved
     ELSE /\ reserved' = None
          /\ Set(t, Returned(th[t], FALSE))
          /\ UNCHANGED exclusive
  /\ UNCHANGED <<table, db, shared, used, gone, views, requests, crashes>>

(* A mutant: the view counter is written back with the row it was read in. *)
WrittenWhole(r) ==
  CASE r.stmt = "insert" -> [db EXCEPT ![r.id] = [c |-> r.c, n |-> 0]]
    [] r.stmt = "update" -> [db EXCEPT ![r.id] = IF @.c = None THEN @ ELSE [@ EXCEPT !.c = r.c]]
    [] r.stmt = "delete" -> [db EXCEPT ![r.id] = NoRow]
    [] r.stmt = "count"  -> [db EXCEPT ![r.id] = IF @.c = None THEN @ ELSE [r.row EXCEPT !.n = @ + 1]]
    [] OTHER             -> db

(* A mutant: the view counter is written with an UPSERT.                   *)
WrittenUpsert(r) ==
  CASE r.stmt = "insert" -> [db EXCEPT ![r.id] = [c |-> r.c, n |-> 0]]
    [] r.stmt = "update" -> [db EXCEPT ![r.id] = IF @.c = None THEN @ ELSE [@ EXCEPT !.c = r.c]]
    [] r.stmt = "delete" -> [db EXCEPT ![r.id] = NoRow]
    [] r.stmt = "count"  -> [db EXCEPT ![r.id] = [c |-> IF @.c = None THEN r.row.c ELSE @.c,
                                                  n |-> r.row.n + 1]]
    [] OTHER             -> db

(* A mutant: the view counter is advanced by two.                          *)
WrittenTwice(r) ==
  CASE r.stmt = "insert" -> [db EXCEPT ![r.id] = [c |-> r.c, n |-> 0]]
    [] r.stmt = "update" -> [db EXCEPT ![r.id] = IF @.c = None THEN @ ELSE [@ EXCEPT !.c = r.c]]
    [] r.stmt = "delete" -> [db EXCEPT ![r.id] = NoRow]
    [] r.stmt = "count"  -> [db EXCEPT ![r.id] = IF @.c = None THEN @ ELSE [@ EXCEPT !.n = r.row.n + 2]]
    [] OTHER             -> db

(* The rows after the statement of request r.  An UPDATE or DELETE whose   *)
(* WHERE matches no row changes nothing.  The view counter is set to one   *)
(* more than what the earlier SELECT of the same request returned.         *)
Written(r) ==
  CASE r.stmt = "insert" -> [db EXCEPT ![r.id] = [c |-> r.c, n |-> 0]]
    [] r.stmt = "update" -> [db EXCEPT ![r.id] = IF @.c = None THEN @ ELSE [@ EXCEPT !.c = r.c]]
    [] r.stmt = "delete" -> [db EXCEPT ![r.id] = NoRow]
    [] r.stmt = "count"  -> [db EXCEPT ![r.id] = IF @.c = None THEN @ ELSE [@ EXCEPT !.n = r.row.n + 1]]
    [] OTHER             -> db

(* The commit; every other request notes what it could now have seen.      *)
Commit(t) ==
  /\ th[t].pc = "exclusive"
  /\ db' = Written(th[t])
  /\ table' = TRUE
  /\ reserved' = None /\ exclusive' = FALSE
  /\ gone' = gone \cup {i \in Present : db'[i].c = None}
  /\ LET r == Returned([th[t] EXCEPT !.eff = th[t].stmt # "create"], TRUE)
     IN th' = [u \in Threads |->
                 IF u = t THEN r
                 ELSE [th[u] EXCEPT !.past = IF th[u].id = None THEN @
                                             ELSE @ \cup {db'[th[u].id].c},
                                    !.moments = IF th[u].m # "LIST" THEN @
                                                ELSE @ \cup {Matching(db', th[u].like)}]]
  /\ UNCHANGED <<shared, used, views, requests, crashes>>

-----------------------------------------------------------------------------
(* select_record and search_record, and what is done with the result.      *)

(* A mutant: the rows are fetched by one statement each, with no lock held *)
(* from one to the next.                                                   *)
BeginReadByRows(t) ==
  /\ th[t].pc = "read"
  /\ Set(t, [th[t] EXCEPT !.pc = IF table /\ ~exclusive THEN "reading" ELSE "got"])
  /\ UNCHANGED <<table, db, locks, used, gone, views, requests, crashes>>

(* sqlite3_step of a SELECT: SHARED, or SQLITE_BUSY while a writer holds   *)
(* EXCLUSIVE.  An error ends the loop with the rows found so far: none.    *)
BeginRead(t) ==
  /\ th[t].pc = "read"
  /\ IF table /\ ~exclusive
     THEN /\ shared' = shared \cup {t}
          /\ Set(t, [th[t] EXCEPT !.pc = "reading"])
     ELSE /\ Set(t, [th[t] EXCEPT !.pc = "got"])
          /\ UNCHANGED shared
  /\ UNCHANGED <<table, db, reserved, exclusive, used, gone, views, requests, crashes>>

(* SQLITE_ROW in the loop of select_record and search_record: one more row *)
(* of a list.  Other connections run between two rows.                     *)
ReadRow(t) ==
  /\ th[t].pc = "reading"
  /\ th[t].m = "LIST"
  /\ \E i \in Matching(db, th[t].like) \ th[t].list :
       Set(t, [th[t] EXCEPT !.list = @ \cup {i}])
  /\ UNCHANGED <<table, db, locks, used, gone, views, requests, crashes>>

(* SQLITE_DONE: no row is left, and the lock is given up.  A GET has read  *)
(* its one row, if there is one.                                           *)
FinishRead(t) ==
  /\ th[t].pc = "reading"
  /\ th[t].m = "LIST" => Matching(db, th[t].like) \subseteq th[t].list
  /\ shared' = shared \ {t}
  /\ Set(t, [th[t] EXCEPT !.pc = "got",
               !.row = IF th[t].m = "GET" THEN db[th[t].id] ELSE NoRow])
  /\ UNCHANGED <<table, db, reserved, exclusive, used, gone, views, requests, crashes>>

(* meme_list and meme_search answer with what they got.  get_meme_by_id    *)
(* answers 404 if it got no row, and updates the view counter first if it  *)
(* did.  (Its 400 for an empty field cannot occur: body_check lets no      *)
(* empty field in.)                                                        *)
UseResult(t) ==
  /\ th[t].pc = "got"
  /\ \/ /\ th[t].m = "LIST"
        /\ Set(t, [th[t] EXCEPT !.pc = "done", !.code = 200])
        /\ UNCHANGED views
     \/ /\ th[t].m = "GET" /\ th[t].row = NoRow
        /\ Set(t, [th[t] EXCEPT !.pc = "done", !.code = 404])
        /\ UNCHANGED views
     \/ /\ th[t].m = "GET" /\ th[t].row # NoRow
        /\ Set(t, [th[t] EXCEPT !.pc = "write", !.stmt = "count"])
        /\ views' = [views EXCEPT ![th[t].id] = @ + 1]
  /\ UNCHANGED <<table, db, locks, used, gone, requests, crashes>>

(* The response goes out.  The connection is never closed; it has no lock. *)
Reply(t) ==
  /\ th[t].pc = "done"
  /\ Set(t, Resting)
  /\ UNCHANGED <<table, db, locks, used, gone, views, requests, crashes>>

(* The process dies and is started again: a transaction that was not       *)
(* committed is rolled back from its journal.                              *)
Crash ==
  /\ crashes < MaxCrashes
  /\ crashes' = crashes + 1
  /\ th' = [t \in Threads |-> Resting]
  /\ shared' = {} /\ reserved' = None /\ exclusive' = FALSE
  /\ UNCHANGED <<table, db, used, gone, views, requests>>

Next ==
  \/ Crash
  \/ \E t \in Threads :
       \/ Request(t) \/ Open(t) \/ HandleRequest(t)
       \/ BeginWrite(t) \/ RaiseLock(t) \/ Commit(t)
       \/ BeginRead(t) \/ ReadRow(t) \/ FinishRead(t) \/ UseResult(t) \/ Reply(t)

Spec == Init /\ [][Next]_vars

-----------------------------------------------------------------------------
(* Properties.                                                             *)

(* The type invariant.                                                     *)
TypeOK ==
  /\ table \in BOOLEAN /\ exclusive \in BOOLEAN
  /\ db \in [Ids -> [c : Contents \cup {None}, n : 0 .. MaxRequests]]
  /\ shared \subseteq Threads
  /\ reserved \in Threads \cup {None}
  /\ used \subseteq Ids /\ gone \subseteq used
  /\ \A t \in Threads : /\ th[t].m \in Methods
                        /\ th[t].id \in Ids \cup {None}
                        /\ th[t].pc = "done" => th[t].code # 0

(* A reply to a POST, PUT or DELETE tells what became of it: a 2xx means   *)
(* that its statement was committed, an error that nothing was changed.    *)
ReplyTellsEffect ==
  \A t \in Threads :
    th[t].pc = "done" /\ th[t].m \in {"POST", "PUT", "DELETE"} =>
      (th[t].code \in {200, 201} <=> th[t].eff)

(* A list is not torn: although other connections insert, update and       *)
(* delete between two of its rows, it is what the SELECT would have found  *)
(* at one moment of the call, unless it failed and the list is empty (see  *)
(* ListShowsAll).                                                          *)
ListOfOneMoment ==
  \A t \in Threads :
    th[t].pc = "done" /\ th[t].m = "LIST" /\ th[t].list # {} =>
      th[t].list \in th[t].moments

(* A meme that was deleted never comes back, though a GET that read it     *)
(* before writes its counter afterwards.                                   *)
GoneStaysGone == \A i \in gone : db[i].c = None

(* The counter is read and written in two transactions, so views can be    *)
(* lost; but it never exceeds the number of times the meme was shown.      *)
CounterBounded == \A i \in Ids : db[i].n <= views[i]

(***************************************************************************)
(* The atomic store that MemeService specifies.  A request has taken       *)
(* effect when its statement is committed, a GET when its SELECT is done.  *)
(***************************************************************************)
ShownCall(r) ==
  IF r.pc = "idle" THEN [st |-> "idle", m |-> "OTHER", id |-> None, c |-> None, res |-> None]
  ELSE LET got == r.m = "GET" /\ r.row # NoRow
       IN [st  |-> CASE got \/ (r.pc = "done" /\ r.code < 400) -> "ok"
                     [] r.pc = "done" /\ r.code >= 400 -> "refused"
                     [] OTHER -> "called",
           m   |-> r.m,
           id  |-> IF r.m # "POST" \/ r.eff THEN r.id ELSE None,
           c   |-> r.c,
           res |-> IF got THEN r.row.c ELSE None]

Service == INSTANCE MemeService
             WITH store <- [i \in Ids |-> db[i].c],
                  call  <- [t \in Threads |-> ShownCall(th[t])]

(* The handler implements the atomic store, whatever the interleaving of   *)
(* statements, lock failures and restarts.                                 *)
ImplementsService == Service!Spec

(* What meme_handler.cc says of get_meme_by_id: it returns the data of the *)
(* meme.  404 is for a meme that was missing at some moment of the call.   *)
NotFoundMeansAbsent ==
  \A t \in Threads :
    th[t].pc = "done" /\ th[t].m = "GET" /\ th[t].code = 404 =>
      None \in th[t].past

(* The comment of meme_handler.cc:235: meme_list returns a list of all     *)
(* memes.  A list that is answered is what the table held at a moment of   *)
(* the call.  Violated: a SELECT that meets a commit fails, and the list   *)
(* is empty.                                                               *)
ListShowsAll ==
  \A t \in Threads :
    th[t].pc = "done" /\ th[t].m = "LIST" /\ th[t].code = 200 =>
      th[t].list \in th[t].moments

=============================================================================
