------------------------------- MODULE Session -------------------------------
(***************************************************************************)
(* The life of a session and of its connection: session.cpp, the session,   *)
(* statement, resultset, row, column and transaction classes of the three   *)
(* backends as owners of each other, and the schema cache.                  *)
(*                                                                          *)
(* Owners are shared_ptr members, so an object goes when its last owner     *)
(* goes, and its members go in reverse order of declaration.  A connection  *)
(* has two kinds of owners: db_ of the session and db_ of a transaction.    *)
(* A native statement is owned by statements, results, rows and columns and *)
(* belongs to the connection it was prepared on.                            *)
(***************************************************************************)
EXTENDS Naturals

CONSTANTS
  Backends,
  Objects,     \* what a client can hold beside the session
  MaxConn      \* bound: connections ever opened

ASSUME SessionAssumption ==
  /\ Backends \subseteq {"sqlite", "postgres", "mysql"}
  /\ MaxConn \in Nat

VARIABLES
  backend,
  conn,        \* the connections: unused, open, closed, leaked or abandoned
  db,          \* db_ of the session, 0 for nullptr
  handle,      \* the client holds the shared_ptr<session>
  cached,      \* schema_cache_ holds a schema, which holds the session
  kind,        \* what an object is
  on,          \* the connection of its native statement, or of its db_
  orderly      \* history: the client let results go before their session and
               \* statements before close()

vars == <<backend, conn, db, handle, cached, kind, on, orderly>>

Conns == 1..MaxConn

\* A query has a statement of its own
Prepared == {"statement", "query"}
Results == {"resultset", "row", "column"}
Native == Prepared \cup Results

TypeOK ==
  /\ backend \in Backends
  /\ conn \in [Conns -> {"unused", "open", "closed", "leaked", "abandoned"}]
  /\ db \in 0..MaxConn
  /\ db # 0 => conn[db] = "open"
  /\ handle \in BOOLEAN
  /\ cached \in BOOLEAN
  /\ kind \in [Objects -> Native \cup {"transaction", "schema", "none"}]
  /\ on \in [Objects -> 0..MaxConn]
  /\ \A o \in Objects : kind[o] \in {"schema", "none"} => on[o] = 0
  /\ orderly \in BOOLEAN

\* create_session
Init ==
  /\ backend \in Backends
  /\ conn = [c \in Conns |-> "unused"]
  /\ db = 0
  /\ handle = TRUE
  /\ cached = FALSE
  /\ kind = [o \in Objects |-> "none"]
  /\ on = [o \in Objects |-> 0]
  /\ orderly = TRUE

-----------------------------------------------------------------------------
(* Ownership *)

\* The session object: a query, a transaction and a schema have session_
SessionHeld(h, s, k) == h \/ s \/ \E o \in Objects : k[o] \in {"query", "transaction", "schema"}

\* The session_impl: the session, and sess_ of statements, results and rows
ImplHeld(h, s, k) == SessionHeld(h, s, k) \/ \E o \in Objects : k[o] \in {"statement", "resultset", "row"}

\* The client can reach the session, get_session() of an object included
Reachable == handle \/ \E o \in Objects : kind[o] \in {"query", "transaction", "schema"}

\* A connection has an owner
Owned(d, k, w, c) == d = c \/ \E o \in Objects : k[o] = "transaction" /\ w[o] = c

\* Variant of SessionFirst: sess_ is declared after stmt_ in a statement too.
SessionFirstAlways(k) == k \in Native \ {"column"}

\* The order of stmt_ and sess_ in the class: results and rows of sqlite and
\* mysql let go of the session before the native statement, statements after
SessionFirst(k) == k \in {"resultset", "row"}

\* close_db: sqlite3_close refuses while native statements exist, and nobody
\* asks again
AfterClose(busy) == IF backend = "sqlite" /\ busy THEN "leaked" ELSE "closed"

\* ~session closes
DbAfter(held) == IF held THEN db ELSE 0

\* Variant of LastOwnerGone: db_ of a transaction does not count.
LastOwnerGoneOfSession(d, k, w, c) == (db = c) /\ (d # c)

\* Variant of LastOwnerGone: a transaction closes the connection it was given.
LastOwnerGoneOfTransaction(d, k, w, c) ==
  \/ Owned(db, kind, on, c) /\ ~Owned(d, k, w, c)
  \/ Owned(0, kind, on, c) /\ ~Owned(0, k, w, c)

LastOwnerGone(d, k, w, c) == Owned(db, kind, on, c) /\ ~Owned(d, k, w, c)

\* The connections after a step to d, k and w, in which the native statements
\* of Late were still there
Closing(d, k, w, Late) ==
  conn' = [c \in Conns |->
             IF LastOwnerGone(d, k, w, c)
               THEN AfterClose(\E o \in Objects : on[o] = c /\ kind[o] \in Native
                                                   /\ (k[o] # "none" \/ o \in Late))
               ELSE conn[c]]

\* Results are left to own the session alone
ResultsOutlive(h, s, k) ==
  /\ \E o \in Objects : k[o] \in Results
  /\ ~SessionHeld(h, s, k)
  /\ \A o \in Objects : k[o] # "statement"

-----------------------------------------------------------------------------
(* session *)

\* open(): nothing happens on a session that is open
Open(c) ==
  /\ Reachable
  /\ db = 0
  /\ conn[c] = "unused" /\ \A b \in 1..(c - 1) : conn[b] # "unused"
  /\ conn' = [conn EXCEPT ![c] = "open"]
  /\ db' = c
  /\ UNCHANGED <<handle, cached, kind, on, orderly>>

\* open() that throws: sqlite3_open_v2 leaves an object behind
OpenFails(c) ==
  /\ Reachable
  /\ db = 0
  /\ conn[c] = "unused" /\ \A b \in 1..(c - 1) : conn[b] # "unused"
  /\ conn' = [conn EXCEPT ![c] = IF backend = "sqlite" THEN "abandoned" ELSE "closed"]
  /\ UNCHANGED <<db, handle, cached, kind, on, orderly>>

\* close()
Close ==
  /\ Reachable
  /\ db # 0
  /\ db' = 0
  /\ Closing(0, kind, on, {})
  /\ orderly' = (orderly /\ \A o \in Objects : kind[o] \notin Native)
  /\ UNCHANGED <<handle, cached, kind, on>>

\* The client lets its shared_ptr<session> go
DropSession ==
  LET held == ImplHeld(FALSE, cached, kind) IN
  /\ handle
  /\ handle' = FALSE
  /\ db' = DbAfter(held)
  /\ Closing(DbAfter(held), kind, on, {})
  /\ orderly' = (orderly /\ ~ResultsOutlive(FALSE, cached, kind))
  /\ UNCHANGED <<cached, kind, on>>

\* A new object o of kind k on connection c
Gets(o, k, c) ==
  /\ kind[o] = "none"
  /\ kind' = [kind EXCEPT ![o] = k]
  /\ on' = [on EXCEPT ![o] = c]
  /\ UNCHANGED <<conn, db, handle, orderly>>

\* get_schema() and clear_schema()
GetSchema(o) ==
  /\ Reachable
  /\ Gets(o, "schema", 0)
  /\ cached' = TRUE

ClearSchema ==
  /\ Reachable
  /\ cached
  /\ cached' = FALSE
  /\ UNCHANGED <<conn, db, handle, kind, on, orderly>>

\* create_transaction() of an open session
CreateTransaction(o) ==
  /\ Reachable
  /\ db # 0
  /\ Gets(o, "transaction", db)
  /\ UNCHANGED cached

-----------------------------------------------------------------------------
(* statements and results *)

\* create_statement(), and a query
CreateStatement(o, k) ==
  /\ Reachable
  /\ Gets(o, k, 0)
  /\ UNCHANGED cached

\* prepare(): postgres has no native statement; sqlite keeps the one it has
Prepare(o) ==
  /\ kind[o] \in Prepared
  /\ db # 0
  /\ backend # "postgres"
  /\ on[o] = 0 \/ backend = "mysql"
  /\ on' = [on EXCEPT ![o] = db]
  /\ UNCHANGED <<conn, db, handle, cached, kind, orderly>>

\* finish()
Finish(o) ==
  /\ kind[o] = "statement"
  /\ on[o] # 0
  /\ on' = [on EXCEPT ![o] = 0]
  /\ UNCHANGED <<conn, db, handle, cached, kind, orderly>>

\* query(): the result shares the native statement
Query(o, p) ==
  /\ kind[o] \in Prepared
  /\ IF backend = "postgres" THEN db # 0 ELSE on[o] # 0
  /\ Gets(p, "resultset", on[o])
  /\ UNCHANGED cached

\* session_impl::query(sql): only sqlite's result has a native statement
QuerySession(o) ==
  /\ Reachable
  /\ db # 0
  /\ Gets(o, "resultset", IF backend = "sqlite" THEN db ELSE 0)
  /\ UNCHANGED cached

\* current_row(), and a column of a row
CurrentRow(o, p) ==
  /\ kind[o] = "resultset"
  /\ Gets(p, "row", on[o])
  /\ UNCHANGED cached

ColumnOf(o, p) ==
  /\ kind[o] = "row"
  /\ Gets(p, "column", on[o])
  /\ UNCHANGED cached

\* The destructor of an object: its members, last declared first
Destroy(o) ==
  LET k == [kind EXCEPT ![o] = "none"]
      w == [on EXCEPT ![o] = 0]
      held == ImplHeld(handle, cached, k)
  IN
  /\ kind[o] # "none"
  /\ kind' = k
  /\ on' = w
  /\ db' = DbAfter(held)
  /\ Closing(DbAfter(held), k, w, IF SessionFirst(kind[o]) THEN {o} ELSE {})
  /\ orderly' = (orderly /\ (kind[o] \notin Results => ~ResultsOutlive(handle, cached, k)))
  /\ UNCHANGED <<handle, cached>>

-----------------------------------------------------------------------------
Next ==
  /\ UNCHANGED backend
  /\ \/ \E c \in Conns : Open(c) \/ OpenFails(c)
     \/ Close
     \/ DropSession
     \/ ClearSchema
     \/ \E o \in Objects :
          \/ GetSchema(o)
          \/ CreateTransaction(o)
          \/ \E k \in Prepared : CreateStatement(o, k)
          \/ Prepare(o)
          \/ Finish(o)
          \/ QuerySession(o)
          \/ \E p \in Objects : Query(o, p) \/ CurrentRow(o, p) \/ ColumnOf(o, p)
          \/ Destroy(o)

Spec == Init /\ [][Next]_vars

-----------------------------------------------------------------------------
(* Properties *)

\* When nothing owns the session any more, every connection that was opened is
\* closed, in whatever order the client let queries, statements, transactions
\* and schemas go, provided it let results go before the session and called
\* close() without statements
\* (sess_ and stmt_ of the classes, session::~session, close_db).
ReleasedAfterUse ==
  orderly /\ ~ImplHeld(handle, cached, kind) =>
    \A c \in Conns : conn[c] \notin {"open", "leaked"}

\* A transaction has an open connection for as long as it lives, also when its
\* session is closed or closed and opened again; and the native statements of
\* an orderly client are on the connection of their session
\* (db_ of transaction_impl, session::close).
ConnectionOutlivesItsUsers ==
  \A o \in Objects : on[o] # 0 =>
    /\ kind[o] = "transaction" => conn[on[o]] = "open"
    /\ kind[o] \in Native /\ orderly => on[o] = db
=============================================================================
