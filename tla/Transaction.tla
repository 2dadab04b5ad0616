----------------------------- MODULE Transaction -----------------------------
(***************************************************************************)
(* transaction handles over one session: transaction.cpp, the transaction   *)
(* classes of the three backends, and the parts of session.cpp and          *)
(* src/*/session.cpp that open and close the connection and execute SQL.    *)
(*                                                                          *)
(* A handle is a client's transaction object.  It is copyable and movable,  *)
(* so several handles may share one transaction_impl; the impl keeps the    *)
(* connection alive on its own, whatever the session does.  The client is   *)
(* the environment: Calls restricts what it does.                           *)
(***************************************************************************)
EXTENDS Engine

CONSTANTS
  Handles,    \* the client's transaction variables
  Impls,      \* transaction_impl objects
  NoImpl,     \* a null impl_
  Conns,      \* connections: sqlite3 / PGconn / MYSQL objects
  NoConn,     \* a null db_
  Calls,      \* the optional operations the client uses
  MaxSaves    \* bound on the depth of the savepoint stack

ASSUME TransactionAssumption ==
  /\ NoImpl \notin Impls
  /\ NoConn \notin Conns
  /\ MaxSaves \in Nat

VARIABLES
  db,          \* session_impl::db_: the session's connection
  conn,        \* the state of every connection
  disk,        \* the modifications stored in the database
  impl,        \* transaction_impl: its db_, and mysql's active_
  handle,      \* transaction: impl_, successful_
  terminated,  \* std::terminate: a destructor threw
  owner,       \* history: the impl whose start() opened the transaction
  fate         \* history: what became of the transaction an impl opened

vars == <<backend, db, conn, disk, impl, handle, terminated, owner, fate>>

engine == <<db, conn, disk, owner, fate>>

Dead == [live |-> FALSE, impl |-> NoImpl, successful |-> FALSE]

FreeImpl == [db |-> NoConn, active |-> FALSE]

\* The deleter of a connection runs when neither the session nor an impl holds
\* it any more; the engine then rolls back what was open.
Unreferenced(c, d, is) == c # d /\ \A i \in Impls : is[i].db # c

ClosedIffUnreferenced ==
  \A c \in Conns : conn[c].status = "closed" <=> Unreferenced(c, db, impl)

\* The state is well typed, and a connection is closed exactly while no
\* shared_ptr, neither the session's nor a transaction_impl's, holds it
\* (the make_shared deleters of session::open, src/*/session.cpp).
TypeOK ==
  /\ backend \in Backends
  /\ db \in Conns \cup {NoConn}
  /\ conn \in [Conns -> Connection]
  /\ disk \in SUBSET Writes
  /\ impl \in [Impls -> [db : Conns \cup {NoConn}, active : BOOLEAN]]
  /\ handle \in [Handles -> [live : BOOLEAN, impl : Impls \cup {NoImpl},
                             successful : BOOLEAN]]
  /\ terminated \in BOOLEAN
  /\ owner \in [Conns -> Impls \cup {NoImpl}]
  /\ fate \in [Impls -> {"none", "open", "committed", "rolledback"}]
  /\ ClosedIffUnreferenced

Init ==
  /\ backend \in Backends
  /\ \E c \in Conns :
       /\ db = c
       /\ conn = [x \in Conns |-> Fresh(IF x = c THEN "idle" ELSE "closed")]
       /\ disk = {}
       /\ impl = [i \in Impls |-> FreeImpl]
       /\ handle = [h \in Handles |-> Dead]
       /\ terminated = FALSE
       /\ owner = [x \in Conns |-> NoImpl]
       /\ fate = [i \in Impls |-> "none"]

-----------------------------------------------------------------------------
(* shared_ptr ownership *)

Held(hs, i) == \E h \in Handles : hs[h].impl = i

Usable(h) == handle[h].live /\ handle[h].impl # NoImpl

\* The impls that remain once the handles are hs.
Kept(hs) == [i \in Impls |-> IF Held(hs, i) THEN impl[i] ELSE FreeImpl]

Reaped(ks, d, is) ==
  [c \in Conns |-> IF Unreferenced(c, d, is) THEN Fresh("closed") ELSE ks[c]]

Orphaned(i, is) == i # NoImpl /\ is[i].db = NoConn

ReapedOwner(os, d, is) ==
  [c \in Conns |-> IF Unreferenced(c, d, is) \/ Orphaned(os[c], is)
                     THEN NoImpl ELSE os[c]]

ReapedFate(fs, os, d, is) ==
  [i \in Impls |-> IF \E c \in Conns : os[c] = i /\ Unreferenced(c, d, is)
                     THEN "rolledback" ELSE fs[i]]

\* history of an engine outcome o on connection c
OwnerAfter(o, c) ==
  IF o.ended = "no" THEN owner ELSE [owner EXCEPT ![c] = NoImpl]

FateAfter(fs, o, c) ==
  IF o.ended # "no" /\ owner[c] # NoImpl
    THEN [fs EXCEPT ![owner[c]] = o.ended] ELSE fs

\* the command's outcome o takes effect on connection c
Apply(o, c) ==
  /\ conn' = [conn EXCEPT ![c] = o.conn]
  /\ disk' = o.disk
  /\ owner' = OwnerAfter(o, c)
  /\ fate' = FateAfter(fate, o, c)

-----------------------------------------------------------------------------
(* session *)

\* session::open on a closed session
Open ==
  /\ "close" \in Calls
  /\ db = NoConn
  /\ \E c \in Conns :
       /\ conn[c].status = "closed"
       /\ db' = c
       /\ conn' = [conn EXCEPT ![c] = Fresh("idle")]
  /\ UNCHANGED <<disk, impl, handle, terminated, owner, fate>>

\* Variant of Close: the connection is closed whoever else holds it.
CloseConnection ==
  /\ "close" \in Calls
  /\ db # NoConn
  /\ db' = NoConn
  /\ conn' = [conn EXCEPT ![db] = Fresh("closed")]
  /\ owner' = ReapedOwner(owner, NoConn, impl)
  /\ fate' = ReapedFate(fate, owner, NoConn, impl)
  /\ UNCHANGED <<disk, impl, handle, terminated>>

\* session::close drops the session's reference only
Close ==
  /\ "close" \in Calls
  /\ db # NoConn
  /\ db' = NoConn
  /\ conn' = Reaped(conn, NoConn, impl)
  /\ owner' = ReapedOwner(owner, NoConn, impl)
  /\ fate' = ReapedFate(fate, owner, NoConn, impl)
  /\ UNCHANGED <<disk, impl, handle, terminated>>

\* sqlite locks the database for the connection that has modified it
Unlocked == backend = "sqlite" =>
              \A c \in Conns : c # db => conn[c].pending = {}

\* a modification executed on the session succeeds
Write ==
  /\ db # NoConn
  /\ Unlocked
  /\ \E w \in Writes :
       /\ w \notin disk /\ \A c \in Conns : w \notin conn[c].pending
       /\ \E o \in WriteOutcomes(conn[db], w, disk) : Apply(o, db)
  /\ UNCHANGED <<db, impl, handle, terminated>>

\* Whether the engine may refuse what it could carry out.
Refusable == "refuse" \in Calls

\* a modification executed on the session, or a savepoint command of a handle,
\* fails in the engine
StatementFails ==
  /\ "fail" \in Calls
  /\ db # NoConn
  /\ \E o \in FailureOutcomes(conn[db], disk, Refusable) : Apply(o, db)
  /\ UNCHANGED <<db, impl, handle, terminated>>

-----------------------------------------------------------------------------
(* transaction *)

\* Variant of ImplActive: every backend reads the flag.
ImplActiveByFlag(i) == impl[i].active

\* transaction_impl::is_active: sqlite and postgres ask the connection,
\* mysql reads a flag
ImplActive(i) ==
  IF backend = "mysql" THEN impl[i].active
  ELSE conn[impl[i].db].status = "intrans"

\* Variant of IsActive: the impl is not asked.
IsActiveIfHeld(h) == handle[h].impl # NoImpl

\* transaction::is_active
IsActive(h) == handle[h].impl # NoImpl /\ ImplActive(handle[h].impl)

\* session::create_transaction on an open session
Create(h) ==
  /\ db # NoConn
  /\ ~handle[h].live
  /\ \E i \in Impls :
       /\ ~Held(handle, i)
       /\ impl' = [impl EXCEPT ![i] = [db |-> db, active |-> FALSE]]
       /\ handle' = [handle EXCEPT ![h] =
                       [live |-> TRUE, impl |-> i, successful |-> FALSE]]
       /\ fate' = [fate EXCEPT ![i] = "none"]
  /\ UNCHANGED <<db, conn, disk, terminated, owner>>

\* transaction_impl::start of impl i on its connection c with outcome o; fs is
\* the history so far
Started(i, c, o, fs) ==
  LET opened == o.ok /\ (conn[c].status = "idle" \/ o.ended # "no")
  IN  /\ conn' = [conn EXCEPT ![c] = o.conn]
      /\ disk' = o.disk
      /\ owner' = IF opened THEN [owner EXCEPT ![c] = i] ELSE OwnerAfter(o, c)
      /\ fate' = IF opened THEN [FateAfter(fs, o, c) EXCEPT ![i] = "open"]
                           ELSE FateAfter(fs, o, c)

\* transaction::start; it throws when the engine refuses
Start(h) ==
  /\ Usable(h)
  /\ LET i == handle[h].impl
         c == impl[i].db
     IN  \E o \in BeginOutcomes(conn[c], disk, Refusable) :
           /\ Started(i, c, o, fate)
           /\ impl' = [impl EXCEPT ![i].active = (backend = "mysql" /\ o.ok) \/ @]
  /\ UNCHANGED <<db, handle, terminated>>

\* session::start_transaction: create and start
StartTransaction(h) ==
  /\ db # NoConn
  /\ ~handle[h].live
  /\ \E i \in Impls : \E o \in BeginOutcomes(conn[db], disk, Refusable) :
       /\ o.ok
       /\ ~Held(handle, i)
       /\ Started(i, db, o, [fate EXCEPT ![i] = "none"])
       /\ impl' = [impl EXCEPT ![i] = [db |-> db, active |-> backend = "mysql"]]
       /\ handle' = [handle EXCEPT ![h] =
                       [live |-> TRUE, impl |-> i, successful |-> FALSE]]
  /\ UNCHANGED <<db, terminated>>

\* session::start_transaction whose start throws: the new handle is destroyed
\* while the exception leaves, and its destructor asks the connection that the
\* failed start left (mysql's active_ is still false)
StartTransactionThrows ==
  /\ "nested" \in Calls
  /\ db # NoConn
  /\ \E b \in BeginOutcomes(conn[db], disk, Refusable) :
       /\ ~b.ok
       /\ IF backend # "mysql" /\ b.conn.status = "intrans"
            THEN \E o \in RollbackOutcomes(b.conn, b.disk, Refusable) :
                   Apply(o, db) /\ terminated' = ~o.ok
            ELSE Apply(b, db) /\ UNCHANGED terminated
  /\ UNCHANGED <<db, impl, handle>>

\* transaction::commit; on a closed session it throws and changes nothing
Commit(h) ==
  /\ "commit" \in Calls
  /\ Usable(h)
  /\ db # NoConn
  /\ \E o \in CommitOutcomes(conn[db], disk, Refusable) : Apply(o, db)
  /\ UNCHANGED <<db, impl, handle, terminated>>

\* transaction::rollback
Rollback(h) ==
  /\ "rollback" \in Calls
  /\ Usable(h)
  /\ db # NoConn
  /\ \E o \in RollbackOutcomes(conn[db], disk, Refusable) : Apply(o, db)
  /\ UNCHANGED <<db, impl, handle, terminated>>

\* transaction::save, release and rollback(name); an empty name returns early
Save(h, n) ==
  /\ "save" \in Calls
  /\ Usable(h)
  /\ db # NoConn
  /\ Len(conn[db].saves) < MaxSaves
  /\ \E o \in SaveOutcomes(conn[db], n, disk) : Apply(o, db)
  /\ UNCHANGED <<db, impl, handle, terminated>>

Release(h, n) ==
  /\ "save" \in Calls
  /\ Usable(h)
  /\ db # NoConn
  /\ Positions(conn[db], n) # {} \/ "fail" \in Calls
  /\ \E o \in ReleaseOutcomes(conn[db], n, disk) : Apply(o, db)
  /\ UNCHANGED <<db, impl, handle, terminated>>

RollbackTo(h, n) ==
  /\ "save" \in Calls
  /\ Usable(h)
  /\ db # NoConn
  /\ Positions(conn[db], n) # {} \/ "fail" \in Calls
  /\ \E o \in RollbackToOutcomes(conn[db], n, disk) : Apply(o, db)
  /\ UNCHANGED <<db, impl, handle, terminated>>

\* transaction::set_successful
SetSuccessful(h, v) ==
  /\ Usable(h)
  /\ handle[h].successful # v
  /\ handle' = [handle EXCEPT ![h].successful = v]
  /\ UNCHANGED <<engine, impl, terminated>>

-----------------------------------------------------------------------------
(* construction, assignment and destruction of handles *)

\* transaction(const transaction &): impl_ and successful_ are copied
Copy(h, g) ==
  /\ "copy" \in Calls
  /\ handle[h].live /\ ~handle[g].live
  /\ handle' = [handle EXCEPT ![g] = handle[h]]
  /\ UNCHANGED <<engine, impl, terminated>>

\* transaction(session, other.impl())
Wrap(h, g) ==
  /\ "copy" \in Calls
  /\ Usable(h) /\ ~handle[g].live
  /\ handle' = [handle EXCEPT ![g] = [handle[h] EXCEPT !.successful = FALSE]]
  /\ UNCHANGED <<engine, impl, terminated>>

\* Variant of Move: impl_ is copied.
MoveKeepsImpl(h, g) ==
  /\ "move" \in Calls
  /\ handle[h].live /\ ~handle[g].live
  /\ handle' = [handle EXCEPT ![g] = handle[h]]
  /\ UNCHANGED <<engine, impl, terminated>>

\* transaction(transaction &&): the source keeps a null impl_
Move(h, g) ==
  /\ "move" \in Calls
  /\ handle[h].live /\ ~handle[g].live
  /\ handle' = [handle EXCEPT ![g] = handle[h], ![h].impl = NoImpl]
  /\ UNCHANGED <<engine, impl, terminated>>

\* What remains when the handles become hs and the connections ks, with
\* history os and fs.
Drop(hs, ks, os, fs) ==
  /\ handle' = hs
  /\ impl' = Kept(hs)
  /\ conn' = Reaped(ks, db, Kept(hs))
  /\ owner' = ReapedOwner(os, db, Kept(hs))
  /\ fate' = ReapedFate(fs, os, db, Kept(hs))

\* operator=(const transaction &): the old impl_ is dropped, the destructor
\* does not run
CopyAssign(h, g) ==
  /\ "assign" \in Calls
  /\ handle[h].live /\ handle[g].live /\ h # g
  /\ Drop([handle EXCEPT ![g] = handle[h]], conn, owner, fate)
  /\ UNCHANGED <<db, disk, terminated>>

\* operator=(transaction &&)
MoveAssign(h, g) ==
  /\ {"assign", "move"} \subseteq Calls
  /\ handle[h].live /\ handle[g].live /\ h # g
  /\ Drop([handle EXCEPT ![g] = handle[h], ![h].impl = NoImpl], conn, owner, fate)
  /\ UNCHANGED <<db, disk, terminated>>

\* Variant of DestructorOutcomes: successful_ is not looked at.
DestructorAlwaysCommits(h) == CommitOutcomes(conn[db], disk, Refusable)

\* What the destructor of h executes on the session's connection.
DestructorOutcomes(h) ==
  IF handle[h].successful
    THEN CommitOutcomes(conn[db], disk, Refusable)
    ELSE RollbackOutcomes(conn[db], disk, Refusable)

Without(h) == [handle EXCEPT ![h] = Dead]

\* ~transaction of an inactive handle
DestroyInactive(h) ==
  /\ handle[h].live
  /\ ~IsActive(h)
  /\ Drop(Without(h), conn, owner, fate)
  /\ UNCHANGED <<db, disk, terminated>>

\* ~transaction of an active handle: commit or rollback, then the members go
DestroyActive(h) ==
  /\ handle[h].live
  /\ IsActive(h)
  /\ db # NoConn
  /\ \E o \in DestructorOutcomes(h) :
       /\ o.ok
       /\ disk' = o.disk
       /\ Drop(Without(h), [conn EXCEPT ![db] = o.conn],
               OwnerAfter(o, db), FateAfter(fate, o, db))
  /\ UNCHANGED <<db, terminated>>

\* ~transaction that throws, because the session is closed or the engine
\* refuses: a destructor is noexcept, so the program ends
DestroyThrows(h) ==
  /\ handle[h].live
  /\ IsActive(h)
  /\ db # NoConn => \E o \in DestructorOutcomes(h) : ~o.ok
  /\ terminated' = TRUE
  /\ UNCHANGED <<engine, impl, handle>>

Next ==
  /\ ~terminated
  /\ UNCHANGED backend
  /\ \/ Open \/ Close \/ Write \/ StatementFails \/ StartTransactionThrows
     \/ \E h \in Handles :
          \/ Create(h) \/ Start(h) \/ StartTransaction(h)
          \/ Commit(h) \/ Rollback(h)
          \/ DestroyInactive(h) \/ DestroyActive(h) \/ DestroyThrows(h)
          \/ \E n \in Names : Save(h, n) \/ Release(h, n) \/ RollbackTo(h, n)
          \/ \E v \in BOOLEAN : SetSuccessful(h, v)
          \/ \E g \in Handles : \/ Copy(h, g) \/ Wrap(h, g) \/ Move(h, g)
                                \/ CopyAssign(h, g) \/ MoveAssign(h, g)

Spec == Init /\ [][Next]_vars

-----------------------------------------------------------------------------
(* Properties *)

\* The step destroys handle h without ending the program.
Destroyed(h) == handle[h].live /\ ~handle'[h].live

\* ~transaction of a handle that was not set successful stores nothing: the
\* database is as before, and what the handle's connection had pending is gone
\* if that connection is the session's (transaction.cpp:11-19).
UnsuccessfulScopeDiscards ==
  [][\A h \in Handles :
       Destroyed(h) /\ ~handle[h].successful =>
         /\ disk' = disk
         /\ IsActive(h) /\ impl[handle[h].impl].db = db
              => conn'[db].pending = {} /\ ~InTransaction(conn'[db])]_vars

\* README.md:339-342: a handle that started a transaction and was set successful
\* has its transaction committed once the handle is out of scope.
SuccessfulScopeCommits ==
  [][\A h \in Handles :
       /\ Destroyed(h) /\ handle[h].successful /\ handle[h].impl # NoImpl
       /\ fate[handle[h].impl] # "none"
       => fate'[handle[h].impl] = "committed"]_vars

\* Once the last handle is gone the session is in autocommit mode again: no
\* transaction is left open for the statements that follow.
NoLeakedTransaction ==
  (db # NoConn /\ \A h \in Handles : handle[h].impl = NoImpl)
    => conn[db].status # "intrans"

\* A destructor ends the program (commit or rollback throws inside it,
\* transaction.cpp:23-33) only if the session left the connection the handle was
\* created on, or if the engine failed a command it could have carried out: any
\* command of a server, a COMMIT on sqlite.  No destructor sends COMMIT or
\* ROLLBACK to an engine that refuses it for want of a transaction.
TerminatesOnlyAfterCloseOrFailure ==
  [][terminated' /\ ~terminated =>
       \E h \in Handles :
         /\ IsActive(h)
         /\ \/ impl[handle[h].impl].db # db
            \/ Refusable /\ (backend = "sqlite" => handle[h].successful)]_vars
=============================================================================
