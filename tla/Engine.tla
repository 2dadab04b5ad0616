------------------------------- MODULE Engine -------------------------------
(***************************************************************************)
(* The database engines as the library drives them: one connection is a     *)
(* record, and every SQL command the library sends is the set of outcomes   *)
(* the engine may answer with.  The engines themselves (libsqlite3, libpq,  *)
(* libmysqlclient and their servers) are external to this repository; what  *)
(* is stated here is only what src/*/session.cpp, src/*/transaction.cpp and *)
(* the tests depend on.                                                     *)
(***************************************************************************)
EXTENDS Naturals, Sequences

CONSTANTS
  Backends,   \* the engines the library may be used with
  Writes,     \* the modifications a client may execute
  Names       \* the savepoint names a client may use

ASSUME BackendAssumption == Backends \subseteq {"sqlite", "postgres", "mysql"}

VARIABLE
  backend     \* the engine behind the session, fixed for its life

(***************************************************************************)
(* A connection.  status is what sqlite3_get_autocommit and                 *)
(* PQtransactionStatus report; pending holds the modifications of the open  *)
(* transaction; saves is its stack of savepoints; implicit says that the    *)
(* transaction was opened by a SAVEPOINT outside of any transaction, which  *)
(* only sqlite does.  A lost connection is one whose server is gone: the    *)
(* session and the transaction objects keep the pointer to it.              *)
(***************************************************************************)
Status == {"closed", "idle", "intrans", "inerror", "lost"}

Savepoint == [name : Names, pending : SUBSET Writes]

Connection == [status : Status, pending : SUBSET Writes,
               saves : Seq(Savepoint), implicit : BOOLEAN]

Fresh(s) == [status |-> s, pending |-> {}, saves |-> << >>, implicit |-> FALSE]

InTransaction(k) == k.status \in {"intrans", "inerror"}

(***************************************************************************)
(* What a command does: whether the client library reports success, the     *)
(* connection and the stored modifications afterwards, and how the open     *)
(* transaction ended if the command ended one.                              *)
(***************************************************************************)
Outcome == [ok : BOOLEAN, conn : Connection, disk : SUBSET Writes,
            ended : {"no", "committed", "rolledback"}]

Answer(ok, k, d, ended) == [ok |-> ok, conn |-> k, disk |-> d, ended |-> ended]

Refused(k, d) == Answer(FALSE, k, d, "no")

Accepted(k, d) == Answer(TRUE, k, d, "no")

Discarded(ok, d) == Answer(ok, Fresh("idle"), d, "rolledback")

Published(k, d) == Answer(TRUE, Fresh("idle"), d \cup k.pending, "committed")

\* The connection breaks under the command: the client library reports an
\* error and the server rolls the transaction back,
Lost(d) == Answer(FALSE, Fresh("lost"), d, "rolledback")

\* or, when the command was a COMMIT, had carried it out before.
LostAfterCommit(k, d) ==
  Answer(FALSE, Fresh("lost"), d \cup k.pending, "committed")

(***************************************************************************)
(* How any command may fail although the transaction it is sent in allows   *)
(* it: the connection to a server breaks, and libmysqlclient refuses a      *)
(* command while a prepared statement has unread rows ("commands out of     *)
(* sync").  sqlite has neither a server nor a client buffer.  refusable     *)
(* says whether such failures are considered.                               *)
(***************************************************************************)
Broken(k, d, refusable) ==
  CASE ~refusable \/ backend = "sqlite" -> {}
    [] refusable /\ backend = "postgres" -> {Lost(d)}
    [] OTHER -> {Lost(d), Refused(k, d)}

\* An error inside a postgres transaction block aborts the block; sqlite and
\* mysql undo the failing statement only.
StatementError(k, d) ==
  IF backend = "postgres" /\ k.status = "intrans"
    THEN Refused([k EXCEPT !.status = "inerror"], d)
    ELSE Refused(k, d)

(***************************************************************************)
(* BEGIN / START TRANSACTION.  A second one inside a transaction is an      *)
(* error for sqlite, a warning for postgres, and an implicit COMMIT for     *)
(* mysql.                                                                   *)
(***************************************************************************)
Begun(k, d) ==
  IF k.status = "idle" THEN Accepted(Fresh("intrans"), d)
  ELSE IF backend = "mysql"
    THEN [Published(k, d) EXCEPT !.conn = Fresh("intrans")]
  ELSE IF backend = "postgres" /\ k.status = "intrans"
    THEN Accepted(k, d)
  ELSE Refused(k, d)

BeginOutcomes(k, d, refusable) ==
  IF k.status = "lost" THEN {Refused(k, d)}
  ELSE {Begun(k, d)} \cup Broken(k, d, refusable)

(***************************************************************************)
(* COMMIT.  Without a transaction it is an error for sqlite and a warning   *)
(* or a no-op for the others; in an aborted postgres block it rolls back    *)
(* and reports success.  When refusable, the engine may also refuse: sqlite *)
(* and mysql may keep the transaction open (SQLITE_BUSY), postgres has      *)
(* rolled it back (a deferred constraint); and the connection may be lost   *)
(* before or after the server committed.                                    *)
(***************************************************************************)
CommitRefusals(k, d) ==
  CASE backend = "sqlite"   -> {Discarded(FALSE, d), Refused(k, d)}
    [] backend = "postgres" -> {Discarded(FALSE, d), LostAfterCommit(k, d)}
    [] OTHER -> {Discarded(FALSE, d), Refused(k, d), LostAfterCommit(k, d)}

CommitOutcomes(k, d, refusable) ==
  CASE k.status = "lost"    -> {Refused(k, d)}
    [] k.status = "idle"    -> {IF backend = "sqlite" THEN Refused(k, d)
                                                      ELSE Accepted(k, d)}
                                 \cup Broken(k, d, refusable)
    [] k.status = "inerror" -> {Discarded(TRUE, d)} \cup Broken(k, d, refusable)
    [] OTHER -> {Published(k, d)} \cup Broken(k, d, refusable)
                  \cup (IF refusable THEN CommitRefusals(k, d) ELSE {})

\* ROLLBACK: no engine refuses it for what happened in the transaction, but it
\* fails like any command when the connection breaks or is out of sync.
RollbackOutcomes(k, d, refusable) ==
  CASE k.status = "lost" -> {Refused(k, d)}
    [] InTransaction(k)  -> {Discarded(TRUE, d)} \cup Broken(k, d, refusable)
    [] OTHER -> {IF backend = "sqlite" THEN Refused(k, d) ELSE Accepted(k, d)}
                  \cup Broken(k, d, refusable)

(***************************************************************************)
(* Savepoints.  The innermost savepoint of a name is the one addressed.     *)
(* How a savepoint command or a modification may break is FailureOutcomes.  *)
(***************************************************************************)
Positions(k, n) == {i \in DOMAIN k.saves : k.saves[i].name = n}

Innermost(k, n) == CHOOSE i \in Positions(k, n) :
                     \A j \in Positions(k, n) : j <= i

Keep(k, m) == SubSeq(k.saves, 1, m)

\* mysql replaces a savepoint of the same name, the others shadow it.
Shadowed(k, n) ==
  IF backend = "mysql" /\ Positions(k, n) # {}
    THEN Keep(k, Innermost(k, n) - 1)
           \o SubSeq(k.saves, Innermost(k, n) + 1, Len(k.saves))
    ELSE k.saves

Pushed(k, n) == [k EXCEPT !.saves =
                   Append(Shadowed(k, n), [name |-> n, pending |-> k.pending])]

\* SAVEPOINT n: outside of a transaction sqlite opens one, postgres reports
\* an error and mysql accepts it without effect.
SaveOutcomes(k, n, d) ==
  CASE k.status = "intrans" -> {Accepted(Pushed(k, n), d)}
    [] k.status \in {"inerror", "lost"} -> {Refused(k, d)}
    [] OTHER ->
         CASE backend = "sqlite" ->
                {Accepted([Pushed(Fresh("intrans"), n) EXCEPT !.implicit = TRUE], d)}
           [] backend = "postgres" -> {Refused(k, d)}
           [] OTHER -> {Accepted(k, d)}

\* RELEASE SAVEPOINT n: drops n and what is inside it; releasing the outermost
\* savepoint of a transaction that a savepoint opened is a COMMIT.
ReleaseOutcomes(k, n, d) ==
  IF k.status # "intrans" \/ Positions(k, n) = {} THEN {StatementError(k, d)}
  ELSE IF k.implicit /\ Innermost(k, n) = 1 THEN {Published(k, d)}
  ELSE {Accepted([k EXCEPT !.saves = Keep(k, Innermost(k, n) - 1)], d)}

\* ROLLBACK TO SAVEPOINT n: back to what was pending at n, n itself is kept;
\* it also revives an aborted postgres block.
RollbackToOutcomes(k, n, d) ==
  IF ~InTransaction(k) \/ Positions(k, n) = {} THEN {StatementError(k, d)}
  ELSE {Accepted([k EXCEPT !.status = "intrans",
                           !.saves = Keep(k, Innermost(k, n)),
                           !.pending = k.saves[Innermost(k, n)].pending], d)}

\* A modification: in the transaction if one is open, stored at once if not.
WriteOutcomes(k, w, d) ==
  CASE k.status = "idle"    -> {Accepted(k, d \cup {w})}
    [] k.status = "intrans" -> {Accepted([k EXCEPT !.pending = @ \cup {w}], d)}
    [] OTHER                -> {Refused(k, d)}

\* A modification or a savepoint command that fails.
FailureOutcomes(k, d, refusable) ==
  {StatementError(k, d)} \cup Broken(k, d, refusable)
=============================================================================
