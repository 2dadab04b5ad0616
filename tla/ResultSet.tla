------------------------------ MODULE ResultSet ------------------------------
(***************************************************************************)
(* result sets, their iterators and rows: resultset.h, resultset.cpp, row.h *)
(* and the resultset, row and column classes of the backends, over the      *)
(* statement a select_query caches (select_query.cpp, src/*/statement.cpp). *)
(*                                                                          *)
(* Four classes implement resultset_impl.  PGresult and MYSQL_RES hold all  *)
(* rows, with a row number in the object.  For sqlite and for mysql's       *)
(* prepared statements the position is the engine statement's, which every  *)
(* result set of one query shares; a row is then a view of that statement   *)
(* (sqlite) or of the buffer it fetches into (mysql).                       *)
(*                                                                          *)
(* size(), empty(), each() and execute_scalar() walk a private iterator:    *)
(* they are Begin and Advance here.                                         *)
(***************************************************************************)
EXTENDS Integers

CONSTANTS
  Backends,    \* the engines the library may be used with
  Results,     \* resultset_impl objects
  NoResult,
  Statements,  \* sqlite3_stmt / MYSQL_STMT objects
  NoStmt,      \* a null stmt_
  Iterators,   \* the client's resultset_iterator variables
  MaxRows,     \* bound on the number of rows of the query
  MaxPos,      \* bound on the position an iterator counts to
  Calls        \* the optional operations the client uses

ASSUME ResultSetAssumption ==
  /\ Backends \subseteq {"sqlite", "postgres", "mysql"}
  /\ NoResult \notin Results
  /\ NoStmt \notin Statements
  /\ MaxRows \in Nat /\ MaxPos \in Nat

VARIABLES
  backend,
  rows,        \* how many rows the query has; the table does not change
  stmt,        \* select_query::stmt_
  cursor,      \* engine: 0 not started, k on row k, rows + 1 ended
  target,      \* mysql: the result set whose bindings_ are fetched into
  failed,      \* sqlite: the statements whose last step failed
  freed,       \* mysql: the statements whose parameter buffers are gone
  result,      \* class, stmt_, status_, currentRow_ (+ 1), bindings_
  iter,        \* rs_, pos_ and value_ (live: a view of what rs_ moves)
  answer       \* history: the last next(), begin() or reset(), and the row it gave

vars == <<backend, rows, stmt, cursor, target, failed, freed, result, iter, answer>>

engine == <<cursor, target, failed, freed>>

\* a result set as its constructor leaves it
Fresh(class, s) == [class |-> class, stmt |-> s, status |-> "fresh", row |-> 0, buf |-> 0]

None == Fresh("none", NoStmt)

\* an iterator that is at the end
Ended(r) == [rs |-> r, pos |-> -1, live |-> FALSE, row |-> 0]

Owning == {"pgresult", "mysql_res"}

TypeOK ==
  /\ backend \in Backends
  /\ rows \in 0..MaxRows
  /\ stmt \in Statements \cup {NoStmt}
  /\ cursor \in [Statements -> 0..(MaxRows + 1)]
  /\ target \in [Statements -> Results \cup {NoResult}]
  /\ failed \in SUBSET Statements
  /\ freed \in SUBSET Statements
  /\ result \in [Results -> [class : {"none", "sqlite", "mysql_stmt"} \cup Owning,
                             stmt : Statements \cup {NoStmt},
                             status : {"fresh", "row", "done", "error", "ready"},
                             row : 0..(MaxRows + 1), buf : 0..MaxRows]]
  /\ iter \in [Iterators -> [rs : Results \cup {NoResult}, pos : -1..MaxPos,
                             live : BOOLEAN, row : 0..MaxRows]]
  /\ answer \in [call : {"none", "next", "begin", "reset"},
                  result : Results \cup {NoResult}, row : 0..MaxRows]

Init ==
  /\ backend \in Backends
  /\ rows \in 0..MaxRows
  /\ stmt = NoStmt
  /\ cursor = [s \in Statements |-> 0]
  /\ target = [s \in Statements |-> NoResult]
  /\ failed = {}
  /\ freed = {}
  /\ result = [r \in Results |-> None]
  /\ iter = [i \in Iterators |-> Ended(NoResult)]
  /\ answer = [call |-> "none", result |-> NoResult, row |-> 0]

-----------------------------------------------------------------------------
(* The engine's statements *)

Exists(r) == result[r].class # "none"

On(s, r) == Exists(r) /\ result[r].stmt = s

Unused(s) == s # stmt /\ \A r \in Results : ~On(s, r)

\* mysql reads rows from the connection: no other statement is served before
\* they are all read or dropped
Blocked(s) == backend = "mysql" /\ \E x \in Statements \ {s} : cursor[x] \in 1..rows

\* what is left of the engine's statements, at c, bound to t and without the
\* buffers of f, once the query caches q and the result sets are rs: the deleters
\* close the others
Closing(q, rs, c, t, f) ==
  LET kept == {s \in Statements : s = q \/ \E r \in Results :
                                    rs[r].class # "none" /\ rs[r].stmt = s}
  IN  /\ cursor' = [s \in Statements |-> IF s \in kept THEN c[s] ELSE 0]
      /\ target' = [s \in Statements |-> IF s \in kept THEN t[s] ELSE NoResult]
      /\ failed' = failed \cap kept
      /\ freed' = f \cap kept

-----------------------------------------------------------------------------
(* Getting a result set *)

Opened(r, class, s) == result' = [result EXCEPT ![r] = Fresh(class, s)]

QueryClass == CASE backend = "sqlite"   -> "sqlite"
                [] backend = "postgres" -> "pgresult"
                [] OTHER                -> "mysql_stmt"

\* select_query::execute with the statement the query has prepared already
Reexecute(r) ==
  /\ ~Exists(r)
  /\ stmt # NoStmt
  /\ "share" \in Calls \/ \A x \in Results : ~On(stmt, x)
  /\ "rerun" \in Calls \/ backend = "mysql" \/ cursor[stmt] \notin 1..rows
  /\ Opened(r, QueryClass, stmt)
  /\ UNCHANGED <<stmt, engine, iter, answer>>

\* select_query::execute that prepares the statement; postgres executes the
\* text and has no statement object in the engine
Execute(r, s) ==
  /\ ~Exists(r)
  /\ stmt = NoStmt
  /\ Unused(s)
  /\ ~Blocked(s)
  /\ Opened(r, QueryClass, IF backend = "postgres" THEN NoStmt ELSE s)
  /\ stmt' = IF backend = "postgres" THEN NoStmt ELSE s
  /\ UNCHANGED <<engine, iter, answer>>

\* session::query(sql): a statement, or a stored result, of its own
SessionQuery(r, s) ==
  /\ ~Exists(r)
  /\ Unused(s)
  /\ ~Blocked(s)
  /\ CASE backend = "sqlite"   -> Opened(r, "sqlite", s)
       [] backend = "postgres" -> Opened(r, "pgresult", NoStmt)
       [] OTHER                -> Opened(r, "mysql_res", NoStmt)
  /\ UNCHANGED <<stmt, engine, iter, answer>>

\* The statements without parameter buffers once the query has released its own:
\* mysql::statement has freed the ones it was bound to, if the query has parameters.
Released == IF backend = "mysql" THEN {freed, freed \cup {stmt}} ELSE {freed}

\* the query is modified or goes: its statement object is released, and mysql's
\* destructor calls finish(), which frees the parameters and drops the rows not
\* read yet
Discard ==
  /\ stmt # NoStmt
  /\ stmt' = NoStmt
  /\ \E f \in Released :
       /\ \/ "requery" \in Calls \/ backend # "mysql"
          \/ \A r \in Results : On(stmt, r) => f = freed /\ result[r].status # "ready"
       /\ Closing(NoStmt, result,
                  IF backend = "mysql" THEN [cursor EXCEPT ![stmt] = 0] ELSE cursor, target, f)
  /\ UNCHANGED <<result, iter, answer>>

\* select_query::reset: the statement is reset, then released.  The reset of a
\* statement whose step failed throws, and the query keeps it (on mysql the reset
\* of a blocked statement throws too, and changes nothing here).
QueryReset ==
  /\ stmt # NoStmt
  /\ "requery" \in Calls \/ \A r \in Results : ~On(stmt, r)
  /\ ~Blocked(stmt)
  /\ stmt' = IF stmt \in failed THEN stmt ELSE NoStmt
  /\ IF stmt \in failed
       THEN /\ cursor' = [cursor EXCEPT ![stmt] = 0]
            /\ failed' = failed \ {stmt}
            /\ UNCHANGED <<target, freed>>
       ELSE \E f \in Released :
              Closing(NoStmt, result, [cursor EXCEPT ![stmt] = 0], target, f)
  /\ UNCHANGED <<result, iter, answer>>

\* the result set goes; an iterator would keep it
Drop(r) ==
  /\ Exists(r)
  /\ \A i \in Iterators : iter[i].rs # r
  /\ result' = [result EXCEPT ![r] = None]
  /\ Closing(stmt, [result EXCEPT ![r] = None], cursor,
             [s \in Statements |-> IF target[s] = r THEN NoResult ELSE target[s]], freed)
  /\ UNCHANGED <<stmt, iter, answer>>

-----------------------------------------------------------------------------
(* resultset_impl::next, reset, current_row *)

\* the row current_row() of r shows, 0 if none, when the result sets are rs and
\* the statements stand at cs
CurrentRow(rs, cs, r) ==
  LET k == CASE rs[r].class = "sqlite"     -> cs[rs[r].stmt]
             [] rs[r].class = "mysql_stmt" -> rs[r].buf
             [] OTHER                      -> rs[r].row
  IN  IF k \in 1..rows THEN k ELSE 0

\* Variant of After: the last row is left out.
AfterLeavesLast(k) == IF k + 1 < rows THEN k + 1 ELSE rows + 1

\* The position next() steps to from k.  A row number in the object goes on
\* growing after the end, which no call can tell from rows + 1.
After(k) == IF k < rows THEN k + 1 ELSE rows + 1

\* Variant of Fetched: MYSQL_NO_DATA is not told from a row.
FetchedUnchecked(k, b) == k

\* what mysql_stmt_fetch at position k leaves in a buffer that held b
Fetched(k, b) == IF k <= rows THEN k ELSE b

\* r of the result sets rs goes to position k from statements at cs; its
\* statement fetches into the buffer of t
MoveTo(call, rs, cs, r, k, t) ==
  LET c == rs[r].class
      s == rs[r].stmt
  IN  /\ result' = [x \in Results |->
           CASE x = r /\ c \in Owning  -> [rs[x] EXCEPT !.row = k]
             [] x = r /\ c = "sqlite"  ->
                  [rs[x] EXCEPT !.status = IF k <= rows THEN "row" ELSE "done"]
             [] c = "mysql_stmt" /\ (x = r \/ x = t) ->
                  [rs[x] EXCEPT
                     !.status = IF x = r THEN "ready" ELSE @,
                     !.buf = IF x = t THEN Fetched(k, @) ELSE @]
             [] OTHER -> rs[x]]
      /\ cursor' = [x \in Statements |-> IF c \notin Owning /\ x = s THEN k ELSE cs[x]]
      /\ target' = [x \in Statements |-> IF c = "mysql_stmt" /\ x = s THEN t ELSE target[x]]
      /\ failed' = IF c = "sqlite" THEN failed \ {s} ELSE failed
      /\ answer' = [call |-> call, result |-> r,
                    row |-> IF k <= rows THEN CurrentRow(result', cursor', r) ELSE 0]
      /\ UNCHANGED freed

\* the position next() steps from.  sqlite3_step starts a statement again that
\* has ended; a fresh mysql result set executes the statement.
From(rs, cs, r) ==
  LET s == rs[r].stmt
  IN  CASE rs[r].class = "sqlite" ->
             IF cs[s] > rows THEN 0 ELSE cs[s]
        [] rs[r].class = "mysql_stmt" ->
             IF rs[r].status = "fresh" THEN 0 ELSE cs[s]
        [] OTHER -> rs[r].row

\* The positions next() may step to: the one after From, or any later one where
\* mysql executes a statement whose parameters have been freed, so that it finds
\* other rows than the query asks for (rows are left out here).
Steps(rs, cs, r) ==
  IF rs[r].stmt \in freed THEN After(From(rs, cs, r))..(rows + 1)
                          ELSE {After(From(rs, cs, r))}

\* next() gets an answer from the engine
Served(rs, cs, r) ==
  rs[r].class = "mysql_stmt" =>
    IF rs[r].status = "fresh" THEN ~Blocked(rs[r].stmt) ELSE cs[rs[r].stmt] > 0

\* Variant of BoundTo: a new execution does not bind the result.
BoundToFormer(rs, r) ==
  IF rs[r].class = "mysql_stmt" THEN target[rs[r].stmt] ELSE NoResult

\* mysql: the result set into whose bindings_ next() of r fetches, those that
\* prepare_results bound last
BoundTo(rs, r) ==
  IF rs[r].class # "mysql_stmt" THEN NoResult
  ELSE IF rs[r].status = "fresh" THEN r ELSE target[rs[r].stmt]

\* impl->next() where the result sets are rs and the statements stand at cs
NextImpl(call, rs, cs, r) ==
  /\ Served(rs, cs, r)
  /\ IF rs[r].class = "sqlite" /\ rs[r].status = "done"
       THEN /\ answer' = [call |-> call, result |-> r, row |-> 0]
            /\ result' = rs /\ cursor' = cs
            /\ UNCHANGED <<target, failed, freed>>
       ELSE \E k \in Steps(rs, cs, r) : MoveTo(call, rs, cs, r, k, BoundTo(rs, r))

\* what impl->next() returned
Found(r) ==
  CASE result[r].class = "sqlite"     -> result'[r].status = "row"
    [] result[r].class = "mysql_stmt" -> cursor'[result[r].stmt] <= rows
    [] OTHER                          -> result'[r].row <= rows

\* the client leaves r alone while an iterator walks it
Undisturbed(r) == "mix" \in Calls \/ \A i \in Iterators : iter[i].rs = r => iter[i].pos < 0

NextRow(r) ==
  /\ Exists(r)
  /\ Undisturbed(r)
  /\ NextImpl("next", result, cursor, r)
  /\ UNCHANGED <<stmt, iter>>

\* a failing sqlite3_step: next() answers that there is no row
StepFails(r) ==
  /\ "fail" \in Calls
  /\ result[r].class = "sqlite" /\ result[r].status # "done"
  /\ cursor' = [cursor EXCEPT ![result[r].stmt] = 0]
  /\ failed' = failed \cup {result[r].stmt}
  /\ result' = [result EXCEPT ![r].status = "error"]
  /\ answer' = [call |-> "next", result |-> r, row |-> 0]
  /\ UNCHANGED <<target, freed>>

\* (a begin() that fails so is Reset and this)
NextFails(r) == StepFails(r) /\ UNCHANGED <<stmt, iter>>

\* mysql_stmt_execute fails, because of another statement's rows, of what is read
\* for a parameter that was freed, or by itself: next() throws with status_ set (a
\* begin() that fails so is Reset and this)
NextThrows(r) ==
  /\ result[r].class = "mysql_stmt" /\ result[r].status = "fresh"
  /\ Blocked(result[r].stmt) \/ result[r].stmt \in freed \/ "fail" \in Calls
  /\ result' = [result EXCEPT ![r].status = "ready"]
  /\ cursor' = [cursor EXCEPT ![result[r].stmt] = 0]
  /\ UNCHANGED <<stmt, target, failed, freed, iter, answer>>

\* the iterators once r has given up its buffer: their rows keep it
Detached(r) ==
  [i \in Iterators |->
     IF result[r].class = "mysql_stmt" /\ iter[i].rs = r /\ iter[i].live
       THEN [iter[i] EXCEPT !.live = FALSE, !.row = result[r].buf] ELSE iter[i]]

\* reset() throws
ResetRefused(r) ==
  \/ result[r].class = "sqlite" /\ result[r].stmt \in failed
  \/ result[r].class = "mysql_stmt" /\ Blocked(result[r].stmt)

\* Variant of ResetResult: status_ is kept.
ResetResultKeepsStatus(r) == [result EXCEPT ![r].row = 0, ![r].buf = 0]

\* the result sets and the statements after impl->reset()
ResetResult(r) == [result EXCEPT ![r].status = "fresh", ![r].row = 0, ![r].buf = 0]

ResetCursor(r) == [s \in Statements |-> IF s = result[r].stmt THEN 0 ELSE cursor[s]]

\* resultset::reset
Reset(r) ==
  /\ Exists(r)
  /\ Undisturbed(r)
  /\ ~ResetRefused(r)
  /\ result' = ResetResult(r)
  /\ cursor' = ResetCursor(r)
  /\ iter' = Detached(r)
  /\ answer' = [call |-> "reset", result |-> r, row |-> 0]
  /\ UNCHANGED <<stmt, target, failed, freed>>

\* resultset::reset, or the reset() of begin(), throws: sqlite has reset the
\* statement, mysql has dropped the bindings
ResetThrows(r) ==
  /\ Exists(r)
  /\ Undisturbed(r)
  /\ ResetRefused(r)
  /\ IF result[r].class = "sqlite"
       THEN /\ cursor' = [cursor EXCEPT ![result[r].stmt] = 0]
            /\ failed' = failed \ {result[r].stmt}
            /\ UNCHANGED result
       ELSE /\ result' = [result EXCEPT ![r].status = "fresh", ![r].buf = 0]
            /\ UNCHANGED <<cursor, failed>>
  /\ iter' = Detached(r)
  /\ answer' = [call |-> "reset", result |-> r, row |-> 0]
  /\ UNCHANGED <<stmt, target, freed>>

-----------------------------------------------------------------------------
(* resultset_iterator *)

\* value_ after the result set r has moved to a row
Viewing(r, p) ==
  [rs |-> r, pos |-> p, live |-> result[r].class \notin Owning,
   row |-> IF result[r].class \in Owning THEN CurrentRow(result', cursor', r) ELSE 0]

\* Variant of Begin: the result set is not reset.
BeginInPlace(r, i) ==
  /\ Exists(r)
  /\ Undisturbed(r)
  /\ "mix" \in Calls \/ iter[i].pos < 0
  /\ ~ResetRefused(r)
  /\ NextImpl("begin", result, cursor, r)
  /\ iter' = [iter EXCEPT ![i] = IF Found(r) THEN Viewing(r, 0) ELSE Ended(r)]
  /\ UNCHANGED stmt

\* resultset::begin: next() on what reset() has left
Begin(r, i) ==
  /\ Exists(r)
  /\ Undisturbed(r)
  /\ "mix" \in Calls \/ iter[i].pos < 0
  /\ ~ResetRefused(r)
  /\ NextImpl("begin", ResetResult(r), ResetCursor(r), r)
  /\ iter' = [Detached(r) EXCEPT ![i] = IF Found(r) THEN Viewing(r, 0) ELSE Ended(r)]
  /\ UNCHANGED stmt

\* Variant of Advance: pos_ is kept at the end.
AdvanceKeepsPosition(i) ==
  /\ iter[i].pos \in 0..(MaxPos - 1)
  /\ NextImpl("next", result, cursor, iter[i].rs)
  /\ iter' = [iter EXCEPT ![i] = IF Found(@.rs) THEN Viewing(@.rs, @.pos + 1) ELSE @]
  /\ UNCHANGED stmt

\* operator++
Advance(i) ==
  /\ iter[i].pos \in 0..(MaxPos - 1)
  /\ NextImpl("next", result, cursor, iter[i].rs)
  /\ iter' = [iter EXCEPT ![i] = IF Found(@.rs) THEN Viewing(@.rs, @.pos + 1)
                                               ELSE Ended(@.rs)]
  /\ UNCHANGED stmt

\* operator++ whose step fails: the loop ends as if there were no more rows
AdvanceFails(i) ==
  /\ iter[i].pos >= 0
  /\ StepFails(iter[i].rs)
  /\ iter' = [iter EXCEPT ![i] = Ended(@.rs)]
  /\ UNCHANGED stmt

\* an iterator is copied; operator++(int) is this and Advance
CopyIterator(i, j) ==
  /\ "mix" \in Calls
  /\ iter[i].rs # NoResult
  /\ iter' = [iter EXCEPT ![j] = iter[i]]
  /\ UNCHANGED <<stmt, engine, result, answer>>

\* an iterator goes
Forget(i) ==
  /\ iter[i].rs # NoResult
  /\ iter' = [iter EXCEPT ![i] = Ended(NoResult)]
  /\ UNCHANGED <<stmt, engine, result, answer>>

Next ==
  /\ UNCHANGED <<backend, rows>>
  /\ \/ Discard \/ QueryReset
     \/ \E r \in Results :
          \/ Reexecute(r) \/ Drop(r)
          \/ NextRow(r) \/ NextFails(r) \/ NextThrows(r) \/ Reset(r) \/ ResetThrows(r)
          \/ \E s \in Statements : Execute(r, s) \/ SessionQuery(r, s)
          \/ \E i \in Iterators : Begin(r, i)
     \/ \E i \in Iterators :
          \/ Advance(i) \/ AdvanceFails(i) \/ Forget(i)
          \/ \E j \in Iterators : CopyIterator(i, j)

Spec == Init /\ [][Next]_vars

-----------------------------------------------------------------------------
(* Properties *)

\* the row that dereferencing the iterator shows
Shows(i) == IF iter[i].live THEN CurrentRow(result, cursor, iter[i].rs) ELSE iter[i].row

\* The n-th row a loop is given is the n-th row of the query, on every backend
\* and whatever other result sets do meanwhile (resultset.h:83-117).
IteratorShowsItsRow ==
  \A i \in Iterators : iter[i].pos >= 0 => Shows(i) = iter[i].pos + 1

\* A loop ends after the last row and not before: size() is the number of rows.
LoopEndsAfterLastRow ==
  [][\A i \in Iterators :
       Advance(i) /\ iter'[i].pos = -1 => iter[i].pos = rows - 1]_vars

\* mysql_stmt_fetch writes into the buffer of a result set that still exists.
FetchHasBuffer ==
  \A r \in Results :
    result[r].class = "mysql_stmt" /\ result[r].status = "ready"
      /\ cursor[result[r].stmt] \in 1..rows
      => target[result[r].stmt] # NoResult

\* Where a result set stands in its rows.
At(r) ==
  CASE result[r].class = "none"   -> -1
    [] result[r].class = "sqlite" ->
         CASE result[r].status = "row"  -> cursor[result[r].stmt]
           [] result[r].status = "done" -> rows + 1
           [] OTHER                     -> 0
    [] result[r].class = "mysql_stmt" ->
         IF result[r].status = "fresh" THEN 0 ELSE cursor[result[r].stmt]
    [] OTHER -> result[r].row

Seq == INSTANCE RowSequence WITH at <- [r \in Results |-> At(r)]

\* A result set is its own pass over the rows: whatever statements and buffers
\* are shared underneath, next(), reset() and begin() of one result set answer
\* as if it were alone.
OwnPass == Seq!SeqSpec

\* begin() starts over: whether the statement is shared, was left half-read, was
\* reset by its query or has failed, begin() that does not throw shows the first
\* row, or is at the end if there is none (resultset.cpp:47-54), unless the query
\* has taken the parameters of mysql's statement with it.
BeginShowsFirstRow ==
  [][\A r \in Results, i \in Iterators :
       /\ answer'.call = "begin" /\ answer'.result = r /\ iter'[i].rs = r
       /\ Begin(r, i)
       /\ result[r].stmt \notin freed
       => IF rows > 0 THEN iter'[i].pos = 0 /\ Shows(i)' = 1 ELSE iter'[i].pos = -1]_vars

\* The client goes on with the loops it has begun.
LoopFairness == \A i \in Iterators : WF_vars(Advance(i) /\ UNCHANGED <<backend, rows>>)

FairSpec == Spec /\ LoopFairness

\* A loop over a result set ends.
LoopTerminates == \A i \in Iterators : iter[i].pos >= 0 ~> iter[i].pos = -1
=============================================================================
