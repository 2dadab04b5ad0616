-------------------------------- MODULE Query --------------------------------
(***************************************************************************)
(* query objects and the statement they cache: query.cpp, sql_generator.cpp *)
(* modify_query.cpp, select_query.cpp, insert_query.cpp, update_query.cpp,  *)
(* delete_query.cpp and the statement classes of the backends.              *)
(*                                                                          *)
(* A query keeps its generated SQL text in sql_ and its prepared statement  *)
(* in stmt_; dirty_ says that the statement is out of date.  A statement is *)
(* never changed after query::prepare made and bound it (reset() keeps its  *)
(* bindings), so sharing one between copies is the same as copying it; the  *)
(* cursor it also carries belongs to the result set.                        *)
(***************************************************************************)
EXTENDS Naturals

CONSTANTS
  Queries, Clauses, NoClauses, Slots, Values, Null, Kinds,
  NoText,     \* an empty sql_
  NoStmt,     \* a null stmt_
  Calls       \* the optional operations the client uses

ASSUME QueryAssumption ==
  /\ NoClauses \notin Clauses
  /\ Null \notin Values
  /\ Kinds \subseteq {"select", "modify"}
  /\ NoText \notin [what : {"rows", "count"}, clauses : Clauses]

VARIABLES
  kind,       \* select_query, or one of the modify_query classes
  clauses,    \* tableName_, columns_, where_, join_, limit_, ...
  params,     \* params_ and named_params_
  sql,        \* sql_generator::sql_
  dirty,      \* dirty_
  stmt,       \* stmt_: the SQL it was prepared from and its bindings
  binder,     \* where_.binder_: the query the where builder binds to
  spent,      \* history: "ran" with values, or "unreset" because its reset() threw,
              \* and not modified since
  ran         \* history: what the engine was given last

vars == <<kind, clauses, params, sql, dirty, stmt, binder, spent, ran>>

V == INSTANCE QueryValue

Texts == [what : {"rows", "count"}, clauses : Clauses]

Statements == [sql : Texts \cup {NoText}, values : V!Bindings]

TypeOK ==
  /\ kind \in Kinds
  /\ clauses \in [Queries -> Clauses \cup {NoClauses}]
  /\ params \in [Queries -> V!Bindings]
  /\ sql \in [Queries -> Texts \cup {NoText}]
  /\ dirty \in [Queries -> BOOLEAN]
  /\ stmt \in [Queries -> Statements \cup {NoStmt}]
  /\ binder \in [Queries -> Queries]
  /\ spent \in [Queries -> {"no", "ran", "unreset"}]
  /\ ran \in [asked : {"rows", "count"}, sql : Texts \cup {NoText}, values : V!Bindings]
              \cup {V!NoRun}

Init ==
  /\ V!ValueInit
  /\ sql = [q \in Queries |-> NoText]
  /\ dirty = [q \in Queries |-> FALSE]
  /\ stmt = [q \in Queries |-> NoStmt]
  /\ binder = [q \in Queries |-> q]
  /\ spent = [q \in Queries |-> "no"]

\* Variant of Live: is_valid() without the test of session_.
LiveAlways(q) == TRUE

Live(q) == clauses[q] # NoClauses

-----------------------------------------------------------------------------
(* Building a query *)

\* Variant of SetModified: sql_generator::reset() is not called.
SetModifiedKeepsText(S) ==
  /\ dirty' = [q \in Queries |-> q \in S \/ dirty[q]]
  /\ spent' = [q \in Queries |-> IF q \in S THEN "no" ELSE spent[q]]
  /\ UNCHANGED sql

\* query::set_modified of the queries in S
SetModified(S) ==
  /\ dirty' = [q \in Queries |-> q \in S \/ dirty[q]]
  /\ sql' = [q \in Queries |-> IF q \in S THEN NoText ELSE sql[q]]
  /\ spent' = [q \in Queries |-> IF q \in S THEN "no" ELSE spent[q]]

\* the constructors that take a table, columns or a schema
New(q, c) ==
  /\ ~Live(q)
  /\ clauses' = [clauses EXCEPT ![q] = c]
  /\ params' = [params EXCEPT ![q] = V!Unbound]
  /\ sql' = [sql EXCEPT ![q] = NoText]
  /\ dirty' = [dirty EXCEPT ![q] = FALSE]
  /\ stmt' = [stmt EXCEPT ![q] = NoStmt]
  /\ binder' = [binder EXCEPT ![q] = q]
  /\ spent' = [spent EXCEPT ![q] = "no"]
  /\ UNCHANGED ran

\* from, columns, limit, order_by, group_by, join, union_with, into, table
Configure(q, c) ==
  /\ Live(q)
  /\ clauses' = [clauses EXCEPT ![q] = c]
  /\ SetModified({q})
  /\ UNCHANGED <<params, stmt, binder, ran>>

\* bind, value, values
Bind(q, s, v) ==
  /\ Live(q)
  /\ params' = [params EXCEPT ![q][s] = v]
  /\ SetModified({q})
  /\ UNCHANGED <<clauses, stmt, binder, ran>>

\* where(op): the builder of q takes the condition and binds its value through
\* binder_, then q is modified
Where(q, c, s, v) ==
  /\ Live(q)
  /\ binder[q] = q \/ "rebind" \in Calls
  /\ clauses' = [clauses EXCEPT ![q] = c]
  /\ params' = [params EXCEPT ![binder[q]][s] = v]
  /\ SetModified({q, binder[q]})
  /\ UNCHANGED <<stmt, binder, ran>>

\* where() && op, where() || op: only the query behind binder_ is modified
AppendWhere(q, c, s, v) ==
  /\ Live(q)
  /\ binder[q] = q \/ "rebind" \in Calls
  /\ clauses' = [clauses EXCEPT ![q] = c]
  /\ params' = [params EXCEPT ![binder[q]][s] = v]
  /\ SetModified({binder[q]})
  /\ UNCHANGED <<stmt, binder, ran>>

\* clauses changed through a reference the query handed out earlier, without
\* set_modified: join(...).on(...), or where() && op with a named value
ConfigureSilently(q, c) ==
  /\ "silent" \in Calls
  /\ Live(q)
  /\ clauses' = [clauses EXCEPT ![q] = c]
  /\ UNCHANGED <<params, sql, dirty, stmt, binder, spent, ran>>

\* sql_generator::to_sql
ToSql(q, what) == IF sql[q] = NoText THEN V!Sql(what, clauses[q]) ELSE sql[q]

\* the non-const to_sql keeps what it generated
Render(q) ==
  /\ Live(q)
  /\ sql' = [sql EXCEPT ![q] = ToSql(q, "rows")]
  /\ UNCHANGED <<clauses, params, dirty, stmt, binder, spent, ran>>

-----------------------------------------------------------------------------
(* Executing it *)

\* Variant of Prepared: dirty_ is not looked at.
PreparedOnce(q, t) ==
  IF stmt[q] = NoStmt THEN [sql |-> t, values |-> params[q]] ELSE stmt[q]

\* the statement that query::prepare(t) leaves in stmt_
Prepared(q, t) ==
  IF stmt[q] = NoStmt \/ dirty[q] THEN [sql |-> t, values |-> params[q]]
  ELSE stmt[q]

\* prepare(to_sql()), and the statement runs
Run(q, what) ==
  LET t == ToSql(q, what)
      s == Prepared(q, t)
  IN  /\ sql' = [sql EXCEPT ![q] = t]
      /\ stmt' = [stmt EXCEPT ![q] = s]
      /\ dirty' = [dirty EXCEPT ![q] = FALSE]
      /\ ran' = [asked |-> what, sql |-> s.sql, values |-> s.values]

\* select_query::execute and execute_scalar
SelectExecute(q) ==
  /\ kind = "select"
  /\ Live(q)
  /\ spent[q] = "no" \/ "reexec" \in Calls
  /\ Run(q, "rows")
  /\ UNCHANGED <<clauses, params, binder, spent>>

\* select_query::count: columns_ is COUNT(*) while the SQL is generated
Count(q) ==
  /\ "count" \in Calls
  /\ kind = "select"
  /\ Live(q)
  /\ Run(q, "count")
  /\ UNCHANGED <<clauses, params, binder, spent>>

\* modify_query::execute and insert_query::execute, with the reset() at their
\* end.  A step that fails in the engine leaves the same behind: execute()
\* returns no changes or, from sqlite::statement::reset, throws.
ModifyExecute(q) ==
  /\ kind = "modify"
  /\ Live(q)
  /\ spent[q] = "no" \/ "reexec" \in Calls
  /\ Run(q, "rows")
  /\ params' = [params EXCEPT ![q] = V!Unbound]
  /\ spent' = [spent EXCEPT ![q] = IF params[q] # V!Unbound THEN "ran" ELSE @]
  /\ UNCHANGED <<clauses, binder>>

\* what an exception inside query::prepare(t) leaves in stmt_: a statement
\* without SQL if stmt_->prepare or one with only the parameters in B
\* bound if stmt_->bind threw
FailedStatements(q, t) ==
  {[sql |-> NoText, values |-> V!Unbound]} \cup
  {[sql |-> t, values |-> [s \in Slots |-> IF s \in B THEN params[q][s] ELSE Null]] :
     B \in {B \in SUBSET Slots : \E s \in Slots \ B : params[q][s] # Null}}

\* query::prepare throws: dirty_ stays as it was
PrepareFails(q, what) ==
  /\ "fail" \in Calls
  /\ what = "rows" \/ (kind = "select" /\ "count" \in Calls)
  /\ Live(q)
  /\ stmt[q] = NoStmt \/ dirty[q]
  /\ dirty[q] \/ "failfirst" \in Calls
  /\ sql' = [sql EXCEPT ![q] = ToSql(q, what)]
  /\ \E s \in FailedStatements(q, ToSql(q, what)) : stmt' = [stmt EXCEPT ![q] = s]
  /\ UNCHANGED <<clauses, params, dirty, binder, spent, ran>>

\* Variant of Reset: select_query::reset keeps stmt_.
ResetKeepsStatement(q) ==
  /\ Live(q)
  /\ stmt[q] # NoStmt
  /\ kind = "select" \/ "reset" \in Calls
  /\ params' = [params EXCEPT ![q] = V!Unbound]
  /\ dirty' = [dirty EXCEPT ![q] = FALSE]
  /\ UNCHANGED <<clauses, sql, stmt, binder, spent, ran>>

\* query::reset and select_query::reset, called by the client on a query that
\* has a statement
Reset(q) ==
  /\ Live(q)
  /\ stmt[q] # NoStmt
  /\ kind = "select" \/ "reset" \in Calls
  /\ params' = [params EXCEPT ![q] = V!Unbound]
  /\ dirty' = [dirty EXCEPT ![q] = FALSE]
  /\ stmt' = [stmt EXCEPT ![q] = IF kind = "select" THEN NoStmt ELSE @]
  /\ spent' = [spent EXCEPT ![q] = IF kind = "select" THEN "no" ELSE @]
  /\ UNCHANGED <<clauses, sql, binder, ran>>

\* select_query::reset whose stmt_->reset() throws, on sqlite after a step that
\* failed and on mysql: the parameters and dirty_ are cleared, and stmt_ stays
\* with what was bound to it.  (A modify query keeps stmt_ anyway, so there
\* Reset and ModifyExecute leave the same whether it throws or not.)
ResetThrows(q) ==
  /\ "fail" \in Calls
  /\ Live(q)
  /\ kind = "select"
  /\ stmt[q] # NoStmt /\ stmt[q].sql # NoText
  /\ params' = [params EXCEPT ![q] = V!Unbound]
  /\ dirty' = [dirty EXCEPT ![q] = FALSE]
  /\ spent' = [spent EXCEPT ![q] = "unreset"]
  /\ UNCHANGED <<clauses, sql, stmt, binder, ran>>

-----------------------------------------------------------------------------
(* Copying and moving it *)

\* a copy or a move forgets dirty_
KnowsIfDirty(q) == ~dirty[q] \/ stmt[q] = NoStmt \/ "copydirty" \in Calls

\* what p takes over from q by every copy, move and assignment
Taken(q, p) ==
  /\ clauses' = [clauses EXCEPT ![p] = clauses[q]]
  /\ params' = [params EXCEPT ![p] = params[q]]
  /\ stmt' = [stmt EXCEPT ![p] = stmt[q]]
  /\ binder' = [binder EXCEPT ![p] = binder[q]]
  /\ spent' = [spent EXCEPT ![p] = spent[q]]
  /\ UNCHANGED ran

\* query(const query &)
Copy(q, p) ==
  /\ "copy" \in Calls
  /\ Live(q) /\ ~Live(p) /\ p # q
  /\ KnowsIfDirty(q)
  /\ Taken(q, p)
  /\ sql' = [sql EXCEPT ![p] = sql[q]]
  /\ dirty' = [dirty EXCEPT ![p] = FALSE]

\* query(query &&): sql_ is not moved, and q has no session any more
Move(q, p) ==
  /\ "copy" \in Calls
  /\ Live(q) /\ ~Live(p) /\ p # q
  /\ KnowsIfDirty(q)
  /\ clauses' = [clauses EXCEPT ![p] = clauses[q], ![q] = NoClauses]
  /\ params' = [params EXCEPT ![p] = params[q], ![q] = V!Unbound]
  /\ stmt' = [stmt EXCEPT ![p] = stmt[q], ![q] = NoStmt]
  /\ binder' = [binder EXCEPT ![p] = binder[q]]
  /\ spent' = [spent EXCEPT ![p] = spent[q]]
  /\ sql' = [sql EXCEPT ![p] = NoText]
  /\ dirty' = [dirty EXCEPT ![p] = FALSE]
  /\ UNCHANGED ran

\* operator=(const query &): sql_ of p is kept
Assign(q, p) ==
  /\ "assign" \in Calls
  /\ Live(q) /\ Live(p) /\ p # q
  /\ Taken(q, p)
  /\ dirty' = [dirty EXCEPT ![p] = dirty[q]]
  /\ UNCHANGED sql

\* operator=(query &&) of select and update queries: as above, and q is left
\* without session and statement
MoveAssign(q, p) ==
  /\ "assign" \in Calls
  /\ Live(q) /\ Live(p) /\ p # q
  /\ clauses' = [clauses EXCEPT ![p] = clauses[q], ![q] = NoClauses]
  /\ params' = [params EXCEPT ![p] = params[q], ![q] = V!Unbound]
  /\ stmt' = [stmt EXCEPT ![p] = stmt[q], ![q] = NoStmt]
  /\ binder' = [binder EXCEPT ![p] = binder[q]]
  /\ spent' = [spent EXCEPT ![p] = spent[q]]
  /\ dirty' = [dirty EXCEPT ![p] = dirty[q]]
  /\ UNCHANGED <<sql, ran>>

Next ==
  /\ UNCHANGED kind
  /\ \E q \in Queries :
       \/ \E c \in Clauses : New(q, c) \/ Configure(q, c) \/ ConfigureSilently(q, c)
       \/ \E c \in Clauses, s \in Slots, v \in Values :
            Where(q, c, s, v) \/ AppendWhere(q, c, s, v)
       \/ \E s \in Slots, v \in Values : Bind(q, s, v)
       \/ Render(q) \/ SelectExecute(q) \/ Count(q) \/ ModifyExecute(q)
       \/ Reset(q) \/ ResetThrows(q)
       \/ \E what \in {"rows", "count"} : PrepareFails(q, what)
       \/ \E p \in Queries : Copy(q, p) \/ Move(q, p) \/ Assign(q, p) \/ MoveAssign(q, p)

Spec == Init /\ [][Next]_vars

-----------------------------------------------------------------------------
(* Properties *)

\* What the statement cache must keep true: the cached SQL text is the SQL of
\* the query's clauses; a statement that is not dirty was prepared from that SQL,
\* unless a reset() threw and left a former one behind; and it carries the values
\* that are bound, unless it ran and they were cleared (query.cpp:59-79, 94-97,
\* 123-128).
CacheCoherent ==
  \A q \in Queries : Live(q) =>
    /\ sql[q] # NoText => sql[q] = V!Sql("rows", clauses[q])
    /\ stmt[q] # NoStmt /\ ~dirty[q] /\ spent[q] # "unreset" =>
         /\ stmt[q].sql = V!Sql("rows", clauses[q])
         /\ spent[q] = "no" => stmt[q].values = params[q]

\* Queries are values: every execution runs the SQL of the current clauses with
\* the values bound since the last execution, whatever was cached, copied,
\* moved, reset or failed before.
ValueSemantics == V!ValueSpec

\* the next execution of q runs its SQL with its values
RunsCurrent(q) ==
  Prepared(q, ToSql(q, "rows")) = [sql |-> V!Sql("rows", clauses[q]), values |-> params[q]]

\* a call on q that ends in set_modified
ModifiedBy(q) ==
  \/ \E c \in Clauses : Configure(q, c)
  \/ \E s \in Slots, v \in Values : Bind(q, s, v)
  \/ \E c \in Clauses, s \in Slots, v \in Values : Where(q, c, s, v)

\* From every state a client can reach, stale, failed or shared as its cache may
\* be, one call that ends in set_modified makes the next execution of the query
\* run its current SQL with its current values (query.cpp:59-79, 94-97).
ModificationHeals == [][\A q \in Queries : ModifiedBy(q) => RunsCurrent(q)']_vars

\* select_query.h:273-277: count() returns a count of the number of rows.
CountCounts == ran.asked = "count" => ran.sql.what = "count"

\* README.md:378: upon execution the queries are reset to a pre-bind state, so
\* an execution sends the values bound since the one before.
ExecutionStartsUnbound ==
  [][\A q \in Queries : ModifyExecute(q) => ran'.values = params[q]]_vars

\* tests/select_query.test.cpp:80-92: a query assigned from another one generates
\* the SQL of the other one.
ToSqlIsCurrent == \A q \in Queries : Live(q) => ToSql(q, "rows") = V!Sql("rows", clauses[q])
=============================================================================
