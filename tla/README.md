# libcoda-db: TLA+ verification project

libcoda-db is a C++ library that puts one interface over sqlite, postgres and
mysql: sessions, prepared statements, query objects that generate SQL,
transactions as scope guards, result sets, schemas and active records. It has no
threads and no event loop: a client calls it, it calls the engine's C library.
What is hard in it is *state that several objects share* (a connection, a
transaction, a prepared statement, a cursor) and *state that is cached* (SQL
text, statements, schemas), under every order of client calls and with calls that
fail half way. That is what the modules here model.

Paths below are relative to the repository; sources are under `src/`.

## 1. Inventory

| Component | State | Operations | Talks to | Correct when |
|---|---|---|---|---|
| `session`, `*/session.cpp` | `db_` (shared connection), schema cache | open, close, execute, query, create_statement, create_transaction | engine; shared by statements, transactions, schemas, result sets | closing does not strand what others still hold |
| `transaction`, `*/transaction.cpp` | handle: `successful_`, `session_`, shared `impl_`; impl: `db_`, mysql `active_` | start, commit, rollback, save, release, set_successful, copy, move, assign, destructor | starts on the impl's connection, ends on the *session's* connection | a scope that is not successful stores nothing; one that is commits; no transaction outlives its handles; the destructor does not throw |
| query objects (`query.cpp`, `sql_generator.cpp`, `select/insert/update/delete_query.cpp`) | clauses, `params_`, cached `sql_`, cached `stmt_`, `dirty_` | configure, bind, where, to_sql, execute, count, reset, copy, move, assign | statement, where builder | what runs is what the query says |
| where / join clauses | text, appended clauses, `binder_` back pointer | `where(op)`, `&&`, `\|\|`, `join().on()` | binds through the query | placeholder *n* is bound to value *n*, in the right query |
| statements (`*/statement.cpp`) | engine statement, bindings | prepare, bind, execute, query, reset | binding arrays, engine | bindings are the ones asked for |
| result sets, rows, columns | cursor, row number, `status_` | next, reset, begin, end, size, current_row | statement's cursor | iteration visits each row once |
| records | column values, schema | exists, save, refresh, remove, find | queries | a save neither loses nor duplicates a row |
| schemas | columns, per session cache | init, get, clear | session | the cached columns are the table's |
| parameter arrays, `bind_mapping` | growing C arrays, name→index map | bind, reset, prepare | engine | every slot below the count is written |
| values (`sql_value`, `sql_number`, `sql_time`) | variant | conversions | all | conversions keep the value |
| registry, uri, alloc, exceptions | scheme→factory map | register, create | all | — |

Behaviours that are hard: the destructor that commands a connection other than
the one it asked; handles that share a transaction; a nested start that unwinds;
statement reuse decided by one `dirty_` flag that copies, resets and failures
disturb; cursors shared by result sets; count-then-insert in records while other
sessions write; placeholders numbered by what is bound when they are written; owners
that let go in the wrong order. Timeouts,
retries and messages do not occur. `PROJECT.json` lists each hazard at its line.

## 2. Plan

| # | Module | Content | State |
|---|---|---|---|
| 1 | `Engine` | the engines' transactions and savepoints as the library uses them (external) | done |
| 2 | `Transaction` (extends `Engine`), `MCTransaction`, `TransactionProofs` | transaction handles over one session, all backends | done, proved |
| 3 | `QueryValue` (abstract), `Query` (refines it), `MCQuery`, `QueryProofs` | the statement cache of query objects | done, proved |
| 4 | `RowSequence` (abstract), `ResultSet` (refines it), `MCResultSet`, `ResultSetProofs`, `IteratorProofs` | cursors shared by result sets, iterators and rows, all backends | done, proved |
| 5 | `Record`, `MCRecord`, `RecordProofs` | sessions that save, find, refresh and remove rows of one table, and a schema cache that is older than the table | done, proved |
| 6 | `Binding` | the parameter arrays of postgres and mysql: growth, gaps, reset, copies, moves | done, proved in `ParametersProofs` |
| 7 | `Where`, `WhereProofs` | the text of a where clause as an SQL parser reads it, against the expression that built it | done, proved |
| 8 | `Parameters` (extends `Binding` and `Where`), `MCParameters`, `ParametersProofs` | from a condition to the value the engine compares with, all backends | done, proved |
| 9 | `Session`, `MCSession`, `SessionProofs` | owners of the session and its connections | done, proved |
| 10 | proofs | every safety property a passing run checks is a theorem (section 5). Left: `ToSqlIsCurrent` and `CountCounts` for the clients they hold for; a refinement of `Transaction` by an abstract scope | next |

## 3. Modules and code

### Engine
A connection is a record: its `status` (what `sqlite3_get_autocommit` and
`PQtransactionStatus` report), the `pending` modifications, the stack of
savepoints, and whether a SAVEPOINT opened the transaction (sqlite). A command is
the set of outcomes the engine may answer with. The backends differ where the
library can tell: a second BEGIN (error / warning / implicit commit), COMMIT
without a transaction, an error inside a postgres block, equal savepoint names. Any
command of a server may fail although its transaction allows it (`Broken`): the
connection is lost, before or after the server carried out a COMMIT, or libmysqlclient
is out of sync because a prepared statement has unread rows. A lost connection refuses
everything that follows. sqlite has neither a server nor unread rows, so of it only
COMMIT may be refused (SQLITE_BUSY); that it never refuses ROLLBACK inside a
transaction is an assumption on the engine. Everything here is external to the
repository.

### Transaction
`handle` is the client's `transaction` object, `impl` the shared
`transaction_impl`, `db` the session's connection. Each public operation is an
action; the destructor is three (inactive, active, throwing). `backend` is chosen
in `Init` and never changes, so one run covers all engines. `owner` and `fate`
are history variables: who opened the transaction of a connection and what became
of it. `terminated` is `std::terminate`. `Calls` says which optional operations
the client uses; `"fail"` lets statements fail, `"refuse"` lets the engine fail what
it could have carried out (`Broken`, `CommitRefusals`), `"close"` lets the session be
closed and reopened.
Choices: `create_transaction` is called on an open session; calls on a moved-from
handle dereference null and are excluded (destruction of one is not); an explicit
call on a closed session throws and changes nothing, so it is no step; a sqlite
connection with modifications locks the file against the session's other
connection (`Unlocked`). Unsuccessful scopes in an aborted postgres block leave
the block open, because `is_active()` is false there: `NoLeakedTransaction`
therefore speaks of blocks that are not aborted.
A copy of a handle shares its impl, and the copy's destructor ends the transaction
of the original; a copied handle is therefore outside the client of `tx_scope`.

### QueryValue and Query
`QueryValue` is what a client thinks a query is: clauses and values; executing
runs exactly those. `Query` adds `sql_`, `stmt_`, `dirty_` and the where builder's
`binder_`. A clause set or a value is a model value; a parameter slot stands for a
positional or a named parameter. A prepared statement is what it was prepared from
and what was bound to it: it is never changed after `query::prepare`, so a shared
`stmt_` and a copied one are the same thing (the cursor is the result set's
business). An execution is one step; a failing prepare or bind is a step that
leaves what the code leaves in `stmt_`. A modification whose step fails leaves the
same query behind as one that succeeds (sqlite then throws out of `execute()`,
because `sqlite3_reset` reports the failure again; the other backends return zero
changes), so it is no action of its own. `kind` (select or modify) is chosen in
`Init`. `spent` and `ran` are history. `query::reset` clears `params_` and `dirty_`
before it resets the statement; when that throws, `select_query::reset` keeps the
statement (`ResetThrows`), and `spent` says so (`unreset`): its values and clauses may be
former ones until the next modification, so executing before it is one of the calls of
`reexec`. The abstract query has only lost its values.
`Calls` names the calls that take the cache out of step: `count`, clauses changed
through a kept reference (`silent`), a where builder that binds elsewhere
(`rebind`), executing again without binding (`reexec`), `reset` of a modify query,
copying a dirty query (`copydirty`), `assign`, and a failing prepare of a query
that is not dirty (`failfirst`).

### RowSequence and ResultSet
`RowSequence` is what a result set promises: its own pass over the rows. `ResultSet`
has the four classes behind `resultset_impl`: sqlite's, whose position is the
`sqlite3_stmt`'s and whose rows are views of it; mysql's for prepared statements,
whose position is the `MYSQL_STMT`'s and whose rows are views of the buffer that was
bound last; and postgres' and mysql's stored results, which have a row number of
their own. `cursor`, `target` and `failed` are the engine's side. `stmt` is the
statement the query caches; `Discard` is the query being modified or destroyed,
`QueryReset` is `select_query::reset`. The table does not change. A number of rows
past the end is kept at `rows + 1`: `currentRow_` would go on growing, unobserved.
`begin()` is composed as in the code: `NextImpl` on what `ResetResult` and `ResetCursor`
leave, and each of the two may throw instead. mysql's `finish()`, which the destructor
and the reset of a query end in, also frees the parameter buffers that
`mysql_stmt_execute` reads, and a result set executes at its first `next()`: `freed` are
the statements it happened to, which may fail then or answer with fewer rows (`Steps`;
what other rows they show is not told apart from a later row of the query). A query
without parameters loses nothing, and the model has both. `size()`, `empty()`, `each()` and `execute_scalar()` are walks of a private iterator
and therefore no actions of their own; `i++`, `i + n` are `CopyIterator` and
`Advance`. mysql refuses other statements while rows are unread (`Blocked`), a
contract of libmysqlclient. A `mysql_stmt_fetch` into the buffer of a result set that
is gone is undefined; the model lets it have no effect, and `FetchHasBuffer` says
that it does not happen to the clients of `rs`. `Calls` names what breaks the
promise: two result sets of one statement (`share`), executing again a sqlite
statement that was left half-read (`rerun`; one that was read to its end works),
`reset()` of a query that has a result set, or modifying or destroying one whose rows
are still read or, on mysql, whose parameters are still needed (`requery`), using a result set under a running loop
or copying iterators (`mix`), failing steps (`fail`).

### Binding
A binding object is a C array (mysql: `MYSQL_BIND`; postgres: four parallel arrays of
one length), so one sequence of cells stands for either, `Dead` for an object that is
not constructed. `BindIndex` is `bind(index, value)` with `reallocate_value`:
an index beyond the end grows the array to the index plus `prealloc_increment`.
`given` is history: the map a client believes it has. postgres copies buffers with
`strdup`, though a blob is stored without a terminator: `Copied` leaves a `Garbled` cell
for a blob with a zero byte (`Blobs`; the copy of a blob without one is read beyond the
blob's end but keeps its bytes), and `copied` is history: the indexes that came with a
copy. Values are neither null nor
empty (an empty string is stored like any other, with length 0); self-assignment is
left out. sqlite has no array: `Parameters` has what `sqlite3_bind_*` does.

### Where
A `where_clause` is a record of its text and the clauses appended with `&&` and `||`.
SQL text is what a parser makes of it: alternatives of factors, because without
parentheses AND binds tighter than OR. The text operators are external (the grammar of
SQL); the clause operators and `generate_sql` are the code's. A condition is a number,
and a factor the set of truth assignments that satisfy it.

### Parameters
`params`, `setlist`, `dirty` and `clause[0]` are the query's `params_`, `columns_`,
`dirty_` and `where_`; `clause[1]` and `clause[2]` are `where_clause` objects a client
builds by itself. `conds` is what was written for a condition: the operator, its
placeholder and its operands. `setGiven`, `fresh`, `meant`, `form` and `departure` are
history: what the client meant, and how far it left the order "SET values first, then
conditions". `Sent` binds the parameters on a new statement with `Binding`'s `Stored`,
`Reads(k)` is what the engine takes for the k-th placeholder, `Accepted` whether it
takes the statement at all (a contract of the engines, cited in the comments). The
operators fall in the classes that `where_builder::bind` and `to_sql` treat alike: one
operand written as SQL (`scalar`), one operand written as no SQL (`isnull`: `IS NULL ?`;
`negated`: `!> ?`, `!< ?`), the list of IN and the range of BETWEEN, both with one
placeholder; `Wellformed` says that a text has conditions of the first class only.
`Modes` chooses the part that moves in a behaviour (`query`, `clause`, `statement`), so
that the run checks the three in one specification without multiplying them. What a
value is taken for when its text starts with `@` or `:` is modelled by the value
`AtValue`. Named parameters are not modelled.

### Record
`sess` and `gen` say which session and which schema object a record has; `known` is
`columns_` of every schema object ever created and `current` the one a session caches.
`id` and `data` are `values_`. `rows`, `nextId` and `tcols` are the table. `save()` is
several steps, since other sessions act between its statements: `Save` (with the
guard of `exists()`), `Count` or `CountFails`, then `Update`, or `InsertSql`, `Insert`
and `SetInsertedId`; failing statements are actions too. All other calls send one
statement and are one step. `Schema` is the lazy read of the columns that every call on
a record begins with. `synced` is history: the row a record was last saved to or read
from. `recounted` is history: the saves whose COUNT asked for an id the table had given
out by then. An id a program makes up may be given to another session's row between the
COUNT and the INSERT; the INSERT leaves the key out (`available_columns`), so it then adds
a row of its own, and `SavedRecordIsNotInsertedAgain` is not about it. Choices: a session runs one call at a time (it is not thread-safe); tables have
an auto-incremented key that is never used twice, as in the tests of all backends;
`set_id` takes any id up to `MaxId`, handed out or not, and unsets it; a value a call returns is
told by the state it leaves; a call that finds nothing changes nothing and is no step;
an id beyond `MaxId` is a failing INSERT.
`Worlds` bounds what changes in one behaviour: `sessions` has several sessions and
records on a table that keeps its columns, `schemas` one session and one record while
the table and the schema cache change. Tables with two primary keys matter on postgres
only, whose RETURNING loop does not end for them: there `InsertSql` has no step.

### Session
Owners are `shared_ptr` members: `SessionHeld` and `ImplHeld` say who owns the session
and its `session_impl`, `Owned` who owns a connection (the session's `db_` and the
`db_` of transactions). Members go in reverse order of declaration, which is
`SessionFirst`. Closing a sqlite connection under a native statement leaks it
(`AfterClose`), as `close_db` ignores what `sqlite3_close` answers. `cached` is the cycle
session, schema cache, schema, session. `abandoned` is a connection `sqlite3_open_v2`
made and failed to open. `orderly` is history: the client let results go before the
session's other owners, and statements before `close()`. What statements, transactions
and result sets do is in the other modules; here they only own.

## 4. Runs

`LoopTerminates` assumes weak fairness of `Advance`: a client goes on with a loop it
has begun (it may break out of it), which is the control flow of a range-for and of
`resultset::each`. `SaveTerminates` assumes weak fairness of the steps of each `save()`
that has begun: the thread that called it goes on, and every statement is answered or
fails; it need not succeed. No other run assumes fairness: nothing in the library is
scheduled, and nothing else is promised to happen without a call.

| Run | Checks | Shows |
|---|---|---|
| `tx_free` | `TypeOK`, `UnsuccessfulScopeDiscards`, `TerminatesOnlyAfterCloseOrFailure` | every client and backend: two handles, two impls, two connections, close/reopen, lost connections, refusals, failures, savepoints, nested starts |
| `tx_scope` | `SuccessfulScopeCommits` | the README's scope guard, for clients that work on one transaction at a time, commit early, use savepoints they made and move their handles |
| `tx_leak` | `NoLeakedTransaction` | no transaction left open after the last handle, with copies, moves, nested starts, failures and refused COMMITs; without assignment, which drops an impl and runs no destructor, and without `close()` |
| `tx_nested` | `SuccessfulScopeCommits` violated | sqlite: a nested `start_transaction()` rolls the outer transaction back |
| `query` | `TypeOK`, `CacheCoherent`, `ValueSemantics` | the cache is invisible to a client without the risky calls, with failing prepares, resets that throw, copies and moves |
| `query_free` | `ModificationHeals` | with `count`, silent changes, assignment and copies of dirty queries, any modification makes the next execution right (failing prepares and resets that throw are left to `query` and the theorem, which has every client) |
| `rs` | `TypeOK`, `IteratorShowsItsRow`, `FetchHasBuffer`, `LoopEndsAfterLastRow`, `OwnPass`, `LoopTerminates` | two result sets and two loops at a time, one result set per execution: every row once, in order, on every backend |
| `rs_free` | `BeginShowsFirstRow` | with all calls, shared, half-read, failing and reset statements: a `begin()` that does not throw shows the first row, unless mysql's statement lost its parameters |
| `params` | `TypeOK`, `OrderlyQueryIsFaithful`, `NumberedConditionsKeepTheirValues`, `ClauseMeansItsExpression`, `ArrayIsMap` | each placeholder reads the value given for it; a clause means its expression; arrays are maps, but for a blob copied on postgres |
| `where_or` | `BuilderMeansItsExpression` violated | `query.where(a) or b` is sent as `a AND b` |
| `record` | `TypeOK`, `SyncedRecordIsItsRow`, `SavedRecordIsNotInsertedAgain`, `DeletedStaysDeleted`, `SaveTerminates` | two sessions on one table, with ids the table gave out and others; a table that changes under a cached schema |
| `session` | `TypeOK`, `ReleasedAfterUse`, `ConnectionOutlivesItsUsers` | owners let go in every order: the connection lives as long as its users and is closed after the last |

The violated properties are statements of the README, a header comment or a test;
`PROJECT.json` quotes them. `CHECK_DEADLOCK FALSE` is set where the program may
really stop: after `std::terminate` (`Transaction`), inside the RETURNING loop of two
keys (`record`), and when every object has been let go (`session`).

Disagreements with the documentation that have no run of their own stay in the modules
as definitions and in the hazards as notes: `CountCounts` (`count()` of a query that was
rendered), `ExecutionStartsUnbound` (bindings that survive `reset()`), `ToSqlIsCurrent`
(assignment keeps `sql_`), and mysql's `active_`, which an early `commit()` does not
clear. The first three are reached by adding `count`, `reexec` or `assign` to the `Calls`
of `query`, the last by letting the client of `tx_scope` have two handles at a time
(`nested`) on mysql.

Bounds. Two handles (three where moves chain) and two impls are what sharing,
stealing and overlap need; two connections are one reopen; `MaxSaves` = 2 savepoints
(with two names in `tx_scope`) give nesting and shadowing; writes are only told apart
as stored or not. Two queries give copying in both directions; two clause sets and
two values tell stale from current; one slot is enough because slots are independent.
Two rows tell first, next and last apart; two result sets and two iterators share,
overtake and disturb; three statements (two in `rs_free`) are one cached and one per
result set; `MaxPos` stops an iterator that a restarted statement would let count for
ever. Two binding objects give copying and moving; arrays start with one cell and grow by one,
and indexes up to three leave a gap. Two conditions beside one SET column, with a null
and a non-null value, tell a shifted placeholder from a right one; three conditions are
the smallest clause whose meaning depends on parentheses. Two sessions with a record
each race a `save()` against an insert, update or removal of the same row, and two rows
tell the row inserted from the newest; two schema objects per session are one
`clear_schema()`; `MaxId` = 2 leaves room for an id made up by a program and given to
another session's row afterwards. Two connections are one reopen, and four objects are a statement, its
result set, its row and a transaction or column beside them. Sets that only compare for
equality are symmetric, except in `rs` and `record`, which check liveness. The largest
runs have 773,000 (`params`), 557,000 (`record`) and 414,000 (`rs_free`) distinct
states.

## 5. Proofs

`TransactionProofs` (any number of handles, impls, connections, writes, names; all
backends; every client). The inductive invariant is `TypeOK` with
`HeldImplsConnected` (an impl that a handle holds has a connection: otherwise the
destructor's question has no answer) and `QuietConnections` (what is not in a
transaction has nothing pending: otherwise "rolled back" would not follow from
"idle"), `DeadIsEmpty` and `UnheldImplsFree` (which the type invariant's link between
closed connections and their owners needs). From it: `TypeCorrect`, `UnsuccessfulNeverStores`, `DestructorSafe`.
`DestructorSafe` is for every choice of `Calls`: where the engine does not fail what it
could carry out (no `refuse`), only a session that left the handle's connection lets a
destructor throw, on every backend.
Assumptions: the null values are not members of their sets, `MaxSaves` is a
natural number, the backend is one of three.

`QueryProofs` (any queries, clauses, slots, values; both kinds). `QueryTypeCorrect`
and `ModificationAlwaysHeals` hold for every client; `CacheAlwaysCoherent` and
`QueriesAreValues` assume `Disciplined`, that none of the calls in `Risky` is made.
The invariant is `TypeOK` and `CacheCoherent`, whose case distinction on `spent` makes it
inductive: it makes a statement current that is reused by a client who executes only
unspent queries. The
refinement maps every step to one of `QueryValue` or to a stutter, by
`RunIsCurrent`: what `query::prepare` reuses is what it would have prepared.

`ResultSetProofs` (any result sets, statements, iterators and numbers of rows; all
backends). `TypeCorrect` holds for every client; its invariant adds `Placed` (a
result set over an engine's statement has one, of the backend's kind) and `Kept`
(an iterator that is not at its end has an existing result set), without which
`operator++` would have nothing to move. `ResultSetIsOwnPass` and
`FetchAlwaysHasBuffer` assume `Disciplined`: none of `share`, `rerun`, `requery`,
`fail` (`mix` is allowed; the run `rs` leaves it out for its loop properties).
`IndInv` says why sharing goes unnoticed: no two result sets have one statement
(`Exclusive`); a statement nobody uses has not been started (`Idle`), so a new
result set begins at its first row; `status_` agrees with where the statement
stands, and mysql fetches into the result set that reads (`Aligned`); rows in
memory have no statement to move (`TextOnly`); no sqlite step has failed, and no
statement that still has a result set has lost its parameters. `Moved`
is the heart: a move of one result set is a step of that result set alone.
Assumptions: the null values are not members of their sets, the bounds are naturals,
the backend is one of three.

`LastHandleEnds` and `SuccessfulScopesCommit` are about restricted clients, because
the properties are: the first assumes `Scoped` (no assignment and no `close()`), the
second `OneScope` (the calls of `tx_scope`, one impl at a time). `LeakInv` adds to the
invariant that a handle which is no object holds no impl (`DeadIsEmpty`), that every
impl in use has the session's connection (`OneConnection`), that only postgres aborts
a block, and that an open transaction has a handle whose destructor will end it
(`OpenIsKept`): on mysql that one must have `active_`. `ScopeInv` adds that no two
handles share an impl (`Sole`), that no block is aborted, and that the transaction of a
held impl is open on the session's connection until it is committed (`FateOfHeld`).

`IteratorProofs`. `BeginShowsFirst` holds for every client. Its proof follows the
composition: what `ResetResult` and `ResetCursor` leave, the row `NextImpl` moves to from
there, and that row in the buffer or the statement the new iterator shows. `LoopsShowTheirRows` and
`LoopsEndAfterLastRow` assume `Looping`, the client of `rs`: `Disciplined` and no `mix`.
`LoopInv` adds to `IndInv` that a result set is walked by one loop at a time (`Alone`)
and that a running iterator is where its result set is, and holds that row or views it
(`InStep`): on sqlite and for mysql's prepared statements the row an iterator shows is
the engine's, so an iterator left behind would show another one.

`RecordProofs` (any sessions, records, columns, values and ids; both worlds; other
sessions act between the statements of a `save()`). `IndInv` is `TypeOK` with
`CacheFilled` and `HaveSchema` (a record has a schema object that was created),
`Saving` (what is known inside `save()`: no row of its own before the INSERT, and after
it the inserted one), `KeysGivenOut` (the autoincrement is ahead of every row and of the
ids of `recounted` records), `SavedRecordIsNotInsertedAgain`, `SyncedData` (a synced record holds no value
its row does not hold, also for columns its schema has not read) and `SyncedId`. From it:
`RecordTypeCorrect`, `NoSecondInsert`, `SyncedRecords` and the action property
`RemovedRowsStayRemoved`. Assumptions: the null values are no members of their sets,
and a table has one key or two.

`SessionProofs` (any objects and connections). `IndInv` is `TypeOK`, `OpenIffOwned` (a
connection is open exactly as long as a `db_` owns it), `ConnectedIsHeld`, for orderly
clients `NoOutlivingResults` and `NothingLeaked`, and `ConnectionOutlivesItsUsers`.
From it: `SessionTypeCorrect`, `UsersKeepTheirConnection`, `OrderlyClientReleases`.

`WhereProofs` (any number of conditions and depth of nesting). `WhereSql` writes the
appended clauses with `Joined`, a recursive function. That such a function satisfies
its equation follows from the well-ordering of the naturals (`Least`: a length without
a joined text would have a least one), once, in `JoiningExists` and `JoiningUnique`; all
later lemmas go one appended text at a time (`JoinedAppend`). `Truth` of an AND is an
intersection only where both sides are one alternative, or parenthesised
(`AndIsIntersection`). `Means` therefore says more than the property: a conjunction has
one alternative and no `or_`, and both halves of a disjunction are sound texts, which is
what the next `&&` or `||` relies on. `ClausesMeanTheirExpressions` is its consequence.

`ParametersProofs` (any conditions, SET columns, parameters, binding objects, values
and sizes of allocation; all backends and modes). `ArraysAreMaps` follows from
`StoredCells`, what `bind(index, value)` leaves of an array. `QueryInv` is about the
query: `Typed`; `Kept` (until a broken departure the parameter a condition is numbered
by is its operand); `SetFirst` (without conditions the parameters are the first SET
columns); `Follows` (in the usual order the conditions follow the SET columns, one
parameter each, unless a condition took the number of a column that has no value yet,
which is `Stuck` and never becomes complete); `Chain` (the query's own clause only grows
by `&&`, so an appended condition is the last placeholder of the text); and
`FreshWritten` (a condition of this round stands in the text). From it:
`ParametersTyped`, `ConditionsKeepTheirValues` and `OrderlyQueriesAreFaithful`; the last
also needs `SentIsParams` and `SentIsCounted`, that the array of a new statement is
`params_` and that postgres counts exactly those. Assumptions: the bounds are naturals,
`MaxSet` is not above `MaxParams`, a query has no more conditions than a clause, and the
null values are no values.

Only model-checked: `LoopTerminates` and `SaveTerminates`, which are liveness under
fairness and beyond the prover, and the two violations. Every other property of the
runs is a theorem.

Definitions whose comment begins "Variant of" are faulty versions of the
definition they precede; they are not part of any specification and serve to show
that a property notices the fault (`mutants` in `PROJECT.json`).

## 6. Not modelled

- `bind_mapping` and named parameters: regular expressions over SQL text that turn names
  into positions; the work is done by characters.
- Values (`sql_value`, `sql_number`, `sql_time`): conversions between C++ types, one call
  each and without state.
- URI parsing and the factory registry: pure, and filled before `main`.
- Exception classes: no behaviour of their own. Where an exception leaves an object
  half changed, the action of the call says so.
- The columns of a row by name and index, the spelling of operators and joins.
- `src/html` and `src/man`: the API documentation Doxygen generated, with the scripts
  Doxygen ships for its search box and menus. They are no part of the library.
- The build, and calls that are undefined behaviour by themselves (null handles,
  dangling references).
