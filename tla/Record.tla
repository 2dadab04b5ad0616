------------------------------- MODULE Record -------------------------------
(***************************************************************************)
(* Records and schemas: record.cpp, the finders of record.h, schema.cpp,    *)
(* schema_factory.cpp and what insert_query.cpp and select_query.cpp do for *)
(* them, with several sessions on one table.                                *)
(*                                                                          *)
(* save() sends two statements, a COUNT and an INSERT or UPDATE, and asks   *)
(* for the id of the new row afterwards; other sessions act in between.  A  *)
(* session runs one call at a time.  A schema object reads the columns of   *)
(* its table once, and the session caches it until clear_schema().          *)
(***************************************************************************)
EXTENDS Naturals, FiniteSets

CONSTANTS
  Backends,
  Sessions,
  Records,
  Cols,        \* the columns beside the key
  NewCol,      \* the column of Cols that is added and dropped
  Values,      \* non-null values
  Null, Unset, \* sql_null, and a name values_ does not have
  NoRow,       \* no row has this id
  NoSchema,    \* a schema object that was not created yet
  Uninit,      \* a schema whose columns_ is empty
  Nobody,      \* sess of a record that is not constructed
  Keys,        \* numbers of primary keys a table may have
  Worlds,      \* bound: "sessions", several on a table that keeps its columns,
               \* or "schemas", one with one record, whose table
               \* and cache change
  MaxId,       \* bound: rows ever inserted and ids a program makes up
  MaxGen       \* bound: schema objects per session

ASSUME RecordAssumption ==
  /\ Backends \subseteq {"sqlite", "postgres", "mysql"}
  /\ NewCol \in Cols
  /\ {Null, Unset} \cap Values = {} /\ Null # Unset
  /\ Unset \notin Nat
  /\ Nobody \notin Sessions
  /\ "id" \notin Cols
  /\ NoRow \notin [Cols -> Values \cup {Null}]
  /\ {NoSchema, Uninit} \cap {Cols, Cols \ {NewCol}} = {} /\ NoSchema # Uninit
  /\ Keys \subseteq {1, 2}
  /\ Worlds \subseteq {"sessions", "schemas"}
  /\ MaxId \in Nat /\ MaxGen \in Nat \ {0}

VARIABLES
  backend,
  keys,        \* how many primary keys the table has
  world,       \* what changes around the records in this behaviour
  rows,        \* the table: id to row
  nextId,      \* the autoincrement of the table
  tcols,       \* the columns of the table
  current,     \* schema_cache_ of a session: the object, or 0
  known,       \* columns_ of every schema object
  sess, gen,   \* schema_ of a record: its session and which object
  id, data,    \* values_ of a record: the primary key, the other columns
  pc,          \* where the save() of a record is
  checked,     \* what exists() answered
  returning,   \* the INSERT has a RETURNING clause
  inserted,    \* the engine's id of the row the save() inserted
  recounted,   \* history: the records whose save() counted the rows of an id
               \* that the table had given out by then
  synced       \* history: the row the record was last saved to or read from,
               \* 0 once the record or the row is changed

tableVars == <<rows, nextId, tcols>>
schemaVars == <<current, known>>
recordVars == <<sess, gen, id, data>>
saveVars == <<pc, checked, returning, inserted, recounted>>
vars == <<backend, keys, world, tableVars, schemaVars, recordVars, saveVars, synced>>

Ids == 1..MaxId
Cells == Values \cup {Null}
NoData == [c \in Cols |-> Unset]
Pk == "id"

TypeOK ==
  /\ backend \in Backends
  /\ keys \in Keys
  /\ world \in Worlds
  /\ rows \in [Ids -> [Cols -> Cells] \cup {NoRow}]
  /\ nextId \in 1..(MaxId + 1)
  /\ tcols \in {Cols, Cols \ {NewCol}}
  /\ current \in [Sessions -> 0..MaxGen]
  /\ known \in [Sessions -> [1..MaxGen -> {NoSchema, Uninit, Cols, Cols \ {NewCol}}]]
  /\ sess \in [Records -> Sessions \cup {Nobody}]
  /\ gen \in [Records -> 0..MaxGen]
  /\ id \in [Records -> 0..MaxId \cup {Unset}]
  /\ data \in [Records -> [Cols -> Cells \cup {Unset}]]
  /\ pc \in [Records -> {"idle", "count", "sql", "insert", "lastid", "update"}]
  /\ checked \in [Records -> {"none", "absent", "present", "failed"}]
  /\ returning \in [Records -> BOOLEAN]
  /\ inserted \in [Records -> 0..MaxId]
  /\ recounted \subseteq Records
  /\ synced \in [Records -> 0..MaxId]

Init ==
  /\ backend \in Backends
  /\ keys \in Keys
  /\ world \in Worlds
  /\ keys > 1 => backend = "postgres"  \* the backend whose SQL names every key
  /\ rows = [i \in Ids |-> NoRow]
  /\ nextId = 1
  /\ tcols \in {Cols, Cols \ {NewCol}}
  /\ world = "sessions" => tcols # Cols
  /\ current = [s \in Sessions |-> 0]
  /\ known = [s \in Sessions |-> [g \in 1..MaxGen |-> NoSchema]]
  /\ sess = [r \in Records |-> Nobody]
  /\ gen = [r \in Records |-> 0]
  /\ id = [r \in Records |-> Unset]
  /\ data = [r \in Records |-> NoData]
  /\ pc = [r \in Records |-> "idle"]
  /\ checked = [r \in Records |-> "none"]
  /\ returning = [r \in Records |-> FALSE]
  /\ inserted = [r \in Records |-> 0]
  /\ recounted = {}
  /\ synced = [r \in Records |-> 0]

-----------------------------------------------------------------------------
(* Sessions and schemas *)

\* No record of session s is inside a call
Free(s) == \A r \in Records : sess[r] = s => pc[r] = "idle"

\* bound: the session of a world without others
AnySession == CHOOSE s \in Sessions : TRUE

\* bound: there may be a record r beside the others
Room(r) == world = "schemas" => \A q \in Records \ {r} : sess[q] = Nobody

\* r can be called
Ready(r) == sess[r] # Nobody /\ Free(sess[r])

Exists(i) == i \in Ids /\ rows[i] # NoRow

\* The object get_schema(s) answers
Cached(s) ==
  IF current[s] # 0 THEN current[s]
  ELSE CHOOSE g \in 1..MaxGen : known[s][g] = NoSchema /\ \A h \in 1..(g - 1) : known[s][h] # NoSchema

\* session::get_schema, schema_factory::get and create: a new object has no
\* columns
GetSchema(s) ==
  /\ world = "schemas" => s = AnySession
  /\ current' = [current EXCEPT ![s] = Cached(s)]
  /\ known' = IF current[s] # 0 THEN known
              ELSE [known EXCEPT ![s] = [@ EXCEPT ![Cached(s)] = Uninit]]

\* session::clear_schema
ClearSchema(s) ==
  /\ Free(s)
  /\ world = "schemas"
  /\ current[s] # 0
  /\ \E g \in 1..MaxGen : known[s][g] = NoSchema
  /\ current' = [current EXCEPT ![s] = 0]
  /\ UNCHANGED <<tableVars, known, recordVars, saveVars, synced>>

Columns(r) == known[sess[r]][gen[r]]

Initialised(r) == Columns(r) # Uninit

\* record::schema(): the first call reads the columns.  Every other call on a
\* record begins with it.
Schema(r) ==
  /\ Ready(r)
  /\ ~Initialised(r)
  /\ known' = [known EXCEPT ![sess[r]] = [@ EXCEPT ![gen[r]] = tcols]]
  /\ UNCHANGED <<tableVars, current, recordVars, saveVars, synced>>

\* Another program changes the table
AddColumn ==
  /\ world = "schemas"
  /\ NewCol \notin tcols
  /\ tcols' = Cols
  /\ UNCHANGED <<rows, nextId, schemaVars, recordVars, saveVars, synced>>

DropColumn ==
  /\ world = "schemas"
  /\ NewCol \in tcols
  /\ tcols' = Cols \ {NewCol}
  /\ rows' = [i \in Ids |-> IF rows[i] = NoRow THEN NoRow ELSE [rows[i] EXCEPT ![NewCol] = Null]]
  /\ synced' = [r \in Records |-> 0]
  /\ UNCHANGED <<nextId, schemaVars, recordVars, saveVars>>

-----------------------------------------------------------------------------
(* The values of a record *)

\* record(schema) over session::get_schema
Make(r, s) ==
  /\ sess[r] = Nobody /\ Room(r)
  /\ Free(s)
  /\ GetSchema(s)
  /\ sess' = [sess EXCEPT ![r] = s]
  /\ gen' = [gen EXCEPT ![r] = Cached(s)]
  /\ id' = [id EXCEPT ![r] = Unset]
  /\ data' = [data EXCEPT ![r] = NoData]
  /\ UNCHANGED <<tableVars, saveVars, synced>>

\* set(name, v) and unset(name), v = Unset
SetColumn(r, c, v) ==
  /\ Ready(r)
  /\ data' = [data EXCEPT ![r] = [@ EXCEPT ![c] = v]]
  /\ synced' = [synced EXCEPT ![r] = 0]
  /\ UNCHANGED <<tableVars, schemaVars, sess, gen, id, saveVars>>

\* set_id(i) with any id, given out by the table or not, and unset of the key
SetId(r, i) ==
  /\ Ready(r) /\ Initialised(r)
  /\ id' = [id EXCEPT ![r] = i]
  /\ synced' = [synced EXCEPT ![r] = 0]
  /\ UNCHANGED <<tableVars, schemaVars, sess, gen, data, saveVars>>

\* reset()
ResetValues(r) ==
  /\ Ready(r)
  /\ id' = [id EXCEPT ![r] = Unset]
  /\ data' = [data EXCEPT ![r] = NoData]
  /\ synced' = [synced EXCEPT ![r] = 0]
  /\ UNCHANGED <<tableVars, schemaVars, sess, gen, saveVars>>

\* copy construction and assignment: the schema is shared, the values are not
CopyRecord(r, q) ==
  /\ r # q /\ Room(q)
  /\ Ready(r) /\ pc[q] = "idle"
  /\ sess' = [sess EXCEPT ![q] = sess[r]]
  /\ gen' = [gen EXCEPT ![q] = gen[r]]
  /\ id' = [id EXCEPT ![q] = id[r]]
  /\ data' = [data EXCEPT ![q] = data[r]]
  /\ synced' = [synced EXCEPT ![q] = synced[r]]
  /\ UNCHANGED <<tableVars, schemaVars, saveVars>>

\* move construction and assignment: the source is left without a schema
MoveRecord(r, q) ==
  /\ r # q
  /\ Ready(r) /\ pc[q] = "idle"
  /\ sess' = [sess EXCEPT ![q] = sess[r], ![r] = Nobody]
  /\ gen' = [gen EXCEPT ![q] = gen[r], ![r] = 0]
  /\ id' = [id EXCEPT ![q] = id[r], ![r] = Unset]
  /\ data' = [data EXCEPT ![q] = data[r], ![r] = NoData]
  /\ synced' = [synced EXCEPT ![q] = synced[r], ![r] = 0]
  /\ UNCHANGED <<tableVars, schemaVars, saveVars>>

-----------------------------------------------------------------------------
(* save() *)

\* Variant of AvailableColumns: the key is among the columns of an INSERT.
AvailableColumnsWithKey(exists, r) ==
  {c \in Columns(r) : data[r][c] # Unset} \cup (IF id[r] # Unset THEN {Pk} ELSE {})

\* Variant of AvailableColumns: has(val) is not asked.
AvailableColumnsUnset(exists, r) == Columns(r) \cup (IF exists THEN {Pk} ELSE {})

\* available_columns(exists, pk): the columns of the schema that are set
AvailableColumns(exists, r) ==
  {c \in Columns(r) : data[r][c] # Unset} \cup (IF exists /\ id[r] # Unset THEN {Pk} ELSE {})

\* The call ends, with a value or an exception
Return(r) ==
  /\ pc' = [pc EXCEPT ![r] = "idle"]
  /\ checked' = [checked EXCEPT ![r] = "none"]
  /\ returning' = [returning EXCEPT ![r] = FALSE]
  /\ inserted' = [inserted EXCEPT ![r] = 0]
  /\ recounted' = recounted \ {r}

\* exists(): without a key there is nothing to count
Save(r) ==
  /\ Ready(r) /\ Initialised(r)
  /\ pc' = [pc EXCEPT ![r] = IF id[r] = Unset THEN "sql" ELSE "count"]
  /\ checked' = [checked EXCEPT ![r] = IF id[r] = Unset THEN "absent" ELSE "none"]
  /\ synced' = [synced EXCEPT ![r] = 0]
  /\ UNCHANGED <<tableVars, schemaVars, recordVars, returning, inserted, recounted>>

\* SELECT COUNT( * ) of the rows with the record's id
Matching(r) == Cardinality({i \in Ids : i = id[r] /\ Exists(i)})

\* Variant of CountIsPositive: more than one row is asked for.
CountIsAboveOne(r) == Matching(r) > 1

\* The table has had a row i
GivenOut(i) == i \in Ids /\ i < nextId

\* query.count() > 0
CountIsPositive(r) == Matching(r) > 0

Count(r) ==
  /\ pc[r] = "count"
  /\ checked' = [checked EXCEPT ![r] = IF CountIsPositive(r) THEN "present" ELSE "absent"]
  /\ pc' = [pc EXCEPT ![r] = IF CountIsPositive(r) THEN "update" ELSE "sql"]
  /\ recounted' = IF GivenOut(id[r]) THEN recounted \cup {r} ELSE recounted
  /\ UNCHANGED <<tableVars, schemaVars, recordVars, returning, inserted, synced>>

\* select_query::count catches whatever the engine throws and answers -1
CountFails(r) ==
  /\ pc[r] = "count"
  /\ checked' = [checked EXCEPT ![r] = "failed"]
  /\ pc' = [pc EXCEPT ![r] = "sql"]
  /\ UNCHANGED <<tableVars, schemaVars, recordVars, returning, inserted, recounted, synced>>

\* Variant of ReturningIsBuilt: the loop runs to the end of the keys.
ReturningLoopsOnEveryKey(n) == n <= 0

\* The loop over all but the last key does not advance its iterator
ReturningIsBuilt(n) == n <= 1

\* insert_query::generate_sql: the keys come from the cached schema, which may
\* be a new one without columns
InsertSql(r) ==
  LET s == sess[r] IN
  /\ pc[r] = "sql"
  /\ IF backend = "postgres"
       THEN /\ GetSchema(s)
            /\ returning' = [returning EXCEPT ![r] = known'[s][Cached(s)] # Uninit]
            /\ returning'[r] => ReturningIsBuilt(keys)
       ELSE UNCHANGED <<schemaVars, returning>>
  /\ pc' = [pc EXCEPT ![r] = "insert"]
  /\ UNCHANGED <<tableVars, recordVars, checked, inserted, recounted, synced>>

\* The rows that hold no saved record any more once row i is written
Overwritten(i) == [q \in Records |-> IF synced[q] = i THEN 0 ELSE synced[q]]

\* The engine: an INSERT that does not name the key takes the next one
InsertKey(cols, r) == IF Pk \in cols THEN id[r] ELSE nextId

Insert(r) ==
  LET cols == AvailableColumns(FALSE, r)
      key == InsertKey(cols, r)
  IN
  /\ pc[r] = "insert"
  /\ cols \ {Pk} \subseteq tcols
  /\ cols # {} \/ backend = "mysql"
  /\ key \in Ids /\ ~Exists(key)
  /\ rows' = [rows EXCEPT ![key] = [c \in Cols |-> IF c \in cols THEN data[r][c] ELSE Null]]
  /\ nextId' = IF key >= nextId THEN key + 1 ELSE nextId
  /\ inserted' = [inserted EXCEPT ![r] = key]
  /\ synced' = [synced EXCEPT ![r] = key]
  /\ pc' = [pc EXCEPT ![r] = "lastid"]
  /\ UNCHANGED <<tcols, schemaVars, recordVars, checked, returning, recounted>>

\* A column that is gone, or no column at all
InsertRefused(r) ==
  LET cols == AvailableColumns(FALSE, r) IN
  /\ pc[r] = "insert"
  /\ ~(cols \ {Pk} \subseteq tcols) \/ (cols = {} /\ backend # "mysql")
  /\ Return(r)
  /\ UNCHANGED <<tableVars, schemaVars, recordVars, synced>>

\* The engine fails: a lock, a constraint
StatementFails(r) ==
  /\ pc[r] \in {"insert", "update"}
  /\ Return(r)
  /\ UNCHANGED <<tableVars, schemaVars, recordVars, synced>>

\* Variant of LastInsertId: the newest key of the table.
NewestId(r) == nextId - 1

\* last_insert_id(): the engine's id for the connection (sqlite) or the
\* statement (mysql), the first value that was returned (postgres) or 0
LastInsertId(r) == IF backend = "postgres" /\ ~returning[r] THEN 0 ELSE inserted[r]

\* set(pk, query.last_insert_id())
SetInsertedId(r) ==
  /\ pc[r] = "lastid"
  /\ id' = [id EXCEPT ![r] = LastInsertId(r)]
  /\ Return(r)
  /\ UNCHANGED <<tableVars, schemaVars, sess, gen, data, synced>>

Update(r) ==
  LET cols == AvailableColumns(TRUE, r)
      row == [c \in Cols |-> IF c \in cols THEN data[r][c] ELSE rows[id[r]][c]]
  IN
  /\ pc[r] = "update"
  /\ cols \ {Pk} \subseteq tcols
  /\ rows' = IF Exists(id[r]) THEN [rows EXCEPT ![id[r]] = row] ELSE rows
  /\ synced' = IF Exists(id[r]) THEN [Overwritten(id[r]) EXCEPT ![r] = id[r]] ELSE synced
  /\ Return(r)
  /\ UNCHANGED <<nextId, tcols, schemaVars, recordVars>>

UpdateRefused(r) ==
  /\ pc[r] = "update"
  /\ ~(AvailableColumns(TRUE, r) \ {Pk} \subseteq tcols)
  /\ Return(r)
  /\ UNCHANGED <<tableVars, schemaVars, recordVars, synced>>
-----------------------------------------------------------------------------
(* Reading and removing *)

\* select_query(schema) names the columns of the schema, or * when it has none
Selected(s, g) == IF known[s][g] \in {Uninit, NoSchema} THEN tcols ELSE known[s][g]

\* record::init: every selected column is set, the others stay
Loaded(d, s, g, i) == [c \in Cols |-> IF c \in Selected(s, g) THEN rows[i][c] ELSE d[c]]

\* The rows a condition name = value finds; null finds none
Found(c, v) == {i \in Ids : Exists(i) /\ v # Null /\ rows[i][c] = v}

\* A record takes what row i holds
Take(r, i) ==
  /\ id' = [id EXCEPT ![r] = i]
  /\ data' = [data EXCEPT ![r] = Loaded(@, sess[r], gen[r], i)]
  /\ synced' = [synced EXCEPT ![r] = i]
  /\ UNCHANGED <<tableVars, schemaVars, sess, gen, saveVars>>

\* refresh(): refresh_by the key.  A missing key or row is answered with false, a
\* column that is gone with an exception, and nothing changes.
Refresh(r) ==
  /\ Ready(r) /\ Initialised(r)
  /\ Columns(r) \subseteq tcols
  /\ id[r] # Unset /\ Exists(id[r])
  /\ Take(r, id[r])

\* refresh_by(c): LIMIT 1 of the rows that have the value
RefreshBy(r, c) ==
  /\ Ready(r) /\ Initialised(r)
  /\ Columns(r) \cup {c} \subseteq tcols
  /\ \E i \in Found(c, data[r][c]) : Take(r, i)

\* remove(): one DELETE; the record keeps its values
Remove(r) ==
  /\ Ready(r) /\ Initialised(r)
  /\ id[r] # Unset /\ Exists(id[r])
  /\ rows' = [rows EXCEPT ![id[r]] = NoRow]
  /\ synced' = Overwritten(id[r])
  /\ UNCHANGED <<nextId, tcols, schemaVars, recordVars, saveVars>>

\* A new record in place of q over schema object g of session s, with row i
Instead(q, s, g, i) ==
  /\ pc[q] = "idle" /\ Room(q)
  /\ sess' = [sess EXCEPT ![q] = s]
  /\ gen' = [gen EXCEPT ![q] = g]
  /\ id' = [id EXCEPT ![q] = i]
  /\ data' = [data EXCEPT ![q] = Loaded(NoData, s, g, i)]
  /\ synced' = [synced EXCEPT ![q] = i]
  /\ UNCHANGED <<tableVars, saveVars>>

\* find_by_id of a record: the schema is initialised, the session the same
FindById(r, q, i) ==
  /\ Ready(r) /\ Initialised(r)
  /\ Columns(r) \subseteq tcols
  /\ Exists(i)
  /\ Instead(q, sess[r], gen[r], i)
  /\ UNCHANGED schemaVars

\* find_one, find_by and find_all over session::get_schema, which nothing has
\* initialised: the record reads whatever columns the table has
Find(q, s, i) ==
  /\ Free(s)
  /\ Selected(s, Cached(s)) \subseteq tcols
  /\ Exists(i)
  /\ GetSchema(s)
  /\ Instead(q, s, Cached(s), i)

-----------------------------------------------------------------------------
SaveStep(r) ==
  \/ Count(r) \/ CountFails(r)
  \/ InsertSql(r)
  \/ Insert(r) \/ InsertRefused(r) \/ StatementFails(r)
  \/ SetInsertedId(r)
  \/ Update(r) \/ UpdateRefused(r)

RecordStep(r) ==
  \/ \E s \in Sessions : Make(r, s)
  \/ Schema(r)
  \/ \E c \in (IF world = "schemas" THEN Cols ELSE tcols), v \in Values \cup {Unset} : SetColumn(r, c, v)
  \/ \E i \in Ids \cup {Unset} : SetId(r, i)
  \/ ResetValues(r)
  \/ \E q \in Records : CopyRecord(r, q) \/ MoveRecord(r, q)
  \/ Save(r)
  \/ Refresh(r)
  \/ \E c \in Cols : RefreshBy(r, c)
  \/ Remove(r)
  \/ \E q \in Records, i \in Ids : FindById(r, q, i)
  \/ \E s \in Sessions, i \in Ids : Find(r, s, i)

Next ==
  /\ UNCHANGED <<backend, keys, world>>
  /\ \/ \E r \in Records : SaveStep(r) \/ RecordStep(r)
     \/ \E s \in Sessions : ClearSchema(s)
     \/ AddColumn
     \/ DropColumn

\* A thread inside save() goes on
Fairness == \A r \in Records : WF_vars(UNCHANGED <<backend, keys, world>> /\ SaveStep(r))

Spec == Init /\ [][Next]_vars /\ Fairness

-----------------------------------------------------------------------------
(* Properties *)

\* A record that was saved, refreshed or found, and whose row nobody has
\* changed since, is that row: its id names the row and the columns its schema
\* knows hold the row's values, though other sessions insert between the
\* INSERT and the question for its id, and the schema may be older than the
\* table.  Only a postgres INSERT without RETURNING leaves the id 0
\* (record::save, refresh_by, init; insert_query::execute).
SyncedRecordIsItsRow ==
  \A r \in Records : pc[r] = "idle" /\ synced[r] # 0 =>
    /\ id[r] = synced[r] \/ (backend = "postgres" /\ id[r] = 0)
    /\ Exists(synced[r])
    /\ \A c \in Selected(sess[r], gen[r]) \cap tcols :
         data[r][c] # Unset => data[r][c] = rows[synced[r]][c]

\* A save() that counts the rows of an id the table has given out, and finds
\* none, may insert: the row is still not there when the INSERT runs, whatever
\* other sessions inserted, removed, saved or called their records since the
\* COUNT.  (An id that the program made up may be given to the row of another
\* session after the COUNT; the INSERT leaves the id out, so the two rows are
\* told apart all the same.)
\* (record::exists, record::save, record::available_columns).
SavedRecordIsNotInsertedAgain ==
  \A r \in recounted : pc[r] \in {"sql", "insert"} /\ checked[r] = "absent" => ~Exists(id[r])

\* A row that was removed never comes back under its id, though records of
\* other sessions still hold the id and are saved again
\* (record::available_columns leaves the key out of an INSERT).
DeletedStaysDeleted ==
  [][\A i \in Ids : ~Exists(i) /\ rows'[i] # NoRow => i >= nextId]_vars

\* save() returns, whatever other sessions do and whichever statement fails,
\* unless a postgres INSERT has two keys to return
\* (record::save, insert_query::generate_sql).
SaveTerminates ==
  \A r \in Records :
    pc[r] # "idle" ~> (pc[r] = "idle" \/ (backend = "postgres" /\ keys > 1))
=============================================================================
