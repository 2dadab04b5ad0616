---------------------------- MODULE RecordProofs -----------------------------
(***************************************************************************)
(* Proofs about Record, for every backend and any number of sessions,       *)
(* records, columns, values, rows and schema objects.                       *)
(***************************************************************************)
EXTENDS Record, FiniteSetTheorems, WellFoundedInduction, TLAPS

SchemaStates == {NoSchema, Uninit, Cols, Cols \ {NewCol}}

-----------------------------------------------------------------------------
(* The inductive invariant *)

\* The cache of a session holds an object that was created, and there is room
\* for another one when it is empty.
CacheFilled ==
  \A s \in Sessions :
    /\ current[s] # 0 => known[s][current[s]] # NoSchema
    /\ current[s] = 0 => \E g \in 1..MaxGen : known[s][g] = NoSchema

\* A record that is constructed has a schema object that was created.
HaveSchema ==
  \A r \in Records : sess[r] # Nobody =>
    gen[r] \in 1..MaxGen /\ known[sess[r]][gen[r]] # NoSchema

\* What is known of a record inside save(): its schema has columns, it has no
\* row of its own before the INSERT, and after it the row it inserted unless
\* somebody has changed that one.
Saving ==
  \A r \in Records : pc[r] # "idle" =>
    /\ sess[r] # Nobody
    /\ known[sess[r]][gen[r]] # Uninit
    /\ pc[r] # "lastid" => synced[r] = 0
    /\ pc[r] = "lastid" => /\ inserted[r] \in Ids /\ inserted[r] < nextId
                           /\ synced[r] \in {0, inserted[r]}

\* Keys come from the autoincrement: no row is ahead of it, and no record whose
\* save() counted the rows of a key the table had given out; that record is
\* still inside the save().
KeysGivenOut ==
  /\ \A i \in Ids : rows[i] # NoRow => i < nextId
  /\ \A r \in recounted : pc[r] # "idle" /\ GivenOut(id[r])

\* The columns a record may compare with the table, now or when columns are
\* added: all of them while its schema, which knows cols, has not read any.
Comparable(cols) == IF cols = Uninit THEN Cols ELSE cols

\* A synced record has its row, and holds no value the row does not hold, not
\* even for a column that is gone.
SyncedData ==
  \A r \in Records : synced[r] # 0 =>
    /\ sess[r] # Nobody
    /\ Exists(synced[r])
    /\ \A c \in Comparable(known[sess[r]][gen[r]]) :
         data[r][c] # Unset => c \in tcols /\ data[r][c] = rows[synced[r]][c]

\* A synced record outside of save() names its row.
SyncedId ==
  \A r \in Records : pc[r] = "idle" /\ synced[r] # 0 =>
    id[r] = synced[r] \/ (backend = "postgres" /\ id[r] = 0)

IndInv ==
  /\ TypeOK
  /\ CacheFilled
  /\ HaveSchema
  /\ Saving
  /\ KeysGivenOut
  /\ SavedRecordIsNotInsertedAgain
  /\ SyncedData
  /\ SyncedId

\* The invariant holds of an empty table without records.
LEMMA InitInv == Init => IndInv
<1> SUFFICES ASSUME Init PROVE IndInv
  OBVIOUS
<1> USE RecordAssumption
<1>1. TypeOK
  <2>1. /\ backend \in Backends /\ keys \in Keys /\ world \in Worlds
        /\ nextId \in 1..(MaxId + 1) /\ tcols \in {Cols, Cols \ {NewCol}}
    BY DEF Init
  <2>2. rows \in [Ids -> [Cols -> Cells] \cup {NoRow}]
    BY DEF Init
  <2>3. /\ current \in [Sessions -> 0..MaxGen]
        /\ known \in [Sessions -> [1..MaxGen -> {NoSchema, Uninit, Cols, Cols \ {NewCol}}]]
    BY DEF Init
  <2>4. /\ sess \in [Records -> Sessions \cup {Nobody}]
        /\ gen \in [Records -> 0..MaxGen]
        /\ id \in [Records -> 0..MaxId \cup {Unset}]
    BY DEF Init
  <2>5. data \in [Records -> [Cols -> Cells \cup {Unset}]]
    BY DEF Init, NoData
  <2>6. /\ pc \in [Records -> {"idle", "count", "sql", "insert", "lastid", "update"}]
        /\ checked \in [Records -> {"none", "absent", "present", "failed"}]
    BY DEF Init
  <2>7. returning \in [Records -> BOOLEAN]
    BY DEF Init
  <2>8. inserted \in [Records -> 0..MaxId] /\ synced \in [Records -> 0..MaxId] /\ recounted \subseteq Records
    BY DEF Init
  <2> QED  BY <2>1, <2>2, <2>3, <2>4, <2>5, <2>6, <2>7, <2>8 DEF TypeOK
<1>2. CacheFilled
  <2>1. 1 \in 1..MaxGen
    OBVIOUS
  <2>2. \A t \in Sessions : current[t] = 0 /\ known[t][1] = NoSchema
    BY <2>1 DEF Init
  <2> QED  BY <2>1, <2>2 DEF CacheFilled
<1>3. HaveSchema /\ Saving /\ SavedRecordIsNotInsertedAgain /\ SyncedData /\ SyncedId
  BY DEF Init, HaveSchema, Saving, SavedRecordIsNotInsertedAgain, SyncedData, SyncedId
<1>4. KeysGivenOut
  BY DEF Init, KeysGivenOut
<1> QED  BY <1>1, <1>2, <1>3, <1>4 DEF IndInv

-----------------------------------------------------------------------------
(* Schema objects *)

\* A non-empty set of natural numbers has a least element.
LEMMA LeastNumber ==
  ASSUME NEW T, T \subseteq Nat, T # {}
  PROVE  \E x \in T : \A y \in T : x <= y
<1> DEFINE R == {ss \in Nat \X Nat : ss[1] < ss[2]}
<1>1. IsWellFoundedOn(R, Nat)
  BY NatLessThanWellFounded, Zenon DEF OpToRel
<1>2. PICK x \in T : \A y \in T : ~(<<y, x>> \in R)
  <2> HIDE DEF R
  <2> QED  BY <1>1, WFMin
<1>3. \A y \in T : ~(y < x)
  BY <1>2
<1> QED  BY <1>2, <1>3

\* get_schema answers the cached object or the first one not yet created.
LEMMA CachedObject ==
  ASSUME TypeOK, CacheFilled, NEW s \in Sessions
  PROVE  /\ Cached(s) \in 1..MaxGen
         /\ current[s] # 0 => Cached(s) = current[s] /\ known[s][Cached(s)] # NoSchema
         /\ current[s] = 0 => known[s][Cached(s)] = NoSchema
<1> USE RecordAssumption
<1>1. current[s] \in 0..MaxGen
  BY DEF TypeOK
<1>2. CASE current[s] # 0
  BY <1>1, <1>2 DEF Cached, CacheFilled
<1>3. CASE current[s] = 0
  <2> DEFINE T == {g \in 1..MaxGen : known[s][g] = NoSchema}
  <2>1. T # {} /\ T \subseteq Nat
    BY <1>3 DEF CacheFilled
  <2>2. PICK g \in T : \A h \in T : g <= h
    <3> HIDE DEF T
    <3> QED  BY <2>1, LeastNumber
  <2>3. \A h \in 1..(g - 1) : known[s][h] # NoSchema
    BY <2>2
  <2>4. \E x \in 1..MaxGen : known[s][x] = NoSchema /\ \A h \in 1..(x - 1) : known[s][h] # NoSchema
    BY <2>2, <2>3
  <2> QED  BY <1>3, <2>4 DEF Cached
<1> QED  BY <1>2, <1>3

\* get_schema creates at most the object it answers, without columns, and
\* leaves every other object alone.
LEMMA GetSchemaStep ==
  ASSUME TypeOK, CacheFilled, NEW s \in Sessions, GetSchema(s)
  PROVE  /\ current' \in [Sessions -> 0..MaxGen]
         /\ known' \in [Sessions -> [1..MaxGen -> SchemaStates]]
         /\ CacheFilled'
         /\ \A t \in Sessions, g \in 1..MaxGen :
              known[t][g] # NoSchema => known'[t][g] = known[t][g]
         /\ known'[s][Cached(s)] = IF current[s] # 0 THEN known[s][Cached(s)] ELSE Uninit
<1> USE RecordAssumption
<1>1. /\ Cached(s) \in 1..MaxGen
      /\ current[s] # 0 => Cached(s) = current[s] /\ known[s][Cached(s)] # NoSchema
      /\ current[s] = 0 => known[s][Cached(s)] = NoSchema
  BY CachedObject
<1> DEFINE k == Cached(s)
<1>2. /\ current' = [current EXCEPT ![s] = k]
      /\ known' = IF current[s] # 0 THEN known ELSE [known EXCEPT ![s] = [known[s] EXCEPT ![k] = Uninit]]
  BY DEF GetSchema
<1>3. k \in 1..MaxGen
  BY <1>1
<1> HIDE DEF k
<1>4. /\ known \in [Sessions -> [1..MaxGen -> SchemaStates]] /\ current \in [Sessions -> 0..MaxGen]
  BY DEF TypeOK, SchemaStates
<1>5. current' \in [Sessions -> 0..MaxGen] /\ \A t \in Sessions : current'[t] = IF t = s THEN k ELSE current[t]
  BY <1>2, <1>3, <1>4
<1>6. known' \in [Sessions -> [1..MaxGen -> SchemaStates]]
  <2>1. [known[s] EXCEPT ![k] = Uninit] \in [1..MaxGen -> SchemaStates]
    BY <1>3, <1>4 DEF SchemaStates
  <2> QED  BY <1>2, <1>4, <2>1
<1>7. \A t \in Sessions, g \in 1..MaxGen :
        known'[t][g] = IF t = s /\ g = k /\ current[s] = 0 THEN Uninit ELSE known[t][g]
  BY <1>2, <1>3, <1>4
<1>8. \A t \in Sessions, g \in 1..MaxGen :
        known[t][g] # NoSchema => known'[t][g] = known[t][g]
  BY <1>1, <1>7 DEF k
<1>9. known'[s][k] = IF current[s] # 0 THEN known[s][k] ELSE Uninit
  BY <1>3, <1>7
<1>10. CacheFilled'
  <2> SUFFICES ASSUME NEW t \in Sessions
               PROVE  /\ current'[t] # 0 => known'[t][current'[t]] # NoSchema
                      /\ current'[t] = 0 => \E g \in 1..MaxGen : known'[t][g] = NoSchema
    BY DEF CacheFilled
  <2>1. CASE t = s
    BY <1>1, <1>3, <1>5, <1>9, <2>1 DEF k
  <2>2. CASE t # s
    <3>1. current'[t] = current[t] /\ \A g \in 1..MaxGen : known'[t][g] = known[t][g]
      BY <1>5, <1>7, <2>2
    <3>2. current[t] \in 0..MaxGen
      BY <1>4
    <3> QED  BY <3>1, <3>2 DEF CacheFilled
  <2> QED  BY <2>1, <2>2
<1> QED  BY <1>5, <1>6, <1>8, <1>9, <1>10 DEF k

-----------------------------------------------------------------------------
(* Steps that change the values of records *)

\* The new value of record p is one the invariant allows outside of save().
Allowed(p) ==
  /\ sess'[p] # Nobody => gen'[p] \in 1..MaxGen /\ known'[sess'[p]][gen'[p]] # NoSchema
  /\ synced'[p] # 0 =>
       /\ sess'[p] # Nobody
       /\ Exists(synced'[p])
       /\ id'[p] = synced'[p] \/ (backend = "postgres" /\ id'[p] = 0)
       /\ \A c \in Comparable(known'[sess'[p]][gen'[p]]) :
            data'[p][c] # Unset => c \in tcols /\ data'[p][c] = rows[synced'[p]][c]

Same(p) ==
  /\ sess'[p] = sess[p] /\ gen'[p] = gen[p] /\ id'[p] = id[p]
  /\ data'[p] = data[p] /\ synced'[p] = synced[p]

RecordTypes ==
  /\ sess \in [Records -> Sessions \cup {Nobody}]
  /\ gen \in [Records -> 0..MaxGen]
  /\ id \in [Records -> 0..MaxId \cup {Unset}]
  /\ data \in [Records -> [Cols -> Cells \cup {Unset}]]
  /\ synced \in [Records -> 0..MaxId]

SchemaTypes ==
  /\ current \in [Sessions -> 0..MaxGen]
  /\ known \in [Sessions -> [1..MaxGen -> SchemaStates]]

\* Schema objects that exist stay as they are.
SchemasStay ==
  \A t \in Sessions, g \in 1..MaxGen : known[t][g] # NoSchema => known'[t][g] = known[t][g]

\* A step that gives idle records allowed values keeps the invariant.
LEMMA RecordsInv ==
  ASSUME IndInv, UNCHANGED <<backend, keys, world, tableVars, saveVars>>,
         RecordTypes', SchemaTypes', CacheFilled', SchemasStay,
         \A p \in Records : Same(p) \/ (pc[p] = "idle" /\ Allowed(p))
  PROVE  IndInv'
<1> USE RecordAssumption
<1>0. /\ TypeOK /\ HaveSchema /\ Saving /\ KeysGivenOut
      /\ SavedRecordIsNotInsertedAgain /\ SyncedData /\ SyncedId
  BY DEF IndInv
<1>1. UNCHANGED <<backend, keys, world, rows, nextId, tcols, pc, checked, returning, inserted, recounted>>
  BY DEF tableVars, saveVars
<1>2. TypeOK'
  BY <1>0, <1>1 DEF TypeOK, RecordTypes, SchemaTypes, SchemaStates
<1>3. \A p \in Records : sess[p] \in Sessions \cup {Nobody} /\ gen[p] \in 0..MaxGen
  BY <1>0 DEF TypeOK
<1>4. \A p \in Records : Same(p) /\ sess[p] # Nobody =>
        /\ gen[p] \in 1..MaxGen
        /\ known[sess[p]][gen[p]] # NoSchema
        /\ known'[sess'[p]][gen'[p]] = known[sess[p]][gen[p]]
  BY <1>0, <1>3 DEF HaveSchema, SchemasStay, Same
<1>5. HaveSchema'
  <2> SUFFICES ASSUME NEW p \in Records, sess'[p] # Nobody
               PROVE  gen'[p] \in 1..MaxGen /\ known'[sess'[p]][gen'[p]] # NoSchema
    BY DEF HaveSchema
  <2>1. CASE Same(p)
    BY <1>4, <2>1 DEF Same
  <2>2. CASE Allowed(p)
    BY <2>2 DEF Allowed
  <2> QED  BY <2>1, <2>2
<1>6. Saving'
  <2> SUFFICES ASSUME NEW p \in Records, pc[p] # "idle"
               PROVE  /\ sess'[p] # Nobody
                      /\ known'[sess'[p]][gen'[p]] # Uninit
                      /\ pc[p] # "lastid" => synced'[p] = 0
                      /\ pc[p] = "lastid" => /\ inserted[p] \in Ids /\ inserted[p] < nextId
                                             /\ synced'[p] \in {0, inserted[p]}
    BY <1>1 DEF Saving, Ids
  <2>1. Same(p)
    OBVIOUS
  <2> QED  BY <1>0, <1>4, <2>1 DEF Saving, Same
<1>7. KeysGivenOut'
  <2>1. \A p \in recounted : pc[p] # "idle" /\ GivenOut(id'[p])
    BY <1>0 DEF Same, KeysGivenOut, TypeOK
  <2> QED  BY <1>0, <1>1, <2>1 DEF KeysGivenOut, GivenOut, Ids
<1>8. SavedRecordIsNotInsertedAgain'
  <2> SUFFICES ASSUME NEW p \in recounted, pc[p] \in {"sql", "insert"}, checked[p] = "absent"
               PROVE  ~(id'[p] \in Ids /\ rows[id'[p]] # NoRow)
    BY <1>1 DEF SavedRecordIsNotInsertedAgain, Exists, Ids
  <2>1. id'[p] = id[p]
    BY <1>0 DEF Same, TypeOK
  <2>2. ~Exists(id[p])
    BY <1>0 DEF SavedRecordIsNotInsertedAgain
  <2> QED  BY <1>1, <2>1, <2>2 DEF Exists, Ids
<1>9. SyncedData'
  <2> SUFFICES ASSUME NEW p \in Records, synced'[p] # 0
               PROVE  /\ sess'[p] # Nobody
                      /\ Exists(synced'[p])
                      /\ \A c \in Comparable(known'[sess'[p]][gen'[p]]) :
                           data'[p][c] # Unset => c \in tcols /\ data'[p][c] = rows[synced'[p]][c]
    BY <1>1 DEF SyncedData, Exists, Ids
  <2>1. CASE Same(p)
    <3>1. synced[p] # 0 /\ synced'[p] = synced[p] /\ data'[p] = data[p] /\ sess'[p] = sess[p]
      BY <2>1 DEF Same
    <3>2. /\ sess[p] # Nobody /\ Exists(synced[p])
          /\ \A c \in Comparable(known[sess[p]][gen[p]]) :
               data[p][c] # Unset => c \in tcols /\ data[p][c] = rows[synced[p]][c]
      BY <1>0, <3>1 DEF SyncedData
    <3>3. Comparable(known'[sess'[p]][gen'[p]]) = Comparable(known[sess[p]][gen[p]])
      BY <1>4, <2>1, <3>2 DEF Comparable
    <3> QED  BY <3>1, <3>2, <3>3
  <2>2. CASE Allowed(p)
    BY <2>2 DEF Allowed
  <2> QED  BY <2>1, <2>2
<1>10. SyncedId'
  <2> SUFFICES ASSUME NEW p \in Records, pc[p] = "idle", synced'[p] # 0
               PROVE  id'[p] = synced'[p] \/ (backend = "postgres" /\ id'[p] = 0)
    BY <1>1 DEF SyncedId
  <2> QED  BY <1>0 DEF Same, Allowed, SyncedId
<1> QED  BY <1>2, <1>5, <1>6, <1>7, <1>8, <1>9, <1>10 DEF IndInv

\* What the invariant says of one record.
LEMMA OneRecord ==
  ASSUME IndInv, NEW r \in Records
  PROVE  /\ sess[r] \in Sessions \cup {Nobody} /\ gen[r] \in 0..MaxGen
         /\ id[r] \in 0..MaxId \cup {Unset} /\ synced[r] \in 0..MaxId
         /\ data[r] \in [Cols -> Cells \cup {Unset}]
         /\ sess[r] # Nobody => gen[r] \in 1..MaxGen /\ known[sess[r]][gen[r]] # NoSchema
         /\ r \in recounted => pc[r] # "idle" /\ GivenOut(id[r])
         /\ synced[r] # 0 =>
              /\ sess[r] # Nobody
              /\ Exists(synced[r])
              /\ \A c \in Comparable(known[sess[r]][gen[r]]) :
                   data[r][c] # Unset => c \in tcols /\ data[r][c] = rows[synced[r]][c]
         /\ pc[r] = "idle" /\ synced[r] # 0 =>
              id[r] = synced[r] \/ (backend = "postgres" /\ id[r] = 0)
         /\ Ready(r) => pc[r] = "idle" /\ sess[r] \in Sessions
<1>1. TypeOK /\ HaveSchema /\ KeysGivenOut /\ SyncedData /\ SyncedId
  BY DEF IndInv
<1>2. /\ sess[r] \in Sessions \cup {Nobody} /\ gen[r] \in 0..MaxGen
      /\ id[r] \in 0..MaxId \cup {Unset} /\ synced[r] \in 0..MaxId
      /\ data[r] \in [Cols -> Cells \cup {Unset}]
  BY <1>1 DEF TypeOK
<1>3. sess[r] # Nobody => gen[r] \in 1..MaxGen /\ known[sess[r]][gen[r]] # NoSchema
  BY <1>1 DEF HaveSchema
<1>4. r \in recounted => pc[r] # "idle" /\ GivenOut(id[r])
  BY <1>1 DEF KeysGivenOut
<1>5. synced[r] # 0 =>
        /\ sess[r] # Nobody
        /\ Exists(synced[r])
        /\ \A c \in Comparable(known[sess[r]][gen[r]]) :
             data[r][c] # Unset => c \in tcols /\ data[r][c] = rows[synced[r]][c]
  BY <1>1 DEF SyncedData
<1>6. pc[r] = "idle" /\ synced[r] # 0 =>
        id[r] = synced[r] \/ (backend = "postgres" /\ id[r] = 0)
  BY <1>1 DEF SyncedId
<1>7. Ready(r) => pc[r] = "idle" /\ sess[r] \in Sessions
  BY <1>2 DEF Ready, Free
<1> QED  BY <1>2, <1>3, <1>4, <1>5, <1>6, <1>7

\* A step that leaves the schemas alone.
LEMMA SchemasUnchanged ==
  ASSUME IndInv, UNCHANGED schemaVars
  PROVE  SchemaTypes' /\ CacheFilled' /\ SchemasStay
<1>1. current' = current /\ known' = known /\ TypeOK /\ CacheFilled
  BY DEF schemaVars, IndInv
<1>2. SchemaTypes'
  BY <1>1 DEF TypeOK, SchemaTypes, SchemaStates
<1>3. CacheFilled'
  BY <1>1 DEF CacheFilled
<1> QED  BY <1>1, <1>2, <1>3 DEF SchemasStay

\* set, unset, set_id and reset: the record has no row it is known to equal.
LEMMA SetInv ==
  ASSUME IndInv, NEW r \in Records, UNCHANGED <<backend, keys, world>>,
         \/ \E c \in Cols, v \in Values \cup {Unset} : SetColumn(r, c, v)
         \/ \E i \in Ids \cup {Unset} : SetId(r, i)
         \/ ResetValues(r)
  PROVE  IndInv'
<1> USE RecordAssumption
<1>1. TypeOK
  BY DEF IndInv
<1>2. /\ Ready(r)
      /\ UNCHANGED <<tableVars, schemaVars, sess, gen, saveVars>>
      /\ synced' = [synced EXCEPT ![r] = 0]
  BY DEF SetColumn, SetId, ResetValues
<1>3. pc[r] = "idle" /\ sess[r] \in Sessions
  BY <1>2, OneRecord
<1>4. /\ id' \in [Records -> 0..MaxId \cup {Unset}]
      /\ \A p \in Records : p # r => id'[p] = id[p]
  <2>0. id \in [Records -> 0..MaxId \cup {Unset}]
    BY <1>1 DEF TypeOK
  <2>1. CASE \E c \in Cols, v \in Values \cup {Unset} : SetColumn(r, c, v)
    <3>1. id' = id
      BY <2>1 DEF SetColumn
    <3> QED  BY <2>0, <3>1
  <2>2. CASE \E i \in Ids \cup {Unset} : SetId(r, i)
    <3>1. PICK i \in Ids \cup {Unset} : id' = [id EXCEPT ![r] = i]
      BY <2>2 DEF SetId
    <3> QED  BY <2>0, <3>1 DEF Ids
  <2>3. CASE ResetValues(r)
    BY <2>0, <2>3 DEF ResetValues
  <2> QED  BY <2>1, <2>2, <2>3
<1>5. data' \in [Records -> [Cols -> Cells \cup {Unset}]] /\ \A p \in Records : p # r => data'[p] = data[p]
  <2>0. data \in [Records -> [Cols -> Cells \cup {Unset}]]
    BY <1>1 DEF TypeOK
  <2>1. CASE \E c \in Cols, v \in Values \cup {Unset} : SetColumn(r, c, v)
    <3>1. PICK c \in Cols, v \in Values \cup {Unset} : data' = [data EXCEPT ![r] = [data[r] EXCEPT ![c] = v]]
      BY <2>1 DEF SetColumn
    <3>2. [data[r] EXCEPT ![c] = v] \in [Cols -> Cells \cup {Unset}]
      BY <2>0 DEF Cells
    <3> QED  BY <2>0, <3>1, <3>2
  <2>2. CASE \E i \in Ids \cup {Unset} : SetId(r, i)
    BY <2>0, <2>2 DEF SetId
  <2>3. CASE ResetValues(r)
    <3>1. NoData \in [Cols -> Cells \cup {Unset}] /\ data' = [data EXCEPT ![r] = NoData]
      BY <2>3 DEF ResetValues, NoData
    <3> QED  BY <2>0, <3>1
  <2> QED  BY <2>1, <2>2, <2>3
<1>6. synced \in [Records -> 0..MaxId] /\ sess \in [Records -> Sessions \cup {Nobody}] /\ gen \in [Records -> 0..MaxGen]
  BY <1>1 DEF TypeOK
<1>7. RecordTypes'
  BY <1>2, <1>4, <1>5, <1>6 DEF RecordTypes
<1>8. \A p \in Records : p # r => Same(p)
  BY <1>2, <1>4, <1>5, <1>6 DEF Same
<1>9. Allowed(r)
  <2>1. synced'[r] = 0 /\ sess' = sess /\ gen' = gen /\ known' = known
    BY <1>2, <1>6 DEF schemaVars
  <2>2. gen[r] \in 1..MaxGen /\ known[sess[r]][gen[r]] # NoSchema
    BY <1>2, <1>3, OneRecord
  <2> QED  BY <1>4, <2>1, <2>2 DEF Allowed
<1> QED  BY <1>2, <1>3, <1>7, <1>8, <1>9, SchemasUnchanged, RecordsInv

\* Copying: the copy is allowed whatever its source is allowed.
LEMMA CopyInv ==
  ASSUME IndInv, NEW r \in Records, NEW q \in Records, CopyRecord(r, q),
         UNCHANGED <<backend, keys, world>>
  PROVE  IndInv'
<1> USE RecordAssumption
<1>1. RecordTypes
  BY DEF IndInv, TypeOK, RecordTypes
<1>2. /\ Ready(r) /\ pc[q] = "idle" /\ UNCHANGED <<tableVars, schemaVars, saveVars>>
      /\ sess' = [sess EXCEPT ![q] = sess[r]]
      /\ gen' = [gen EXCEPT ![q] = gen[r]]
      /\ id' = [id EXCEPT ![q] = id[r]]
      /\ data' = [data EXCEPT ![q] = data[r]]
      /\ synced' = [synced EXCEPT ![q] = synced[r]]
  BY DEF CopyRecord
<1>3. RecordTypes'
  BY <1>1, <1>2 DEF RecordTypes
<1>4. \A p \in Records : p # q => Same(p)
  BY <1>1, <1>2 DEF RecordTypes, Same
<1>5. Allowed(q)
  <2>1. /\ sess'[q] = sess[r] /\ gen'[q] = gen[r] /\ id'[q] = id[r]
        /\ data'[q] = data[r] /\ synced'[q] = synced[r] /\ known' = known
    BY <1>1, <1>2 DEF RecordTypes, schemaVars
  <2>2. pc[r] = "idle"
    BY <1>2, OneRecord
  <2> QED  BY <2>1, <2>2, OneRecord DEF Allowed
<1> QED  BY <1>2, <1>3, <1>4, <1>5, SchemasUnchanged, RecordsInv

\* Moving: the source is left without a schema and without a row.
LEMMA MoveInv ==
  ASSUME IndInv, NEW r \in Records, NEW q \in Records, MoveRecord(r, q),
         UNCHANGED <<backend, keys, world>>
  PROVE  IndInv'
<1> USE RecordAssumption
<1>1. RecordTypes
  BY DEF IndInv, TypeOK, RecordTypes
<1>2. /\ Ready(r) /\ pc[q] = "idle" /\ r # q /\ UNCHANGED <<tableVars, schemaVars, saveVars>>
      /\ sess' = [sess EXCEPT ![q] = sess[r], ![r] = Nobody]
      /\ gen' = [gen EXCEPT ![q] = gen[r], ![r] = 0]
      /\ id' = [id EXCEPT ![q] = id[r], ![r] = Unset]
      /\ data' = [data EXCEPT ![q] = data[r], ![r] = NoData]
      /\ synced' = [synced EXCEPT ![q] = synced[r], ![r] = 0]
  BY DEF MoveRecord
<1>3. pc[r] = "idle" /\ NoData \in [Cols -> Cells \cup {Unset}]
  BY <1>2, OneRecord DEF NoData
<1>4. RecordTypes'
  <2>1. sess' \in [Records -> Sessions \cup {Nobody}]
    BY <1>1, <1>2 DEF RecordTypes
  <2>2. gen' \in [Records -> 0..MaxGen]
    BY <1>1, <1>2 DEF RecordTypes
  <2>3. id' \in [Records -> 0..MaxId \cup {Unset}] /\ synced' \in [Records -> 0..MaxId]
    BY <1>1, <1>2 DEF RecordTypes
  <2>4. data' \in [Records -> [Cols -> Cells \cup {Unset}]]
    BY <1>1, <1>2, <1>3 DEF RecordTypes
  <2> QED  BY <2>1, <2>2, <2>3, <2>4 DEF RecordTypes
<1>5. \A p \in Records : p # q /\ p # r => Same(p)
  BY <1>1, <1>2 DEF RecordTypes, Same
<1>6. Allowed(q)
  <2>1. /\ sess'[q] = sess[r] /\ gen'[q] = gen[r] /\ id'[q] = id[r]
        /\ data'[q] = data[r] /\ synced'[q] = synced[r] /\ known' = known
    BY <1>1, <1>2 DEF RecordTypes, schemaVars
  <2> QED  BY <1>3, <2>1, OneRecord DEF Allowed
<1>7. Allowed(r)
  <2>1. sess'[r] = Nobody /\ id'[r] = Unset /\ synced'[r] = 0
    BY <1>1, <1>2 DEF RecordTypes
  <2> QED  BY <2>1 DEF Allowed
<1> QED  BY <1>2, <1>3, <1>4, <1>5, <1>6, <1>7, SchemasUnchanged, RecordsInv

\* What record::init makes of values d: a row's values where the schema
\* selects, nothing that is not in d elsewhere.
LEMMA LoadedRow ==
  ASSUME IndInv, NEW d \in [Cols -> Cells \cup {Unset}], NEW s \in Sessions,
         NEW g \in 1..MaxGen, NEW i \in Ids, Exists(i)
  PROVE  /\ Loaded(d, s, g, i) \in [Cols -> Cells \cup {Unset}]
         /\ \A c \in Selected(s, g) \cap Cols : Loaded(d, s, g, i)[c] = rows[i][c]
         /\ \A c \in Cols \ Selected(s, g) : Loaded(d, s, g, i)[c] = d[c]
<1>1. rows[i] \in [Cols -> Cells]
  BY DEF IndInv, TypeOK, Exists
<1> QED  BY <1>1 DEF Loaded

\* refresh() and refresh_by() make the record the row they read.
LEMMA TakeInv ==
  ASSUME IndInv, NEW r \in Records, NEW i \in Ids, Exists(i), Ready(r), Initialised(r),
         Columns(r) \subseteq tcols, Take(r, i), UNCHANGED <<backend, keys, world>>
  PROVE  IndInv'
<1> USE RecordAssumption
<1>1. RecordTypes /\ TypeOK
  BY DEF IndInv, TypeOK, RecordTypes
<1>2. /\ pc[r] = "idle" /\ sess[r] \in Sessions /\ sess[r] # Nobody /\ gen[r] \in 1..MaxGen
      /\ known[sess[r]][gen[r]] # NoSchema /\ data[r] \in [Cols -> Cells \cup {Unset}]
  BY OneRecord
<1>3. known[sess[r]][gen[r]] # Uninit /\ known[sess[r]][gen[r]] \subseteq tcols
  BY DEF Initialised, Columns
<1> DEFINE d == Loaded(data[r], sess[r], gen[r], i)
<1>4. Selected(sess[r], gen[r]) = known[sess[r]][gen[r]]
  BY <1>2, <1>3 DEF Selected
<1>5. d \in [Cols -> Cells \cup {Unset}] /\ \A c \in known[sess[r]][gen[r]] \cap Cols : d[c] = rows[i][c]
  BY <1>2, <1>4, LoadedRow
<1>6. /\ id' = [id EXCEPT ![r] = i] /\ data' = [data EXCEPT ![r] = d]
      /\ synced' = [synced EXCEPT ![r] = i]
      /\ UNCHANGED <<tableVars, schemaVars, sess, gen, saveVars>>
  BY DEF Take
<1> HIDE DEF d
<1>7. RecordTypes'
  BY <1>1, <1>5, <1>6 DEF RecordTypes, Ids
<1>8. \A p \in Records : p # r => Same(p)
  BY <1>1, <1>6 DEF RecordTypes, Same
<1>9. Allowed(r)
  <2>1. /\ sess'[r] = sess[r] /\ gen'[r] = gen[r] /\ id'[r] = i
        /\ data'[r] = d /\ synced'[r] = i /\ known' = known
    BY <1>1, <1>6 DEF RecordTypes, schemaVars
  <2>2. tcols \subseteq Cols
    BY <1>1 DEF TypeOK
  <2> QED  BY <1>2, <1>3, <1>5, <2>1, <2>2 DEF Allowed, Comparable
<1> QED  BY <1>2, <1>6, <1>7, <1>8, <1>9, SchemasUnchanged, RecordsInv

\* A record constructed over a schema: find_by_id, find_one, find_by, find_all.
LEMMA InsteadInv ==
  ASSUME IndInv, NEW q \in Records, NEW s \in Sessions, NEW g \in 1..MaxGen, NEW i \in Ids,
         Exists(i), Selected(s, g) \subseteq tcols, Instead(q, s, g, i),
         SchemaTypes', CacheFilled', SchemasStay,
         known'[s][g] = IF known[s][g] = NoSchema THEN Uninit ELSE known[s][g],
         UNCHANGED <<backend, keys, world>>
  PROVE  IndInv'
<1> USE RecordAssumption
<1>1. RecordTypes /\ TypeOK
  BY DEF IndInv, TypeOK, RecordTypes
<1> DEFINE d == Loaded(NoData, s, g, i)
<1>2. NoData \in [Cols -> Cells \cup {Unset}] /\ \A c \in Cols : NoData[c] = Unset
  BY DEF NoData
<1>3. /\ d \in [Cols -> Cells \cup {Unset}]
      /\ \A c \in Selected(s, g) \cap Cols : d[c] = rows[i][c]
      /\ \A c \in Cols \ Selected(s, g) : d[c] = Unset
  BY <1>2, LoadedRow
<1>4. /\ pc[q] = "idle" /\ UNCHANGED <<tableVars, saveVars>>
      /\ sess' = [sess EXCEPT ![q] = s] /\ gen' = [gen EXCEPT ![q] = g]
      /\ id' = [id EXCEPT ![q] = i] /\ data' = [data EXCEPT ![q] = d]
      /\ synced' = [synced EXCEPT ![q] = i]
  BY DEF Instead
<1> HIDE DEF d
<1>5. RecordTypes'
  <2>1. sess' \in [Records -> Sessions \cup {Nobody}] /\ gen' \in [Records -> 0..MaxGen]
    BY <1>1, <1>4 DEF RecordTypes
  <2>2. id' \in [Records -> 0..MaxId \cup {Unset}] /\ synced' \in [Records -> 0..MaxId]
    BY <1>1, <1>4 DEF RecordTypes, Ids
  <2>3. data' \in [Records -> [Cols -> Cells \cup {Unset}]]
    BY <1>1, <1>3, <1>4 DEF RecordTypes
  <2> QED  BY <2>1, <2>2, <2>3 DEF RecordTypes
<1>6. \A p \in Records : p # q => Same(p)
  BY <1>1, <1>4 DEF RecordTypes, Same
<1>7. Allowed(q)
  <2>1. /\ sess'[q] = s /\ gen'[q] = g /\ id'[q] = i /\ data'[q] = d /\ synced'[q] = i
    BY <1>1, <1>4 DEF RecordTypes
  <2>2. tcols \subseteq Cols
    BY <1>1 DEF TypeOK
  <2>3. known'[s][g] # NoSchema /\ s # Nobody
    OBVIOUS
  <2>4. \A c \in Comparable(known'[s][g]) : d[c] # Unset => c \in tcols /\ d[c] = rows[i][c]
    <3>1. CASE known[s][g] \in {NoSchema, Uninit}
      <4>1. Comparable(known'[s][g]) = Cols
        BY <3>1 DEF Comparable
      <4> QED  BY <1>3, <2>2, <4>1
    <3>2. CASE known[s][g] \notin {NoSchema, Uninit}
      <4>1. Comparable(known'[s][g]) = Selected(s, g)
        BY <3>2 DEF Comparable, Selected
      <4> QED  BY <1>3, <2>2, <4>1
    <3> QED  BY <3>1, <3>2
  <2> QED  BY <2>1, <2>2, <2>3, <2>4 DEF Allowed
<1> QED  BY <1>4, <1>5, <1>6, <1>7, RecordsInv

\* find_by_id makes a record that is the row it was read from.
LEMMA FindByIdInv ==
  ASSUME IndInv, NEW r \in Records, NEW q \in Records, NEW i \in Ids, FindById(r, q, i),
         UNCHANGED <<backend, keys, world>>
  PROVE  IndInv'
<1>1. /\ Ready(r) /\ known[sess[r]][gen[r]] # Uninit /\ known[sess[r]][gen[r]] \subseteq tcols
      /\ Exists(i) /\ Instead(q, sess[r], gen[r], i) /\ UNCHANGED schemaVars
  BY DEF FindById, Initialised, Columns
<1>2. sess[r] \in Sessions /\ gen[r] \in 1..MaxGen /\ known[sess[r]][gen[r]] # NoSchema
  BY <1>1, OneRecord DEF Ready
<1>3. Selected(sess[r], gen[r]) \subseteq tcols
  BY <1>1, <1>2 DEF Selected
<1>4. known'[sess[r]][gen[r]] = IF known[sess[r]][gen[r]] = NoSchema THEN Uninit ELSE known[sess[r]][gen[r]]
  BY <1>1, <1>2 DEF schemaVars
<1> QED  BY <1>1, <1>2, <1>3, <1>4, SchemasUnchanged, InsteadInv

\* find over a schema nothing has initialised: the record holds what the table
\* has, and its schema may read its columns later.
LEMMA FindInv ==
  ASSUME IndInv, NEW q \in Records, NEW s \in Sessions, NEW i \in Ids, Find(q, s, i),
         UNCHANGED <<backend, keys, world>>
  PROVE  IndInv'
<1>1. /\ Selected(s, Cached(s)) \subseteq tcols /\ Exists(i)
      /\ GetSchema(s) /\ Instead(q, s, Cached(s), i) /\ TypeOK /\ CacheFilled
  BY DEF Find, IndInv
<1>2. SchemaTypes' /\ CacheFilled' /\ SchemasStay
  BY <1>1, GetSchemaStep DEF SchemaTypes, SchemasStay
<1>3. /\ Cached(s) \in 1..MaxGen
      /\ known'[s][Cached(s)] = IF known[s][Cached(s)] = NoSchema THEN Uninit ELSE known[s][Cached(s)]
  BY <1>1, GetSchemaStep, CachedObject
<1> QED  BY <1>1, <1>2, <1>3, InsteadInv

\* A new record of a table is synced to no row.
LEMMA MakeInv ==
  ASSUME IndInv, NEW r \in Records, NEW s \in Sessions, Make(r, s),
         UNCHANGED <<backend, keys, world>>
  PROVE  IndInv'
<1> USE RecordAssumption
<1>1. RecordTypes /\ TypeOK /\ CacheFilled /\ Saving
  BY DEF IndInv, TypeOK, RecordTypes
<1>2. /\ sess[r] = Nobody /\ GetSchema(s) /\ UNCHANGED <<tableVars, saveVars, synced>>
      /\ sess' = [sess EXCEPT ![r] = s] /\ gen' = [gen EXCEPT ![r] = Cached(s)]
      /\ id' = [id EXCEPT ![r] = Unset] /\ data' = [data EXCEPT ![r] = NoData]
  BY DEF Make
<1>3. pc[r] = "idle" /\ synced[r] = 0
  <2>1. pc[r] = "idle"
    BY <1>1, <1>2 DEF Saving
  <2> QED  BY <1>2, <2>1, OneRecord
<1>4. SchemaTypes' /\ CacheFilled' /\ SchemasStay
  BY <1>1, <1>2, GetSchemaStep DEF SchemaTypes, SchemasStay
<1>5. Cached(s) \in 1..MaxGen /\ known'[s][Cached(s)] # NoSchema
  BY <1>1, <1>2, GetSchemaStep, CachedObject
<1>6. RecordTypes'
  <2>1. NoData \in [Cols -> Cells \cup {Unset}]
    BY DEF NoData
  <2>2. sess' \in [Records -> Sessions \cup {Nobody}] /\ gen' \in [Records -> 0..MaxGen]
    BY <1>1, <1>2, <1>5 DEF RecordTypes
  <2>3. id' \in [Records -> 0..MaxId \cup {Unset}] /\ synced' \in [Records -> 0..MaxId]
    BY <1>1, <1>2 DEF RecordTypes
  <2>4. data' \in [Records -> [Cols -> Cells \cup {Unset}]]
    BY <1>1, <1>2, <2>1 DEF RecordTypes
  <2> QED  BY <2>2, <2>3, <2>4 DEF RecordTypes
<1>7. \A p \in Records : p # r => Same(p)
  BY <1>1, <1>2 DEF RecordTypes, Same
<1>8. Allowed(r)
  <2>1. sess'[r] = s /\ gen'[r] = Cached(s) /\ id'[r] = Unset /\ synced'[r] = 0
    BY <1>1, <1>2, <1>3 DEF RecordTypes
  <2> QED  BY <1>5, <2>1 DEF Allowed
<1> QED  BY <1>2, <1>3, <1>4, <1>6, <1>7, <1>8, RecordsInv

-----------------------------------------------------------------------------
(* Steps that change schemas *)

\* clear_schema forgets the cached object; records keep theirs.
LEMMA ClearSchemaInv ==
  ASSUME IndInv, NEW s \in Sessions, ClearSchema(s), UNCHANGED <<backend, keys, world>>
  PROVE  IndInv'
<1> USE RecordAssumption
<1>1. RecordTypes /\ TypeOK /\ CacheFilled
  BY DEF IndInv, TypeOK, RecordTypes
<1>2. /\ UNCHANGED <<tableVars, known, recordVars, saveVars, synced>>
      /\ current' = [current EXCEPT ![s] = 0]
      /\ \E g \in 1..MaxGen : known[s][g] = NoSchema
  BY DEF ClearSchema
<1>3. RecordTypes' /\ \A p \in Records : Same(p)
  BY <1>1, <1>2 DEF RecordTypes, Same, recordVars
<1>4. SchemaTypes' /\ SchemasStay
  BY <1>1, <1>2 DEF TypeOK, SchemaTypes, SchemaStates, SchemasStay
<1>5. CacheFilled'
  <2>1. current \in [Sessions -> 0..MaxGen]
    BY <1>1 DEF TypeOK
  <2> QED  BY <1>1, <1>2, <2>1 DEF CacheFilled
<1> QED  BY <1>2, <1>3, <1>4, <1>5, RecordsInv

\* The first schema() of a record reads the columns of the table: records over
\* the same schema object now compare less.
LEMMA SchemaInv ==
  ASSUME IndInv, NEW r \in Records, Schema(r), UNCHANGED <<backend, keys, world>>
  PROVE  IndInv'
<1> USE RecordAssumption
<1>0. /\ TypeOK /\ CacheFilled /\ HaveSchema /\ Saving /\ KeysGivenOut
      /\ SavedRecordIsNotInsertedAgain /\ SyncedData /\ SyncedId
  BY DEF IndInv
<1> DEFINE s == sess[r]
           g == gen[r]
<1>1. /\ Ready(r) /\ known[s][g] = Uninit
      /\ known' = [known EXCEPT ![s] = [known[s] EXCEPT ![g] = tcols]]
      /\ UNCHANGED <<tableVars, current, recordVars, saveVars, synced>>
  BY DEF Schema, Initialised, Columns
<1>2. s \in Sessions /\ g \in 1..MaxGen
  BY <1>1, OneRecord DEF Ready
<1>3. UNCHANGED <<backend, keys, world, rows, nextId, tcols, current, sess, gen, id, data,
                  pc, checked, returning, inserted, recounted, synced>>
  BY <1>1 DEF tableVars, recordVars, saveVars
<1> HIDE DEF s, g
<1>4. known \in [Sessions -> [1..MaxGen -> SchemaStates]] /\ tcols \in {Cols, Cols \ {NewCol}}
  BY <1>0 DEF TypeOK, SchemaStates
<1>5. /\ known' \in [Sessions -> [1..MaxGen -> SchemaStates]]
      /\ \A t \in Sessions, h \in 1..MaxGen :
           known'[t][h] = IF t = s /\ h = g THEN tcols ELSE known[t][h]
  <2>1. [known[s] EXCEPT ![g] = tcols] \in [1..MaxGen -> SchemaStates]
    BY <1>2, <1>4 DEF SchemaStates
  <2> QED  BY <1>1, <1>2, <1>4, <2>1
<1>6. tcols # NoSchema /\ tcols # Uninit /\ tcols \subseteq Cols
  BY <1>4
<1>7. \A t \in Sessions, h \in 1..MaxGen :
        /\ known'[t][h] = NoSchema <=> known[t][h] = NoSchema
        /\ known[t][h] # Uninit => known'[t][h] # Uninit
        /\ known[t][h] # NoSchema => Comparable(known'[t][h]) \subseteq Comparable(known[t][h])
  BY <1>1, <1>5, <1>6 DEF Comparable
<1>8. TypeOK'
  BY <1>0, <1>3, <1>5 DEF TypeOK, SchemaStates
<1>9. CacheFilled'
  <2>1. current \in [Sessions -> 0..MaxGen]
    BY <1>0 DEF TypeOK
  <2> QED  BY <1>0, <1>3, <1>7, <2>1 DEF CacheFilled
<1>10. \A p \in Records : sess[p] # Nobody => sess[p] \in Sessions /\ gen[p] \in 1..MaxGen
  BY <1>0, OneRecord
<1>11. HaveSchema' /\ Saving'
  BY <1>0, <1>3, <1>7, <1>10 DEF HaveSchema, Saving, Ids
<1>12. KeysGivenOut' /\ SavedRecordIsNotInsertedAgain' /\ SyncedId'
  BY <1>0, <1>3 DEF KeysGivenOut, GivenOut, SavedRecordIsNotInsertedAgain, SyncedId, Exists, Ids
<1>13. SyncedData'
  <2> SUFFICES ASSUME NEW p \in Records, synced[p] # 0
               PROVE  /\ sess[p] # Nobody
                      /\ Exists(synced[p])
                      /\ \A c \in Comparable(known'[sess[p]][gen[p]]) :
                           data[p][c] # Unset => c \in tcols /\ data[p][c] = rows[synced[p]][c]
    BY <1>3 DEF SyncedData, Exists, Ids
  <2>1. /\ sess[p] # Nobody /\ Exists(synced[p])
        /\ \A c \in Comparable(known[sess[p]][gen[p]]) :
             data[p][c] # Unset => c \in tcols /\ data[p][c] = rows[synced[p]][c]
    BY OneRecord
  <2>2. Comparable(known'[sess[p]][gen[p]]) \subseteq Comparable(known[sess[p]][gen[p]])
    BY <1>0, <1>7, <1>10, <2>1 DEF HaveSchema
  <2> QED  BY <2>1, <2>2
<1> QED  BY <1>8, <1>9, <1>11, <1>12, <1>13 DEF IndInv

-----------------------------------------------------------------------------
(* Steps of save() that leave the table alone *)

SaveTypes ==
  /\ pc \in [Records -> {"idle", "count", "sql", "insert", "lastid", "update"}]
  /\ checked \in [Records -> {"none", "absent", "present", "failed"}]
  /\ returning \in [Records -> BOOLEAN]
  /\ inserted \in [Records -> 0..MaxId]
  /\ recounted \subseteq Records

SameSave(p) ==
  /\ pc'[p] = pc[p] /\ checked'[p] = checked[p] /\ inserted'[p] = inserted[p]
  /\ id'[p] = id[p] /\ synced'[p] = synced[p]
  /\ p \in recounted' => p \in recounted

\* Record p goes on in save() or returns from it, as the invariant allows.
GoesOn(p) ==
  /\ p \in recounted' => pc'[p] # "idle" /\ GivenOut(id'[p])
  /\ synced'[p] \in {0, synced[p]}
  /\ pc'[p] # "idle" => /\ sess[p] # Nobody /\ known[sess[p]][gen[p]] # Uninit
                         /\ pc'[p] # "lastid" /\ synced'[p] = 0
  /\ p \in recounted' /\ pc'[p] \in {"sql", "insert"} /\ checked'[p] = "absent" => ~Exists(id'[p])
  /\ pc'[p] = "idle" /\ synced'[p] # 0 =>
       id'[p] = synced'[p] \/ (backend = "postgres" /\ id'[p] = 0)

\* Such a step keeps the invariant.
LEMMA SaveStepInv ==
  ASSUME IndInv, UNCHANGED <<backend, keys, world, tableVars, sess, gen, data>>,
         SchemaTypes', CacheFilled', SchemasStay, SaveTypes',
         id' \in [Records -> 0..MaxId \cup {Unset}], synced' \in [Records -> 0..MaxId],
         \A p \in Records : SameSave(p) \/ GoesOn(p)
  PROVE  IndInv'
<1> USE RecordAssumption
<1>0. /\ TypeOK /\ HaveSchema /\ Saving /\ KeysGivenOut
      /\ SavedRecordIsNotInsertedAgain /\ SyncedData /\ SyncedId
  BY DEF IndInv
<1>1. UNCHANGED <<backend, keys, world, rows, nextId, tcols, sess, gen, data>>
  BY DEF tableVars
<1>2. TypeOK'
  BY <1>0, <1>1 DEF TypeOK, SaveTypes, SchemaTypes, SchemaStates
<1>3. \A p \in Records : sess[p] # Nobody =>
        /\ sess[p] \in Sessions /\ gen[p] \in 1..MaxGen /\ known[sess[p]][gen[p]] # NoSchema
        /\ known'[sess[p]][gen[p]] = known[sess[p]][gen[p]]
  BY <1>0, OneRecord DEF SchemasStay
<1>4. HaveSchema'
  BY <1>1, <1>3 DEF HaveSchema
<1>5. Saving'
  <2> SUFFICES ASSUME NEW p \in Records, pc'[p] # "idle"
               PROVE  /\ sess[p] # Nobody
                      /\ known'[sess[p]][gen[p]] # Uninit
                      /\ pc'[p] # "lastid" => synced'[p] = 0
                      /\ pc'[p] = "lastid" => /\ inserted'[p] \in Ids /\ inserted'[p] < nextId
                                              /\ synced'[p] \in {0, inserted'[p]}
    BY <1>1 DEF Saving, Ids
  <2>1. CASE SameSave(p)
    BY <1>0, <1>3, <2>1 DEF SameSave, Saving
  <2>2. CASE GoesOn(p)
    BY <1>3, <2>2 DEF GoesOn
  <2> QED  BY <2>1, <2>2
<1>6. KeysGivenOut'
  <2>1. \A p \in recounted' : pc'[p] # "idle" /\ GivenOut(id'[p])
    BY <1>0 DEF SameSave, GoesOn, KeysGivenOut, SaveTypes
  <2> QED  BY <1>0, <1>1, <2>1 DEF KeysGivenOut, GivenOut, Ids
<1>7. SavedRecordIsNotInsertedAgain'
  <2> SUFFICES ASSUME NEW p \in recounted', pc'[p] \in {"sql", "insert"}, checked'[p] = "absent"
               PROVE  ~Exists(id'[p])
    BY <1>1 DEF SavedRecordIsNotInsertedAgain, Exists, Ids
  <2>1. p \in Records
    BY DEF SaveTypes
  <2> QED  BY <1>0, <2>1 DEF SameSave, GoesOn, SavedRecordIsNotInsertedAgain
<1>8. SyncedData'
  <2> SUFFICES ASSUME NEW p \in Records, synced'[p] # 0
               PROVE  /\ sess[p] # Nobody
                      /\ Exists(synced'[p])
                      /\ \A c \in Comparable(known'[sess[p]][gen[p]]) :
                           data[p][c] # Unset => c \in tcols /\ data[p][c] = rows[synced'[p]][c]
    BY <1>1 DEF SyncedData, Exists, Ids
  <2>1. synced'[p] = synced[p]
    BY DEF SameSave, GoesOn
  <2>2. /\ sess[p] # Nobody /\ Exists(synced[p])
        /\ \A c \in Comparable(known[sess[p]][gen[p]]) :
             data[p][c] # Unset => c \in tcols /\ data[p][c] = rows[synced[p]][c]
    BY <2>1, OneRecord
  <2> QED  BY <1>3, <2>1, <2>2
<1>9. SyncedId'
  <2> SUFFICES ASSUME NEW p \in Records, pc'[p] = "idle", synced'[p] # 0
               PROVE  id'[p] = synced'[p] \/ (backend = "postgres" /\ id'[p] = 0)
    BY <1>1 DEF SyncedId
  <2> QED  BY <1>0 DEF SameSave, GoesOn, SyncedId
<1> QED  BY <1>2, <1>4, <1>5, <1>6, <1>7, <1>8, <1>9 DEF IndInv

\* save() begins: the record is no longer known to be its row.
LEMMA SaveInv ==
  ASSUME IndInv, NEW r \in Records, Save(r), UNCHANGED <<backend, keys, world>>
  PROVE  IndInv'
<1> USE RecordAssumption
<1>1. TypeOK
  BY DEF IndInv
<1>2. /\ Ready(r) /\ Initialised(r)
      /\ pc' = [pc EXCEPT ![r] = IF id[r] = Unset THEN "sql" ELSE "count"]
      /\ checked' = [checked EXCEPT ![r] = IF id[r] = Unset THEN "absent" ELSE "none"]
      /\ synced' = [synced EXCEPT ![r] = 0]
      /\ UNCHANGED <<tableVars, schemaVars, sess, gen, id, data, returning, inserted, recounted>>
  BY DEF Save, recordVars
<1>3. SaveTypes'
  <2>1. returning' \in [Records -> BOOLEAN]
    BY <1>1, <1>2, Zenon DEF TypeOK
  <2>2. pc' \in [Records -> {"idle", "count", "sql", "insert", "lastid", "update"}]
    BY <1>1, <1>2 DEF TypeOK
  <2>3. checked' \in [Records -> {"none", "absent", "present", "failed"}]
    BY <1>1, <1>2 DEF TypeOK
  <2>4. inserted' \in [Records -> 0..MaxId] /\ recounted' \subseteq Records
    BY <1>1, <1>2 DEF TypeOK
  <2> QED  BY <2>1, <2>2, <2>3, <2>4 DEF SaveTypes
<1>4. /\ id' \in [Records -> 0..MaxId \cup {Unset}] /\ synced' \in [Records -> 0..MaxId]
      /\ \A p \in Records : p # r => SameSave(p)
  BY <1>1, <1>2 DEF TypeOK, SameSave
<1>5. GoesOn(r)
  <2>1. /\ pc'[r] = IF id[r] = Unset THEN "sql" ELSE "count"
        /\ id'[r] = id[r] /\ synced'[r] = 0
    BY <1>1, <1>2 DEF TypeOK
  <2>2. r \notin recounted'
    BY <1>2, OneRecord
  <2>3. sess[r] # Nobody /\ known[sess[r]][gen[r]] # Uninit
    BY <1>2 DEF Ready, Initialised, Columns
  <2> QED  BY <2>1, <2>2, <2>3 DEF GoesOn
<1> QED  BY <1>2, <1>3, <1>4, <1>5, SchemasUnchanged, SaveStepInv

\* A COUNT above zero is a row with the record's id.
LEMMA CountFindsRow ==
  ASSUME NEW r \in Records
  PROVE  CountIsPositive(r) <=> Exists(id[r])
<1> DEFINE T == {i \in Ids : i = id[r] /\ Exists(i)}
<1>1. CASE Exists(id[r])
  <2>1. T = {id[r]}
    BY <1>1 DEF Exists
  <2>2. Cardinality(T) = 1
    BY <2>1, FS_Singleton
  <2> QED  BY <1>1, <2>2 DEF CountIsPositive, Matching
<1>2. CASE ~Exists(id[r])
  <2>1. T = {}
    BY <1>2
  <2>2. Cardinality(T) = 0
    BY <2>1, FS_EmptySet
  <2> QED  BY <1>2, <2>2 DEF CountIsPositive, Matching
<1> QED  BY <1>1, <1>2

\* exists() answers, or the engine throws and nothing is known.
LEMMA CountInv ==
  ASSUME IndInv, NEW r \in Records, Count(r) \/ CountFails(r), UNCHANGED <<backend, keys, world>>
  PROVE  IndInv'
<1> USE RecordAssumption
<1>1. TypeOK /\ Saving
  BY DEF IndInv
<1>2. PICK x \in {"update", "sql"}, y \in {"present", "absent", "failed"} :
        /\ pc' = [pc EXCEPT ![r] = x] /\ checked' = [checked EXCEPT ![r] = y]
        /\ x = "sql" /\ y = "absent" => ~Exists(id[r])
        /\ recounted' \in {recounted, recounted \cup {r}}
        /\ r \in recounted' /\ r \notin recounted => GivenOut(id[r])
  <2>1. CASE Count(r) /\ Exists(id[r])
    BY <2>1, CountFindsRow DEF Count
  <2>2. CASE Count(r) /\ ~Exists(id[r])
    BY <2>2, CountFindsRow DEF Count
  <2>3. CASE CountFails(r)
    BY <2>3 DEF CountFails
  <2> QED  BY <2>1, <2>2, <2>3
<1>3. /\ pc[r] = "count"
      /\ UNCHANGED <<tableVars, schemaVars, sess, gen, id, data, returning, inserted, synced>>
  BY DEF Count, CountFails, recordVars
<1>4. SaveTypes'
  <2>1. returning' \in [Records -> BOOLEAN]
    BY <1>1, <1>3, Zenon DEF TypeOK
  <2>2. pc' \in [Records -> {"idle", "count", "sql", "insert", "lastid", "update"}]
    BY <1>1, <1>2 DEF TypeOK
  <2>3. checked' \in [Records -> {"none", "absent", "present", "failed"}]
    BY <1>1, <1>2 DEF TypeOK
  <2>4. inserted' \in [Records -> 0..MaxId] /\ recounted' \subseteq Records
    BY <1>1, <1>2, <1>3 DEF TypeOK
  <2> QED  BY <2>1, <2>2, <2>3, <2>4 DEF SaveTypes
<1>5. /\ id' \in [Records -> 0..MaxId \cup {Unset}] /\ synced' \in [Records -> 0..MaxId]
      /\ \A p \in Records : p # r => SameSave(p)
  BY <1>1, <1>2, <1>3 DEF TypeOK, SameSave
<1>6. GoesOn(r)
  <2>1. pc'[r] = x /\ checked'[r] = y /\ id'[r] = id[r] /\ synced'[r] = synced[r]
    BY <1>1, <1>2, <1>3 DEF TypeOK
  <2>2. synced[r] = 0 /\ sess[r] # Nobody /\ known[sess[r]][gen[r]] # Uninit
    BY <1>1, <1>3 DEF Saving
  <2>3. r \in recounted' => GivenOut(id[r])
    BY <1>2, OneRecord
  <2> QED  BY <1>2, <2>1, <2>2, <2>3 DEF GoesOn
<1> QED  BY <1>3, <1>4, <1>5, <1>6, SchemasUnchanged, SaveStepInv

\* Building the INSERT may create a schema object, and nothing else.
LEMMA InsertSqlInv ==
  ASSUME IndInv, NEW r \in Records, InsertSql(r), UNCHANGED <<backend, keys, world>>
  PROVE  IndInv'
<1> USE RecordAssumption
<1>1. TypeOK /\ CacheFilled /\ Saving /\ SavedRecordIsNotInsertedAgain
  BY DEF IndInv
<1>2. /\ pc[r] = "sql" /\ pc' = [pc EXCEPT ![r] = "insert"]
      /\ UNCHANGED <<tableVars, sess, gen, id, data, checked, inserted, recounted, synced>>
  BY DEF InsertSql, recordVars
<1>3. synced[r] = 0 /\ sess[r] # Nobody /\ known[sess[r]][gen[r]] # Uninit
  BY <1>1, <1>2 DEF Saving
<1>4. sess[r] \in Sessions
  BY <1>3, OneRecord
<1>5. /\ SchemaTypes' /\ CacheFilled' /\ SchemasStay
      /\ returning' \in [Records -> BOOLEAN]
  <2>1. CASE backend = "postgres"
    <3>1. GetSchema(sess[r])
      BY <2>1 DEF InsertSql
    <3>2. returning' = [returning EXCEPT ![r] = known'[sess[r]][Cached(sess[r])] # Uninit]
      BY <2>1 DEF InsertSql
    <3>3. returning' \in [Records -> BOOLEAN]
      <4>1. (known'[sess[r]][Cached(sess[r])] # Uninit) \in BOOLEAN
        OBVIOUS
      <4>2. returning \in [Records -> BOOLEAN]
        BY <1>1, Zenon DEF TypeOK
      <4> QED  BY <3>2, <4>1, <4>2, Zenon
    <3> QED  BY <1>1, <1>4, <3>1, <3>3, GetSchemaStep DEF SchemaTypes, SchemasStay
  <2>2. CASE backend # "postgres"
    <3>1. UNCHANGED schemaVars /\ returning' = returning
      BY <2>2 DEF InsertSql
    <3>2. returning' \in [Records -> BOOLEAN]
      BY <1>1, <3>1, Zenon DEF TypeOK
    <3> QED  BY <3>1, <3>2, SchemasUnchanged
  <2> QED  BY <2>1, <2>2
<1>6. SaveTypes'
  <2>1. pc' \in [Records -> {"idle", "count", "sql", "insert", "lastid", "update"}]
    BY <1>1, <1>2 DEF TypeOK
  <2>2. checked' \in [Records -> {"none", "absent", "present", "failed"}]
    BY <1>1, <1>2 DEF TypeOK
  <2>3. inserted' \in [Records -> 0..MaxId] /\ recounted' \subseteq Records
    BY <1>1, <1>2 DEF TypeOK
  <2> QED  BY <1>5, <2>1, <2>2, <2>3 DEF SaveTypes
<1>7. /\ id' \in [Records -> 0..MaxId \cup {Unset}] /\ synced' \in [Records -> 0..MaxId]
      /\ \A p \in Records : p # r => SameSave(p)
  BY <1>1, <1>2 DEF TypeOK, SameSave
<1>8. GoesOn(r)
  <2>1. pc'[r] = "insert" /\ checked'[r] = checked[r] /\ id'[r] = id[r] /\ synced'[r] = synced[r]
    BY <1>1, <1>2 DEF TypeOK
  <2>2. r \in recounted' => GivenOut(id[r])
    BY <1>2, OneRecord
  <2>3. r \in recounted' /\ checked[r] = "absent" => ~Exists(id[r])
    BY <1>1, <1>2 DEF SavedRecordIsNotInsertedAgain
  <2> QED  BY <1>3, <2>1, <2>2, <2>3 DEF GoesOn
<1> QED  BY <1>2, <1>5, <1>6, <1>7, <1>8, SaveStepInv

\* What returning from save() does to saveVars.
LEMMA ReturnStep ==
  ASSUME TypeOK, NEW r \in Records, Return(r)
  PROVE  /\ SaveTypes'
         /\ pc'[r] = "idle"
         /\ \A p \in Records \ {r} :
              pc'[p] = pc[p] /\ checked'[p] = checked[p] /\ inserted'[p] = inserted[p]
         /\ recounted' = recounted \ {r}
<1>1. returning' \in [Records -> BOOLEAN]
  <2>1. returning \in [Records -> BOOLEAN] /\ returning' = [returning EXCEPT ![r] = FALSE]
    BY Zenon DEF TypeOK, Return
  <2> QED  BY <2>1
<1>2. /\ pc' \in [Records -> {"idle", "count", "sql", "insert", "lastid", "update"}]
      /\ pc'[r] = "idle" /\ \A p \in Records \ {r} : pc'[p] = pc[p]
  BY DEF TypeOK, Return
<1>3. /\ checked' \in [Records -> {"none", "absent", "present", "failed"}]
      /\ \A p \in Records \ {r} : checked'[p] = checked[p]
  BY DEF TypeOK, Return
<1>4. /\ inserted' \in [Records -> 0..MaxId]
      /\ \A p \in Records \ {r} : inserted'[p] = inserted[p]
  BY RecordAssumption DEF TypeOK, Return
<1>5. recounted' \subseteq Records /\ recounted' = recounted \ {r}
  BY DEF TypeOK, Return
<1> QED  BY <1>1, <1>2, <1>3, <1>4, <1>5 DEF SaveTypes

\* A statement that was refused or failed, or an UPDATE that met no row,
\* leaves no row behind.
LEMMA GivesUpInv ==
  ASSUME IndInv, NEW r \in Records, pc[r] \in {"insert", "update"}, Return(r),
         UNCHANGED <<backend, keys, world, tableVars, schemaVars, recordVars, synced>>
  PROVE  IndInv'
<1> USE RecordAssumption
<1>1. TypeOK /\ Saving
  BY DEF IndInv
<1>2. UNCHANGED <<sess, gen, id, data>>
  BY DEF recordVars
<1>3. \A p \in Records : p # r => SameSave(p)
  BY <1>1, <1>2, ReturnStep DEF SameSave
<1>4. GoesOn(r)
  <2>1. synced[r] = 0
    BY <1>1 DEF Saving
  <2>2. r \notin recounted'
    BY <1>1, ReturnStep
  <2>3. pc'[r] = "idle"
    BY <1>1, ReturnStep
  <2> QED  BY <1>2, <2>1, <2>2, <2>3 DEF GoesOn
<1>5. id' \in [Records -> 0..MaxId \cup {Unset}] /\ synced' \in [Records -> 0..MaxId]
  BY <1>1, <1>2 DEF TypeOK
<1>6. SaveTypes'
  BY <1>1, ReturnStep
<1> QED  BY <1>2, <1>3, <1>4, <1>5, <1>6, SchemasUnchanged, SaveStepInv

\* The id is that of the row this save() inserted, or 0 without RETURNING.
LEMMA SetInsertedIdInv ==
  ASSUME IndInv, NEW r \in Records, SetInsertedId(r), UNCHANGED <<backend, keys, world>>
  PROVE  IndInv'
<1> USE RecordAssumption
<1>1. TypeOK /\ Saving
  BY DEF IndInv
<1>2. /\ pc[r] = "lastid" /\ id' = [id EXCEPT ![r] = LastInsertId(r)] /\ Return(r)
      /\ UNCHANGED <<tableVars, schemaVars, sess, gen, data, synced>>
  BY DEF SetInsertedId
<1>3. inserted[r] \in Ids /\ inserted[r] < nextId /\ synced[r] \in {0, inserted[r]}
  BY <1>1, <1>2 DEF Saving
<1>4. /\ LastInsertId(r) \in {0, inserted[r]}
      /\ LastInsertId(r) = 0 => backend = "postgres" \/ inserted[r] = 0
  BY DEF LastInsertId
<1>5. LastInsertId(r) \in 0..MaxId
  BY <1>3, <1>4 DEF Ids
<1>6. /\ id' \in [Records -> 0..MaxId \cup {Unset}] /\ synced' \in [Records -> 0..MaxId]
      /\ id'[r] = LastInsertId(r) /\ \A p \in Records : p # r => id'[p] = id[p]
  BY <1>1, <1>2, <1>5 DEF TypeOK
<1>7. \A p \in Records : p # r => SameSave(p)
  BY <1>1, <1>2, <1>6, ReturnStep DEF SameSave
<1>8. GoesOn(r)
  <2>1. pc'[r] = "idle" /\ synced'[r] = synced[r] /\ r \notin recounted'
    BY <1>1, <1>2, ReturnStep
  <2>2. synced[r] # 0 => LastInsertId(r) = synced[r] \/ (backend = "postgres" /\ LastInsertId(r) = 0)
    BY <1>3, <1>4 DEF Ids
  <2> QED  BY <1>6, <2>1, <2>2 DEF GoesOn
<1>9. SaveTypes'
  BY <1>1, <1>2, ReturnStep
<1> QED  BY <1>2, <1>6, <1>7, <1>8, <1>9, SchemasUnchanged, SaveStepInv

-----------------------------------------------------------------------------
(* Steps that change the table *)

\* What the invariant needs of a step that changes the table and not the
\* records: their rows, if they have one, hold their values.
LEMMA TableInv ==
  ASSUME IndInv, UNCHANGED <<backend, keys, world, schemaVars, recordVars>>,
         rows' \in [Ids -> [Cols -> Cells] \cup {NoRow}],
         nextId' \in 1..(MaxId + 1), nextId <= nextId',
         tcols' \in {Cols, Cols \ {NewCol}},
         synced' \in [Records -> 0..MaxId], SaveTypes', Saving',
         \A i \in Ids : rows'[i] # NoRow => i < nextId',
         \A p \in recounted' : p \in recounted /\ pc'[p] # "idle",
         SavedRecordIsNotInsertedAgain', SyncedData', SyncedId'
  PROVE  IndInv'
<1> USE RecordAssumption
<1>0. TypeOK /\ CacheFilled /\ HaveSchema /\ KeysGivenOut
  BY DEF IndInv
<1>1. UNCHANGED <<current, known, sess, gen, id, data>>
  BY DEF schemaVars, recordVars
<1>2. TypeOK'
  BY <1>0, <1>1 DEF TypeOK, SaveTypes
<1>3. CacheFilled' /\ HaveSchema'
  BY <1>0, <1>1 DEF CacheFilled, HaveSchema
<1>4. KeysGivenOut'
  <2>1. \A p \in recounted' : pc'[p] # "idle" /\ id[p] \in Ids /\ id[p] < nextId
    BY <1>0 DEF KeysGivenOut, GivenOut
  <2>2. nextId \in Nat /\ nextId' \in Nat
    BY <1>0 DEF TypeOK
  <2>3. \A p \in recounted' : pc'[p] # "idle" /\ id[p] \in Ids /\ id[p] < nextId'
    BY <2>1, <2>2 DEF Ids
  <2> QED  BY <1>1, <2>3 DEF KeysGivenOut, GivenOut, Ids
<1> QED  BY <1>2, <1>3, <1>4 DEF IndInv

\* A column is added: no record holds a value for it.
LEMMA AddColumnInv ==
  ASSUME IndInv, AddColumn, UNCHANGED <<backend, keys, world>>
  PROVE  IndInv'
<1> USE RecordAssumption
<1>0. TypeOK /\ Saving /\ KeysGivenOut /\ SavedRecordIsNotInsertedAgain /\ SyncedData /\ SyncedId
  BY DEF IndInv
<1>1. /\ tcols' = Cols
      /\ UNCHANGED <<rows, nextId, schemaVars, recordVars, pc, checked, returning, inserted, recounted, synced>>
  BY DEF AddColumn, saveVars
<1>2. UNCHANGED <<current, known, sess, gen, id, data>>
  BY <1>1 DEF schemaVars, recordVars
<1>3. SaveTypes' /\ rows' \in [Ids -> [Cols -> Cells] \cup {NoRow}]
  BY <1>0, <1>1 DEF TypeOK, SaveTypes
<1>4. nextId' \in 1..(MaxId + 1) /\ nextId <= nextId' /\ synced' \in [Records -> 0..MaxId]
  BY <1>0, <1>1 DEF TypeOK
<1>5. Saving' /\ SavedRecordIsNotInsertedAgain' /\ SyncedId'
  BY <1>0, <1>1, <1>2 DEF Saving, SavedRecordIsNotInsertedAgain, SyncedId, Exists, Ids
<1>6. \A i \in Ids : rows'[i] # NoRow => i < nextId'
  BY <1>0, <1>1 DEF KeysGivenOut
<1>7. tcols \subseteq tcols'
  BY <1>0, <1>1 DEF TypeOK
<1>8. SyncedData'
  BY <1>0, <1>1, <1>2, <1>7 DEF SyncedData, Exists, Ids
<1>9. \A p \in recounted' : p \in recounted /\ pc'[p] # "idle"
  BY <1>0, <1>1 DEF KeysGivenOut
<1> QED  BY <1>1, <1>3, <1>4, <1>5, <1>6, <1>8, <1>9, TableInv

\* A column is dropped: no row appears or goes.
LEMMA DropColumnInv ==
  ASSUME IndInv, DropColumn, UNCHANGED <<backend, keys, world>>
  PROVE  IndInv'
<1> USE RecordAssumption
<1>0. TypeOK /\ Saving /\ KeysGivenOut /\ SavedRecordIsNotInsertedAgain
  BY DEF IndInv
<1>1. /\ tcols' = Cols \ {NewCol}
      /\ rows' = [i \in Ids |-> IF rows[i] = NoRow THEN NoRow ELSE [rows[i] EXCEPT ![NewCol] = Null]]
      /\ synced' = [p \in Records |-> 0]
      /\ UNCHANGED <<nextId, schemaVars, recordVars, pc, checked, returning, inserted, recounted>>
  BY DEF DropColumn, saveVars
<1>2. UNCHANGED <<current, known, sess, gen, id, data>>
  BY <1>1 DEF schemaVars, recordVars
<1>3. SaveTypes'
  BY <1>0, <1>1 DEF TypeOK, SaveTypes
<1>4. /\ rows' \in [Ids -> [Cols -> Cells] \cup {NoRow}]
      /\ \A i \in Ids : rows'[i] # NoRow => rows[i] # NoRow
  <2>1. \A i \in Ids : rows[i] # NoRow => [rows[i] EXCEPT ![NewCol] = Null] \in [Cols -> Cells]
    BY <1>0 DEF TypeOK, Cells
  <2> QED  BY <1>1, <2>1
<1>5. /\ nextId' \in 1..(MaxId + 1) /\ nextId <= nextId'
      /\ synced' \in [Records -> 0..MaxId] /\ \A p \in Records : synced'[p] = 0
  BY <1>0, <1>1 DEF TypeOK
<1>6. Saving'
  BY <1>0, <1>1, <1>2, <1>5 DEF Saving, Ids
<1>7. SavedRecordIsNotInsertedAgain'
  BY <1>0, <1>1, <1>2, <1>4 DEF SavedRecordIsNotInsertedAgain, Exists, Ids
<1>8. SyncedId' /\ SyncedData'
  BY <1>5 DEF SyncedId, SyncedData
<1>9. \A i \in Ids : rows'[i] # NoRow => i < nextId'
  BY <1>0, <1>1, <1>4 DEF KeysGivenOut
<1>10. \A p \in recounted' : p \in recounted /\ pc'[p] # "idle"
  BY <1>0, <1>1 DEF KeysGivenOut
<1> QED  BY <1>1, <1>3, <1>4, <1>5, <1>6, <1>7, <1>8, <1>9, <1>10, TableInv

\* A DELETE takes a row from every record that was synced with it.
LEMMA RemoveInv ==
  ASSUME IndInv, NEW r \in Records, Remove(r), UNCHANGED <<backend, keys, world>>
  PROVE  IndInv'
<1> USE RecordAssumption
<1>0. TypeOK /\ Saving /\ KeysGivenOut /\ SavedRecordIsNotInsertedAgain /\ SyncedData /\ SyncedId
  BY DEF IndInv
<1> DEFINE k == id[r]
<1>1. /\ k \in Ids
      /\ rows' = [rows EXCEPT ![k] = NoRow]
      /\ synced' = [q \in Records |-> IF synced[q] = k THEN 0 ELSE synced[q]]
      /\ UNCHANGED <<nextId, tcols, schemaVars, recordVars, pc, checked, returning, inserted, recounted>>
  BY DEF Remove, Overwritten, saveVars, Exists
<1>2. UNCHANGED <<current, known, sess, gen, id, data>>
  BY <1>1 DEF schemaVars, recordVars
<1> HIDE DEF k
<1>3. SaveTypes'
  BY <1>0, <1>1 DEF TypeOK, SaveTypes
<1>4. /\ rows' \in [Ids -> [Cols -> Cells] \cup {NoRow}]
      /\ \A i \in Ids : rows'[i] = IF i = k THEN NoRow ELSE rows[i]
  BY <1>0, <1>1 DEF TypeOK
<1>5. /\ nextId' \in 1..(MaxId + 1) /\ nextId <= nextId' /\ tcols' \in {Cols, Cols \ {NewCol}}
      /\ synced' \in [Records -> 0..MaxId]
      /\ \A p \in Records : synced'[p] \in {0, synced[p]} /\ synced'[p] # k
  BY <1>0, <1>1 DEF TypeOK, Ids
<1>6. Saving'
  BY <1>0, <1>1, <1>2, <1>5 DEF Saving, Ids
<1>7. SavedRecordIsNotInsertedAgain'
  BY <1>0, <1>1, <1>2, <1>4 DEF SavedRecordIsNotInsertedAgain, Exists, Ids
<1>8. SyncedId'
  BY <1>0, <1>1, <1>2, <1>5 DEF SyncedId
<1>9. SyncedData'
  BY <1>0, <1>1, <1>2, <1>4, <1>5 DEF SyncedData, Exists, Ids
<1>10. \A i \in Ids : rows'[i] # NoRow => i < nextId'
  BY <1>0, <1>1, <1>4 DEF KeysGivenOut
<1>11. \A p \in recounted' : p \in recounted /\ pc'[p] # "idle"
  BY <1>0, <1>1 DEF KeysGivenOut
<1> QED  BY <1>1, <1>3, <1>4, <1>5, <1>6, <1>7, <1>8, <1>9, <1>10, <1>11, TableInv

\* The columns of a record inside save() are columns, and the key of an INSERT
\* is the next one of the table.
LEMMA SavedColumns ==
  ASSUME IndInv, NEW r \in Records, pc[r] # "idle"
  PROVE  /\ Columns(r) \in {Cols, Cols \ {NewCol}} /\ Comparable(Columns(r)) = Columns(r)
         /\ AvailableColumns(FALSE, r) = {c \in Columns(r) : data[r][c] # Unset}
         /\ Pk \notin AvailableColumns(FALSE, r)
         /\ InsertKey(AvailableColumns(FALSE, r), r) = nextId
<1> USE RecordAssumption
<1>1. sess[r] # Nobody /\ known[sess[r]][gen[r]] # Uninit
  BY DEF IndInv, Saving
<1>2. sess[r] \in Sessions /\ gen[r] \in 1..MaxGen /\ known[sess[r]][gen[r]] # NoSchema
  BY <1>1, OneRecord
<1>3. known[sess[r]][gen[r]] \in {NoSchema, Uninit, Cols, Cols \ {NewCol}}
  BY <1>2 DEF IndInv, TypeOK
<1>4. Columns(r) \in {Cols, Cols \ {NewCol}} /\ Comparable(Columns(r)) = Columns(r)
  BY <1>1, <1>2, <1>3 DEF Columns, Comparable
<1>5. AvailableColumns(FALSE, r) = {c \in Columns(r) : data[r][c] # Unset}
  BY DEF AvailableColumns
<1>6. Pk \notin AvailableColumns(FALSE, r)
  BY <1>4, <1>5 DEF Pk
<1> QED  BY <1>4, <1>5, <1>6 DEF InsertKey

\* An INSERT takes a key nobody has: no record that is about to insert names it,
\* and no record is synced with it.
LEMMA InsertInv ==
  ASSUME IndInv, NEW r \in Records, Insert(r), UNCHANGED <<backend, keys, world>>
  PROVE  IndInv'
<1> USE RecordAssumption
<1>0. TypeOK /\ Saving /\ KeysGivenOut /\ SavedRecordIsNotInsertedAgain /\ SyncedData /\ SyncedId
  BY DEF IndInv
<1> DEFINE cols == AvailableColumns(FALSE, r)
           k == nextId
           row == [c \in Cols |-> IF c \in cols THEN data[r][c] ELSE Null]
<1>1. /\ pc[r] = "insert"
      /\ cols \ {Pk} \subseteq tcols
      /\ k \in Ids /\ ~Exists(k)
      /\ rows' = [rows EXCEPT ![k] = row]
      /\ nextId' = IF k >= nextId THEN k + 1 ELSE nextId
      /\ inserted' = [inserted EXCEPT ![r] = k]
      /\ synced' = [synced EXCEPT ![r] = k]
      /\ pc' = [pc EXCEPT ![r] = "lastid"]
      /\ UNCHANGED <<tcols, schemaVars, recordVars, checked, returning, recounted>>
  <2>1. pc[r] = "insert"
    BY DEF Insert
  <2>2. InsertKey(cols, r) = k
    BY <2>1, SavedColumns
  <2> QED  BY <2>2 DEF Insert
<1>2. UNCHANGED <<current, known, sess, gen, id, data>>
  BY <1>1 DEF schemaVars, recordVars
<1>3. /\ Columns(r) \in {Cols, Cols \ {NewCol}} /\ Comparable(Columns(r)) = Columns(r)
      /\ cols = {c \in Columns(r) : data[r][c] # Unset} /\ Pk \notin cols
  BY <1>1, SavedColumns
<1>4. row \in [Cols -> Cells]
  <2>1. data[r] \in [Cols -> Cells \cup {Unset}]
    BY OneRecord
  <2> QED  BY <1>3, <2>1 DEF Cells
<1>5. /\ rows' \in [Ids -> [Cols -> Cells] \cup {NoRow}]
      /\ \A i \in Ids : rows'[i] = IF i = k THEN row ELSE rows[i]
  <2> HIDE DEF row, k
  <2> QED  BY <1>0, <1>1, <1>4 DEF TypeOK
<1>6. nextId' = k + 1 /\ nextId' \in 1..(MaxId + 1) /\ nextId <= nextId'
  BY <1>1 DEF Ids
<1>7. /\ synced' \in [Records -> 0..MaxId]
      /\ \A p \in Records : synced'[p] = IF p = r THEN k ELSE synced[p]
  BY <1>0, <1>1 DEF TypeOK, Ids
<1>8. /\ inserted' \in [Records -> 0..MaxId]
      /\ \A p \in Records : inserted'[p] = IF p = r THEN k ELSE inserted[p]
  BY <1>0, <1>1 DEF TypeOK, Ids
<1>9. /\ pc' \in [Records -> {"idle", "count", "sql", "insert", "lastid", "update"}]
      /\ \A p \in Records : pc'[p] = IF p = r THEN "lastid" ELSE pc[p]
  BY <1>0, <1>1 DEF TypeOK
<1>10. SaveTypes'
  <2>1. returning' \in [Records -> BOOLEAN]
    BY <1>0, <1>1, Zenon DEF TypeOK
  <2>2. checked' \in [Records -> {"none", "absent", "present", "failed"}]
    BY <1>0, <1>1 DEF TypeOK
  <2>3. recounted' \subseteq Records
    BY <1>0, <1>1 DEF TypeOK
  <2> QED  BY <1>8, <1>9, <2>1, <2>2, <2>3 DEF SaveTypes
<1>11. \A p \in Records : synced[p] # k
  BY <1>1, OneRecord DEF Ids
<1>12. k \in Nat /\ k # 0
  BY <1>1 DEF Ids
<1> HIDE DEF k, row, cols
<1>13. Saving'
  <2> SUFFICES ASSUME NEW p \in Records, pc'[p] # "idle"
               PROVE  /\ sess[p] # Nobody /\ known[sess[p]][gen[p]] # Uninit
                      /\ pc'[p] # "lastid" => synced'[p] = 0
                      /\ pc'[p] = "lastid" => /\ inserted'[p] \in Ids /\ inserted'[p] < nextId'
                                              /\ synced'[p] \in {0, inserted'[p]}
    BY <1>2 DEF Saving, Ids
  <2>1. CASE p = r
    BY <1>0, <1>1, <1>6, <1>7, <1>8, <1>9, <1>12, <2>1 DEF Saving
  <2>2. CASE p # r
    <3>1. pc'[p] = pc[p] /\ synced'[p] = synced[p] /\ inserted'[p] = inserted[p]
      BY <1>7, <1>8, <1>9, <2>2
    <3>2. inserted[p] \in Ids /\ inserted[p] < nextId => inserted[p] < nextId'
      BY <1>0, <1>6 DEF Ids, TypeOK
    <3> QED  BY <1>0, <3>1, <3>2 DEF Saving
  <2> QED  BY <2>1, <2>2
<1>14. SavedRecordIsNotInsertedAgain'
  <2> SUFFICES ASSUME NEW p \in recounted, pc'[p] \in {"sql", "insert"}, checked[p] = "absent"
               PROVE  ~(id[p] \in Ids /\ rows'[id[p]] # NoRow)
    BY <1>1, <1>2 DEF SavedRecordIsNotInsertedAgain, Exists, Ids
  <2>1. p \in Records /\ p # r /\ pc[p] \in {"sql", "insert"}
    BY <1>0, <1>9 DEF TypeOK
  <2>2. ~Exists(id[p])
    BY <1>0, <2>1 DEF SavedRecordIsNotInsertedAgain
  <2>3. id[p] # k
    BY <1>0, <1>12 DEF k, KeysGivenOut, GivenOut
  <2> QED  BY <1>5, <2>2, <2>3 DEF Exists
<1>15. SyncedId'
  <2> SUFFICES ASSUME NEW p \in Records, pc'[p] = "idle", synced'[p] # 0
               PROVE  id[p] = synced'[p] \/ (backend = "postgres" /\ id[p] = 0)
    BY <1>2 DEF SyncedId
  <2> QED  BY <1>0, <1>7, <1>9 DEF SyncedId
<1>16. SyncedData'
  <2> SUFFICES ASSUME NEW p \in Records, synced'[p] # 0
               PROVE  /\ sess[p] # Nobody
                      /\ synced'[p] \in Ids /\ rows'[synced'[p]] # NoRow
                      /\ \A c \in Comparable(known[sess[p]][gen[p]]) :
                           data[p][c] # Unset => c \in tcols /\ data[p][c] = rows'[synced'[p]][c]
    BY <1>1, <1>2 DEF SyncedData, Exists, Ids
  <2>1. CASE p = r
    <3>1. synced'[p] = k /\ rows'[k] = row /\ row # NoRow
      BY <1>1, <1>4, <1>5, <1>7, <2>1 DEF Cells
    <3>2. \A c \in cols : c \in tcols /\ c \in Cols /\ row[c] = data[r][c]
      <4>1. \A c \in cols : c \in tcols /\ c \in Cols
        BY <1>1, <1>3
      <4> QED  BY <4>1 DEF row
    <3>3. sess[r] # Nobody
      BY <1>0, <1>1 DEF Saving
    <3> QED  BY <1>1, <1>3, <2>1, <3>1, <3>2, <3>3 DEF Columns
  <2>2. CASE p # r
    <3>1. synced'[p] = synced[p] /\ synced[p] # k
      BY <1>7, <1>11, <2>2
    <3>2. /\ sess[p] # Nobody /\ Exists(synced[p])
          /\ \A c \in Comparable(known[sess[p]][gen[p]]) :
               data[p][c] # Unset => c \in tcols /\ data[p][c] = rows[synced[p]][c]
      BY <3>1, OneRecord
    <3>3. rows'[synced[p]] = rows[synced[p]]
      BY <1>5, <3>1, <3>2 DEF Exists
    <3> QED  BY <3>1, <3>2, <3>3 DEF Exists
  <2> QED  BY <2>1, <2>2
<1>17. \A i \in Ids : rows'[i] # NoRow => i < nextId'
  <2>1. \A i \in Ids : rows[i] # NoRow => i < nextId'
    BY <1>0, <1>6 DEF KeysGivenOut, Ids, TypeOK
  <2> QED  BY <1>5, <1>6, <1>12, <2>1
<1>18. tcols' \in {Cols, Cols \ {NewCol}}
  BY <1>0, <1>1 DEF TypeOK
<1>19. \A p \in recounted' : p \in recounted /\ pc'[p] # "idle"
  <2>1. \A p \in recounted : p \in Records /\ pc[p] # "idle"
    BY <1>0 DEF KeysGivenOut, TypeOK
  <2> QED  BY <1>1, <1>9, <2>1
<1> QED  BY <1>1, <1>5, <1>6, <1>7, <1>10, <1>13, <1>14, <1>15, <1>16, <1>17, <1>18, <1>19, TableInv

\* An UPDATE that meets its row makes the row what the record is, and other
\* records are no longer known to equal it; one that meets none changes nothing.
LEMMA UpdateInv ==
  ASSUME IndInv, NEW r \in Records, Update(r), UNCHANGED <<backend, keys, world>>
  PROVE  IndInv'
<1> USE RecordAssumption
<1>0. TypeOK /\ Saving /\ KeysGivenOut /\ SavedRecordIsNotInsertedAgain /\ SyncedData /\ SyncedId
  BY DEF IndInv
<1> DEFINE cols == AvailableColumns(TRUE, r)
           k == id[r]
           row == [c \in Cols |-> IF c \in cols THEN data[r][c] ELSE rows[k][c]]
<1>1. /\ pc[r] = "update" /\ Return(r)
      /\ cols \ {Pk} \subseteq tcols
      /\ rows' = IF Exists(k) THEN [rows EXCEPT ![k] = row] ELSE rows
      /\ synced' = IF Exists(k) THEN [Overwritten(k) EXCEPT ![r] = k] ELSE synced
      /\ UNCHANGED <<nextId, tcols, schemaVars, recordVars>>
  BY DEF Update
<1>2. CASE ~Exists(k)
  <2>1. UNCHANGED <<tableVars, synced>>
    BY <1>1, <1>2 DEF tableVars
  <2> QED  BY <1>1, <2>1, GivesUpInv
<1>3. CASE Exists(k)
  <2>1. UNCHANGED <<current, known, sess, gen, id, data>>
    BY <1>1 DEF schemaVars, recordVars
  <2>2. /\ SaveTypes' /\ pc'[r] = "idle"
        /\ \A p \in Records \ {r} :
             pc'[p] = pc[p] /\ checked'[p] = checked[p] /\ inserted'[p] = inserted[p]
        /\ recounted' = recounted \ {r}
    BY <1>0, <1>1, ReturnStep
  <2>3. Columns(r) \in {Cols, Cols \ {NewCol}} /\ Comparable(Columns(r)) = Columns(r) /\ Pk \notin Cols
    BY <1>1, SavedColumns DEF Pk
  <2>4. \A c \in Cols : c \in cols <=> c \in Columns(r) /\ data[r][c] # Unset
    BY <2>3 DEF AvailableColumns
  <2>5. k \in Ids /\ rows[k] # NoRow /\ rows[k] \in [Cols -> Cells]
    BY <1>0, <1>3 DEF Exists, TypeOK
  <2>6. row \in [Cols -> Cells]
    <3>1. data[r] \in [Cols -> Cells \cup {Unset}]
      BY OneRecord
    <3> QED  BY <2>4, <2>5, <3>1
  <2>7. rows' = [rows EXCEPT ![k] = row] /\ row # NoRow
    BY <1>1, <1>3, <2>6 DEF Cells
  <2> HIDE DEF row
  <2>8. /\ rows' \in [Ids -> [Cols -> Cells] \cup {NoRow}]
        /\ \A i \in Ids : rows'[i] = IF i = k THEN row ELSE rows[i]
    BY <1>0, <2>6, <2>7 DEF TypeOK
  <2>9. /\ synced' \in [Records -> 0..MaxId]
        /\ \A p \in Records : synced'[p] = IF p = r THEN k ELSE IF synced[p] = k THEN 0 ELSE synced[p]
    BY <1>0, <1>1, <1>3, <2>5 DEF TypeOK, Overwritten, Ids
  <2>10. /\ nextId' \in 1..(MaxId + 1) /\ nextId <= nextId' /\ tcols' \in {Cols, Cols \ {NewCol}}
    BY <1>0, <1>1 DEF TypeOK
  <2>11. Saving'
    BY <1>0, <1>1, <2>1, <2>2, <2>9 DEF Saving, Ids
  <2>12. SavedRecordIsNotInsertedAgain'
    BY <1>0, <2>1, <2>2, <2>5, <2>8 DEF SavedRecordIsNotInsertedAgain, Exists, Ids, TypeOK
  <2>13. SyncedId'
    BY <1>0, <2>1, <2>2, <2>9 DEF SyncedId
  <2>14. SyncedData'
    <3> SUFFICES ASSUME NEW p \in Records, synced'[p] # 0
                 PROVE  /\ sess[p] # Nobody
                        /\ synced'[p] \in Ids /\ rows'[synced'[p]] # NoRow
                        /\ \A c \in Comparable(known[sess[p]][gen[p]]) :
                             data[p][c] # Unset => c \in tcols /\ data[p][c] = rows'[synced'[p]][c]
      BY <1>1, <2>1 DEF SyncedData, Exists, Ids
    <3>1. CASE p = r
      <4>1. synced'[p] = k /\ rows'[k] = row
        BY <2>5, <2>8, <2>9, <3>1
      <4>2. \A c \in Columns(r) : data[r][c] # Unset => c \in tcols /\ row[c] = data[r][c]
        <5> SUFFICES ASSUME NEW c \in Columns(r), data[r][c] # Unset
                     PROVE  c \in tcols /\ row[c] = data[r][c]
          OBVIOUS
        <5>1. c \in Cols
          BY <2>3
        <5>2. c \in cols /\ c # Pk
          BY <2>3, <2>4, <5>1
        <5> QED  BY <1>1, <5>1, <5>2 DEF row
      <4>3. sess[r] # Nobody
        BY <1>0, <1>1 DEF Saving
      <4> QED  BY <2>3, <2>5, <2>7, <3>1, <4>1, <4>2, <4>3 DEF Columns
    <3>2. CASE p # r
      <4>1. synced'[p] = synced[p] /\ synced[p] # k
        BY <2>9, <3>2
      <4>2. /\ sess[p] # Nobody /\ Exists(synced[p])
            /\ \A c \in Comparable(known[sess[p]][gen[p]]) :
                 data[p][c] # Unset => c \in tcols /\ data[p][c] = rows[synced[p]][c]
        BY <4>1, OneRecord
      <4>3. rows'[synced[p]] = rows[synced[p]]
        BY <2>8, <4>1, <4>2 DEF Exists
      <4> QED  BY <4>1, <4>2, <4>3 DEF Exists
    <3> QED  BY <3>1, <3>2
  <2>15. \A i \in Ids : rows'[i] # NoRow => i < nextId'
    BY <1>0, <1>1, <2>5, <2>8 DEF KeysGivenOut
  <2>16. \A p \in recounted' : p \in recounted /\ pc'[p] # "idle"
    <3>1. \A p \in recounted : p \in Records /\ pc[p] # "idle"
      BY <1>0 DEF KeysGivenOut, TypeOK
    <3> QED  BY <2>2, <3>1
  <2> QED  BY <1>1, <2>2, <2>8, <2>9, <2>10, <2>11, <2>12, <2>13, <2>14, <2>15, <2>16, TableInv
<1> QED  BY <1>2, <1>3

-----------------------------------------------------------------------------
(* Every step *)

\* Every step of Next keeps the invariant.
LEMMA NextInv == IndInv /\ [Next]_vars => IndInv'
<1> SUFFICES ASSUME IndInv, [Next]_vars PROVE IndInv'
  OBVIOUS
<1> USE RecordAssumption
<1>1. ASSUME UNCHANGED <<backend, keys, world>>, NEW r \in Records, SaveStep(r) PROVE IndInv'
  <2>1. CASE Count(r) \/ CountFails(r)
    BY <1>1, <2>1, CountInv
  <2>2. CASE InsertSql(r)
    BY <1>1, <2>2, InsertSqlInv
  <2>3. CASE Insert(r)
    BY <1>1, <2>3, InsertInv
  <2>4. CASE InsertRefused(r) \/ StatementFails(r) \/ UpdateRefused(r)
    BY <1>1, <2>4, GivesUpInv DEF InsertRefused, StatementFails, UpdateRefused
  <2>5. CASE SetInsertedId(r)
    BY <1>1, <2>5, SetInsertedIdInv
  <2>6. CASE Update(r)
    BY <1>1, <2>6, UpdateInv
  <2> QED  BY <1>1, <2>1, <2>2, <2>3, <2>4, <2>5, <2>6 DEF SaveStep
<1>2. ASSUME UNCHANGED <<backend, keys, world>>, NEW r \in Records, RecordStep(r) PROVE IndInv'
  <2>1. CASE \E s \in Sessions : Make(r, s)
    BY <1>2, <2>1, MakeInv
  <2>2. CASE Schema(r)
    BY <1>2, <2>2, SchemaInv
  <2>3. CASE \/ \E c \in (IF world = "schemas" THEN Cols ELSE tcols), v \in Values \cup {Unset} : SetColumn(r, c, v)
             \/ \E i \in Ids \cup {Unset} : SetId(r, i)
             \/ ResetValues(r)
    <3>1. tcols \subseteq Cols
      BY DEF IndInv, TypeOK
    <3>2. (\E c \in (IF world = "schemas" THEN Cols ELSE tcols), v \in Values \cup {Unset} : SetColumn(r, c, v))
            => \E c \in Cols, v \in Values \cup {Unset} : SetColumn(r, c, v)
      BY <3>1
    <3> QED  BY <1>2, <2>3, <3>2, SetInv
  <2>4. CASE \E q \in Records : CopyRecord(r, q) \/ MoveRecord(r, q)
    BY <1>2, <2>4, CopyInv, MoveInv
  <2>5. CASE Save(r)
    BY <1>2, <2>5, SaveInv
  <2>6. CASE Refresh(r)
    <3>1. id[r] \in Ids /\ Exists(id[r]) /\ Ready(r) /\ Initialised(r) /\ Columns(r) \subseteq tcols /\ Take(r, id[r])
      BY <2>6 DEF Refresh, Exists
    <3> QED  BY <1>2, <3>1, TakeInv
  <2>7. CASE \E c \in Cols : RefreshBy(r, c)
    <3>1. PICK i \in Ids : Exists(i) /\ Ready(r) /\ Initialised(r) /\ Columns(r) \subseteq tcols /\ Take(r, i)
      BY <2>7 DEF RefreshBy, Found
    <3> QED  BY <1>2, <3>1, TakeInv
  <2>8. CASE Remove(r)
    BY <1>2, <2>8, RemoveInv
  <2>9. CASE \E q \in Records, i \in Ids : FindById(r, q, i)
    BY <1>2, <2>9, FindByIdInv
  <2>10. CASE \E s \in Sessions, i \in Ids : Find(r, s, i)
    BY <1>2, <2>10, FindInv
  <2> QED  BY <1>2, <2>1, <2>2, <2>3, <2>4, <2>5, <2>6, <2>7, <2>8, <2>9, <2>10 DEF RecordStep
<1>3. CASE UNCHANGED vars
  <2>1. UNCHANGED <<backend, keys, world, tableVars, schemaVars, recordVars, saveVars, synced>>
    BY <1>3 DEF vars
  <2>2. RecordTypes' /\ \A p \in Records : Same(p)
    BY <2>1 DEF IndInv, TypeOK, RecordTypes, Same, recordVars
  <2> QED  BY <2>1, <2>2, SchemasUnchanged, RecordsInv
<1>4. CASE Next
  BY <1>1, <1>2, <1>4, ClearSchemaInv, AddColumnInv, DropColumnInv DEF Next
<1> QED  BY <1>3, <1>4

\* Every reachable state satisfies the invariant.
LEMMA Invariance == Spec => []IndInv
BY InitInv, NextInv, PTL DEF Spec

-----------------------------------------------------------------------------
(* Theorems *)

\* Every variable keeps its type: no operation on records, schemas or the table
\* leaves it, for any number of sessions, records and rows.
THEOREM RecordTypeCorrect == Spec => []TypeOK
<1>1. IndInv => TypeOK
  BY DEF IndInv
<1> QED  BY <1>1, Invariance, PTL

\* A save() that counted no row of an id the table has given out inserts for a
\* row that is still gone, whatever ids records are given and however many other
\* sessions save, remove and refresh in between: the autoincrement is past the
\* id, and the INSERT of another session leaves its own id out (record::save).
THEOREM NoSecondInsert == Spec => []SavedRecordIsNotInsertedAgain
<1>1. IndInv => SavedRecordIsNotInsertedAgain
  BY DEF IndInv
<1> QED  BY <1>1, Invariance, PTL

\* A record that was saved, refreshed or found is its row until one of them is
\* changed (record::save, record::init).
THEOREM SyncedRecords == Spec => []SyncedRecordIsItsRow
<1>1. IndInv => SyncedRecordIsItsRow
  <2> SUFFICES ASSUME IndInv, NEW r \in Records, pc[r] = "idle", synced[r] # 0
               PROVE  /\ id[r] = synced[r] \/ (backend = "postgres" /\ id[r] = 0)
                      /\ Exists(synced[r])
                      /\ \A c \in Selected(sess[r], gen[r]) \cap tcols :
                           data[r][c] # Unset => data[r][c] = rows[synced[r]][c]
    BY DEF SyncedRecordIsItsRow
  <2>1. /\ sess[r] # Nobody /\ known[sess[r]][gen[r]] # NoSchema
        /\ id[r] = synced[r] \/ (backend = "postgres" /\ id[r] = 0)
        /\ Exists(synced[r])
        /\ \A c \in Comparable(known[sess[r]][gen[r]]) :
             data[r][c] # Unset => c \in tcols /\ data[r][c] = rows[synced[r]][c]
    BY OneRecord
  <2>2. tcols \subseteq Cols
    BY RecordAssumption DEF IndInv, TypeOK
  <2>3. Selected(sess[r], gen[r]) \cap tcols \subseteq Comparable(known[sess[r]][gen[r]])
    BY <2>1, <2>2 DEF Selected, Comparable
  <2> QED  BY <2>1, <2>3
<1> QED  BY <1>1, Invariance, PTL

\* A row that was removed does not come back under its id: the only step that
\* adds a row takes the next key of the table (record::available_columns).
THEOREM RemovedRowsStayRemoved == Spec => DeletedStaysDeleted
<1> DEFINE Stays == \A i \in Ids : ~Exists(i) /\ rows'[i] # NoRow => i >= nextId
<1>1. ASSUME IndInv, Next PROVE Stays
  <2> SUFFICES ASSUME NEW i \in Ids, rows[i] = NoRow, rows'[i] # NoRow
               PROVE  i >= nextId
    BY DEF Exists
  <2>0. rows \in [Ids -> [Cols -> Cells] \cup {NoRow}] /\ nextId \in Nat
    BY <1>1 DEF IndInv, TypeOK
  <2>1. ASSUME NEW r \in Records, SaveStep(r) PROVE i >= nextId
    <3>1. CASE Insert(r)
      <4>1. pc[r] = "insert"
        BY <3>1 DEF Insert
      <4>2. InsertKey(AvailableColumns(FALSE, r), r) = nextId
        BY <1>1, <4>1, SavedColumns
      <4>3. \E row : rows' = [rows EXCEPT ![nextId] = row]
        BY <3>1, <4>2 DEF Insert
      <4> QED  BY <2>0, <4>3 DEF Ids
    <3>2. CASE Update(r)
      <4>1. \E row : rows' = IF Exists(id[r]) THEN [rows EXCEPT ![id[r]] = row] ELSE rows
        BY <3>2 DEF Update
      <4> QED  BY <2>0, <4>1 DEF Exists
    <3>3. CASE ~Insert(r) /\ ~Update(r)
      <4>1. rows' = rows
        BY <2>1, <3>3 DEF SaveStep, Count, CountFails, InsertSql, InsertRefused, StatementFails,
                          SetInsertedId, UpdateRefused, tableVars
      <4> QED  BY <4>1
    <3> QED  BY <3>1, <3>2, <3>3
  <2>2. ASSUME NEW r \in Records, RecordStep(r) PROVE FALSE
    <3>1. CASE Remove(r)
      BY <2>0, <3>1 DEF Remove, Exists
    <3>2. CASE ~Remove(r)
      <4>1. rows' = rows
        BY <2>2, <3>2 DEF RecordStep, Make, Schema, SetColumn, SetId, ResetValues, CopyRecord, MoveRecord,
                          Save, Refresh, RefreshBy, Take, FindById, Find, Instead, tableVars
      <4> QED  BY <4>1
    <3> QED  BY <3>1, <3>2
  <2>3. ASSUME (\E s \in Sessions : ClearSchema(s)) \/ AddColumn PROVE FALSE
    BY <2>3 DEF ClearSchema, AddColumn, tableVars
  <2>4. ASSUME DropColumn PROVE FALSE
    BY <2>4 DEF DropColumn
  <2> QED  BY <1>1, <2>1, <2>2, <2>3, <2>4 DEF Next
<1>2. IndInv /\ [Next]_vars => [Stays]_vars
  BY <1>1
<1> QED  BY <1>2, Invariance, PTL DEF Spec, DeletedStaysDeleted
=============================================================================
