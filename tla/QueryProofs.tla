----------------------------- MODULE QueryProofs -----------------------------
(***************************************************************************)
(* The statement cache is transparent: for any number of queries, clauses,  *)
(* parameters and values, and both kinds of query, a client that stays away *)
(* from the calls in Risky sees queries that are values.                    *)
(***************************************************************************)
EXTENDS Query, TLAPS

\* The calls that leave sql_, stmt_ or dirty_ out of step with the query.
Risky == {"count", "silent", "rebind", "reexec", "reset", "copydirty", "assign",
          "failfirst"}

Disciplined == Calls \cap Risky = {}

IndInv == TypeOK /\ CacheCoherent

RunType == [asked : {"rows", "count"}, sql : Texts \cup {NoText}, values : V!Bindings]

\* The bindings that the steps build.
LEMMA BindingsType ==
  /\ V!Unbound \in V!Bindings
  /\ \A b \in V!Bindings, s \in Slots, v \in Values : [b EXCEPT ![s] = v] \in V!Bindings
BY DEF V!Unbound, V!Bindings

\* The SQL of live clauses is a text, and never the empty one.
LEMMA SqlType ==
  ASSUME NEW c \in Clauses, NEW what \in {"rows", "count"}
  PROVE  V!Sql(what, c) \in Texts /\ V!Sql(what, c) # NoText
BY QueryAssumption DEF V!Sql, Texts

\* The initial states: no query exists, nothing is cached.
LEMMA InitInv == Init => IndInv
<1> SUFFICES ASSUME Init PROVE IndInv
  OBVIOUS
<1>1. TypeOK
  BY BindingsType DEF Init, TypeOK, V!ValueInit
<1>2. CacheCoherent
  BY DEF Init, CacheCoherent, Live, V!ValueInit
<1> QED  BY <1>1, <1>2 DEF IndInv

\* An execution by a disciplined client runs the SQL of the clauses with the
\* bound values, and leaves a statement that says the same.
LEMMA RunIsCurrent ==
  ASSUME IndInv, NEW q \in Queries, Live(q), Run(q, "rows"),
         spent[q] = "no"
  PROVE  /\ ran' = [asked |-> "rows", sql |-> V!Sql("rows", clauses[q]),
                    values |-> params[q]]
         /\ sql' = [sql EXCEPT ![q] = V!Sql("rows", clauses[q])]
         /\ stmt' = [stmt EXCEPT ![q] = [sql |-> V!Sql("rows", clauses[q]),
                                         values |-> params[q]]]
         /\ dirty' = [dirty EXCEPT ![q] = FALSE]
<1>1. ToSql(q, "rows") = V!Sql("rows", clauses[q])
  BY DEF IndInv, CacheCoherent, ToSql
<1>2. Prepared(q, ToSql(q, "rows")) =
        [sql |-> V!Sql("rows", clauses[q]), values |-> params[q]]
  <2>1. CASE stmt[q] = NoStmt \/ dirty[q]
    BY <1>1, <2>1 DEF Prepared
  <2>2. CASE stmt[q] # NoStmt /\ ~dirty[q]
    <3>1. stmt[q] \in Statements
      BY <2>2 DEF IndInv, TypeOK
    <3>2. stmt[q].sql = V!Sql("rows", clauses[q]) /\ stmt[q].values = params[q]
      BY <2>2 DEF IndInv, CacheCoherent
    <3>3. stmt[q] = [sql |-> stmt[q].sql, values |-> stmt[q].values]
      BY <3>1 DEF Statements
    <3> QED  BY <2>2, <3>2, <3>3 DEF Prepared
  <2> QED  BY <2>1, <2>2
<1> DEFINE t == ToSql(q, "rows")
           s == Prepared(q, t)
<1>3. /\ s.sql = V!Sql("rows", clauses[q])
      /\ s.values = params[q]
  BY <1>2
<1>4. /\ sql' = [sql EXCEPT ![q] = t]
      /\ stmt' = [stmt EXCEPT ![q] = s]
      /\ dirty' = [dirty EXCEPT ![q] = FALSE]
      /\ ran' = [asked |-> "rows", sql |-> s.sql, values |-> s.values]
  BY Zenon DEF Run
<1> QED  BY <1>1, <1>2, <1>3, <1>4

-----------------------------------------------------------------------------
(* Type correctness, for every client *)

\* What Run leaves is well typed.
LEMMA RunType1 ==
  ASSUME TypeOK, NEW q \in Queries, Live(q), NEW what \in {"rows", "count"},
         Run(q, what)
  PROVE  /\ sql' \in [Queries -> Texts \cup {NoText}]
         /\ stmt' \in [Queries -> Statements \cup {NoStmt}]
         /\ dirty' \in [Queries -> BOOLEAN]
         /\ ran' \in RunType
<1> DEFINE t == ToSql(q, what)
           s == Prepared(q, t)
<1>1. t \in Texts \cup {NoText}
  <2>1. clauses[q] \in Clauses
    BY DEF TypeOK, Live
  <2>2. sql[q] \in Texts \cup {NoText}
    BY DEF TypeOK
  <2> QED  BY <2>1, <2>2, SqlType DEF ToSql
<1>2. s \in Statements
  BY <1>1 DEF TypeOK, Prepared, Statements
<1>3. s.sql \in Texts \cup {NoText} /\ s.values \in V!Bindings
  BY <1>2 DEF Statements
<1>4. /\ sql' = [sql EXCEPT ![q] = t]
      /\ stmt' = [stmt EXCEPT ![q] = s]
      /\ dirty' = [dirty EXCEPT ![q] = FALSE]
      /\ ran' = [asked |-> what, sql |-> s.sql, values |-> s.values]
  BY Zenon DEF Run
<1> HIDE DEF t, s
<1> QED  BY <1>1, <1>2, <1>3, <1>4 DEF TypeOK, RunType

\* What set_modified leaves is well typed.
LEMMA SetModifiedType ==
  ASSUME TypeOK, NEW S, SetModified(S)
  PROVE  /\ dirty' \in [Queries -> BOOLEAN]
         /\ sql' \in [Queries -> Texts \cup {NoText}]
         /\ spent' \in [Queries -> {"no", "ran", "unreset"}]
<1>1. dirty' \in [Queries -> BOOLEAN]
  BY Zenon DEF SetModified
<1>2. spent' \in [Queries -> {"no", "ran", "unreset"}]
  BY DEF SetModified, TypeOK
<1>3. sql' \in [Queries -> Texts \cup {NoText}]
  BY DEF SetModified, TypeOK
<1> QED  BY <1>1, <1>2, <1>3

\* Every step keeps the types, whatever the client does.
LEMMA StepType == TypeOK /\ [Next]_vars => TypeOK'
<1> SUFFICES ASSUME TypeOK, [Next]_vars PROVE TypeOK'
  OBVIOUS
<1>fixed. UNCHANGED kind
  BY DEF Next, vars
<1> USE BindingsType, <1>fixed
<1>1. ASSUME NEW q \in Queries, NEW c \in Clauses, New(q, c) PROVE TypeOK'
  BY <1>1 DEF New, TypeOK
<1>2. ASSUME NEW q \in Queries, NEW c \in Clauses, Configure(q, c) PROVE TypeOK'
  BY <1>2, SetModifiedType DEF Configure, TypeOK
<1>3. ASSUME NEW q \in Queries, NEW c \in Clauses, ConfigureSilently(q, c) PROVE TypeOK'
  BY <1>3 DEF ConfigureSilently, TypeOK
<1>4. ASSUME NEW q \in Queries, NEW c \in Clauses, NEW s \in Slots, NEW v \in Values,
             Where(q, c, s, v) \/ AppendWhere(q, c, s, v)
      PROVE  TypeOK'
  <2>1. params' \in [Queries -> V!Bindings]
    BY <1>4 DEF Where, AppendWhere, TypeOK
  <2> QED  BY <1>4, <2>1, SetModifiedType DEF Where, AppendWhere, TypeOK
<1>5. ASSUME NEW q \in Queries, NEW s \in Slots, NEW v \in Values, Bind(q, s, v)
      PROVE  TypeOK'
  <2>1. params' \in [Queries -> V!Bindings]
    BY <1>5 DEF Bind, TypeOK
  <2> QED  BY <1>5, <2>1, SetModifiedType DEF Bind, TypeOK
<1>6. ASSUME NEW q \in Queries, Render(q) PROVE TypeOK'
  BY <1>6, SqlType DEF Render, ToSql, Live, TypeOK
<1>7. ASSUME NEW q \in Queries, SelectExecute(q) \/ Count(q) PROVE TypeOK'
  BY <1>7, RunType1 DEF SelectExecute, Count, TypeOK, RunType
<1>8. ASSUME NEW q \in Queries, Reset(q) \/ ResetThrows(q) PROVE TypeOK'
  <2>1. CASE Reset(q)
    <3>1. stmt' = [stmt EXCEPT ![q] = NoStmt] \/ UNCHANGED stmt
      BY <2>1 DEF Reset, TypeOK
    <3>2. spent' = [spent EXCEPT ![q] = "no"] \/ UNCHANGED spent
      BY <2>1 DEF Reset, TypeOK
    <3> QED  BY <2>1, <3>1, <3>2 DEF Reset, TypeOK
  <2>2. CASE ResetThrows(q)
    BY <2>2 DEF ResetThrows, TypeOK
  <2> QED  BY <1>8, <2>1, <2>2
<1>9. ASSUME NEW q \in Queries, NEW what \in {"rows", "count"}, PrepareFails(q, what)
      PROVE  TypeOK'
  <2>1. sql' \in [Queries -> Texts \cup {NoText}]
    BY <1>9, SqlType DEF PrepareFails, ToSql, Live, TypeOK
  <2>2. stmt' \in [Queries -> Statements \cup {NoStmt}]
    <3>1. ToSql(q, what) \in Texts \cup {NoText}
      BY <1>9, SqlType DEF PrepareFails, ToSql, Live, TypeOK
    <3>2. \A B : [s \in Slots |-> IF s \in B THEN params[q][s] ELSE Null] \in V!Bindings
      BY DEF TypeOK, V!Bindings
    <3>3. FailedStatements(q, ToSql(q, what)) \subseteq Statements
      BY <3>1, <3>2 DEF FailedStatements, Statements
    <3>4. PICK s \in FailedStatements(q, ToSql(q, what)) : stmt' = [stmt EXCEPT ![q] = s]
      BY <1>9 DEF PrepareFails
    <3> QED  BY <3>3, <3>4 DEF TypeOK
  <2> QED  BY <1>9, <2>1, <2>2 DEF PrepareFails, TypeOK
<1>10. ASSUME NEW q \in Queries, ModifyExecute(q) PROVE TypeOK'
  <2>1. /\ params' = [params EXCEPT ![q] = V!Unbound]
        /\ spent' = [spent EXCEPT ![q] = IF params[q] # V!Unbound THEN "ran" ELSE @]
        /\ Live(q) /\ Run(q, "rows") /\ UNCHANGED <<clauses, binder>>
    BY <1>10, Zenon DEF ModifyExecute
  <2> QED  BY <2>1, RunType1 DEF TypeOK, RunType
<1>11. ASSUME NEW q \in Queries, NEW p \in Queries,
              Copy(q, p) \/ Move(q, p) \/ Assign(q, p) \/ MoveAssign(q, p)
       PROVE  TypeOK'
  <2>1. CASE Copy(q, p)
    BY <2>1 DEF Copy, Taken, TypeOK
  <2>2. CASE Move(q, p)
    BY <2>2 DEF Move, TypeOK
  <2>3. CASE Assign(q, p)
    BY <2>3 DEF Assign, Taken, TypeOK
  <2>4. CASE MoveAssign(q, p)
    BY <2>4 DEF MoveAssign, TypeOK
  <2> QED  BY <1>11, <2>1, <2>2, <2>3, <2>4
<1>12. CASE UNCHANGED vars
  BY <1>12 DEF vars, TypeOK
<1> QED
  BY <1>1, <1>2, <1>3, <1>4, <1>5, <1>6, <1>7, <1>8, <1>9, <1>10, <1>11, <1>12 DEF Next

\* Whatever the client does, the cache holds what its types say: sql_ and stmt_
\* never hold SQL generated from a query that was moved from.
THEOREM QueryTypeCorrect == Spec => []TypeOK
<1>1. Init => TypeOK
  BY InitInv DEF IndInv
<1> QED  BY <1>1, StepType, PTL DEF Spec

\* set_modified recovers a query from every state its cache can be in.
THEOREM ModificationAlwaysHeals == Spec => ModificationHeals
<1>1. TypeOK /\ [Next]_vars =>
        [\A q \in Queries : ModifiedBy(q) => RunsCurrent(q)']_vars
  <2> SUFFICES ASSUME TypeOK, NEW q \in Queries, ModifiedBy(q)
               PROVE  RunsCurrent(q)'
    OBVIOUS
  <2>1. dirty'[q] /\ sql'[q] = NoText
    BY DEF TypeOK, ModifiedBy, Configure, Bind, Where, SetModified
  <2> QED  BY <2>1 DEF RunsCurrent, Prepared, ToSql, V!Sql
<1> QED  BY <1>1, QueryTypeCorrect, PTL DEF Spec, ModificationHeals

-----------------------------------------------------------------------------
(* The cache of a disciplined client *)

\* The coherence of one query's cache.
CoherentAt(q) ==
  Live(q) =>
    /\ sql[q] # NoText => sql[q] = V!Sql("rows", clauses[q])
    /\ stmt[q] # NoStmt /\ ~dirty[q] /\ spent[q] # "unreset" =>
         /\ stmt[q].sql = V!Sql("rows", clauses[q])
         /\ spent[q] = "no" => stmt[q].values = params[q]

\* A query that a step leaves alone stays coherent.
LEMMA Untouched ==
  ASSUME CacheCoherent, NEW p \in Queries,
         clauses'[p] = clauses[p], params'[p] = params[p], sql'[p] = sql[p],
         dirty'[p] = dirty[p], stmt'[p] = stmt[p], spent'[p] = spent[p]
  PROVE  CoherentAt(p)'
BY DEF CacheCoherent, CoherentAt, Live, V!Sql

\* Without the risky calls no execution runs a statement whose values are spent.
LEMMA ExecutionsAreCurrent ==
  ASSUME Disciplined, NEW q \in Queries,
         SelectExecute(q) \/ ModifyExecute(q)
  PROVE  Live(q) /\ Run(q, "rows") /\ spent[q] = "no"
BY DEF Disciplined, Risky, SelectExecute, ModifyExecute

\* A coherent query generates the SQL of its clauses.
LEMMA CoherentText ==
  ASSUME CacheCoherent, NEW q \in Queries, Live(q)
  PROVE  ToSql(q, "rows") = V!Sql("rows", clauses[q])
BY DEF CacheCoherent, ToSql

\* Every step of a disciplined client keeps the caches of all queries coherent.
LEMMA StepCoherent ==
  ASSUME Disciplined, IndInv, Next
  PROVE  CacheCoherent'
<1> USE DEF IndInv
<1> SUFFICES ASSUME NEW r \in Queries PROVE CoherentAt(r)'
  BY DEF CacheCoherent, CoherentAt, Live, V!Sql
<1>1. ASSUME NEW q \in Queries, NEW c \in Clauses, New(q, c) PROVE CoherentAt(r)'
  <2>1. CASE r = q
    BY <1>1, <2>1 DEF New, TypeOK, CoherentAt
  <2> QED  BY <1>1, <2>1, Untouched DEF New, TypeOK
<1>2. ASSUME NEW q \in Queries, NEW c \in Clauses, Configure(q, c) PROVE CoherentAt(r)'
  <2>1. CASE r = q
    BY <1>2, <2>1 DEF Configure, SetModified, TypeOK, CoherentAt
  <2> QED  BY <1>2, <2>1, Untouched DEF Configure, SetModified, TypeOK
<1>3. ASSUME NEW q \in Queries, NEW c \in Clauses, ConfigureSilently(q, c)
      PROVE  CoherentAt(r)'
  BY <1>3 DEF ConfigureSilently, Disciplined, Risky
<1>4. ASSUME NEW q \in Queries, NEW c \in Clauses, NEW s \in Slots, NEW v \in Values,
             Where(q, c, s, v) \/ AppendWhere(q, c, s, v)
      PROVE  CoherentAt(r)'
  <2>1. binder[q] = q
    BY <1>4 DEF Where, AppendWhere, Disciplined, Risky
  <2>2. SetModified({q})
    BY <1>4, <2>1 DEF Where, AppendWhere, SetModified
  <2>3. CASE r = q
    BY <2>2, <2>3 DEF SetModified, TypeOK, CoherentAt
  <2>4. CASE r # q
    <3>1. clauses'[r] = clauses[r] /\ params'[r] = params[r] /\ stmt'[r] = stmt[r]
      BY <1>4, <2>1, <2>4 DEF Where, AppendWhere, TypeOK
    <3> QED  BY <2>2, <2>4, <3>1, Untouched DEF SetModified, TypeOK
  <2> QED  BY <2>3, <2>4
<1>5. ASSUME NEW q \in Queries, NEW s \in Slots, NEW v \in Values, Bind(q, s, v)
      PROVE  CoherentAt(r)'
  <2>1. CASE r = q
    BY <1>5, <2>1 DEF Bind, SetModified, TypeOK, CoherentAt
  <2> QED  BY <1>5, <2>1, Untouched DEF Bind, SetModified, TypeOK
<1>6. ASSUME NEW q \in Queries, Render(q) PROVE CoherentAt(r)'
  <2>1. sql' = [sql EXCEPT ![q] = V!Sql("rows", clauses[q])]
    BY <1>6, CoherentText DEF Render
  <2>2. CASE r = q
    BY <1>6, <2>1, <2>2 DEF Render, TypeOK, CoherentAt, CacheCoherent, Live, V!Sql
  <2> QED  BY <1>6, <2>2, Untouched DEF Render, TypeOK
<1>7. ASSUME NEW q \in Queries, SelectExecute(q) PROVE CoherentAt(r)'
  <2>1. Live(q) /\ Run(q, "rows") /\ spent[q] = "no"
    BY <1>7, ExecutionsAreCurrent
  <2>2. /\ sql' = [sql EXCEPT ![q] = V!Sql("rows", clauses[q])]
        /\ stmt' = [stmt EXCEPT ![q] = [sql |-> V!Sql("rows", clauses[q]),
                                        values |-> params[q]]]
        /\ dirty' = [dirty EXCEPT ![q] = FALSE]
    BY <2>1, RunIsCurrent
  <2>3. UNCHANGED <<clauses, params, spent>>
    BY <1>7 DEF SelectExecute
  <2>4. CASE r = q
    BY <2>2, <2>3, <2>4 DEF TypeOK, CoherentAt, V!Sql
  <2> QED  BY <2>2, <2>3, <2>4, Untouched DEF TypeOK
<1>8. ASSUME NEW q \in Queries, Count(q) PROVE CoherentAt(r)'
  BY <1>8 DEF Count, Disciplined, Risky
<1>9. ASSUME NEW q \in Queries, Reset(q) PROVE CoherentAt(r)'
  <2>1. kind = "select"
    BY <1>9 DEF Reset, Disciplined, Risky
  <2>2. CASE r = q
    BY <1>9, <2>1, <2>2 DEF Reset, TypeOK, CoherentAt, CacheCoherent, Live, V!Sql
  <2> QED  BY <1>9, <2>2, Untouched DEF Reset, TypeOK
<1>14. ASSUME NEW q \in Queries, ResetThrows(q) PROVE CoherentAt(r)'
  <2>1. CASE r = q
    BY <1>14, <2>1 DEF ResetThrows, TypeOK, CoherentAt, CacheCoherent, Live, V!Sql
  <2> QED  BY <1>14, <2>1, Untouched DEF ResetThrows, TypeOK
<1>10. ASSUME NEW q \in Queries, NEW what \in {"rows", "count"}, PrepareFails(q, what)
       PROVE  CoherentAt(r)'
  <2>1. what = "rows" /\ dirty[q]
    BY <1>10 DEF PrepareFails, Disciplined, Risky
  <2>2. sql' = [sql EXCEPT ![q] = V!Sql("rows", clauses[q])]
    BY <1>10, <2>1, CoherentText DEF PrepareFails
  <2>3. CASE r = q
    BY <1>10, <2>1, <2>2, <2>3 DEF PrepareFails, TypeOK, CoherentAt, V!Sql
  <2>4. CASE r # q
    <3>1. PICK s \in FailedStatements(q, ToSql(q, what)) : stmt' = [stmt EXCEPT ![q] = s]
      BY <1>10 DEF PrepareFails
    <3>2. stmt'[r] = stmt[r]
      BY <2>4, <3>1 DEF TypeOK
    <3> QED  BY <1>10, <2>4, <3>2, Untouched DEF PrepareFails, TypeOK
  <2> QED  BY <2>3, <2>4
<1>11. ASSUME NEW q \in Queries, ModifyExecute(q)
       PROVE  CoherentAt(r)'
  <2>1. Live(q) /\ Run(q, "rows") /\ spent[q] = "no"
    BY <1>11, ExecutionsAreCurrent
  <2>2. /\ sql' = [sql EXCEPT ![q] = V!Sql("rows", clauses[q])]
        /\ stmt' = [stmt EXCEPT ![q] = [sql |-> V!Sql("rows", clauses[q]),
                                        values |-> params[q]]]
        /\ dirty' = [dirty EXCEPT ![q] = FALSE]
    BY <2>1, RunIsCurrent
  <2>3. /\ UNCHANGED clauses
        /\ params' = [params EXCEPT ![q] = V!Unbound]
        /\ spent' = [spent EXCEPT ![q] = IF params[q] # V!Unbound THEN "ran" ELSE @]
    BY <1>11, Zenon DEF ModifyExecute
  <2>4. CASE r = q
    <3>1. spent'[q] = "no" => params[q] = V!Unbound
      BY <2>3 DEF TypeOK
    <3>2. /\ sql'[q] = V!Sql("rows", clauses[q])
          /\ stmt'[q].sql = V!Sql("rows", clauses[q])
          /\ stmt'[q].values = params[q]
          /\ params'[q] = V!Unbound
      BY <2>2, <2>3 DEF TypeOK
    <3> QED  BY <2>3, <2>4, <3>1, <3>2 DEF CoherentAt, V!Sql
  <2>5. CASE r # q
    <3>1. spent'[r] = spent[r]
      BY <2>3, <2>5 DEF TypeOK
    <3> QED  BY <2>2, <2>3, <2>5, <3>1, Untouched DEF TypeOK
  <2> QED  BY <2>4, <2>5
<1>12. ASSUME NEW q \in Queries, NEW p \in Queries, Copy(q, p) \/ Move(q, p)
       PROVE  CoherentAt(r)'
  <2>1. ~dirty[q] \/ stmt[q] = NoStmt
    BY <1>12 DEF Copy, Move, KnowsIfDirty, Disciplined, Risky
  <2>2. Live(q) /\ p # q
    BY <1>12 DEF Copy, Move
  <2>3. CASE r = p
    <3>1. CoherentAt(q)
      BY DEF CacheCoherent, CoherentAt
    <3>2. /\ clauses'[p] = clauses[q] /\ params'[p] = params[q]
          /\ stmt'[p] = stmt[q] /\ spent'[p] = spent[q]
          /\ sql'[p] \in {sql[q], NoText}
      BY <1>12, <2>2 DEF Copy, Move, Taken, TypeOK
    <3> QED  BY <2>1, <2>2, <2>3, <3>1, <3>2 DEF CoherentAt, Live, V!Sql
  <2>4. CASE r = q /\ Move(q, p)
    BY <2>4, <2>2 DEF Move, TypeOK, CoherentAt, Live
  <2>5. CASE r = q /\ Copy(q, p)
    BY <2>5, <2>2, Untouched DEF Copy, Taken, TypeOK
  <2>6. CASE r # q /\ r # p
    BY <1>12, <2>6, Untouched DEF Copy, Move, Taken, TypeOK
  <2> QED  BY <1>12, <2>3, <2>4, <2>5, <2>6
<1>13. ASSUME NEW q \in Queries, NEW p \in Queries, Assign(q, p) \/ MoveAssign(q, p)
       PROVE  CoherentAt(r)'
  BY <1>13 DEF Assign, MoveAssign, Disciplined, Risky
<1> QED
  BY <1>1, <1>2, <1>3, <1>4, <1>5, <1>6, <1>7, <1>8, <1>9, <1>10, <1>11, <1>12, <1>13,
     <1>14 DEF Next

\* The inductive invariant: the caches of a disciplined client are coherent.
THEOREM QueryInvariance ==
  ASSUME Disciplined
  PROVE  Spec => []IndInv
<1>1. IndInv /\ [Next]_vars => IndInv'
  <2> SUFFICES ASSUME IndInv, [Next]_vars PROVE IndInv'
    OBVIOUS
  <2>1. TypeOK'
    BY StepType DEF IndInv
  <2>3. CacheCoherent'
    <3>1. CASE Next
      BY <3>1, StepCoherent
    <3>2. CASE UNCHANGED vars
      BY <3>2 DEF vars, IndInv, CacheCoherent, Live, V!Sql
    <3> QED  BY <3>1, <3>2
  <2> QED  BY <2>1, <2>3 DEF IndInv
<1> QED  BY <1>1, InitInv, PTL DEF Spec

\* sql_ and a statement that is not dirty always agree with the clauses and the
\* bound values of their query (query.cpp:59-79).
THEOREM CacheAlwaysCoherent ==
  ASSUME Disciplined
  PROVE  Spec => []CacheCoherent
<1>1. IndInv => CacheCoherent
  BY DEF IndInv
<1> QED  BY <1>1, QueryInvariance, PTL

-----------------------------------------------------------------------------
(* Refinement *)

\* Every step of a disciplined client is a step of QueryValue or leaves the
\* clauses, the values and the last execution alone.
LEMMA StepRefines ==
  ASSUME Disciplined, IndInv, [Next]_vars
  PROVE  [V!ValueNext]_(V!valueVars)
<1>fixed. UNCHANGED kind
  BY DEF Next, vars
<1> USE BindingsType, <1>fixed DEF IndInv
<1>1. ASSUME NEW q \in Queries, NEW c \in Clauses, New(q, c) PROVE V!ValueNext
  <2>1. V!NewValue(q, c)
    BY <1>1 DEF New, Live, V!NewValue, V!Live
  <2> QED  BY <2>1 DEF V!ValueNext
<1>2. ASSUME NEW q \in Queries, NEW c \in Clauses, NEW b \in V!Bindings,
             Live(q), clauses' = [clauses EXCEPT ![q] = c],
             params' = [params EXCEPT ![q] = b], UNCHANGED ran
      PROVE  V!ValueNext
  <2>1. V!SetValue(q, c, b)
    BY <1>2 DEF Live, V!SetValue, V!Live
  <2> QED  BY <2>1 DEF V!ValueNext
<1>3. ASSUME NEW q \in Queries, NEW c \in Clauses, Configure(q, c) PROVE V!ValueNext
  <2>1. params' = [params EXCEPT ![q] = params[q]] /\ params[q] \in V!Bindings
    BY <1>3 DEF Configure, TypeOK
  <2> QED  BY <1>2, <1>3, <2>1 DEF Configure
<1>4. ASSUME NEW q \in Queries, NEW c \in Clauses, ConfigureSilently(q, c)
      PROVE  V!ValueNext
  BY <1>4 DEF ConfigureSilently, Disciplined, Risky
<1>5. ASSUME NEW q \in Queries, NEW c \in Clauses, NEW s \in Slots, NEW v \in Values,
             Where(q, c, s, v) \/ AppendWhere(q, c, s, v)
      PROVE  V!ValueNext
  <2>1. binder[q] = q
    BY <1>5 DEF Where, AppendWhere, Disciplined, Risky
  <2>2. params[q] \in V!Bindings
    BY DEF TypeOK
  <2>3. [params[q] EXCEPT ![s] = v] \in V!Bindings
    BY <2>2
  <2>4. params' = [params EXCEPT ![q] = [params[q] EXCEPT ![s] = v]]
    BY <1>5, <2>1 DEF Where, AppendWhere
  <2>5. Live(q) /\ clauses' = [clauses EXCEPT ![q] = c] /\ UNCHANGED ran
    BY <1>5 DEF Where, AppendWhere
  <2> QED  BY <1>2, <2>3, <2>4, <2>5
<1>6. ASSUME NEW q \in Queries, NEW s \in Slots, NEW v \in Values, Bind(q, s, v)
      PROVE  V!ValueNext
  <2>1. params[q] \in V!Bindings /\ clauses[q] \in Clauses
    BY <1>6 DEF TypeOK, Bind, Live
  <2>2. [params[q] EXCEPT ![s] = v] \in V!Bindings
    BY <2>1
  <2>3. params' = [params EXCEPT ![q] = [params[q] EXCEPT ![s] = v]]
    BY <1>6 DEF Bind
  <2>4. Live(q) /\ clauses' = [clauses EXCEPT ![q] = clauses[q]] /\ UNCHANGED ran
    BY <1>6 DEF Bind, TypeOK
  <2> QED  BY <1>2, <2>1, <2>2, <2>3, <2>4
<1>7. ASSUME NEW q \in Queries, NEW what \in {"rows", "count"},
             Render(q) \/ PrepareFails(q, what)
      PROVE  UNCHANGED V!valueVars
  BY <1>7 DEF Render, PrepareFails, V!valueVars
<1>8. ASSUME NEW q \in Queries, SelectExecute(q) PROVE V!ValueNext
  <2>1. Live(q) /\ Run(q, "rows") /\ spent[q] = "no"
    BY <1>8, ExecutionsAreCurrent
  <2>2. ran' = [asked |-> "rows", sql |-> V!Sql("rows", clauses[q]),
                values |-> params[q]]
    BY <2>1, RunIsCurrent
  <2>3. V!RunValue(q, "rows")
    BY <1>8, <2>2 DEF SelectExecute, Live, V!RunValue, V!Live
  <2> QED  BY <2>3 DEF V!ValueNext
<1>9. ASSUME NEW q \in Queries, Count(q) PROVE V!ValueNext
  BY <1>9 DEF Count, Disciplined, Risky
<1>10. ASSUME NEW q \in Queries, Reset(q) \/ ResetThrows(q) PROVE V!ValueNext
  <2>1. /\ Live(q) /\ clauses[q] \in Clauses
        /\ clauses' = [clauses EXCEPT ![q] = clauses[q]]
        /\ params' = [params EXCEPT ![q] = V!Unbound] /\ UNCHANGED ran
    BY <1>10 DEF Reset, ResetThrows, Live, TypeOK
  <2> QED  BY <1>2, <2>1
<1>11. ASSUME NEW q \in Queries, ModifyExecute(q)
       PROVE  V!ValueNext
  <2>1. Live(q) /\ Run(q, "rows") /\ spent[q] = "no"
    BY <1>11, ExecutionsAreCurrent
  <2>2. ran' = [asked |-> "rows", sql |-> V!Sql("rows", clauses[q]),
                values |-> params[q]]
    BY <2>1, RunIsCurrent
  <2>3. /\ kind # "select" /\ UNCHANGED clauses
        /\ params' = [params EXCEPT ![q] = V!Unbound]
    BY <1>11 DEF ModifyExecute
  <2>4. V!RunValue(q, "rows")
    BY <2>1, <2>2, <2>3 DEF Live, V!RunValue, V!Live
  <2> QED  BY <2>4 DEF V!ValueNext
<1>12. ASSUME NEW q \in Queries, NEW p \in Queries, Copy(q, p) PROVE V!ValueNext
  <2>1. V!CopyValue(q, p, FALSE)
    <3>1. /\ Live(q) /\ p # q /\ UNCHANGED ran
          /\ clauses' = [clauses EXCEPT ![p] = clauses[q]]
          /\ params' = [params EXCEPT ![p] = params[q]]
      BY <1>12 DEF Copy, Taken
    <3>2. /\ clauses' = [clauses EXCEPT ![p] = clauses[q], ![q] = @]
          /\ params' = [params EXCEPT ![p] = params[q], ![q] = @]
      BY <3>1 DEF TypeOK
    <3> QED  BY <3>1, <3>2 DEF Live, V!CopyValue, V!Live
  <2> QED  BY <2>1 DEF V!ValueNext
<1>13. ASSUME NEW q \in Queries, NEW p \in Queries, Move(q, p) PROVE V!ValueNext
  <2>1. V!CopyValue(q, p, TRUE)
    BY <1>13 DEF Move, Live, V!CopyValue, V!Live
  <2> QED  BY <2>1 DEF V!ValueNext
<1>14. ASSUME NEW q \in Queries, NEW p \in Queries, Assign(q, p) \/ MoveAssign(q, p)
       PROVE  V!ValueNext
  BY <1>14 DEF Assign, MoveAssign, Disciplined, Risky
<1>15. CASE UNCHANGED vars
  BY <1>15 DEF vars, V!valueVars
<1> QED
  BY <1>1, <1>3, <1>4, <1>5, <1>6, <1>7, <1>8, <1>9, <1>10, <1>11, <1>12, <1>13, <1>14,
     <1>15 DEF Next

\* Queries are values: whatever a disciplined client configures, binds, renders,
\* executes, copies, moves or sees fail, the statement cache is transparent.
THEOREM QueriesAreValues ==
  ASSUME Disciplined
  PROVE  Spec => ValueSemantics
<1>1. Init => V!ValueInit
  BY DEF Init
<1>2. IndInv /\ [Next]_vars => [V!ValueNext]_(V!valueVars)
  BY StepRefines
<1> QED  BY <1>1, <1>2, QueryInvariance, PTL DEF Spec, ValueSemantics, V!ValueSpec
=============================================================================
