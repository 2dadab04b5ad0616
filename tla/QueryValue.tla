----------------------------- MODULE QueryValue -----------------------------
(***************************************************************************)
(* What a query object promises: it is a value.  It holds the clauses that  *)
(* were set and the values that were bound; executing it runs the SQL of    *)
(* exactly those clauses with exactly those values; a copy is a query of    *)
(* its own.  No statement, no cached SQL text and no dirty flag exists at   *)
(* this level: module Query has them and is shown to implement this one.    *)
(***************************************************************************)
CONSTANTS
  Queries,    \* the client's query objects
  Clauses,    \* the settings of a query: table, columns, where, limit...
  NoClauses,  \* an object that does not exist, or was moved from
  Slots,      \* parameters, by index or by name
  Values,     \* bindable values
  Null,       \* the value of a parameter that is not bound
  Kinds       \* "select" or "modify" (insert, update, delete)

VARIABLES
  kind,       \* the class of the queries, never changed
  clauses,    \* what every query says
  params,     \* what is bound to its parameters
  ran         \* the execution requested last

valueVars == <<kind, clauses, params, ran>>

Bindings == [Slots -> Values \cup {Null}]

Unbound == [s \in Slots |-> Null]

\* The SQL of a query: its rows (or its modification), or the number of rows.
Sql(what, c) == [what |-> what, clauses |-> c]

\* Nothing was executed yet.
NoRun == [asked |-> "nothing"]

Live(q) == clauses[q] # NoClauses

ValueInit ==
  /\ kind \in Kinds
  /\ clauses = [q \in Queries |-> NoClauses]
  /\ params = [q \in Queries |-> Unbound]
  /\ ran = NoRun

\* A query is constructed with clauses c.
NewValue(q, c) ==
  /\ ~Live(q)
  /\ clauses' = [clauses EXCEPT ![q] = c]
  /\ params' = [params EXCEPT ![q] = Unbound]
  /\ UNCHANGED ran

\* Clauses are set and values are bound.
SetValue(q, c, b) ==
  /\ Live(q)
  /\ clauses' = [clauses EXCEPT ![q] = c]
  /\ params' = [params EXCEPT ![q] = b]
  /\ UNCHANGED ran

\* p becomes equal to q, which is untouched or, if moved, gone.
CopyValue(q, p, moved) ==
  /\ Live(q) /\ p # q
  /\ clauses' = [clauses EXCEPT ![p] = clauses[q],
                                ![q] = IF moved THEN NoClauses ELSE @]
  /\ params' = [params EXCEPT ![p] = params[q],
                              ![q] = IF moved THEN Unbound ELSE @]
  /\ UNCHANGED ran

\* q runs; a modification consumes its values.
RunValue(q, what) ==
  /\ Live(q)
  /\ ran' = [asked |-> what, sql |-> Sql(what, clauses[q]), values |-> params[q]]
  /\ params' = IF kind = "select" THEN params
               ELSE [params EXCEPT ![q] = Unbound]
  /\ UNCHANGED clauses

ValueNext ==
  /\ UNCHANGED kind
  /\ \E q \in Queries :
       \/ \E c \in Clauses : NewValue(q, c) \/ \E b \in Bindings : SetValue(q, c, b)
       \/ \E p \in Queries, moved \in BOOLEAN : CopyValue(q, p, moved)
       \/ \E what \in {"rows", "count"} : RunValue(q, what)

ValueSpec == ValueInit /\ [][ValueNext]_valueVars
=============================================================================
