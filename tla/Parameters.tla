----------------------------- MODULE Parameters -----------------------------
(***************************************************************************)
(* From a condition to the value the engine compares with: the where        *)
(* builder (where_clause.cpp), params_ of the query (query.cpp), the SET    *)
(* list (update_query.cpp, session.cpp) and the parameters of the statement *)
(* (Binding, and sqlite/statement.cpp).                                     *)
(*                                                                          *)
(* A placeholder is numbered by the parameters bound when it is written.    *)
(* sqlite and postgres read the number; mysql writes ? and reads parameters *)
(* in the order of the text.  What a client gave to each placeholder is     *)
(* kept beside the code's own state.                                        *)
(***************************************************************************)
EXTENDS Binding, Where

CONSTANTS
  Backends,
  AtValue,    \* a value whose text starts with @ or :, one of Values
  MaxWhere,   \* bound: conditions of a query
  MaxSet,     \* bound: columns in a SET list
  MaxParams,  \* bound: parameters of a query
  Modes       \* parts in play: "query", "clause", "statement"

ASSUME ParametersAssumption ==
  /\ Backends \subseteq {"sqlite", "postgres", "mysql"}
  /\ MaxWhere \in 0..MaxConds
  /\ MaxParams \in Nat
  /\ MaxSet \in 0..MaxParams
  /\ Modes \subseteq {"query", "clause", "statement"}

VARIABLES
  mode,       \* what the client works with in this behaviour
  kind,       \* "select", or "modify" for update and delete
  setlist,    \* columns_.size() of an update
  params,     \* params_
  dirty,      \* dirty_, or stmt_ still null
  clause,     \* where_ of the query (0) and two free where_clause objects
  conds,      \* the conditions written: operator, placeholder, operands
  meant,      \* history: the truth of the expression each clause was built by
  form,       \* history: the shape of that expression
  setGiven,   \* history: the value given for each SET column in this round
  fresh,      \* history: the conditions given a value in this round
  departure   \* history: how far the client left the usual order

queryVars == <<kind, setlist, params, dirty, conds, setGiven, fresh, departure>>
clauseVars == <<clause, meant, form>>
vars == <<bindingVars, mode, queryVars, clauseVars>>

Free == {1, 2}
Given == Values \cup {Null}

\* Operators with one operand: the comparisons, LIKE and what their negations
\* write that is SQL; IS [NOT] NULL, which keeps a null beside it; !> and !<
Single == {"scalar", "isnull", "negated"}

\* Operands of sql_operator: one value, the list of IN, the range of BETWEEN
Operators ==
  [op : {"scalar", "negated"}, args : {<<v>> : v \in Given}]
    \cup [op : {"isnull"}, args : {<<Null>>}]
    \cup [op : {"in", "between"}, args : {<<v, v>> : v \in Values \ {AtValue}}]

NoCond == [op |-> "scalar", args |-> <<Null>>, ph |-> 0]

TypeOK ==
  /\ BindingTypeOK
  /\ mode \in Modes
  /\ kind \in {"select", "modify"}
  /\ setlist \in 0..MaxSet
  /\ params \in Seq(Given) /\ Len(params) <= MaxParams
  /\ dirty \in BOOLEAN
  /\ \A w \in {0, 1, 2} : WhereSql(clause[w]).slots \in Seq(Conditions)
  /\ conds \in [Conditions -> [op : Single \cup {"in", "between"}, args : Seq(Given), ph : 0..MaxParams]]
  /\ meant \in [{0, 1, 2} -> SUBSET Assignments]
  /\ form \in [{0, 1, 2} -> {"none", "conjunction", "disjunction", "mixed"}]
  /\ setGiven \in [1..MaxSet -> Cells]
  /\ fresh \subseteq Conditions
  /\ departure \in {"none", "loose", "broken"}

Init ==
  /\ mode \in Modes
  /\ backend \in Backends
  /\ mode = "statement" => backend # "sqlite"
  /\ BindingInit
  /\ kind \in {"select", "modify"}
  /\ setlist \in 0..MaxSet
  /\ kind = "select" => setlist = 0
  /\ mode # "query" => kind = "select"
  /\ mode = "clause" => backend = "sqlite"  \* literal text: the backends agree
  /\ params = <<>>
  /\ dirty = TRUE
  /\ clause = [w \in {0, 1, 2} |-> EmptyClause]
  /\ conds = [c \in Conditions |-> NoCond]
  /\ meant = [w \in {0, 1, 2} |-> {}]
  /\ form = [w \in {0, 1, 2} |-> "none"]
  /\ setGiven = [j \in 1..MaxSet |-> Unset]
  /\ fresh = {}
  /\ departure = "none"

\* How far the calls of a round are from the usual order.  loose: a value given
\* after a condition, or where() called twice.  broken: an index that is not
\* the next one or belongs to a condition, or an operand taken for a name.
Departed(loose, broken) ==
  CASE departure = "broken" \/ broken -> "broken"
    [] departure = "loose" /\ ~broken -> "loose"
    [] OTHER -> IF loose THEN "loose" ELSE "none"

-----------------------------------------------------------------------------
(* query::bind and what uses it *)

\* Variant of Put: the gap is left as it is.
PutLeavesHole(p, i, v) ==
  [j \in 1..(IF i > Len(p) THEN i ELSE Len(p)) |->
     CASE j = i -> v
       [] j # i /\ j <= Len(p) -> p[j]
       [] OTHER -> Unset]

\* params_[assert_binding_index(i)] = v: the gap below i becomes null
Put(p, i, v) ==
  [j \in 1..(IF i > Len(p) THEN i ELSE Len(p)) |->
     CASE j = i -> v
       [] j # i /\ j <= Len(p) -> p[j]
       [] OTHER -> Null]

\* The first SET column without a value; 0 when there is none
NextColumn ==
  IF \A j \in 1..setlist : setGiven[j] # Unset THEN 0
  ELSE CHOOSE j \in 1..setlist :
         /\ setGiven[j] = Unset
         /\ \A k \in 1..(j - 1) : setGiven[k] # Unset

\* value(v): bind(num_of_bindings() + 1, v)
Value(v) ==
  /\ Len(params) < MaxParams
  /\ params' = Append(params, v)
  /\ setGiven' = [j \in 1..MaxSet |-> IF j = NextColumn THEN v ELSE setGiven[j]]
  /\ departure' = Departed(fresh # {}, NextColumn = 0)
  /\ dirty' = TRUE
  /\ UNCHANGED <<kind, setlist, conds, fresh>>

\* values({v, ...}): bindable::bind(values, 1)
ValuesFromOne(v) ==
  /\ setlist > 0
  /\ params' = [j \in 1..(IF Len(params) > setlist THEN Len(params) ELSE setlist) |->
                  IF j <= setlist THEN v ELSE params[j]]
  /\ setGiven' = [j \in 1..MaxSet |-> IF j <= setlist THEN v ELSE Unset]
  /\ departure' = Departed(FALSE, fresh # {})
  /\ dirty' = TRUE
  /\ UNCHANGED <<kind, setlist, conds, fresh>>

\* bind(i, v)
BindAt(i, v) ==
  /\ params' = Put(params, i, v)
  /\ setGiven' = [j \in 1..MaxSet |-> IF j = i /\ i <= setlist THEN v ELSE setGiven[j]]
  /\ departure' =
       Departed(FALSE, i > setlist \/ i > Len(params) + 1 \/ \E c \in fresh : conds[c].ph = i)
  /\ dirty' = TRUE
  /\ UNCHANGED <<kind, setlist, conds, fresh>>

-----------------------------------------------------------------------------
(* where_builder *)

\* helper::is_named
Named(o) == o.op \in Single /\ o.args[1] = AtValue

\* where_builder::bind(index, op)
Bound(p, i, o) ==
  CASE Named(o) -> p
    [] ~Named(o) /\ o.op \in Single -> Put(p, i, o.args[1])
    [] o.op = "in" -> Put(Put(p, i, o.args[1]), i + 1, o.args[2])
    [] o.op = "between" -> Put(Put(p, i, o.args[1]), i, o.args[2])

\* Variant of NextIndex: the index of the last parameter, not of the next.
NextIndexTooSmall == IF params = <<>> THEN 1 ELSE Len(params)

\* num_of_bindings() + 1
NextIndex == Len(params) + 1

\* A condition that stands in no clause
Unwritten(c) == \A w \in {0, 1, 2} : \A k \in DOMAIN WhereSql(clause[w]).slots :
                  WhereSql(clause[w]).slots[k] # c

FirstUnwritten(c) == Unwritten(c) /\ \A d \in 1..(c - 1) : ~Unwritten(d)

\* What writing condition c with operator o beside the conditions in Kept does
\* to the query
Write(c, o, Kept) ==
  /\ NextIndex <= MaxParams
  /\ Len(Bound(params, NextIndex, o)) <= MaxParams
  /\ params' = Bound(params, NextIndex, o)
  /\ conds' = [d \in Conditions |->
                 CASE d = c -> [op |-> o.op, args |-> o.args, ph |-> NextIndex]
                   [] d # c /\ d \in Kept -> conds[d]
                   [] OTHER -> NoCond]
  /\ fresh' = (fresh \cap Kept) \cup {c}
  /\ UNCHANGED <<kind, setlist, setGiven>>

\* query.where(op): where_builder::reset(op)
WhereOp(c, o) ==
  /\ Write(c, o, {})
  /\ clause' = [clause EXCEPT ![0] = ClauseOf(Condition(c))]
  /\ meant' = [meant EXCEPT ![0] = Truth(Condition(c))]
  /\ form' = [form EXCEPT ![0] = "conjunction"]
  /\ departure' = Departed(fresh # {}, Named(o))
  /\ dirty' = TRUE

\* Shapes: a conjunction, a disjunction of conjunctions, or neither
AndForm(f, g) ==
  CASE f = "none" -> g
    [] f = "conjunction" /\ g = "conjunction" -> "conjunction"
    [] OTHER -> "mixed"

OrForm(f, g) ==
  CASE f = "none" -> g
    [] f # "none" /\ g = "none" -> f
    [] f # "none" /\ g # "none" /\ "mixed" \in {f, g} -> "mixed"
    [] OTHER -> "disjunction"

\* The meaning of C++ expressions l && r and l || r; an empty left side is none
AndMeant(f, l, r) == IF f = "none" THEN r ELSE l \cap r
OrMeant(f, l, r) == IF f = "none" THEN r ELSE l \cup r

\* where_builder::operator&&(op)
AppendAnd(c, o) ==
  /\ Write(c, o, Conditions)
  /\ clause' = [clause EXCEPT ![0] = AndString(@, Condition(c))]
  /\ meant' = [meant EXCEPT ![0] = AndMeant(form[0], @, Truth(Condition(c)))]
  /\ form' = [form EXCEPT ![0] = AndForm(@, "conjunction")]
  /\ departure' = Departed(FALSE, Named(o))
  /\ dirty' = (dirty \/ ~Named(o))

\* where_builder::operator||(op) appends with where_clause::operator&&
AppendOr(c, o) ==
  /\ Write(c, o, Conditions)
  /\ clause' = [clause EXCEPT ![0] = AndString(@, Condition(c))]
  /\ meant' = [meant EXCEPT ![0] = OrMeant(form[0], @, Truth(Condition(c)))]
  /\ form' = [form EXCEPT ![0] = OrForm(@, "conjunction")]
  /\ departure' = Departed(FALSE, Named(o))
  /\ dirty' = (dirty \/ ~Named(o))

\* where(const where_clause &) of update and delete, with a clause of one
\* literal condition
UseClause(c) ==
  /\ kind = "modify"
  /\ clause' = [clause EXCEPT ![0] = ClauseOf(Condition(c))]
  /\ meant' = [meant EXCEPT ![0] = Truth(Condition(c))]
  /\ form' = [form EXCEPT ![0] = "conjunction"]
  /\ conds' = [d \in Conditions |-> NoCond]
  /\ fresh' = {}
  /\ departure' = Departed(fresh # {}, FALSE)
  /\ dirty' = TRUE
  /\ UNCHANGED <<kind, setlist, params, setGiven>>

-----------------------------------------------------------------------------
(* Free where_clause objects; their conditions are literal text *)

\* w && "c", w || "c"
ClauseAndText(w, c) ==
  /\ clause' = [clause EXCEPT ![w] = AndString(@, Condition(c))]
  /\ meant' = [meant EXCEPT ![w] = AndMeant(form[w], @, Truth(Condition(c)))]
  /\ form' = [form EXCEPT ![w] = AndForm(@, "conjunction")]

ClauseOrText(w, c) ==
  /\ clause' = [clause EXCEPT ![w] = OrString(@, Condition(c))]
  /\ meant' = [meant EXCEPT ![w] = OrMeant(form[w], @, Truth(Condition(c)))]
  /\ form' = [form EXCEPT ![w] = OrForm(@, "conjunction")]

Written(w) == Len(WhereSql(clause[w]).slots)

\* bound: a text holds at most MaxConds conditions and a clause as many parts
Fits(w, x) ==
  /\ Written(w) + Written(x) <= MaxConds
  /\ Len(clause[w].ands) + Len(clause[w].ors) < MaxConds

\* w && x, w || x
ClauseAnd(w, x) ==
  /\ Fits(w, x)
  /\ clause' = [clause EXCEPT ![w] = AndClause(@, clause[x])]
  /\ meant' = [meant EXCEPT ![w] = AndMeant(form[w], @, meant[x])]
  /\ form' = [form EXCEPT ![w] = AndForm(@, form[x])]

ClauseOr(w, x) ==
  /\ Fits(w, x)
  /\ clause' = [clause EXCEPT ![w] = OrClause(@, clause[x])]
  /\ meant' = [meant EXCEPT ![w] = OrMeant(form[w], @, meant[x])]
  /\ form' = [form EXCEPT ![w] = OrForm(@, form[x])]

\* where_clause::reset()
ClauseReset(w) ==
  /\ clause' = [clause EXCEPT ![w] = EmptyClause]
  /\ meant' = [meant EXCEPT ![w] = {}]
  /\ form' = [form EXCEPT ![w] = "none"]

-----------------------------------------------------------------------------
(* Execution *)

Sql == WhereSql(clause[0])

\* The members of P that stand in s, in their order
Chosen(s, P) ==
  LET chosen[n \in 0..Len(s)] ==
        IF n = 0 THEN <<>>
        ELSE IF s[n] \in P THEN Append(chosen[n - 1], s[n]) ELSE chosen[n - 1]
  IN chosen[Len(s)]

\* The conditions that have a placeholder, in the order of the text
Slots == Chosen(Sql.slots, {c \in Conditions : conds[c].ph # 0})

\* The placeholders of the statement: the SET list (session::join_params),
\* then the where clause
Numbers == [j \in 1..setlist |-> j] \o [k \in DOMAIN Slots |-> conds[Slots[k]].ph]

\* What the client gave for each placeholder in this round
Wants ==
  [j \in 1..setlist |-> setGiven[j]]
    \o [k \in DOMAIN Slots |-> IF Slots[k] \in fresh THEN conds[Slots[k]].args[1] ELSE Unset]

\* query::prepare binds params_ in order on a new statement
Sent ==
  LET sent[n \in 0..Len(params)] ==
        IF n = 0 THEN Zeroed ELSE Stored(sent[n - 1], n, params[n])
  IN sent[Len(params)]

\* The value the engine takes for the k-th placeholder of the text
Reads(k) ==
  IF backend = "mysql"
    THEN IF k <= Len(Sent) THEN Sent[k] ELSE Unset
    ELSE IF Numbers[k] <= Len(params) THEN params[Numbers[k]] ELSE Null

Numbered == {i \in 1..MaxParams : \E k \in DOMAIN Numbers : Numbers[k] = i}

\* where_builder::to_sql writes one placeholder after every operator: IN ?,
\* BETWEEN ?, IS NULL ? and the negated !> ? and !< ? are no SQL
Wellformed == Sql.ok /\ \A k \in DOMAIN Slots : conds[Slots[k]].op = "scalar"

\* sqlite3_bind_* of an index above the largest placeholder; postgres given
\* fewer parameters than the text names, or one it cannot tell the type of
Accepted ==
  /\ Wellformed
  /\ backend = "sqlite" => Len(params) \in {0} \cup Numbered \/ \E i \in Numbered : i > Len(params)
  /\ backend = "postgres" =>
       /\ \A i \in Numbered : i <= Counted(Sent)
       /\ \A i \in DOMAIN params : params[i] = Null => i \in Numbered

\* Empties the round after modify_query::execute, which calls reset()
AfterRun ==
  IF kind = "modify"
    THEN /\ params' = <<>>
         /\ setGiven' = [j \in 1..MaxSet |-> Unset]
         /\ fresh' = {}
         /\ departure' = "none"
    ELSE UNCHANGED <<params, setGiven, fresh, departure>>

\* execute() of a new or modified query that prepares and runs
Execute ==
  /\ dirty
  /\ Accepted
  /\ AfterRun
  /\ dirty' = FALSE
  /\ UNCHANGED <<kind, setlist, conds>>

\* execute() that is refused: sqlite and mysql throw while preparing or binding
\* and keep everything; postgres answers after it was prepared, select_query
\* throws then and modify_query returns 0 and resets
ExecuteRefused ==
  /\ dirty
  /\ ~Accepted
  /\ IF backend = "postgres"
       THEN AfterRun /\ dirty' = FALSE
       ELSE UNCHANGED <<params, setGiven, fresh, departure, dirty>>
  /\ UNCHANGED <<kind, setlist, conds>>

\* execute() of a query that was not modified: the statement runs once more
\* with the parameters it has
ExecuteAgain ==
  /\ ~dirty
  /\ AfterRun
  /\ UNCHANGED <<kind, setlist, conds, dirty>>

-----------------------------------------------------------------------------
QueryStep ==
  /\ mode = "query"
  /\ \/ /\ \E v \in Given \ {AtValue} :
             \/ Value(v)
             \/ ValuesFromOne(v)
             \/ \E i \in 1..MaxParams : BindAt(i, v)
        /\ UNCHANGED clauseVars
     \/ \E c \in 1..MaxWhere : FirstUnwritten(c) /\
          \/ UseClause(c)
          \/ \E o \in Operators : WhereOp(c, o) \/ AppendAnd(c, o) \/ AppendOr(c, o)

ClauseStep ==
  /\ mode = "clause"
  /\ \E w \in Free :
       \/ \E c \in Conditions :
            FirstUnwritten(c) /\ (ClauseAndText(w, c) \/ ClauseOrText(w, c))
       \/ \E x \in Free \ {w} : ClauseAnd(w, x) \/ ClauseOr(w, x)
       \/ ClauseReset(w)
  /\ UNCHANGED queryVars

Run ==
  /\ mode = "query"
  /\ Execute \/ ExecuteRefused \/ ExecuteAgain
  /\ UNCHANGED clauseVars

StatementStep ==
  /\ mode = "statement"
  /\ BindingNext
  /\ UNCHANGED <<queryVars, clauseVars>>

Next ==
  \/ (QueryStep \/ ClauseStep \/ Run) /\ UNCHANGED <<bindingVars, mode>>
  \/ StatementStep /\ UNCHANGED mode

Spec == Init /\ [][Next]_vars

-----------------------------------------------------------------------------
(* Properties *)

\* A client that gives the SET list its values first, then writes scalar
\* conditions, gets the statement it wrote on every backend: an execute() at
\* this point is not refused, and each placeholder reads the value given for
\* it, null included, though the numbers are counted from params_ and mysql
\* does not use them
\* (where_builder::reset, operator&&; query::prepare; reallocate_value).
OrderlyQueryIsFaithful ==
  dirty /\ Wellformed /\ departure = "none" /\ (\A k \in DOMAIN Wants : Wants[k] # Unset) =>
    Accepted /\ \A k \in DOMAIN Numbers : Reads(k) = Wants[k]

\* On the backends with numbered placeholders a condition keeps its value
\* whatever comes before or after it: values given late, another where(), IN
\* lists, placeholders of an earlier round
\* (where_builder::reset: index = num_of_bindings() + 1).
NumberedConditionsKeepTheirValues ==
  dirty /\ Accepted /\ backend # "mysql" /\ departure # "broken" =>
    \A k \in DOMAIN Numbers : k > setlist /\ Wants[k] # Unset => Reads(k) = Wants[k]

\* A free where_clause built as a conjunction, or as a disjunction of
\* conjunctions, is true in SQL exactly where the C++ expression is true,
\* whatever clauses were nested in it (where_clause::generate_sql).
ClauseMeansItsExpression ==
  \A w \in Free : form[w] # "mixed" =>
    LET sql == WhereSql(clause[w])
    IN sql.ok /\ Truth(sql) = meant[w]

\* README.md:404-412: a builder chain of `and` and `or` is the SQL of the same
\* connectives.
BuilderMeansItsExpression ==
  form[0] # "mixed" => Truth(WhereSql(clause[0])) = meant[0]
=============================================================================
