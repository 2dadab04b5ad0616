-------------------------------- MODULE Where --------------------------------
(***************************************************************************)
(* where_clause: where_clause.cpp, lines 283-390.                           *)
(*                                                                          *)
(* A clause is a text value_ and the clauses appended to it with && and     *)
(* with ||.  SQL text is kept as what an SQL parser makes of it: without    *)
(* parentheses AND binds tighter than OR, so a text is a sequence of        *)
(* alternatives, each a sequence of factors, and a factor is a condition or *)
(* a parenthesised text.  A factor is represented by the truth assignments  *)
(* that satisfy it.  slots is the order in which conditions stand in the    *)
(* text; ok is FALSE when a connective has nothing on one of its sides.     *)
(***************************************************************************)
EXTENDS Naturals, Sequences, SequencesExt

CONSTANT MaxConds   \* bound: conditions written

ASSUME WhereAssumption == MaxConds \in Nat

Conditions == 1..MaxConds

\* A truth assignment is the set of the conditions it makes true.
Assignments == SUBSET Conditions

EmptyText == [terms |-> <<>>, slots |-> <<>>, ok |-> TRUE]

\* The text of one condition
Condition(c) ==
  [terms |-> << << {e \in Assignments : c \in e} >> >>, slots |-> <<c>>, ok |-> TRUE]

\* The assignments under which an SQL engine takes the text to be true
Truth(t) ==
  {e \in Assignments :
     \E i \in DOMAIN t.terms : \A j \in DOMAIN t.terms[i] : e \in t.terms[i][j]}

Parenthesised(t) == [t EXCEPT !.terms = << << Truth(t) >> >>]

Blank(t) == t.terms = <<>>

\* s AND t, as text: the last alternative of s runs on into the first of t
AndText(s, t) ==
  [terms |-> IF Blank(s) \/ Blank(t) THEN s.terms \o t.terms
             ELSE Front(s.terms) \o << Last(s.terms) \o Head(t.terms) >> \o Tail(t.terms),
   slots |-> s.slots \o t.slots,
   ok |-> s.ok /\ t.ok /\ ~Blank(s) /\ ~Blank(t)]

\* s OR t, as text
OrText(s, t) ==
  [terms |-> s.terms \o t.terms,
   slots |-> s.slots \o t.slots,
   ok |-> s.ok /\ t.ok /\ ~Blank(s) /\ ~Blank(t)]

\* The texts ts written after t, each behind the connective glue
Joined(glue, t, ts) ==
  LET joined[n \in 0..Len(ts)] ==
        IF n = 0 THEN t
        ELSE IF glue = "and" THEN AndText(joined[n - 1], ts[n])
                             ELSE OrText(joined[n - 1], ts[n])
  IN joined[Len(ts)]

-----------------------------------------------------------------------------
EmptyClause == [value |-> EmptyText, ands |-> <<>>, ors |-> <<>>]

\* where_clause(const std::string &)
ClauseOf(t) == [EmptyClause EXCEPT !.value = t]

\* where_clause::empty
IsEmpty(w) == w.value = EmptyText /\ w.ands = <<>> /\ w.ors = <<>>

\* where_clause::generate_sql
WhereSql(w) ==
  LET ands == Joined("and", w.value, w.ands)
      both == w.ands # <<>> /\ w.ors # <<>>
      tail == Joined("or", Head(w.ors), Tail(w.ors))
  IN CASE w.ors = <<>> -> ands
       [] both -> OrText(Parenthesised(ands), Parenthesised(tail))
       [] OTHER -> OrText(w.value, tail)

\* operator&&(const std::string &): an empty text changes nothing
AndString(w, t) ==
  CASE t = EmptyText -> w
    [] t # EmptyText /\ w.value = EmptyText -> [w EXCEPT !.value = t]
    [] OTHER -> [w EXCEPT !.ands = Append(@, t)]

\* Variant of OrString: the text goes to and_.
OrStringAppendsAnd(w, t) == AndString(w, t)

\* operator||(const std::string &)
OrString(w, t) ==
  CASE t = EmptyText -> w
    [] t # EmptyText /\ w.value = EmptyText -> [w EXCEPT !.value = t]
    [] OTHER -> [w EXCEPT !.ors = Append(@, t)]

\* operator&&(const where_clause &): an empty clause is appended like any other
AndClause(w, x) ==
  IF w.value = EmptyText THEN [w EXCEPT !.value = WhereSql(x)]
  ELSE [w EXCEPT !.ands = Append(@, WhereSql(x))]

\* operator||(const where_clause &)
OrClause(w, x) ==
  CASE IsEmpty(x) -> w
    [] ~IsEmpty(x) /\ w.value = EmptyText -> [w EXCEPT !.value = WhereSql(x)]
    [] OTHER -> [w EXCEPT !.ors = Append(@, WhereSql(x))]
=============================================================================
