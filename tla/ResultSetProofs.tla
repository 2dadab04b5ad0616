--------------------------- MODULE ResultSetProofs ---------------------------
(***************************************************************************)
(* A result set is its own pass over the rows: for any number of result     *)
(* sets, statements, iterators and rows, and every backend, a client that   *)
(* stays away from the calls in Risky cannot tell that statements and       *)
(* buffers are shared underneath.  Using a result set under a running loop  *)
(* and copying iterators are not among them.                                *)
(***************************************************************************)
EXTENDS ResultSet, TLAPS

\* The calls that move a statement behind the back of a result set.
Risky == {"share", "rerun", "requery", "fail"}

Disciplined == Calls \cap Risky = {}

Classes == {"none", "sqlite", "mysql_stmt", "pgresult", "mysql_res"}

Statuses == {"fresh", "row", "done", "error", "ready"}

ResultType == [class : Classes, stmt : Statements \cup {NoStmt}, status : Statuses,
               row : 0..(MaxRows + 1), buf : 0..MaxRows]

IterType == [rs : Results \cup {NoResult}, pos : -1..MaxPos, live : BOOLEAN,
             row : 0..MaxRows]

AnswerType == [call : {"none", "next", "begin", "reset"},
               result : Results \cup {NoResult}, row : 0..MaxRows]

\* A result set over an engine's statement has one, of the backend's kind.
Placed ==
  \A r \in Results :
    /\ result[r].class = "sqlite" => backend = "sqlite" /\ result[r].stmt \in Statements
    /\ result[r].class = "mysql_stmt" => backend = "mysql" /\ result[r].stmt \in Statements

\* An iterator that is not at its end keeps its result set.
Kept ==
  \A i \in Iterators :
    /\ iter[i].pos >= 0 => iter[i].rs # NoResult
    /\ iter[i].rs # NoResult => Exists(iter[i].rs)

Typed ==
  /\ backend \in Backends
  /\ rows \in 0..MaxRows
  /\ stmt \in Statements \cup {NoStmt}
  /\ cursor \in [Statements -> 0..(MaxRows + 1)]
  /\ target \in [Statements -> Results \cup {NoResult}]
  /\ failed \in SUBSET Statements
  /\ freed \in SUBSET Statements
  /\ result \in [Results -> ResultType]
  /\ iter \in [Iterators -> IterType]
  /\ answer \in AnswerType

TypeInv == Typed /\ Placed /\ Kept

-----------------------------------------------------------------------------
(* Type correctness, for every client *)

\* Typed is the type invariant, with names for its sets of records.
LEMMA TypedIsTypeOK == Typed <=> TypeOK
<1>1. {"none", "sqlite", "mysql_stmt"} \cup Owning = Classes
  BY DEF Owning, Classes
<1>2. ResultType = [class : {"none", "sqlite", "mysql_stmt"} \cup Owning,
                    stmt : Statements \cup {NoStmt},
                    status : {"fresh", "row", "done", "error", "ready"},
                    row : 0..(MaxRows + 1), buf : 0..MaxRows]
  BY <1>1 DEF ResultType, Statuses
<1> QED  BY <1>2 DEF Typed, TypeOK, IterType, AnswerType

\* The row current_row() shows is 0 or a row of the query.
LEMMA CurrentRowType ==
  ASSUME Typed, NEW rs, NEW cs, NEW r
  PROVE  CurrentRow(rs, cs, r) \in 0..MaxRows
BY ResultSetAssumption DEF Typed, CurrentRow

\* What next() of r starts from: the state as it is, or as reset() of r leaves it.
Base(rs, cs, r) ==
  /\ rs \in [Results -> ResultType]
  /\ cs \in [Statements -> 0..(MaxRows + 1)]
  /\ \A x \in Results : rs[x].class = result[x].class /\ rs[x].stmt = result[x].stmt
  /\ \A x \in Results : x # r => rs[x] = result[x]
  /\ rs[r].row \in {0, result[r].row}
  /\ \A s \in Statements : cs[s] = cursor[s] \/ (s = result[r].stmt /\ cs[s] = 0)

\* The state as it is.
LEMMA BaseHere ==
  ASSUME TypeInv, NEW r \in Results
  PROVE  Base(result, cursor, r)
BY DEF TypeInv, Typed, Base

\* What reset() leaves of a result set, and what it leaves when it throws.
Emptied(v) == [v EXCEPT !.status = "fresh", !.row = 0, !.buf = 0]

Unbound(v) == [v EXCEPT !.status = "fresh", !.buf = 0]

\* Both are result sets with the class and the statement of before.
LEMMA EmptiedType ==
  ASSUME NEW v \in ResultType
  PROVE  /\ Emptied(v) \in ResultType /\ Unbound(v) \in ResultType
         /\ Emptied(v).class = v.class /\ Emptied(v).stmt = v.stmt
         /\ Emptied(v).status = "fresh" /\ Emptied(v).row = 0
         /\ Unbound(v).class = v.class /\ Unbound(v).stmt = v.stmt
         /\ Unbound(v).status = "fresh" /\ Unbound(v).row = v.row
<1> DEFINE a == [v EXCEPT !.status = "fresh"]
           b == [a EXCEPT !.row = 0]
<1>1. /\ a \in ResultType
      /\ a.class = v.class /\ a.stmt = v.stmt /\ a.status = "fresh" /\ a.row = v.row
  BY DEF ResultType, Statuses
<1>2. Emptied(v) = [b EXCEPT !.buf = 0] /\ Unbound(v) = [a EXCEPT !.buf = 0]
  BY Zenon DEF Emptied, Unbound
<1> HIDE DEF a
<1>3. /\ b \in ResultType
      /\ b.class = a.class /\ b.stmt = a.stmt /\ b.status = a.status /\ b.row = 0
  BY <1>1, ResultSetAssumption DEF ResultType
<1> HIDE DEF b
<1> QED  BY <1>1, <1>2, <1>3, ResultSetAssumption DEF ResultType

\* The state reset() leaves.
LEMMA BaseReset ==
  ASSUME TypeInv, NEW r \in Results
  PROVE  /\ Base(ResetResult(r), ResetCursor(r), r)
         /\ ResetResult(r)[r].status = "fresh" /\ ResetResult(r)[r].row = 0
         /\ \A s \in Statements : s = result[r].stmt => ResetCursor(r)[s] = 0
<1>1. result \in [Results -> ResultType] /\ cursor \in [Statements -> 0..(MaxRows + 1)]
  BY DEF TypeInv, Typed
<1>2. ResetResult(r) = [result EXCEPT ![r] = Emptied(result[r])]
  BY <1>1 DEF ResetResult, Emptied
<1>3. /\ Emptied(result[r]) \in ResultType
      /\ Emptied(result[r]).class = result[r].class /\ Emptied(result[r]).stmt = result[r].stmt
      /\ Emptied(result[r]).status = "fresh" /\ Emptied(result[r]).row = 0
  BY <1>1, EmptiedType
<1>4. /\ ResetCursor(r) \in [Statements -> 0..(MaxRows + 1)]
      /\ \A s \in Statements : ResetCursor(r)[s] = IF s = result[r].stmt THEN 0 ELSE cursor[s]
  BY <1>1, ResultSetAssumption DEF ResetCursor
<1>5. /\ ResetResult(r) \in [Results -> ResultType]
      /\ ResetResult(r)[r] = Emptied(result[r])
      /\ \A x \in Results : x # r => ResetResult(r)[x] = result[x]
  BY <1>1, <1>2, <1>3
<1> QED  BY <1>3, <1>4, <1>5 DEF Base

\* next() steps from a position of the query, to positions of the query.
LEMMA FromType ==
  ASSUME TypeInv, NEW r \in Results, NEW rs, NEW cs, Base(rs, cs, r)
  PROVE  /\ From(rs, cs, r) \in Int /\ From(rs, cs, r) >= 0
         /\ After(From(rs, cs, r)) \in 1..(rows + 1)
         /\ Steps(rs, cs, r) \subseteq 1..(rows + 1)
<1>1. rs[r] \in ResultType /\ rows \in 0..MaxRows
  BY DEF TypeInv, Typed, Base
<1>2. rs[r].stmt \in Statements => cs[rs[r].stmt] \in 0..(MaxRows + 1)
  BY DEF Base
<1>3. rs[r].class \in {"sqlite", "mysql_stmt"} => rs[r].stmt \in Statements
  BY DEF TypeInv, Placed, Base
<1>4. From(rs, cs, r) \in Int /\ From(rs, cs, r) >= 0
  BY <1>1, <1>2, <1>3, ResultSetAssumption DEF From, ResultType
<1>5. After(From(rs, cs, r)) \in 1..(rows + 1)
  BY <1>1, <1>4, ResultSetAssumption DEF After
<1> HIDE DEF From, After
<1> QED  BY <1>1, <1>4, <1>5, ResultSetAssumption DEF Steps

\* Moving to a position of the query is well typed.
LEMMA MoveToType ==
  ASSUME TypeInv, NEW r \in Results, NEW k \in 1..(rows + 1),
         NEW t \in Results \cup {NoResult}, NEW call \in {"next", "begin"},
         NEW rs, NEW cs, Base(rs, cs, r), MoveTo(call, rs, cs, r, k, t)
  PROVE  /\ result' \in [Results -> ResultType]
         /\ cursor' \in [Statements -> 0..(MaxRows + 1)]
         /\ target' \in [Statements -> Results \cup {NoResult}]
         /\ failed' \in SUBSET Statements
         /\ answer' \in AnswerType
         /\ \A x \in Results : /\ result'[x].class = result[x].class
                               /\ result'[x].stmt = result[x].stmt
<1>1. /\ rows \in 0..MaxRows /\ MaxRows \in Nat /\ k \in 0..(MaxRows + 1)
      /\ \A x \in Results : rs[x] \in ResultType
      /\ k <= rows => k \in 0..MaxRows
  BY ResultSetAssumption DEF TypeInv, Typed, Base
<1> DEFINE c == rs[r].class
           s == rs[r].stmt
           f(x) == CASE x = r /\ c \in Owning  -> [rs[x] EXCEPT !.row = k]
             [] x = r /\ c = "sqlite"  ->
                  [rs[x] EXCEPT !.status = IF k <= rows THEN "row" ELSE "done"]
             [] c = "mysql_stmt" /\ (x = r \/ x = t) ->
                  [rs[x] EXCEPT
                     !.status = IF x = r THEN "ready" ELSE @,
                     !.buf = IF x = t THEN Fetched(k, @) ELSE @]
             [] OTHER -> rs[x]
<1>2. /\ result' = [x \in Results |-> f(x)]
      /\ cursor' = [x \in Statements |-> IF c \notin Owning /\ x = s THEN k ELSE cs[x]]
      /\ target' = [x \in Statements |-> IF c = "mysql_stmt" /\ x = s THEN t ELSE target[x]]
      /\ failed' = IF c = "sqlite" THEN failed \ {s} ELSE failed
      /\ answer' = [call |-> call, result |-> r,
                    row |-> IF k <= rows THEN CurrentRow(result', cursor', r) ELSE 0]
  BY Zenon DEF MoveTo
<1>3. ASSUME NEW x \in Results
      PROVE  f(x) \in ResultType /\ f(x).class = rs[x].class /\ f(x).stmt = rs[x].stmt
  <2>1. CASE x = r /\ c \in Owning
    BY <1>1, <2>1 DEF ResultType, Owning
  <2>2. CASE x = r /\ c = "sqlite"
    BY <1>1, <2>2 DEF ResultType, Statuses, Owning
  <2>3. CASE c = "mysql_stmt" /\ (x = r \/ x = t)
    BY <1>1, <2>3 DEF ResultType, Statuses, Owning, Fetched
  <2>4. CASE ~(x = r /\ c \in Owning) /\ ~(x = r /\ c = "sqlite")
             /\ ~(c = "mysql_stmt" /\ (x = r \/ x = t))
    BY <1>1, <2>4
  <2> QED  BY <2>1, <2>2, <2>3, <2>4
<1> HIDE DEF f
<1>4. CurrentRow(result', cursor', r) \in 0..MaxRows
  BY CurrentRowType DEF TypeInv
<1>5. answer' \in AnswerType
  BY <1>1, <1>2, <1>4 DEF AnswerType
<1>6. /\ result' \in [Results -> ResultType]
      /\ \A x \in Results : result'[x].class = result[x].class /\ result'[x].stmt = result[x].stmt
  BY <1>2, <1>3 DEF Base
<1> QED  BY <1>1, <1>2, <1>5, <1>6 DEF TypeInv, Typed, Base

\* The deleters of the statements nobody keeps change no type.
LEMMA ClosingType ==
  ASSUME TypeInv, NEW q, NEW rs,
         NEW c \in [Statements -> 0..(MaxRows + 1)],
         NEW t \in [Statements -> Results \cup {NoResult}], NEW f,
         Closing(q, rs, c, t, f)
  PROVE  /\ cursor' \in [Statements -> 0..(MaxRows + 1)]
         /\ target' \in [Statements -> Results \cup {NoResult}]
         /\ failed' \in SUBSET Statements
         /\ freed' \in SUBSET Statements
BY ResultSetAssumption DEF TypeInv, Typed, Closing

\* A call that leaves the class and the statement of every result set alone
\* leaves it Placed.
LEMMA SamePlaces ==
  ASSUME TypeInv, backend' = backend,
         \A x \in Results : /\ result'[x].class = result[x].class
                            /\ result'[x].stmt = result[x].stmt
  PROVE  Placed' /\ \A x \in Results : Exists(x)' = Exists(x)
BY DEF TypeInv, Placed, Exists

\* A new result set is of the backend's kind.
LEMMA OpenedType ==
  ASSUME TypeInv, NEW r \in Results, NEW class \in Classes,
         NEW s \in Statements \cup {NoStmt}, class # "none",
         class = "sqlite" => backend = "sqlite" /\ s \in Statements,
         class = "mysql_stmt" => backend = "mysql" /\ s \in Statements,
         Opened(r, class, s), UNCHANGED <<backend, iter>>
  PROVE  result' \in [Results -> ResultType] /\ Placed' /\ Kept'
<1>1. result' = [result EXCEPT ![r] = Fresh(class, s)]
  BY DEF Opened
<1>2. /\ Fresh(class, s) \in ResultType
      /\ Fresh(class, s).class = class /\ Fresh(class, s).stmt = s
  BY ResultSetAssumption DEF ResultType, Statuses, Fresh
<1>3. result' \in [Results -> ResultType]
  BY <1>1, <1>2 DEF TypeInv, Typed
<1>4. Placed'
  BY <1>1, <1>2 DEF TypeInv, Typed, Placed
<1>5. Kept'
  <2>1. \A x \in Results : Exists(x) => Exists(x)'
    BY <1>1, <1>2 DEF TypeInv, Typed, Exists
  <2>2. \A i \in Iterators : iter[i].rs \in Results \cup {NoResult}
    BY DEF TypeInv, Typed, IterType
  <2> QED  BY <2>1, <2>2 DEF TypeInv, Kept, Exists
<1> QED  BY <1>3, <1>4, <1>5

\* The initial states satisfy the type invariant.
LEMMA TypeInvInit == Init => TypeInv
BY ResultSetAssumption
DEF Init, TypeInv, Typed, Placed, Kept, Fresh, None, Ended, ResultType, IterType, AnswerType,
    Classes, Statuses

\* Setting the fields of one result set that are not its class or statement.
LEMMA OneResultType ==
  ASSUME TypeInv, NEW r \in Results, NEW v \in ResultType,
         v.class = result[r].class, v.stmt = result[r].stmt,
         result' = [result EXCEPT ![r] = v], backend' = backend
  PROVE  /\ result' \in [Results -> ResultType]
         /\ Placed'
         /\ \A x \in Results : Exists(x)' = Exists(x)
<1>1. result' \in [Results -> ResultType]
  BY DEF TypeInv, Typed
<1>2. \A x \in Results : /\ result'[x].class = result[x].class
                         /\ result'[x].stmt = result[x].stmt
  BY DEF TypeInv, Typed
<1> QED  BY <1>1, <1>2, SamePlaces

\* Iterators that keep their position or end stay on result sets that exist.
LEMMA StillKept ==
  ASSUME TypeInv, iter' \in [Iterators -> IterType],
         \A x \in Results : Exists(x)' = Exists(x),
         \A i \in Iterators : \/ /\ iter'[i].rs = iter[i].rs
                                 /\ iter'[i].pos = iter[i].pos \/ iter'[i].pos = -1
                              \/ iter'[i].rs \in Results /\ Exists(iter'[i].rs)
  PROVE  Kept'
<1> SUFFICES ASSUME NEW i \in Iterators
             PROVE  /\ (iter[i].pos >= 0 => iter[i].rs # NoResult)'
                    /\ (iter[i].rs # NoResult => Exists(iter[i].rs))'
  BY DEF Kept
<1>1. iter[i].rs \in Results \cup {NoResult} /\ iter[i].pos \in -1..MaxPos
  BY DEF TypeInv, Typed, IterType
<1>2. /\ iter[i].pos >= 0 => iter[i].rs # NoResult
      /\ iter[i].rs # NoResult => Exists(iter[i].rs)
  BY DEF TypeInv, Kept
<1> QED  BY <1>1, <1>2, ResultSetAssumption

\* Giving up a buffer changes what rows refer to, never where iterators are.
LEMMA DetachedType ==
  ASSUME TypeInv, NEW r \in Results
  PROVE  /\ Detached(r) \in [Iterators -> IterType]
         /\ \A i \in Iterators : /\ Detached(r)[i].rs = iter[i].rs
                                 /\ Detached(r)[i].pos = iter[i].pos
<1> SUFFICES ASSUME NEW i \in Iterators
             PROVE  /\ Detached(r)[i] \in IterType
                    /\ Detached(r)[i].rs = iter[i].rs
                    /\ Detached(r)[i].pos = iter[i].pos
  BY DEF Detached
<1>1. iter[i] \in IterType /\ result[r].buf \in 0..MaxRows
  BY DEF TypeInv, Typed, ResultType
<1>2. /\ [iter[i] EXCEPT !.live = FALSE, !.row = result[r].buf] \in IterType
      /\ [iter[i] EXCEPT !.live = FALSE, !.row = result[r].buf].rs = iter[i].rs
      /\ [iter[i] EXCEPT !.live = FALSE, !.row = result[r].buf].pos = iter[i].pos
  BY <1>1 DEF IterType
<1> QED  BY <1>1, <1>2 DEF Detached

\* What an iterator holds after a move, and at the end.
LEMMA ViewingType ==
  ASSUME TypeInv, NEW r \in Results, NEW p \in 0..MaxPos, (rows \in 0..MaxRows)'
  PROVE  /\ Viewing(r, p) \in IterType /\ Viewing(r, p).rs = r
         /\ Ended(r) \in IterType /\ Ended(r).rs = r /\ Ended(r).pos = -1
<1>1. CurrentRow(result', cursor', r) \in 0..MaxRows
  BY CurrentRowType DEF TypeInv
<1> QED  BY <1>1, ResultSetAssumption DEF Viewing, Ended, IterType

\* next() of an existing result set, also as begin() and operator++ call it.
LEMMA NextImplType ==
  ASSUME TypeInv, NEW r \in Results, NEW call \in {"next", "begin"}, NEW rs, NEW cs,
         Base(rs, cs, r), NextImpl(call, rs, cs, r), UNCHANGED <<backend, rows>>
  PROVE  /\ result' \in [Results -> ResultType]
         /\ cursor' \in [Statements -> 0..(MaxRows + 1)]
         /\ target' \in [Statements -> Results \cup {NoResult}]
         /\ failed' \in SUBSET Statements
         /\ UNCHANGED freed
         /\ answer' \in AnswerType
         /\ Placed'
         /\ \A x \in Results : Exists(x)' = Exists(x)
<1>1. CASE rs[r].class = "sqlite" /\ rs[r].status = "done"
  <2>1. /\ answer' = [call |-> call, result |-> r, row |-> 0]
        /\ result' = rs /\ cursor' = cs /\ UNCHANGED <<target, failed, freed>>
    BY <1>1 DEF NextImpl
  <2>2. answer' \in AnswerType
    BY <2>1, ResultSetAssumption DEF AnswerType
  <2>3. Placed' /\ \A x \in Results : Exists(x)' = Exists(x)
    BY <2>1, SamePlaces DEF Base
  <2> QED  BY <2>1, <2>2, <2>3 DEF TypeInv, Typed, Base
<1>2. CASE ~(rs[r].class = "sqlite" /\ rs[r].status = "done")
  <2>1. PICK k \in Steps(rs, cs, r) : MoveTo(call, rs, cs, r, k, BoundTo(rs, r))
    BY <1>2 DEF NextImpl
  <2>2. k \in 1..(rows + 1)
    BY FromType
  <2>3. BoundTo(rs, r) \in Results \cup {NoResult}
    BY DEF BoundTo, TypeInv, Typed, Placed, Base
  <2>f. UNCHANGED freed
    BY <2>1 DEF MoveTo
  <2> HIDE DEF Steps, BoundTo, MoveTo
  <2>4. /\ result' \in [Results -> ResultType]
        /\ cursor' \in [Statements -> 0..(MaxRows + 1)]
        /\ target' \in [Statements -> Results \cup {NoResult}]
        /\ failed' \in SUBSET Statements
        /\ answer' \in AnswerType
        /\ \A x \in Results : /\ result'[x].class = result[x].class
                              /\ result'[x].stmt = result[x].stmt
    BY <2>1, <2>2, <2>3, MoveToType
  <2> QED  BY <2>4, <2>f, SamePlaces
<1> QED  BY <1>1, <1>2

\* Every operation keeps the type invariant.
LEMMA TypeInvNext == TypeInv /\ [Next]_vars => TypeInv'
<1> SUFFICES ASSUME TypeInv, Next  PROVE TypeInv'
  BY DEF vars, TypeInv, Typed, Placed, Kept, Exists
<1>0. UNCHANGED <<backend, rows>>
  BY DEF Next
<1>a. ASSUME UNCHANGED result  PROVE Placed' /\ \A x \in Results : Exists(x)' = Exists(x)
  BY <1>0, <1>a, SamePlaces
<1>b. ASSUME NEW r \in Results, NEW c \in {"next", "begin", "reset"},
             answer' = [call |-> c, result |-> r, row |-> 0]
      PROVE  answer' \in AnswerType
  BY <1>b, ResultSetAssumption DEF AnswerType
<1>c. /\ [cursor EXCEPT ![stmt] = 0] \in [Statements -> 0..(MaxRows + 1)]
      /\ \A r \in Results :
           [cursor EXCEPT ![result[r].stmt] = 0] \in [Statements -> 0..(MaxRows + 1)]
  <2>1. ASSUME NEW s  PROVE [cursor EXCEPT ![s] = 0] \in [Statements -> 0..(MaxRows + 1)]
    <3>1. cursor \in [Statements -> 0..(MaxRows + 1)] /\ 0 \in 0..(MaxRows + 1)
      BY ResultSetAssumption DEF TypeInv, Typed
    <3> QED  BY <3>1, Zenon
  <2> QED  BY <2>1
<1>d. ASSUME UNCHANGED iter, \A x \in Results : Exists(x)' = Exists(x)  PROVE Kept'
  BY <1>d, StillKept DEF TypeInv, Typed
<1>1. CASE Discard
  <2>1. /\ [cursor EXCEPT ![stmt] = 0] \in [Statements -> 0..(MaxRows + 1)]
        /\ cursor \in [Statements -> 0..(MaxRows + 1)]
        /\ target \in [Statements -> Results \cup {NoResult}]
    BY <1>c DEF TypeInv, Typed
  <2> DEFINE c == IF backend = "mysql" THEN [cursor EXCEPT ![stmt] = 0] ELSE cursor
  <2>2. PICK f \in Released : Closing(NoStmt, result, c, target, f)
    BY <1>1 DEF Discard
  <2>c. c \in [Statements -> 0..(MaxRows + 1)]
    BY <2>1
  <2> HIDE DEF c
  <2>3. /\ cursor' \in [Statements -> 0..(MaxRows + 1)]
        /\ target' \in [Statements -> Results \cup {NoResult}]
        /\ failed' \in SUBSET Statements
        /\ freed' \in SUBSET Statements
    BY <2>1, <2>2, <2>c, ClosingType
  <2>4. stmt' = NoStmt /\ UNCHANGED <<result, iter, answer>>
    BY <1>1 DEF Discard
  <2> QED  BY <1>0, <1>a, <1>d, <2>3, <2>4 DEF TypeInv, Typed
<1>2. CASE QueryReset
  <2>1. /\ stmt' \in {stmt, NoStmt} /\ UNCHANGED <<result, iter, answer>>
    BY <1>2 DEF QueryReset
  <2>2. /\ cursor' \in [Statements -> 0..(MaxRows + 1)]
        /\ target' \in [Statements -> Results \cup {NoResult}]
        /\ failed' \in SUBSET Statements
        /\ freed' \in SUBSET Statements
    <3>1. CASE stmt \in failed
      BY <1>2, <1>c, <3>1 DEF QueryReset, TypeInv, Typed
    <3>2. CASE stmt \notin failed
      <4>1. PICK f \in Released :
              Closing(NoStmt, result, [cursor EXCEPT ![stmt] = 0], target, f)
        BY <1>2, <3>2 DEF QueryReset
      <4>2. target \in [Statements -> Results \cup {NoResult}]
        BY DEF TypeInv, Typed
      <4> QED  BY <1>c, <4>1, <4>2, ClosingType
    <3> QED  BY <3>1, <3>2
  <2> QED  BY <1>0, <1>a, <1>d, <2>1, <2>2 DEF TypeInv, Typed
<1>3. ASSUME NEW r \in Results, Reexecute(r)  PROVE TypeInv'
  <2>1. backend \in {"sqlite", "postgres", "mysql"} /\ stmt \in Statements
    BY <1>3, ResultSetAssumption DEF Reexecute, TypeInv, Typed
  <2>2. /\ Opened(r, QueryClass, stmt) /\ UNCHANGED <<stmt, engine, iter, answer>>
    BY <1>3 DEF Reexecute
  <2>3. /\ QueryClass \in Classes /\ QueryClass # "none"
        /\ QueryClass = "sqlite" => backend = "sqlite"
        /\ QueryClass = "mysql_stmt" => backend = "mysql"
    BY <2>1 DEF QueryClass, Classes
  <2>4. result' \in [Results -> ResultType] /\ Placed' /\ Kept'
    BY <1>0, <2>1, <2>2, <2>3, OpenedType
  <2> QED  BY <1>0, <2>2, <2>4 DEF TypeInv, Typed, engine
<1>4. ASSUME NEW r \in Results, NEW s \in Statements, Execute(r, s)  PROVE TypeInv'
  <2> DEFINE q == IF backend = "postgres" THEN NoStmt ELSE s
  <2>1. backend \in {"sqlite", "postgres", "mysql"} /\ q \in Statements \cup {NoStmt}
        /\ (backend # "postgres" => q \in Statements)
    BY ResultSetAssumption DEF TypeInv, Typed
  <2>2. /\ Opened(r, QueryClass, q) /\ stmt' = q
        /\ UNCHANGED <<engine, iter, answer>>
    BY <1>4 DEF Execute
  <2> HIDE DEF q
  <2>3. /\ QueryClass \in Classes /\ QueryClass # "none"
        /\ QueryClass = "sqlite" => backend = "sqlite" /\ q \in Statements
        /\ QueryClass = "mysql_stmt" => backend = "mysql" /\ q \in Statements
    BY <2>1 DEF QueryClass, Classes
  <2>4. result' \in [Results -> ResultType] /\ Placed' /\ Kept'
    BY <1>0, <2>1, <2>2, <2>3, OpenedType
  <2> QED  BY <1>0, <2>1, <2>2, <2>4 DEF TypeInv, Typed, engine
<1>5. ASSUME NEW r \in Results, NEW s \in Statements, SessionQuery(r, s)  PROVE TypeInv'
  <2>1. backend \in {"sqlite", "postgres", "mysql"}
    BY ResultSetAssumption DEF TypeInv, Typed
  <2>2. /\ \/ backend = "sqlite" /\ Opened(r, "sqlite", s)
           \/ Opened(r, "pgresult", NoStmt)
           \/ Opened(r, "mysql_res", NoStmt)
        /\ UNCHANGED <<stmt, engine, iter, answer>>
    BY <1>5, <2>1 DEF SessionQuery
  <2>3. result' \in [Results -> ResultType] /\ Placed' /\ Kept'
    <3>1. {"sqlite", "pgresult", "mysql_res"} \subseteq Classes
      BY DEF Classes
    <3> QED  BY <1>0, <2>2, <3>1, OpenedType
  <2> QED  BY <1>0, <2>2, <2>3 DEF TypeInv, Typed, engine
<1>6. ASSUME NEW r \in Results, Drop(r)  PROVE TypeInv'
  <2> DEFINE rs == [result EXCEPT ![r] = None]
             t == [s \in Statements |-> IF target[s] = r THEN NoResult ELSE target[s]]
  <2>1. /\ \A i \in Iterators : iter[i].rs # r
        /\ result' = rs
        /\ Closing(stmt, rs, cursor, t, freed)
        /\ UNCHANGED <<stmt, iter, answer>>
    BY <1>6 DEF Drop
  <2>2. None \in ResultType /\ None.class = "none"
    BY ResultSetAssumption DEF None, Fresh, ResultType, Classes, Statuses
  <2>3. result' \in [Results -> ResultType]
    BY <2>1, <2>2 DEF TypeInv, Typed
  <2>4. \A x \in Results : x # r => result'[x] = result[x]
    BY <2>1 DEF TypeInv, Typed
  <2>5. result'[r].class = "none"
    BY <2>1, <2>2 DEF TypeInv, Typed
  <2>6. Placed'
    BY <1>0, <2>4, <2>5 DEF TypeInv, Placed
  <2>7. Kept'
    <3>1. \A i \in Iterators : iter[i].rs \in Results \cup {NoResult}
      BY DEF TypeInv, Typed, IterType
    <3> QED  BY <2>1, <2>4, <3>1 DEF TypeInv, Kept, Exists
  <2>8. /\ cursor' \in [Statements -> 0..(MaxRows + 1)]
        /\ target' \in [Statements -> Results \cup {NoResult}]
        /\ failed' \in SUBSET Statements
        /\ freed' \in SUBSET Statements
    <3>1. /\ t \in [Statements -> Results \cup {NoResult}]
          /\ cursor \in [Statements -> 0..(MaxRows + 1)]
      BY DEF TypeInv, Typed
    <3> HIDE DEF t, rs
    <3> QED  BY <2>1, <3>1, ClosingType
  <2> QED  BY <1>0, <2>1, <2>3, <2>6, <2>7, <2>8 DEF TypeInv, Typed
<1>7. ASSUME NEW r \in Results, NextRow(r)  PROVE TypeInv'
  <2>1. NextImpl("next", result, cursor, r) /\ UNCHANGED <<stmt, iter>>
    BY <1>7 DEF NextRow
  <2> HIDE DEF NextImpl
  <2> QED  BY <1>0, <1>d, <2>1, BaseHere, NextImplType DEF TypeInv, Typed
<1>e. ASSUME NEW r \in Results, StepFails(r)
      PROVE  /\ result' \in [Results -> ResultType]
             /\ cursor' \in [Statements -> 0..(MaxRows + 1)]
             /\ UNCHANGED <<target, freed>>
             /\ failed' \in SUBSET Statements
             /\ answer' \in AnswerType
             /\ Placed'
             /\ \A x \in Results : Exists(x)' = Exists(x)
  <2>1. /\ result[r].class = "sqlite"
        /\ cursor' = [cursor EXCEPT ![result[r].stmt] = 0]
        /\ failed' = failed \cup {result[r].stmt}
        /\ result' = [result EXCEPT ![r] = [result[r] EXCEPT !.status = "error"]]
        /\ answer' = [call |-> "next", result |-> r, row |-> 0]
        /\ UNCHANGED <<target, freed>>
    BY <1>e DEF StepFails, TypeInv, Typed
  <2>2. /\ [result[r] EXCEPT !.status = "error"] \in ResultType
        /\ [result[r] EXCEPT !.status = "error"].class = result[r].class
        /\ [result[r] EXCEPT !.status = "error"].stmt = result[r].stmt
    BY DEF TypeInv, Typed, ResultType, Statuses
  <2>3. /\ result' \in [Results -> ResultType]
        /\ Placed' /\ \A x \in Results : Exists(x)' = Exists(x)
    BY <1>0, <2>1, <2>2, OneResultType
  <2>4. failed' \in SUBSET Statements
    BY <2>1 DEF TypeInv, Typed, Placed
  <2> QED  BY <1>b, <1>c, <2>1, <2>3, <2>4
<1>8. ASSUME NEW r \in Results, NextFails(r)  PROVE TypeInv'
  <2>1. StepFails(r) /\ UNCHANGED <<stmt, iter>>
    BY <1>8 DEF NextFails
  <2> QED  BY <1>0, <1>d, <1>e, <2>1 DEF TypeInv, Typed
<1>9. ASSUME NEW r \in Results, NextThrows(r)  PROVE TypeInv'
  <2>1. /\ result' = [result EXCEPT ![r] = [result[r] EXCEPT !.status = "ready"]]
        /\ cursor' = [cursor EXCEPT ![result[r].stmt] = 0]
        /\ UNCHANGED <<stmt, target, failed, freed, iter, answer>>
    BY <1>9 DEF NextThrows, TypeInv, Typed
  <2>2. /\ [result[r] EXCEPT !.status = "ready"] \in ResultType
        /\ [result[r] EXCEPT !.status = "ready"].class = result[r].class
        /\ [result[r] EXCEPT !.status = "ready"].stmt = result[r].stmt
    BY DEF TypeInv, Typed, ResultType, Statuses
  <2>3. /\ result' \in [Results -> ResultType]
        /\ Placed' /\ \A x \in Results : Exists(x)' = Exists(x)
    BY <1>0, <2>1, <2>2, OneResultType
  <2> QED  BY <1>0, <1>c, <1>d, <2>1, <2>3 DEF TypeInv, Typed
<1>f. ASSUME NEW r \in Results, iter' = Detached(r),
             \A x \in Results : Exists(x)' = Exists(x)
      PROVE  iter' \in [Iterators -> IterType] /\ Kept'
  <2> HIDE DEF Detached
  <2> QED  BY <1>f, DetachedType, StillKept
<1>10. ASSUME NEW r \in Results, Reset(r)  PROVE TypeInv'
  <2> DEFINE v == [result[r] EXCEPT !.status = "fresh", !.row = 0, !.buf = 0]
  <2>1. /\ result' = [result EXCEPT ![r] = v]
        /\ cursor' = [s \in Statements |-> IF s = result[r].stmt THEN 0 ELSE cursor[s]]
        /\ iter' = Detached(r)
        /\ answer' = [call |-> "reset", result |-> r, row |-> 0]
        /\ UNCHANGED <<stmt, target, failed, freed>>
    BY <1>10 DEF Reset, ResetResult, ResetCursor, TypeInv, Typed
  <2>2. v \in ResultType /\ v.class = result[r].class /\ v.stmt = result[r].stmt
    <3>1. result[r] \in ResultType
      BY DEF TypeInv, Typed
    <3> QED  BY <3>1, EmptiedType DEF Emptied
  <2>3. /\ result' \in [Results -> ResultType]
        /\ Placed' /\ \A x \in Results : Exists(x)' = Exists(x)
    BY <1>0, <2>1, <2>2, OneResultType
  <2>4. cursor' \in [Statements -> 0..(MaxRows + 1)]
    BY <2>1, ResultSetAssumption DEF TypeInv, Typed
  <2> QED  BY <1>0, <1>b, <1>f, <2>1, <2>3, <2>4 DEF TypeInv, Typed
<1>11. ASSUME NEW r \in Results, ResetThrows(r)  PROVE TypeInv'
  <2>1. /\ iter' = Detached(r)
        /\ answer' = [call |-> "reset", result |-> r, row |-> 0]
        /\ UNCHANGED <<stmt, target, freed>>
    BY <1>11 DEF ResetThrows
  <2>2. /\ result' \in [Results -> ResultType]
        /\ Placed' /\ \A x \in Results : Exists(x)' = Exists(x)
        /\ cursor' \in [Statements -> 0..(MaxRows + 1)]
        /\ failed' \in SUBSET Statements
    <3>1. CASE result[r].class = "sqlite"
      BY <1>11, <1>a, <1>c, <3>1 DEF ResetThrows, TypeInv, Typed
    <3>2. CASE result[r].class # "sqlite"
      <4> DEFINE v == [result[r] EXCEPT !.status = "fresh", !.buf = 0]
      <4>1. result' = [result EXCEPT ![r] = v] /\ UNCHANGED <<cursor, failed>>
        BY <1>11, <3>2 DEF ResetThrows, TypeInv, Typed
      <4>2. v \in ResultType /\ v.class = result[r].class /\ v.stmt = result[r].stmt
        <5>1. result[r] \in ResultType
          BY DEF TypeInv, Typed
        <5> QED  BY <5>1, EmptiedType DEF Unbound
      <4>3. /\ result' \in [Results -> ResultType]
            /\ Placed' /\ \A x \in Results : Exists(x)' = Exists(x)
        BY <1>0, <4>1, <4>2, OneResultType
      <4> QED  BY <4>1, <4>3 DEF TypeInv, Typed
    <3> QED  BY <3>1, <3>2
  <2> QED  BY <1>0, <1>b, <1>f, <2>1, <2>2 DEF TypeInv, Typed
<1>12. ASSUME NEW r \in Results, NEW i \in Iterators, Begin(r, i)  PROVE TypeInv'
  <2> DEFINE v == IF Found(r) THEN Viewing(r, 0) ELSE Ended(r)
  <2>1. /\ Exists(r)
        /\ NextImpl("begin", ResetResult(r), ResetCursor(r), r)
        /\ iter' = [Detached(r) EXCEPT ![i] = v]
        /\ UNCHANGED stmt
    BY <1>12 DEF Begin
  <2>2. Base(ResetResult(r), ResetCursor(r), r)
    BY BaseReset
  <2>3. v \in IterType /\ v.rs = r
    BY <1>0, ResultSetAssumption, ViewingType DEF TypeInv, Typed
  <2> HIDE DEF NextImpl, v
  <2>4. /\ result' \in [Results -> ResultType]
        /\ cursor' \in [Statements -> 0..(MaxRows + 1)]
        /\ target' \in [Statements -> Results \cup {NoResult}]
        /\ failed' \in SUBSET Statements
        /\ UNCHANGED freed
        /\ answer' \in AnswerType
        /\ Placed'
        /\ \A x \in Results : Exists(x)' = Exists(x)
    BY <1>0, <2>1, <2>2, NextImplType
  <2>6. iter' \in [Iterators -> IterType] /\ Kept'
    <3>1. /\ iter' \in [Iterators -> IterType]
          /\ iter'[i].rs = r
          /\ \A j \in Iterators : j # i => /\ iter'[j].rs = iter[j].rs
                                           /\ iter'[j].pos = iter[j].pos
      BY <2>1, <2>3, DetachedType
    <3> QED  BY <2>1, <2>4, <3>1, StillKept
  <2> QED  BY <1>0, <2>1, <2>4, <2>6 DEF TypeInv, Typed
<1>g. ASSUME NEW i \in Iterators, NEW v \in IterType, iter' = [iter EXCEPT ![i] = v],
             \A x \in Results : Exists(x)' = Exists(x),
             v.rs = NoResult => v.pos < 0, v.rs # NoResult => Exists(v.rs)
      PROVE  iter' \in [Iterators -> IterType] /\ Kept'
  <2>1. iter' \in [Iterators -> IterType] /\ iter'[i] = v
        /\ \A j \in Iterators : j # i => iter'[j] = iter[j]
    BY <1>g DEF TypeInv, Typed
  <2>2. \A j \in Iterators : /\ iter'[j].rs \in Results \cup {NoResult}
                             /\ iter'[j].pos \in -1..MaxPos
    BY <2>1 DEF IterType
  <2> QED  BY <1>g, <2>1, <2>2, ResultSetAssumption DEF TypeInv, Kept
<1>h. ASSUME NEW i \in Iterators, iter[i].pos >= 0
      PROVE  iter[i].rs \in Results /\ Exists(iter[i].rs) /\ iter[i].pos \in 0..MaxPos
  BY <1>h, ResultSetAssumption DEF TypeInv, Typed, Kept, IterType
<1>13. ASSUME NEW i \in Iterators, Advance(i)  PROVE TypeInv'
  <2> DEFINE r == iter[i].rs
             v == IF Found(r) THEN Viewing(r, iter[i].pos + 1) ELSE Ended(r)
  <2>1. /\ iter[i].pos \in 0..(MaxPos - 1) /\ NextImpl("next", result, cursor, r)
        /\ iter' = [iter EXCEPT ![i] = v]
        /\ UNCHANGED stmt
    BY <1>13 DEF Advance, TypeInv, Typed
  <2>2. r \in Results /\ Exists(r) /\ iter[i].pos + 1 \in 0..MaxPos
    BY <1>h, <2>1, ResultSetAssumption
  <2>3. v \in IterType /\ v.rs = r
    BY <1>0, <2>2, ResultSetAssumption, ViewingType DEF TypeInv, Typed
  <2>4. r # NoResult
    BY <2>2, ResultSetAssumption
  <2> HIDE DEF v, r, NextImpl
  <2>5. /\ result' \in [Results -> ResultType]
        /\ cursor' \in [Statements -> 0..(MaxRows + 1)]
        /\ target' \in [Statements -> Results \cup {NoResult}]
        /\ failed' \in SUBSET Statements
        /\ UNCHANGED freed
        /\ answer' \in AnswerType
        /\ Placed'
        /\ \A x \in Results : Exists(x)' = Exists(x)
    BY <1>0, <2>1, <2>2, BaseHere, NextImplType
  <2>6. iter' \in [Iterators -> IterType] /\ Kept'
    BY <1>g, <2>1, <2>2, <2>3, <2>4, <2>5
  <2> QED  BY <1>0, <2>1, <2>5, <2>6 DEF TypeInv, Typed
<1>14. ASSUME NEW i \in Iterators, AdvanceFails(i)  PROVE TypeInv'
  <2> DEFINE r == iter[i].rs
  <2>1. /\ iter[i].pos >= 0 /\ StepFails(r)
        /\ iter' = [iter EXCEPT ![i] = Ended(r)]
        /\ UNCHANGED stmt
    BY <1>14 DEF AdvanceFails, TypeInv, Typed
  <2>2. r \in Results /\ Exists(r) /\ r # NoResult
    BY <1>h, <2>1, ResultSetAssumption
  <2>3. Ended(r) \in IterType /\ Ended(r).rs = r
    BY <2>2, ResultSetAssumption DEF Ended, IterType
  <2> HIDE DEF r
  <2>4. /\ result' \in [Results -> ResultType]
        /\ cursor' \in [Statements -> 0..(MaxRows + 1)]
        /\ UNCHANGED <<target, freed>>
        /\ failed' \in SUBSET Statements
        /\ answer' \in AnswerType
        /\ Placed'
        /\ \A x \in Results : Exists(x)' = Exists(x)
    BY <1>e, <2>1, <2>2
  <2>5. iter' \in [Iterators -> IterType] /\ Kept'
    BY <1>g, <2>1, <2>2, <2>3, <2>4
  <2> QED  BY <1>0, <2>1, <2>4, <2>5 DEF TypeInv, Typed
<1>15. ASSUME NEW i \in Iterators, NEW j \in Iterators, CopyIterator(i, j)  PROVE TypeInv'
  <2>1. /\ iter' = [iter EXCEPT ![j] = iter[i]] /\ iter[i].rs # NoResult
        /\ UNCHANGED <<stmt, engine, result, answer>>
    BY <1>15 DEF CopyIterator
  <2>2. iter[i] \in IterType /\ Exists(iter[i].rs)
    BY <2>1 DEF TypeInv, Typed, Kept
  <2>3. iter' \in [Iterators -> IterType] /\ Kept'
    BY <1>a, <1>g, <2>1, <2>2
  <2> QED  BY <1>0, <1>a, <2>1, <2>3 DEF TypeInv, Typed, engine
<1>16. ASSUME NEW i \in Iterators, Forget(i)  PROVE TypeInv'
  <2>1. /\ iter' = [iter EXCEPT ![i] = Ended(NoResult)]
        /\ UNCHANGED <<stmt, engine, result, answer>>
    BY <1>16 DEF Forget
  <2>2. /\ Ended(NoResult) \in IterType /\ Ended(NoResult).rs = NoResult
        /\ Ended(NoResult).pos < 0
    BY ResultSetAssumption DEF Ended, IterType
  <2>3. iter' \in [Iterators -> IterType] /\ Kept'
    BY <1>a, <1>g, <2>1, <2>2
  <2> QED  BY <1>0, <1>a, <2>1, <2>3 DEF TypeInv, Typed, engine
<1> QED  BY <1>1, <1>2, <1>3, <1>4, <1>5, <1>6, <1>7, <1>8, <1>9, <1>10, <1>11, <1>12,
            <1>13, <1>14, <1>15, <1>16 DEF Next

\* Type correctness: on every backend and for every client, the positions of
\* statements, result sets and iterators stay within the rows of the query, and
\* an iterator that is not at its end has a result set to move (resultset.h,
\* src/*/resultset.cpp).
THEOREM TypeCorrect == Spec => []TypeOK
<1>1. TypeInv => TypeOK
  BY TypedIsTypeOK DEF TypeInv
<1> QED  BY <1>1, TypeInvInit, TypeInvNext, PTL DEF Spec

-----------------------------------------------------------------------------
(* A disciplined client sees every result set as its own pass *)

\* No two result sets have one statement.
Exclusive ==
  \A s \in Statements : \A r, x \in Results : On(s, r) /\ On(s, x) => r = x

\* A statement that nobody has a use for has not been started.
Idle == \A s \in Statements : Unused(s) => cursor[s] = 0

\* postgres has no statement objects, and rows held in memory need none.
TextOnly ==
  /\ backend = "postgres" => stmt = NoStmt
  /\ \A r \in Results : result[r].class \in Owning => result[r].stmt = NoStmt

\* What a result set believes is where its statement stands.
SqliteAligned(r) ==
  LET s == result[r].stmt
  IN  /\ result[r].status \in {"fresh", "row", "done"}
      /\ result[r].status = "fresh" => cursor[s] \notin 1..rows
      /\ result[r].status = "row" => cursor[s] \in 1..rows

MysqlAligned(r) ==
  LET s == result[r].stmt
  IN  /\ result[r].status \in {"fresh", "ready"}
      /\ result[r].status = "ready" /\ cursor[s] > 0 => target[s] = r

AlignedOne(r) ==
  /\ result[r].class = "sqlite" => SqliteAligned(r)
  /\ result[r].class = "mysql_stmt" => MysqlAligned(r)
  /\ result[r].row <= rows + 1

Aligned ==
  /\ \A r \in Results : AlignedOne(r)
  /\ \A s \in Statements : cursor[s] <= rows + 1

IndInv == TypeInv /\ Exclusive /\ Idle /\ TextOnly /\ Aligned /\ failed = {} /\ freed = {}

\* The types IndInv gives, once.
LEMMA Types ==
  ASSUME IndInv
  PROVE  /\ rows \in Nat /\ backend \in {"sqlite", "postgres", "mysql"}
         /\ \A s \in Statements : cursor[s] \in 0..(rows + 1)
         /\ \A r \in Results : /\ result[r] \in ResultType
                               /\ result[r].row \in 0..(rows + 1)
                               /\ result[r].class \in Classes
                               /\ result[r].class \in {"sqlite", "mysql_stmt"}
                                    => result[r].stmt \in Statements
                               /\ result[r].class \in Owning => result[r].stmt = NoStmt
                               /\ AlignedOne(r)
BY ResultSetAssumption
DEF IndInv, TypeInv, Typed, Placed, ResultType, Aligned, AlignedOne, TextOnly

\* A result set that exists stands at a position of the query.
LEMMA AtType ==
  ASSUME IndInv, NEW r \in Results
  PROVE  IF Exists(r) THEN At(r) \in 0..(rows + 1) ELSE At(r) = -1
<1>1. CASE result[r].class = "none"
  BY <1>1 DEF At, Exists
<1>2. CASE result[r].class = "sqlite"
  BY <1>2, Types DEF At, Exists, AlignedOne, SqliteAligned
<1>3. CASE result[r].class = "mysql_stmt"
  BY <1>3, Types DEF At, Exists
<1>4. CASE result[r].class \in Owning
  BY <1>4, Types DEF At, Exists, Owning
<1> QED  BY <1>1, <1>2, <1>3, <1>4, Types DEF Classes, Owning

\* A result set whose statement is left alone stands where it stood.
LEMMA Untouched ==
  ASSUME IndInv, NEW x \in Results, UNCHANGED rows,
         result'[x] = result[x],
         ASSUME NEW s \in Statements, On(s, x)
         PROVE  cursor'[s] = cursor[s] /\ (target[s] = x => target'[s] = x)
  PROVE  At(x)' = At(x) /\ AlignedOne(x)'
<1>1. CASE result[x].class \in {"sqlite", "mysql_stmt"}
  <2>1. result[x].stmt \in Statements /\ On(result[x].stmt, x)
    BY <1>1, Types DEF On, Exists
  <2>2. /\ cursor'[result[x].stmt] = cursor[result[x].stmt]
        /\ target[result[x].stmt] = x => target'[result[x].stmt] = x
    BY <2>1
  <2> QED  BY <1>1, <2>2, Types DEF At, AlignedOne, SqliteAligned, MysqlAligned
<1>2. CASE result[x].class \notin {"sqlite", "mysql_stmt"}
  BY <1>2, Types DEF At, AlignedOne
<1> QED  BY <1>1, <1>2

\* What a move does to the result set that moves, when it fetches into its own
\* buffer, and to the others.
LEMMA MoveToShape ==
  ASSUME TypeInv, NEW call, NEW r \in Results, NEW k \in 1..(rows + 1), NEW t,
         t = (IF result[r].class = "mysql_stmt" THEN r ELSE NoResult),
         NEW rs, NEW cs, Base(rs, cs, r), MoveTo(call, rs, cs, r, k, t)
  PROVE  /\ \A x \in Results : x # r => result'[x] = result[x]
         /\ result[r].class \in Owning => result'[r].row = k
         /\ result[r].class \notin Owning => result'[r].row \in {0, result[r].row}
         /\ result[r].class = "sqlite" =>
              result'[r].status = IF k <= rows THEN "row" ELSE "done"
         /\ result[r].class = "mysql_stmt" =>
              /\ result'[r].status = "ready"
              /\ k <= rows => result'[r].buf = k
<1> DEFINE c == rs[r].class
           f(x) == CASE x = r /\ c \in Owning  -> [rs[x] EXCEPT !.row = k]
             [] x = r /\ c = "sqlite"  ->
                  [rs[x] EXCEPT !.status = IF k <= rows THEN "row" ELSE "done"]
             [] c = "mysql_stmt" /\ (x = r \/ x = t) ->
                  [rs[x] EXCEPT
                     !.status = IF x = r THEN "ready" ELSE @,
                     !.buf = IF x = t THEN Fetched(k, @) ELSE @]
             [] OTHER -> rs[x]
<1>1. result' = [x \in Results |-> f(x)]
  BY Zenon DEF MoveTo
<1>2. /\ rs[r] \in ResultType /\ c \in Classes /\ c = result[r].class
      /\ rs[r].row \in {0, result[r].row}
  BY DEF Base, ResultType
<1>3. ASSUME NEW x \in Results, x # r  PROVE f(x) = result[x]
  BY <1>2, <1>3, ResultSetAssumption DEF Base
<1>4. CASE c \in Owning
  <2>1. f(r) = [rs[r] EXCEPT !.row = k]
    BY <1>4 DEF Owning
  <2> HIDE DEF f
  <2>2. result'[r].row = k
    BY <1>1, <1>2, <2>1 DEF ResultType
  <2> QED  BY <1>1, <1>2, <1>3, <1>4, <2>2 DEF Owning
<1>5. CASE c = "sqlite"
  <2>1. f(r) = [rs[r] EXCEPT !.status = IF k <= rows THEN "row" ELSE "done"]
    BY <1>5 DEF Owning
  <2> HIDE DEF f
  <2>2. /\ result'[r].status = IF k <= rows THEN "row" ELSE "done"
        /\ result'[r].row = rs[r].row
    BY <1>1, <1>2, <2>1 DEF ResultType
  <2> QED  BY <1>1, <1>2, <1>3, <1>5, <2>2 DEF Owning
<1>6. CASE c = "mysql_stmt"
  <2> DEFINE v == [rs[r] EXCEPT !.status = "ready"]
             w == [v EXCEPT !.buf = Fetched(k, @)]
  <2>1. f(r) = w
    BY <1>2, <1>6 DEF Owning
  <2>2. v \in ResultType /\ v.status = "ready" /\ v.row = rs[r].row
    BY <1>2 DEF ResultType, Statuses
  <2> HIDE DEF f, v
  <2>3. w.status = "ready" /\ w.row = v.row /\ w.buf = Fetched(k, v.buf)
    BY <2>2 DEF ResultType
  <2> HIDE DEF w
  <2>4. /\ result'[r].status = "ready" /\ result'[r].row = rs[r].row
        /\ k <= rows => result'[r].buf = k
    BY <1>1, <2>1, <2>2, <2>3 DEF Fetched
  <2> QED  BY <1>1, <1>2, <1>3, <1>6, <2>4 DEF Owning
<1>7. CASE c = "none"
  <2>1. f(r) = rs[r]
    BY <1>7 DEF Owning
  <2> HIDE DEF f
  <2> QED  BY <1>1, <1>2, <1>3, <1>7, <2>1 DEF Owning
<1> QED  BY <1>2, <1>4, <1>5, <1>6, <1>7 DEF Classes, Owning

\* A move of one result set, seen from outside: it stands at k, gives the row k
\* if there is one, and no other result set has moved.
LEMMA Moved ==
  ASSUME IndInv, TypeInv', NEW call \in {"next", "begin"}, NEW r \in Results,
         NEW k \in 1..(rows + 1), NEW t, Exists(r),
         t = (IF result[r].class = "mysql_stmt" THEN r ELSE NoResult),
         NEW rs, NEW cs, Base(rs, cs, r), MoveTo(call, rs, cs, r, k, t),
         UNCHANGED <<backend, rows, stmt>>
  PROVE  /\ IndInv'
         /\ At(r)' = k
         /\ \A x \in Results : x # r => At(x)' = At(x) /\ result'[x] = result[x]
         /\ \A x \in Results : result'[x].class = result[x].class
         /\ k <= rows => CurrentRow(result', cursor', r) = k
         /\ answer' = [call |-> call, result |-> r, row |-> IF k <= rows THEN k ELSE 0]
         /\ Found(r) <=> k <= rows
<1> DEFINE c == result[r].class
           s == result[r].stmt
<1>0. rs[r].class = c /\ rs[r].stmt = s
  BY DEF Base
<1>1. /\ cursor' = [x \in Statements |-> IF c \notin Owning /\ x = s THEN k ELSE cs[x]]
      /\ target' = [x \in Statements |-> IF c = "mysql_stmt" /\ x = s THEN t ELSE target[x]]
      /\ failed' = IF c = "sqlite" THEN failed \ {s} ELSE failed
      /\ answer' = [call |-> call, result |-> r,
                    row |-> IF k <= rows THEN CurrentRow(result', cursor', r) ELSE 0]
      /\ UNCHANGED freed
  BY <1>0, Zenon DEF MoveTo
<1>2. /\ \A x \in Results : x # r => result'[x] = result[x]
      /\ c \in Owning => result'[r].row = k
      /\ c \notin Owning => result'[r].row \in {0, result[r].row}
      /\ c = "sqlite" => result'[r].status = IF k <= rows THEN "row" ELSE "done"
      /\ c = "mysql_stmt" => /\ result'[r].status = "ready"
                             /\ k <= rows => result'[r].buf = k
  BY MoveToShape DEF IndInv
<1>3. \A x \in Results : result'[x].class = result[x].class /\ result'[x].stmt = result[x].stmt
  <2>1. t \in Results \cup {NoResult} /\ TypeInv
    BY DEF IndInv
  <2> HIDE DEF MoveTo
  <2> QED  BY <2>1, MoveToType
<1> HIDE DEF MoveTo
<1>4. \A x \in Results, y \in Statements : On(y, x)' = On(y, x)
  BY <1>3 DEF On, Exists
<1>5. /\ c \in Classes \ {"none"} /\ (c \in Owning => s = NoStmt)
      /\ c \in {"sqlite", "mysql_stmt"} => s \in Statements /\ cursor'[s] = k
      /\ c = "mysql_stmt" => target'[s] = r
  BY <1>1, Types DEF Exists, Owning
<1>6. At(r)' = k /\ AlignedOne(r)'
  <2>1. CASE c = "sqlite"
    <3>1. AlignedOne(r)'
      BY <1>2, <1>3, <1>5, <2>1, Types DEF AlignedOne, SqliteAligned, Owning
    <3>2. At(r)' = k
      BY <1>2, <1>3, <1>5, <2>1, Types DEF At
    <3> QED  BY <3>1, <3>2
  <2>2. CASE c = "mysql_stmt"
    BY <1>2, <1>3, <1>5, <2>2, Types DEF At, AlignedOne, MysqlAligned, Owning
  <2>3. CASE c \in Owning
    BY <1>2, <1>3, <1>5, <2>3, Types DEF At, AlignedOne, Owning
  <2> QED  BY <1>5, <2>1, <2>2, <2>3 DEF Classes, Owning
<1>7. ASSUME NEW x \in Results, x # r  PROVE At(x)' = At(x) /\ AlignedOne(x)'
  <2>1. ASSUME NEW y \in Statements, On(y, x)
        PROVE  cursor'[y] = cursor[y] /\ (target[y] = x => target'[y] = x)
    <3>1. y # s
      BY <1>7, <2>1 DEF IndInv, Exclusive, On
    <3> QED  BY <1>1, <3>1 DEF Base
  <2> QED  BY <1>2, <1>7, <2>1, Untouched
<1>8. Aligned'
  <2>1. \A y \in Statements : cursor'[y] <= rows + 1
    BY <1>1, Types DEF Base
  <2> QED  BY <1>6, <1>7, <2>1 DEF Aligned
<1>9. Exclusive' /\ Idle' /\ TextOnly' /\ failed' = {} /\ freed' = {}
  <2>1. Exclusive'
    BY <1>4 DEF IndInv, Exclusive
  <2>2. \A y \in Statements : Unused(y)' => Unused(y)
    BY <1>4 DEF Unused
  <2>3. \A y \in Statements : Unused(y) => cursor'[y] = cursor[y]
    BY <1>1 DEF Unused, On, Base
  <2>4. Idle'
    BY <2>2, <2>3 DEF IndInv, Idle
  <2>5. TextOnly' /\ failed' = {} /\ freed' = {}
    BY <1>1, <1>3 DEF IndInv, TextOnly
  <2> QED  BY <2>1, <2>4, <2>5
<1>10. k <= rows => CurrentRow(result', cursor', r) = k
  BY <1>2, <1>3, <1>5, Types DEF CurrentRow, Classes, Owning
<1>11. Found(r) <=> k <= rows
  BY <1>2, <1>5 DEF Found, Classes, Owning
<1> QED  BY <1>1, <1>2, <1>3, <1>11, <1>6, <1>7, <1>8, <1>9, <1>10 DEF IndInv

\* next() of one result set, seen from outside.
LEMMA NextMoves ==
  ASSUME IndInv, TypeInv', NEW r \in Results, Exists(r),
         NextImpl("next", result, cursor, r),
         UNCHANGED <<backend, rows, stmt>>
  PROVE  /\ IndInv'
         /\ At(r) \in 0..(rows + 1)
         /\ At(r)' = After(At(r))
         /\ \A x \in Results : x # r => At(x)' = At(x) /\ result'[x] = result[x]
         /\ \A x \in Results : result'[x].class = result[x].class
         /\ After(At(r)) <= rows => CurrentRow(result', cursor', r) = After(At(r))
         /\ answer' = [call |-> "next", result |-> r,
                       row |-> IF After(At(r)) <= rows THEN After(At(r)) ELSE 0]
         /\ Found(r) <=> After(At(r)) <= rows
<1>1. At(r) \in 0..(rows + 1)
  BY AtType
<1>2. CASE result[r].class = "sqlite" /\ result[r].status = "done"
  <2>1. /\ answer' = [call |-> "next", result |-> r, row |-> 0]
        /\ UNCHANGED <<cursor, target, failed, freed, result>>
    BY <1>2 DEF NextImpl
  <2>2. At(r) = rows + 1
    BY <1>2 DEF At
  <2>3. \A x \in Results : At(x)' = At(x) /\ AlignedOne(x)'
    BY <2>1, Untouched
  <2>4. IndInv'
    BY <2>1, <2>3
    DEF IndInv, Exclusive, Idle, Unused, On, Exists, TextOnly, Aligned
  <2>5. After(At(r)) = rows + 1
    BY <2>2, Types DEF After
  <2>6. ~Found(r)
    BY <1>2, <2>1 DEF Found
  <2> QED  BY <1>1, <2>1, <2>2, <2>3, <2>4, <2>5, <2>6, Types
<1>3. CASE ~(result[r].class = "sqlite" /\ result[r].status = "done")
  <2>0. Steps(result, cursor, r) = {After(From(result, cursor, r))}
    BY DEF Steps, IndInv
  <2>1. /\ Served(result, cursor, r)
        /\ MoveTo("next", result, cursor, r, After(From(result, cursor, r)), BoundTo(result, r))
    BY <1>3, <2>0 DEF NextImpl
  <2>2. From(result, cursor, r) = At(r)
    <3>1. CASE result[r].class = "sqlite"
      <4>1. /\ result[r].status \in {"fresh", "row"}
            /\ result[r].status = "fresh" => cursor[result[r].stmt] \notin 1..rows
            /\ result[r].status = "row" => cursor[result[r].stmt] \in 1..rows
        BY <1>3, <3>1, Types DEF AlignedOne, SqliteAligned
      <4> QED  BY <3>1, <4>1, Types DEF From, At
    <3>2. CASE result[r].class = "mysql_stmt"
      BY <3>2 DEF From, At
    <3>3. CASE result[r].class \notin {"sqlite", "mysql_stmt"}
      BY <3>3 DEF From, At, Exists
    <3> QED  BY <3>1, <3>2, <3>3
  <2>3. BoundTo(result, r) = IF result[r].class = "mysql_stmt" THEN r ELSE NoResult
    <3>1. CASE result[r].class = "mysql_stmt"
      BY <2>1, <3>1, Types DEF BoundTo, Served, AlignedOne, MysqlAligned
    <3>2. CASE result[r].class # "mysql_stmt"
      BY <3>2 DEF BoundTo
    <3> QED  BY <3>1, <3>2
  <2>4. After(At(r)) \in 1..(rows + 1)
    BY <1>1, Types DEF After
  <2>5. MoveTo("next", result, cursor, r, After(At(r)), BoundTo(result, r))
    BY <2>1, <2>2
  <2> HIDE DEF MoveTo, After, BoundTo, At, Found
  <2>6. /\ IndInv'
        /\ At(r)' = After(At(r))
        /\ \A x \in Results : x # r => At(x)' = At(x) /\ result'[x] = result[x]
        /\ \A x \in Results : result'[x].class = result[x].class
        /\ After(At(r)) <= rows => CurrentRow(result', cursor', r) = After(At(r))
        /\ answer' = [call |-> "next", result |-> r,
                      row |-> IF After(At(r)) <= rows THEN After(At(r)) ELSE 0]
        /\ Found(r) <=> After(At(r)) <= rows
    BY <2>3, <2>4, <2>5, BaseHere, Moved DEF IndInv
  <2> QED  BY <1>1, <2>6
<1> QED  BY <1>2, <1>3

\* begin() of any client takes its result set, as reset() left it, to a row; to
\* the first one, or the end, if the statement has its parameters.
LEMMA BeginMoves ==
  ASSUME TypeInv, NEW r \in Results, NEW i \in Iterators, Begin(r, i), NEW t,
         t = (IF result[r].class = "mysql_stmt" THEN r ELSE NoResult)
  PROVE  \E k \in 1..(rows + 1) :
           /\ MoveTo("begin", ResetResult(r), ResetCursor(r), r, k, t)
           /\ result[r].stmt \notin freed => k = After(0)
<1> DEFINE rs == ResetResult(r)
           cs == ResetCursor(r)
<1>1. /\ Base(rs, cs, r) /\ rs[r].status = "fresh" /\ rs[r].row = 0
      /\ \A s \in Statements : s = result[r].stmt => cs[s] = 0
  BY BaseReset
<1>2. rs[r].class = result[r].class /\ rs[r].stmt = result[r].stmt
  BY <1>1 DEF Base
<1>3. NextImpl("begin", rs, cs, r)
  BY DEF Begin
<1> HIDE DEF rs, cs
<1>4. From(rs, cs, r) = 0
  <2>1. rows \in Nat
    BY ResultSetAssumption DEF TypeInv, Typed
  <2>2. CASE result[r].class = "sqlite"
    BY <1>1, <1>2, <2>1, <2>2 DEF From, TypeInv, Placed
  <2>3. CASE result[r].class # "sqlite"
    BY <1>1, <1>2, <2>3 DEF From
  <2> QED  BY <2>2, <2>3
<1>5. BoundTo(rs, r) = t
  BY <1>1, <1>2 DEF BoundTo
<1>6. PICK k \in Steps(rs, cs, r) : MoveTo("begin", rs, cs, r, k, t)
  BY <1>1, <1>3, <1>5 DEF NextImpl
<1>7. Steps(rs, cs, r) \subseteq 1..(rows + 1)
  BY <1>1, FromType
<1>8. result[r].stmt \notin freed => k = After(0)
  BY <1>2, <1>4, <1>6 DEF Steps
<1> QED  BY <1>6, <1>7, <1>8 DEF rs, cs

\* A new result set stands before the first row and disturbs no other.
LEMMA OpenedStep ==
  ASSUME IndInv, TypeInv', NEW r \in Results, NEW class \in Classes \ {"none"},
         NEW s \in Statements \cup {NoStmt}, ~Exists(r), Opened(r, class, s),
         class \in Owning => s = NoStmt,
         class = "sqlite" => cursor[s] \notin 1..rows,
         \A x \in Results : s \in Statements => ~On(s, x),
         stmt' = stmt \/ stmt = NoStmt,
         backend = "postgres" => stmt' = NoStmt,
         UNCHANGED <<backend, rows, engine, answer>>
  PROVE  IndInv' /\ Seq!OpenSeq(r)
<1>1. result' = [result EXCEPT ![r] = Fresh(class, s)]
  BY DEF Opened
<1>2. /\ result'[r] = Fresh(class, s)
      /\ \A x \in Results : x # r => result'[x] = result[x]
  BY <1>1 DEF IndInv, TypeInv, Typed
<1>3. /\ result'[r].class = class /\ result'[r].stmt = s
      /\ result'[r].status = "fresh" /\ result'[r].row = 0
  BY <1>2 DEF Fresh
<1>4. cursor' = cursor /\ target' = target /\ failed' = failed /\ freed' = freed
  BY DEF engine
<1>5. ASSUME NEW x \in Results, x # r  PROVE At(x)' = At(x) /\ AlignedOne(x)'
  BY <1>2, <1>4, <1>5, Untouched
<1>6. At(r)' = 0 /\ AlignedOne(r)'
  BY <1>3, <1>4, Types DEF At, AlignedOne, SqliteAligned, MysqlAligned
<1>7. \A x \in Results, y \in Statements :
        On(y, x)' <=> IF x = r THEN y = s ELSE On(y, x)
  BY <1>2, <1>3 DEF On, Exists
<1>8. Exclusive'
  BY <1>7 DEF IndInv, Exclusive
<1>9. Idle'
  <2>1. \A y \in Statements : Unused(y)' => Unused(y)
    BY <1>7, ResultSetAssumption DEF Unused, On
  <2> QED  BY <1>4, <2>1 DEF IndInv, Idle
<1>10. TextOnly'
  BY <1>2, <1>3 DEF IndInv, TextOnly
<1>11. Aligned'
  BY <1>4, <1>5, <1>6, Types DEF Aligned
<1>12. Seq!OpenSeq(r)
  BY <1>5, <1>6, AtType DEF Seq!OpenSeq, Seq!Closed
<1> QED  BY <1>4, <1>8, <1>9, <1>10, <1>11, <1>12 DEF IndInv

\* The deleters leave the statements that are still used as they are.
LEMMA ClosingStep ==
  ASSUME IndInv, NEW c, NEW t, NEW f, Closing(stmt', result', c, t, f)
  PROVE  /\ Idle' /\ failed' = {}
         /\ \A s \in freed' : s \in f /\ (s = stmt' \/ \E r \in Results : On(s, r)')
         /\ \A s \in Statements, r \in Results :
              On(s, r)' => cursor'[s] = c[s] /\ target'[s] = t[s]
         /\ \A s \in Statements : cursor'[s] \in {0, c[s]}
<1>1. \A s \in Statements :
        Unused(s)' <=> ~(s = stmt' \/ \E r \in Results :
                           result'[r].class # "none" /\ result'[r].stmt = s)
  BY DEF Unused, On, Exists
<1>2. Idle'
  BY <1>1 DEF Closing, Idle
<1>3. failed' = {}
  BY DEF Closing, IndInv
<1>4. \A s \in Statements, r \in Results :
        On(s, r)' => cursor'[s] = c[s] /\ target'[s] = t[s]
  BY DEF Closing, On, Exists
<1>5. \A s \in Statements : cursor'[s] \in {0, c[s]}
  BY DEF Closing
<1>6. \A s \in freed' : s \in f /\ (s = stmt' \/ \E r \in Results : On(s, r)')
  BY DEF Closing, On, Exists
<1> QED  BY <1>2, <1>3, <1>4, <1>5, <1>6

\* The initial states.
LEMMA IndInit == Init => IndInv /\ Seq!SeqInit
<1> SUFFICES ASSUME Init  PROVE IndInv /\ Seq!SeqInit
  OBVIOUS
<1>1. TypeInv
  BY TypeInvInit
<1>2. \A r \in Results : result[r] = None /\ result[r].class = "none"
                         /\ result[r].row = 0
  BY DEF Init, None, Fresh
<1>3. \A r \in Results : ~Exists(r) /\ At(r) = -1
  BY <1>2 DEF Exists, At
<1>4. Exclusive /\ Idle /\ failed = {} /\ freed = {}
  BY <1>3 DEF Init, Exclusive, Idle, On
<1>5. TextOnly /\ Aligned
  <2>1. rows \in Nat
    BY ResultSetAssumption DEF Init
  <2> QED  BY <1>2, <2>1 DEF Init, TextOnly, Owning, Aligned, AlignedOne
<1>6. Seq!SeqInit
  BY <1>3 DEF Init, Seq!SeqInit, Seq!Closed
<1> QED  BY <1>1, <1>4, <1>5, <1>6 DEF IndInv

\* Every operation of a disciplined client keeps IndInv, and which step of
\* RowSequence it is.
LEMMA StepRefines ==
  ASSUME Disciplined, IndInv, Next
  PROVE  /\ IndInv'
         /\ (\/ Discard \/ QueryReset
             \/ \E r \in Results : NextThrows(r)
             \/ UNCHANGED <<stmt, engine, result, answer>>)
              => UNCHANGED Seq!seqVars
         /\ \A r \in Results :
              /\ Reexecute(r) \/ (\E s \in Statements : Execute(r, s) \/ SessionQuery(r, s))
                   => Seq!OpenSeq(r)
              /\ Drop(r) => Seq!CloseSeq(r)
              /\ Reset(r) \/ ResetThrows(r) => Seq!Rewind(r)
              /\ NextRow(r) => Seq!Take("next", r, At(r))
              /\ (\E i \in Iterators : Begin(r, i)) => Seq!Take("begin", r, 0)
         /\ \A i \in Iterators :
              Advance(i) => iter[i].rs \in Results /\ Seq!Take("next", iter[i].rs, At(iter[i].rs))
         /\ \/ Discard \/ QueryReset
            \/ \E r \in Results : \/ Reexecute(r) \/ Drop(r) \/ NextRow(r) \/ NextThrows(r)
                                  \/ Reset(r) \/ ResetThrows(r)
                                  \/ \E s \in Statements : Execute(r, s) \/ SessionQuery(r, s)
                                  \/ \E i \in Iterators : Begin(r, i)
            \/ \E i \in Iterators : Advance(i) \/ Forget(i) \/ \E j \in Iterators : CopyIterator(i, j)
<1>0. UNCHANGED <<backend, rows>>
  BY DEF Next
<1>t. TypeInv /\ TypeInv'
  BY TypeInvNext DEF IndInv
<1>r. \A c \in Risky : c \notin Calls
  BY DEF Disciplined
<1>s. ASSUME \A x \in Results : At(x)' = At(x), UNCHANGED answer
      PROVE  UNCHANGED Seq!seqVars
  BY <1>0, <1>s DEF Seq!seqVars
<1>k. ASSUME NEW r \in Results, NEW call \in {"next", "begin"}, NEW j \in 0..(rows + 1),
             Exists(r), At(r)' = After(j),
             \A x \in Results : x # r => At(x)' = At(x),
             answer' = [call |-> call, result |-> r,
                        row |-> IF After(j) <= rows THEN After(j) ELSE 0]
      PROVE  Seq!Take(call, r, j)
  <2>1. At(r) # -1
    BY <1>k, AtType
  <2>2. (IF After(j) <= rows THEN After(j) ELSE 0) = (IF j < rows THEN j + 1 ELSE 0)
    BY Types DEF After
  <2> QED  BY <1>k, <2>1, <2>2 DEF Seq!Take, Seq!Closed, After
<1>1. ASSUME Discard  PROVE IndInv' /\ UNCHANGED Seq!seqVars
  <2> DEFINE c == IF backend = "mysql" THEN [cursor EXCEPT ![stmt] = 0] ELSE cursor
  <2>1. /\ stmt \in Statements /\ stmt' = NoStmt
        /\ UNCHANGED <<result, iter, answer>>
    BY <1>1, <1>t DEF Discard, TypeInv, Typed
  <2>f. PICK f \in Released :
          /\ backend # "mysql" \/ \A r \in Results : On(stmt, r) => f = freed /\ result[r].status # "ready"
          /\ Closing(stmt', result', c, target, f)
    BY <1>1, <1>r, <2>1 DEF Discard, Risky
  <2>2. \A s \in Statements : c[s] = IF backend = "mysql" /\ s = stmt THEN 0 ELSE cursor[s]
    BY <1>t DEF TypeInv, Typed
  <2> HIDE DEF c
  <2>3. /\ Idle' /\ failed' = {}
        /\ \A s \in Statements, r \in Results :
             On(s, r)' => cursor'[s] = c[s] /\ target'[s] = target[s]
        /\ \A s \in Statements : cursor'[s] \in {0, c[s]}
        /\ \A s \in freed' : s \in f /\ (s = stmt' \/ \E r \in Results : On(s, r)')
    BY <2>f, ClosingStep
  <2>4. \A s \in Statements, r \in Results : On(s, r)' = On(s, r)
    BY <2>1 DEF On, Exists
  <2>8. freed' = {}
    <3>1. CASE f = freed
      BY <2>3, <3>1 DEF IndInv
    <3>2. CASE f # freed
      <4>1. f = freed \cup {stmt} /\ \A r \in Results : ~On(stmt, r)
        BY <2>f, <3>2 DEF Released
      <4>2. ASSUME NEW s \in freed'  PROVE FALSE
        <5>1. s = stmt
          BY <2>3, <4>1, <4>2 DEF IndInv
        <5> QED  BY <2>1, <2>3, <2>4, <4>1, <4>2, <5>1, ResultSetAssumption
      <4> QED  BY <4>2
    <3> QED  BY <3>1, <3>2
  <2>5. ASSUME NEW x \in Results  PROVE At(x)' = At(x) /\ AlignedOne(x)'
    <3>1. CASE backend = "mysql" /\ On(stmt, x)
      <4>1. result[x].class = "mysql_stmt"
        BY <3>1, <2>1, <1>t, ResultSetAssumption, Types
        DEF On, Exists, TypeInv, Placed, Classes, Owning
      <4>2. result[x].status # "ready"
        BY <2>f, <3>1
      <4> QED  BY <1>0, <2>1, <4>1, <4>2, Types DEF At, AlignedOne, MysqlAligned
    <3>2. CASE ~(backend = "mysql" /\ On(stmt, x))
      BY <1>0, <2>1, <2>2, <2>3, <2>4, <3>2, Untouched
    <3> QED  BY <3>1, <3>2
  <2>6. Exclusive' /\ TextOnly'
    BY <1>0, <2>1, <2>4 DEF IndInv, Exclusive, TextOnly
  <2>7. Aligned'
    BY <1>0, <2>2, <2>3, <2>5, Types DEF Aligned
  <2> QED  BY <1>s, <1>t, <2>1, <2>3, <2>5, <2>6, <2>7, <2>8 DEF IndInv
<1>2. ASSUME QueryReset  PROVE IndInv' /\ UNCHANGED Seq!seqVars
  <2> DEFINE c == [cursor EXCEPT ![stmt] = 0]
  <2>1. /\ stmt \in Statements /\ stmt' = NoStmt
        /\ \A r \in Results : ~On(stmt, r)
        /\ UNCHANGED <<result, iter, answer>>
    BY <1>2, <1>t, <1>r DEF QueryReset, TypeInv, Typed, IndInv, Risky
  <2>f. PICK f \in Released : Closing(stmt', result', c, target, f)
    BY <1>2, <2>1 DEF QueryReset, IndInv
  <2>2. \A s \in Statements : c[s] = IF s = stmt THEN 0 ELSE cursor[s]
    BY <1>t DEF TypeInv, Typed
  <2> HIDE DEF c
  <2>3. /\ Idle' /\ failed' = {}
        /\ \A s \in Statements, r \in Results :
             On(s, r)' => cursor'[s] = c[s] /\ target'[s] = target[s]
        /\ \A s \in Statements : cursor'[s] \in {0, c[s]}
        /\ \A s \in freed' : s \in f /\ (s = stmt' \/ \E r \in Results : On(s, r)')
    BY <2>f, ClosingStep
  <2>4. \A s \in Statements, r \in Results : On(s, r)' = On(s, r)
    BY <2>1 DEF On, Exists
  <2>8. freed' = {}
    <3>1. f \subseteq freed \cup {stmt}
      BY <2>f DEF Released
    <3>2. ASSUME NEW s \in freed'  PROVE FALSE
      <4>1. s = stmt
        BY <2>3, <3>1, <3>2 DEF IndInv
      <4> QED  BY <2>1, <2>3, <2>4, <3>2, <4>1, ResultSetAssumption
    <3> QED  BY <3>2
  <2>5. ASSUME NEW x \in Results  PROVE At(x)' = At(x) /\ AlignedOne(x)'
    BY <1>0, <2>1, <2>2, <2>3, <2>4, Untouched
  <2>6. Exclusive' /\ TextOnly'
    BY <1>0, <2>1, <2>4 DEF IndInv, Exclusive, TextOnly
  <2>7. Aligned'
    BY <1>0, <2>2, <2>3, <2>5, Types DEF Aligned
  <2> QED  BY <1>s, <1>t, <2>1, <2>3, <2>5, <2>6, <2>7, <2>8 DEF IndInv
<1>3. ASSUME NEW r \in Results, Reexecute(r)  PROVE IndInv' /\ Seq!OpenSeq(r)
  <2>1. /\ ~Exists(r) /\ stmt \in Statements
        /\ \A x \in Results : ~On(stmt, x)
        /\ backend = "mysql" \/ cursor[stmt] \notin 1..rows
        /\ Opened(r, QueryClass, stmt)
        /\ UNCHANGED <<stmt, engine, iter, answer>>
    BY <1>3, <1>t, <1>r DEF Reexecute, TypeInv, Typed, Risky
  <2>2. backend \in {"sqlite", "mysql"}
    BY <2>1, Types, ResultSetAssumption DEF IndInv, TextOnly
  <2>3. /\ QueryClass \in {"sqlite", "mysql_stmt"}
        /\ QueryClass = "sqlite" => backend = "sqlite"
    BY <2>2 DEF QueryClass
  <2>4. /\ QueryClass \in Classes \ {"none"} /\ QueryClass \notin Owning
    BY <2>3 DEF Classes, Owning
  <2> HIDE DEF QueryClass
  <2> QED  BY <1>0, <1>t, <2>1, <2>2, <2>3, <2>4, OpenedStep
<1>4. ASSUME NEW r \in Results, NEW s \in Statements, Execute(r, s)
      PROVE  IndInv' /\ Seq!OpenSeq(r)
  <2> DEFINE q == IF backend = "postgres" THEN NoStmt ELSE s
  <2>1. /\ ~Exists(r) /\ stmt = NoStmt /\ Unused(s)
        /\ Opened(r, QueryClass, q) /\ stmt' = q
        /\ UNCHANGED <<engine, iter, answer>>
    BY <1>4 DEF Execute
  <2>2. /\ QueryClass \in Classes \ {"none"}
        /\ QueryClass \in Owning => q = NoStmt
        /\ QueryClass = "sqlite" => q = s
        /\ q \in Statements => q = s
        /\ q \in Statements \cup {NoStmt}
    BY Types, ResultSetAssumption DEF QueryClass, Classes, Owning
  <2>3. cursor[s] = 0 /\ \A x \in Results : ~On(s, x)
    BY <2>1 DEF IndInv, Idle, Unused
  <2>4. backend = "postgres" => stmt' = NoStmt
    BY <2>1
  <2> HIDE DEF QueryClass, q
  <2> QED  BY <1>0, <1>t, <2>1, <2>2, <2>3, <2>4, OpenedStep
<1>5. ASSUME NEW r \in Results, NEW s \in Statements, SessionQuery(r, s)
      PROVE  IndInv' /\ Seq!OpenSeq(r)
  <2>1. /\ ~Exists(r) /\ Unused(s)
        /\ \/ Opened(r, "sqlite", s)
           \/ Opened(r, "pgresult", NoStmt)
           \/ Opened(r, "mysql_res", NoStmt)
        /\ UNCHANGED <<stmt, engine, iter, answer>>
    BY <1>5, Types DEF SessionQuery
  <2>2. cursor[s] = 0 /\ \A x \in Results : ~On(s, x)
    BY <2>1 DEF IndInv, Idle, Unused
  <2>3. /\ {"sqlite", "pgresult", "mysql_res"} \subseteq Classes \ {"none"}
        /\ "sqlite" \notin Owning /\ NoStmt \notin Statements
    BY ResultSetAssumption DEF Classes, Owning
  <2>4. backend = "postgres" => stmt' = NoStmt
    BY <2>1 DEF IndInv, TextOnly
  <2>5. CASE Opened(r, "sqlite", s)
    BY <1>0, <1>t, <2>1, <2>2, <2>3, <2>4, <2>5, OpenedStep
  <2>6. CASE Opened(r, "pgresult", NoStmt)
    BY <1>0, <1>t, <2>1, <2>3, <2>4, <2>6, OpenedStep
  <2>7. CASE Opened(r, "mysql_res", NoStmt)
    BY <1>0, <1>t, <2>1, <2>3, <2>4, <2>7, OpenedStep
  <2> QED  BY <2>1, <2>5, <2>6, <2>7
<1>6. ASSUME NEW r \in Results, Drop(r)  PROVE IndInv' /\ Seq!CloseSeq(r)
  <2> DEFINE t == [s \in Statements |-> IF target[s] = r THEN NoResult ELSE target[s]]
  <2>1. /\ result' = [result EXCEPT ![r] = None]
        /\ Closing(stmt', result', cursor, t, freed)
        /\ UNCHANGED <<stmt, iter, answer>>
    BY <1>6 DEF Drop
  <2>2. /\ result'[r].class = "none" /\ result'[r].row = 0
        /\ \A x \in Results : x # r => result'[x] = result[x]
    <3>1. None.class = "none" /\ None.row = 0
      BY DEF None, Fresh
    <3> QED  BY <1>t, <2>1, <3>1 DEF TypeInv, Typed
  <2>3. \A s \in Statements : \A x \in Results \ {r} : target[s] = x => t[s] = x
    OBVIOUS
  <2> HIDE DEF t
  <2>4. /\ Idle' /\ failed' = {}
        /\ \A s \in Statements, x \in Results :
             On(s, x)' => cursor'[s] = cursor[s] /\ target'[s] = t[s]
        /\ \A s \in Statements : cursor'[s] \in {0, cursor[s]}
        /\ freed' = {}
    BY <2>1, ClosingStep DEF IndInv
  <2>5. \A s \in Statements, x \in Results : On(s, x)' <=> x # r /\ On(s, x)
    BY <2>2 DEF On, Exists
  <2>6. ASSUME NEW x \in Results, x # r  PROVE At(x)' = At(x) /\ AlignedOne(x)'
    BY <1>0, <2>2, <2>3, <2>4, <2>5, <2>6, Untouched
  <2>7. At(r)' = -1 /\ AlignedOne(r)'
    BY <1>0, <2>2, Types DEF At, AlignedOne
  <2>8. Exclusive' /\ TextOnly'
    BY <1>0, <2>1, <2>2, <2>5 DEF IndInv, Exclusive, TextOnly, Owning
  <2>9. Aligned'
    BY <1>0, <2>4, <2>6, <2>7, Types DEF Aligned
  <2>10. Seq!CloseSeq(r)
    BY <2>1, <2>6, <2>7 DEF Seq!CloseSeq, Seq!Closed
  <2> QED  BY <1>t, <2>4, <2>8, <2>9, <2>10 DEF IndInv
<1>n. ASSUME NEW r \in Results, Exists(r), NextImpl("next", result, cursor, r), UNCHANGED stmt
      PROVE  IndInv' /\ Seq!Take("next", r, At(r))
  <2> HIDE DEF NextImpl, At, After
  <2> QED  BY <1>0, <1>k, <1>n, <1>t, NextMoves
<1>7. ASSUME NEW r \in Results, NextRow(r)  PROVE IndInv' /\ Seq!Take("next", r, At(r))
  BY <1>7, <1>n DEF NextRow
<1>8. ASSUME NEW r \in Results, StepFails(r)  PROVE FALSE
  BY <1>8, <1>r DEF StepFails, Risky
<1>9. ASSUME NEW r \in Results, NextThrows(r)  PROVE IndInv' /\ UNCHANGED Seq!seqVars
  <2>1. /\ result[r].class = "mysql_stmt" /\ result[r].status = "fresh"
        /\ result' = [result EXCEPT ![r] = [result[r] EXCEPT !.status = "ready"]]
        /\ cursor' = [cursor EXCEPT ![result[r].stmt] = 0]
        /\ UNCHANGED <<stmt, target, failed, freed, iter, answer>>
    BY <1>9, <1>t DEF NextThrows, TypeInv, Typed
  <2>2. /\ result'[r].class = "mysql_stmt" /\ result'[r].stmt = result[r].stmt
        /\ result'[r].status = "ready" /\ result'[r].row = result[r].row
        /\ \A x \in Results : x # r => result'[x] = result[x]
    <3>1. result[r] \in ResultType /\ result \in [Results -> ResultType]
      BY <1>t DEF TypeInv, Typed
    <3> QED  BY <2>1, <3>1 DEF ResultType
  <2>3. /\ result[r].stmt \in Statements
        /\ \A s \in Statements : cursor'[s] = IF s = result[r].stmt THEN 0 ELSE cursor[s]
    BY <1>t, <2>1, Types DEF TypeInv, Typed
  <2>4. \A s \in Statements, x \in Results : On(s, x)' = On(s, x)
    BY <2>1, <2>2 DEF On, Exists
  <2>5. At(r)' = At(r) /\ AlignedOne(r)'
    BY <1>0, <2>1, <2>2, <2>3, Types DEF At, AlignedOne, MysqlAligned
  <2>6. ASSUME NEW x \in Results, x # r  PROVE At(x)' = At(x) /\ AlignedOne(x)'
    <3>1. ~On(result[r].stmt, x)
      BY <2>1, <2>3, <2>6 DEF IndInv, Exclusive, On, Exists
    <3> QED  BY <1>0, <2>1, <2>2, <2>3, <2>6, <3>1, Untouched
  <2>7. Exclusive' /\ TextOnly' /\ Idle'
    <3>1. Exclusive'
      BY <2>4 DEF IndInv, Exclusive
    <3>2. TextOnly'
      BY <1>0, <2>1, <2>2 DEF IndInv, TextOnly, Owning
    <3>3. Idle'
      BY <2>1, <2>3, <2>4 DEF IndInv, Idle, Unused
    <3> QED  BY <3>1, <3>2, <3>3
  <2>8. Aligned'
    BY <1>0, <2>3, <2>5, <2>6, Types DEF Aligned
  <2> QED  BY <1>s, <1>t, <2>1, <2>5, <2>6, <2>7, <2>8 DEF IndInv
<1>w. ASSUME NEW r \in Results, NEW v, Exists(r), result' = [result EXCEPT ![r] = v],
             v.class = result[r].class, v.stmt = result[r].stmt, v.status = "fresh",
             v.row \in 0..(rows + 1), result[r].class \in Owning => v.row = 0,
             \A s \in Statements :
               \/ cursor'[s] = cursor[s] /\ result[r].class # "sqlite"
               \/ cursor'[s] = IF s = result[r].stmt THEN 0 ELSE cursor[s],
             answer' = [call |-> "reset", result |-> r, row |-> 0],
             UNCHANGED <<stmt, target, failed, freed>>
      PROVE  IndInv' /\ Seq!Rewind(r)
  <2>1. result'[r] = v /\ \A x \in Results : x # r => result'[x] = result[x]
    BY <1>t, <1>w DEF TypeInv, Typed
  <2>2. \A s \in Statements, x \in Results : On(s, x)' = On(s, x)
    BY <1>w, <2>1 DEF On, Exists
  <2>3. At(r)' = 0 /\ AlignedOne(r)'
    <3>1. result[r].class \in Classes \ {"none"}
      BY <1>w, Types DEF Exists
    <3> QED  BY <1>0, <1>w, <2>1, <3>1, Types
             DEF At, AlignedOne, SqliteAligned, MysqlAligned, Classes, Owning
  <2>4. ASSUME NEW x \in Results, x # r  PROVE At(x)' = At(x) /\ AlignedOne(x)'
    <3>1. ASSUME NEW s \in Statements, On(s, x)  PROVE s # result[r].stmt
      BY <1>w, <2>4, <3>1 DEF IndInv, Exclusive, On
    <3> QED  BY <1>0, <1>w, <2>1, <2>4, <3>1, Untouched
  <2>5. Exclusive' /\ TextOnly' /\ Idle'
    <3>1. Exclusive'
      BY <2>2 DEF IndInv, Exclusive
    <3>2. TextOnly'
      BY <1>0, <1>w, <2>1 DEF IndInv, TextOnly
    <3>3. Idle'
      BY <1>w, <2>2 DEF IndInv, Idle, Unused
    <3> QED  BY <3>1, <3>2, <3>3
  <2>6. Aligned'
    <3>1. \A s \in Statements : cursor'[s] \in {0, cursor[s]}
      BY <1>w
    <3> QED  BY <1>0, <2>3, <2>4, <3>1, Types DEF Aligned
  <2>7. Seq!Rewind(r)
    <3>1. At(r) # -1 /\ answer' = [call |-> "reset", result |-> r, row |-> 0]
      BY <1>w, AtType
    <3> QED  BY <2>3, <2>4, <3>1 DEF Seq!Rewind, Seq!Closed
  <2> QED  BY <1>t, <1>w, <2>5, <2>6, <2>7 DEF IndInv
<1>10. ASSUME NEW r \in Results, Reset(r)  PROVE IndInv' /\ Seq!Rewind(r)
  <2> DEFINE v == Emptied(result[r])
  <2>1. /\ Exists(r)
        /\ result' = [result EXCEPT ![r] = v]
        /\ cursor' = [s \in Statements |-> IF s = result[r].stmt THEN 0 ELSE cursor[s]]
        /\ answer' = [call |-> "reset", result |-> r, row |-> 0]
        /\ UNCHANGED <<stmt, target, failed, freed>>
    BY <1>10, <1>t DEF Reset, ResetResult, ResetCursor, Emptied, TypeInv, Typed
  <2>2. /\ v.class = result[r].class /\ v.stmt = result[r].stmt
        /\ v.status = "fresh" /\ v.row = 0
    BY EmptiedType, Types
  <2>3. v.row \in 0..(rows + 1)
    BY <2>2, Types
  <2> HIDE DEF v
  <2> QED  BY <1>w, <2>1, <2>2, <2>3
<1>11. ASSUME NEW r \in Results, ResetThrows(r)  PROVE IndInv' /\ Seq!Rewind(r)
  <2> DEFINE v == Unbound(result[r])
  <2>1. Exists(r) /\ result[r].class = "mysql_stmt"
    BY <1>11 DEF ResetThrows, ResetRefused, IndInv
  <2>2. /\ result' = [result EXCEPT ![r] = v]
        /\ answer' = [call |-> "reset", result |-> r, row |-> 0]
        /\ UNCHANGED <<stmt, cursor, target, failed, freed>>
    BY <1>11, <1>t, <2>1 DEF ResetThrows, Unbound, TypeInv, Typed
  <2>3. /\ v.class = result[r].class /\ v.stmt = result[r].stmt
        /\ v.status = "fresh" /\ v.row = result[r].row
    BY EmptiedType, Types
  <2>4. v.row \in 0..(rows + 1) /\ result[r].class \notin Owning
    BY <2>1, <2>3, Types DEF Owning
  <2> HIDE DEF v
  <2> QED  BY <1>w, <2>1, <2>2, <2>3, <2>4
<1>12. ASSUME NEW r \in Results, NEW i \in Iterators, Begin(r, i)
       PROVE  IndInv' /\ Seq!Take("begin", r, 0)
  <2> DEFINE t == IF result[r].class = "mysql_stmt" THEN r ELSE NoResult
             rs == ResetResult(r)
             cs == ResetCursor(r)
  <2>1. Exists(r) /\ UNCHANGED stmt
    BY <1>12 DEF Begin
  <2>2. MoveTo("begin", rs, cs, r, After(0), t)
    BY <1>12, <1>t, BeginMoves DEF IndInv
  <2>3. After(0) \in 1..(rows + 1) /\ 0 \in 0..(rows + 1) /\ Base(rs, cs, r)
    BY <1>t, BaseReset, Types DEF After
  <2> HIDE DEF MoveTo, After, At, rs, cs
  <2>4. /\ IndInv'
        /\ At(r)' = After(0)
        /\ \A x \in Results : x # r => At(x)' = At(x)
        /\ answer' = [call |-> "begin", result |-> r,
                      row |-> IF After(0) <= rows THEN After(0) ELSE 0]
    BY <1>0, <1>t, <2>1, <2>2, <2>3, Moved
  <2> QED  BY <1>k, <2>1, <2>3, <2>4
<1>13. ASSUME NEW i \in Iterators, Advance(i)
       PROVE  IndInv' /\ iter[i].rs \in Results /\ Seq!Take("next", iter[i].rs, At(iter[i].rs))
  <2>1. iter[i].pos >= 0 /\ NextImpl("next", result, cursor, iter[i].rs) /\ UNCHANGED stmt
    BY <1>13, ResultSetAssumption DEF Advance
  <2>2. iter[i].rs \in Results /\ Exists(iter[i].rs)
    BY <1>t, <2>1 DEF TypeInv, Typed, Kept, IterType
  <2> HIDE DEF NextImpl, At
  <2> QED  BY <1>n, <2>1, <2>2
<1>14. ASSUME NEW i \in Iterators, AdvanceFails(i)  PROVE FALSE
  BY <1>14, <1>r DEF AdvanceFails, StepFails, Risky
<1>15. ASSUME UNCHANGED <<stmt, engine, result, answer>>
       PROVE  IndInv' /\ UNCHANGED Seq!seqVars
  <2>1. UNCHANGED <<cursor, target, failed, freed>>
    BY <1>15 DEF engine
  <2>2. \A x \in Results : At(x)' = At(x) /\ AlignedOne(x)'
    BY <1>0, <1>15, <2>1, Untouched
  <2>3. IndInv'
    BY <1>0, <1>15, <1>t, <2>1, <2>2
    DEF IndInv, Exclusive, Idle, Unused, On, Exists, TextOnly, Aligned
  <2> QED  BY <1>15, <1>s, <2>2, <2>3
<1>16. \/ Discard \/ QueryReset
       \/ \E r \in Results : \/ Reexecute(r) \/ Drop(r) \/ NextRow(r) \/ NextThrows(r)
                             \/ Reset(r) \/ ResetThrows(r)
                             \/ \E s \in Statements : Execute(r, s) \/ SessionQuery(r, s)
                             \/ \E i \in Iterators : Begin(r, i)
       \/ \E i \in Iterators : Advance(i) \/ Forget(i) \/ \E j \in Iterators : CopyIterator(i, j)
  BY <1>8, <1>14 DEF Next, NextFails
<1>17. IndInv'
  <2>1. ASSUME NEW i \in Iterators, Forget(i) \/ \E j \in Iterators : CopyIterator(i, j)
        PROVE  UNCHANGED <<stmt, engine, result, answer>>
    BY <2>1 DEF Forget, CopyIterator
  <2> QED  BY <1>1, <1>2, <1>3, <1>4, <1>5, <1>6, <1>7, <1>9, <1>10, <1>11, <1>12, <1>13, <1>15,
              <1>16, <2>1
<1> QED  BY <1>1, <1>2, <1>3, <1>4, <1>5, <1>6, <1>7, <1>9, <1>10, <1>11, <1>12, <1>13, <1>15,
            <1>16, <1>17

\* So it is an operation of one result set, or leaves all of them where they
\* were.
LEMMA IndNext ==
  ASSUME Disciplined, IndInv, Next
  PROVE  IndInv' /\ (Seq!SeqNext \/ UNCHANGED Seq!seqVars)
<1>0. UNCHANGED rows
  BY DEF Next
<1>1. ASSUME NEW i \in Iterators, Forget(i) \/ \E j \in Iterators : CopyIterator(i, j)
      PROVE  UNCHANGED <<stmt, engine, result, answer>>
  BY <1>1 DEF Forget, CopyIterator
<1>2. \/ UNCHANGED Seq!seqVars
      \/ \E r \in Results : \/ Seq!OpenSeq(r) \/ Seq!CloseSeq(r)
                            \/ Seq!Rewind(r) \/ Seq!Take("next", r, At(r))
                            \/ Seq!Take("begin", r, 0)
  <2> DEFINE Moves(r) == \/ Seq!OpenSeq(r) \/ Seq!CloseSeq(r) \/ Seq!Rewind(r)
                         \/ Seq!Take("next", r, At(r)) \/ Seq!Take("begin", r, 0)
  <2>1. Discard \/ QueryReset => UNCHANGED Seq!seqVars
    BY StepRefines
  <2>2. ASSUME NEW r \in Results  PROVE NextThrows(r) => UNCHANGED Seq!seqVars
    BY StepRefines
  <2>3. ASSUME NEW r \in Results,
               \/ Reexecute(r) \/ Drop(r) \/ NextRow(r) \/ Reset(r) \/ ResetThrows(r)
               \/ \E s \in Statements : Execute(r, s) \/ SessionQuery(r, s)
               \/ \E i \in Iterators : Begin(r, i)
        PROVE  Moves(r)
    BY <2>3, StepRefines
  <2>4. ASSUME NEW i \in Iterators, Advance(i)
        PROVE  iter[i].rs \in Results /\ Moves(iter[i].rs)
    BY <2>4, StepRefines
  <2>5. ASSUME NEW i \in Iterators, Forget(i) \/ \E j \in Iterators : CopyIterator(i, j)
        PROVE  UNCHANGED Seq!seqVars
    BY <1>1, <2>5, StepRefines
  <2>6. \/ Discard \/ QueryReset
        \/ \E r \in Results : \/ Reexecute(r) \/ Drop(r) \/ NextRow(r) \/ NextThrows(r)
                              \/ Reset(r) \/ ResetThrows(r)
                              \/ \E s \in Statements : Execute(r, s) \/ SessionQuery(r, s)
                              \/ \E i \in Iterators : Begin(r, i)
        \/ \E i \in Iterators : Advance(i) \/ Forget(i) \/ \E j \in Iterators : CopyIterator(i, j)
    BY StepRefines
  <2> HIDE DEF Moves
  <2>7. UNCHANGED Seq!seqVars \/ \E r \in Results : Moves(r)
    BY <2>1, <2>2, <2>3, <2>4, <2>5, <2>6
  <2> QED  BY <2>7 DEF Moves
<1> QED  BY <1>0, <1>2, StepRefines DEF Seq!SeqNext

\* A step that changes nothing, too.
LEMMA IndStutter == IndInv /\ UNCHANGED vars => IndInv'
<1> SUFFICES ASSUME IndInv, UNCHANGED vars  PROVE IndInv'
  OBVIOUS
<1>1. TypeInv'
  BY TypeInvNext DEF IndInv
<1> QED  BY <1>1
         DEF IndInv, vars, Exclusive, Idle, Unused, On, Exists, TextOnly, Aligned,
             AlignedOne, SqliteAligned, MysqlAligned

\* A result set is its own pass over the rows: for any number of result sets,
\* statements, iterators and rows and every backend, a client that does none of
\* the Risky calls gets from next(), reset() and begin() of each result set what
\* RowSequence promises, although sqlite's and mysql's keep no position or no
\* buffer of their own (src/sqlite/resultset.cpp, src/mysql/resultset.cpp).
THEOREM ResultSetIsOwnPass ==
  ASSUME Disciplined
  PROVE  Spec => OwnPass
<1>1. Init => IndInv /\ Seq!SeqInit
  BY IndInit
<1>2. IndInv /\ [Next]_vars => IndInv'
  BY IndNext, IndStutter
<1>3. IndInv /\ [Next]_vars => [Seq!SeqNext]_(Seq!seqVars)
  <2>1. UNCHANGED vars => UNCHANGED Seq!seqVars
    BY DEF vars, Seq!seqVars, At
  <2> QED  BY <2>1, IndNext
<1> QED  BY <1>1, <1>2, <1>3, PTL DEF Spec, OwnPass, Seq!SeqSpec

\* For such a client mysql_stmt_fetch always writes into the buffer of a result
\* set that still exists (src/mysql/resultset.cpp, stmt_resultset::next).
THEOREM FetchAlwaysHasBuffer ==
  ASSUME Disciplined
  PROVE  Spec => []FetchHasBuffer
<1>1. Init => IndInv
  BY IndInit
<1>2. IndInv /\ [Next]_vars => IndInv'
  BY IndNext, IndStutter
<1>3. IndInv => FetchHasBuffer
  <2> SUFFICES ASSUME IndInv, NEW r \in Results, result[r].class = "mysql_stmt",
                      result[r].status = "ready", cursor[result[r].stmt] \in 1..rows
               PROVE  target[result[r].stmt] # NoResult
    BY DEF FetchHasBuffer
  <2>1. target[result[r].stmt] = r
    BY Types DEF AlignedOne, MysqlAligned
  <2> QED  BY <2>1, ResultSetAssumption
<1> QED  BY <1>1, <1>2, <1>3, PTL DEF Spec
=============================================================================
