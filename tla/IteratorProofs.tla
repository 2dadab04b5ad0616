--------------------------- MODULE IteratorProofs ---------------------------
(***************************************************************************)
(* What a loop over a result set is given (resultset.h, resultset_iterator).*)
(* begin() that finds a row shows the first one, whatever the client has    *)
(* done before.  A client that stays away from the Risky calls and does not *)
(* use a result set under a running loop is given every row once and in     *)
(* order, and its loop ends after the last row.                             *)
(***************************************************************************)
EXTENDS ResultSetProofs

-----------------------------------------------------------------------------
(* begin(), for every client *)

\* The iterator begin() leaves, on a statement that has its parameters.
LEMMA BeginViews ==
  ASSUME TypeInv, NEW r \in Results, NEW i \in Iterators, Begin(r, i),
         result[r].stmt \notin freed, UNCHANGED <<backend, rows>>
  PROVE  /\ rows \in Nat
         /\ iter'[i].rs = r
         /\ iter'[i].pos = IF rows > 0 THEN 0 ELSE -1
         /\ \A j \in Iterators : j # i => iter'[j] = Detached(r)[j]
         /\ \A x \in Results : x # r => result'[x] = result[x]
         /\ \A x \in Results : result'[x].class = result[x].class /\ result'[x].stmt = result[x].stmt
         /\ rows > 0 =>
              /\ result[r].class \in Owning => ~iter'[i].live /\ iter'[i].row = 1
              /\ result[r].class \notin Owning => iter'[i].live
              /\ result[r].class = "sqlite" => cursor'[result[r].stmt] = 1
              /\ result[r].class = "mysql_stmt" => result'[r].buf = 1
<1> DEFINE t == IF result[r].class = "mysql_stmt" THEN r ELSE NoResult
           d == Detached(r)
           rs == ResetResult(r)
           cs == ResetCursor(r)
           k == After(0)
           v == IF Found(r) THEN Viewing(r, 0) ELSE Ended(r)
<1>1. /\ result[r].class \in Classes \ {"none"}
      /\ iter' = [d EXCEPT ![i] = v]
  BY DEF Begin, Exists, TypeInv, Typed, ResultType
<1>2. rows \in Nat /\ k \in 1..(rows + 1) /\ (k <= rows <=> rows > 0) /\ (rows > 0 => k = 1)
  BY ResultSetAssumption DEF After, TypeInv, Typed
<1>t. /\ t = (IF result[r].class = "mysql_stmt" THEN r ELSE NoResult)
      /\ t \in Results \cup {NoResult}
  OBVIOUS
<1> HIDE DEF t, d, k, v
<1>3. MoveTo("begin", rs, cs, r, k, t)
  BY <1>t, BeginMoves DEF k
<1>4. Base(rs, cs, r)
  BY BaseReset
<1>c. rs[r].class = result[r].class /\ rs[r].stmt = result[r].stmt
  BY <1>4 DEF Base
<1>6. cursor' = [x \in Statements |->
                   IF rs[r].class \notin Owning /\ x = rs[r].stmt THEN k ELSE cs[x]]
  BY <1>3, Zenon DEF MoveTo
<1> HIDE DEF rs, cs
<1>5. /\ \A x \in Results : x # r => result'[x] = result[x]
      /\ result[r].class \in Owning => result'[r].row = k
      /\ result[r].class = "sqlite" => result'[r].status = IF k <= rows THEN "row" ELSE "done"
      /\ result[r].class = "mysql_stmt" => (k <= rows => result'[r].buf = k)
  <2> HIDE DEF MoveTo
  <2> QED  BY <1>2, <1>3, <1>4, <1>t, MoveToShape
<1>7. \A x \in Results : result'[x].class = result[x].class /\ result'[x].stmt = result[x].stmt
  <2> HIDE DEF MoveTo
  <2> QED  BY <1>2, <1>3, <1>4, <1>t, MoveToType
<1>8. result[r].class \notin Owning => cursor'[result[r].stmt] = k
  BY <1>1, <1>6, <1>c DEF TypeInv, Placed, Owning, Classes
<1>9. Found(r) <=> rows > 0
  <2>1. CASE result[r].class = "sqlite"
    BY <1>2, <1>5, <2>1 DEF Found
  <2>2. CASE result[r].class = "mysql_stmt"
    BY <1>2, <1>8, <2>2 DEF Found, Owning
  <2>3. CASE result[r].class \in Owning
    BY <1>2, <1>5, <2>3 DEF Found, Owning
  <2> QED  BY <1>1, <2>1, <2>2, <2>3 DEF Classes, Owning
<1>10. d \in [Iterators -> IterType]
  BY DetachedType DEF d
<1>11. iter'[i] = v /\ \A j \in Iterators : j # i => iter'[j] = d[j]
  BY <1>1, <1>10
<1>12. rows > 0 /\ result[r].class \in Owning => CurrentRow(result', cursor', r) = 1
  BY <1>2, <1>5, <1>7 DEF CurrentRow, Owning
<1>13. /\ Viewing(r, 0).rs = r /\ Viewing(r, 0).pos = 0
       /\ Viewing(r, 0).live = (result[r].class \notin Owning)
       /\ result[r].class \in Owning => Viewing(r, 0).row = CurrentRow(result', cursor', r)
       /\ Ended(r).rs = r /\ Ended(r).pos = -1
  BY DEF Viewing, Ended
<1>14. v = IF rows > 0 THEN Viewing(r, 0) ELSE Ended(r)
  BY <1>9 DEF v
<1>15. iter'[i].rs = r /\ iter'[i].pos = IF rows > 0 THEN 0 ELSE -1
  BY <1>11, <1>13, <1>14
<1>16. rows > 0 =>
         /\ result[r].class \in Owning => ~iter'[i].live /\ iter'[i].row = 1
         /\ result[r].class \notin Owning => iter'[i].live
  BY <1>11, <1>12, <1>13, <1>14
<1>17. rows > 0 =>
         /\ result[r].class = "sqlite" => cursor'[result[r].stmt] = 1
         /\ result[r].class = "mysql_stmt" => result'[r].buf = 1
  BY <1>2, <1>5, <1>8 DEF Owning
<1> QED  BY <1>2, <1>5, <1>7, <1>11, <1>15, <1>16, <1>17 DEF d

\* From every state of every client, begin() shows the first row, or is at the
\* end if there is none: also over a statement that another result set shares,
\* that was left half-read, was reset by its query or has failed, as long as mysql
\* has the parameters to execute it with (resultset.cpp, begin; the reset() and
\* next() of src/sqlite, src/postgres and src/mysql).
THEOREM BeginShowsFirst == Spec => BeginShowsFirstRow
<1>1. ASSUME TypeInv, Next, NEW r \in Results, NEW i \in Iterators, Begin(r, i),
             result[r].stmt \notin freed
      PROVE  IF rows > 0 THEN iter'[i].pos = 0 /\ Shows(i)' = 1 ELSE iter'[i].pos = -1
  <2>1. UNCHANGED <<backend, rows>>
    BY <1>1 DEF Next
  <2> HIDE DEF Begin
  <2>2. /\ rows \in Nat
        /\ iter'[i].rs = r
        /\ iter'[i].pos = IF rows > 0 THEN 0 ELSE -1
        /\ result'[r].class = result[r].class /\ result'[r].stmt = result[r].stmt
        /\ rows > 0 =>
             /\ result[r].class \in Owning => ~iter'[i].live /\ iter'[i].row = 1
             /\ result[r].class \notin Owning => iter'[i].live
             /\ result[r].class = "sqlite" => cursor'[result[r].stmt] = 1
             /\ result[r].class = "mysql_stmt" => result'[r].buf = 1
    BY <1>1, <2>1, BeginViews
  <2>3. CASE ~(rows > 0)
    BY <2>2, <2>3
  <2>4. CASE rows > 0
    <3>1. result[r].class \in Classes \ {"none"}
      BY <1>1 DEF Begin, Exists, TypeInv, Typed, ResultType
    <3>2. CASE result[r].class \in Owning
      <4>1. Shows(i)' = 1
        BY <2>2, <2>4, <3>2 DEF Shows
      <4> QED  BY <2>2, <2>4, <4>1
    <3>3. CASE result[r].class \notin Owning
      <4>1. result[r].class \in {"sqlite", "mysql_stmt"}
        BY <3>1, <3>3 DEF Classes, Owning
      <4>2. Shows(i)' = CurrentRow(result', cursor', r)
        BY <2>1, <2>2, <2>4, <3>3 DEF Shows, CurrentRow
      <4>3. CurrentRow(result', cursor', r) = 1
        BY <2>2, <2>4, <4>1 DEF CurrentRow
      <4> QED  BY <2>2, <2>4, <4>2, <4>3
    <3> QED  BY <3>2, <3>3
  <2> QED  BY <2>3, <2>4
<1>2. TypeInv /\ [Next]_vars
        => [\A r \in Results, i \in Iterators :
              /\ answer'.call = "begin" /\ answer'.result = r /\ iter'[i].rs = r
              /\ Begin(r, i)
              /\ result[r].stmt \notin freed
              => IF rows > 0 THEN iter'[i].pos = 0 /\ Shows(i)' = 1 ELSE iter'[i].pos = -1]_vars
  <2> HIDE DEF Begin, Next, Shows
  <2> QED  BY <1>1
<1> QED  BY <1>2, TypeInvInit, TypeInvNext, PTL DEF Spec, BeginShowsFirstRow

-----------------------------------------------------------------------------
(* Loops of a client that leaves alone what a loop walks *)

\* Such a client: next(), reset() and begin() of a result set are not called
\* under a running loop over it, and no running iterator is copied.
Looping == Disciplined /\ "mix" \notin Calls

Running(i) == iter[i].pos >= 0

\* A result set is walked by one loop at a time.
Alone ==
  \A i, j \in Iterators : Running(i) /\ Running(j) /\ iter[i].rs = iter[j].rs => i = j

\* A running iterator is where its result set is, and holds that row or views it.
InStepOne(i) ==
  LET r == iter[i].rs
  IN  /\ iter[i].pos + 1 <= rows
      /\ At(r) = iter[i].pos + 1
      /\ result[r].class \in Owning => ~iter[i].live /\ iter[i].row = iter[i].pos + 1
      /\ result[r].class \notin Owning => iter[i].live
      /\ result[r].class = "mysql_stmt" => result[r].buf = iter[i].pos + 1

InStep == \A i \in Iterators : Running(i) => InStepOne(i)

LoopInv == IndInv /\ Alone /\ InStep

\* A running iterator walks a result set that exists.
LEMMA RunningOn ==
  ASSUME TypeInv, NEW i \in Iterators
  PROVE  /\ iter[i] \in IterType /\ iter[i].pos \in Int /\ iter[i].pos >= -1
         /\ Running(i) => iter[i].rs \in Results /\ Exists(iter[i].rs)
<1>1. iter[i] \in IterType
  BY DEF TypeInv, Typed
<1>2. iter[i].rs \in Results \cup {NoResult} /\ iter[i].pos \in Int /\ iter[i].pos >= -1
  BY <1>1, ResultSetAssumption DEF IterType
<1> QED  BY <1>1, <1>2 DEF Running, TypeInv, Kept

\* Where the result sets stand after a step of one of them.
LEMMA OthersStay ==
  ASSUME NEW r \in Results, NEW x \in Results
  PROVE  /\ Seq!OpenSeq(r) \/ Seq!CloseSeq(r) \/ Seq!Rewind(r) => (x # r => At(x)' = At(x))
         /\ UNCHANGED Seq!seqVars => At(x)' = At(x)
<1> DEFINE at == [y \in Results |-> At(y)]
           nat == [y \in Results |-> At(y)']
<1>1. at[x] = At(x) /\ nat[x] = At(x)'
  OBVIOUS
<1>2. ASSUME NEW v, nat = [at EXCEPT ![r] = v]  PROVE x # r => nat[x] = at[x]
  BY <1>2
<1>3. Seq!OpenSeq(r) \/ Seq!CloseSeq(r) \/ Seq!Rewind(r) => \E v : nat = [at EXCEPT ![r] = v]
  BY DEF Seq!OpenSeq, Seq!CloseSeq, Seq!Rewind
<1>4. UNCHANGED Seq!seqVars => nat = at
  BY DEF Seq!seqVars
<1> HIDE DEF at, nat
<1> QED  BY <1>1, <1>2, <1>3, <1>4

\* A step of RowSequence that takes row k moves the pass of one result set.
LEMMA TakenFrom ==
  ASSUME NEW r \in Results, NEW call, NEW k, Seq!Take(call, r, k)
  PROVE  /\ At(r)' = After(k)
         /\ \A x \in Results : x # r => At(x)' = At(x)
<1> DEFINE at == [y \in Results |-> At(y)]
           nat == [y \in Results |-> At(y)']
<1>1. \A x \in Results : at[x] = At(x) /\ nat[x] = At(x)'
  OBVIOUS
<1>2. nat = [at EXCEPT ![r] = After(k)]
  BY DEF Seq!Take, After
<1>3. nat[r] = After(k) /\ \A x \in Results : x # r => nat[x] = at[x]
  BY <1>2
<1> HIDE DEF at, nat
<1> QED  BY <1>1, <1>3

\* A loop goes on as it was when its result set stays where it is.
LEMMA InStepStays ==
  ASSUME NEW i \in Iterators, InStepOne(i), UNCHANGED rows, iter'[i] = iter[i],
         NEW r \in Results, iter[i].rs = r, At(r)' = At(r),
         result'[r].class = result[r].class, result'[r].buf = result[r].buf
  PROVE  InStepOne(i)'
<1>1. At(iter[i].rs) = At(r) /\ At(iter[i].rs)' = At(r)'
  BY DEF At
<1> HIDE DEF At
<1> QED  BY <1>1 DEF InStepOne

\* A step that begins no loop, and moves no result set that a loop walks.
LEMMA LoopsStay ==
  ASSUME LoopInv, IndInv', UNCHANGED rows,
         ASSUME NEW i \in Iterators, iter'[i].pos >= 0
         PROVE  iter'[i] = iter[i],
         ASSUME NEW i \in Iterators, iter'[i].pos >= 0, iter'[i] = iter[i],
                NEW r \in Results, Exists(r), iter[i].rs = r
         PROVE  /\ At(r)' = At(r)
                /\ result'[r].class = result[r].class
                /\ result'[r].buf = result[r].buf
  PROVE  LoopInv'
<1>1. Alone'
  BY DEF LoopInv, Alone, Running
<1>2. ASSUME NEW i \in Iterators, Running(i)'  PROVE InStepOne(i)'
  <2>1. iter'[i] = iter[i] /\ Running(i)
    BY <1>2 DEF Running
  <2>2. InStepOne(i)
    BY <2>1 DEF LoopInv, InStep
  <2>3. PICK r \in Results : Exists(r) /\ iter[i].rs = r
    BY <2>1, RunningOn DEF LoopInv, IndInv
  <2>4. /\ At(r)' = At(r)
        /\ result'[r].class = result[r].class
        /\ result'[r].buf = result[r].buf
    BY <1>2, <2>1, <2>3 DEF Running
  <2> QED  BY <2>1, <2>2, <2>3, <2>4, InStepStays
<1> QED  BY <1>1, <1>2 DEF LoopInv, InStep

\* No loop runs before the first begin().
LEMMA LoopInit == Init => LoopInv
<1> SUFFICES ASSUME Init  PROVE LoopInv
  OBVIOUS
<1>1. \A i \in Iterators : iter[i].pos = -1
  BY DEF Init, Ended
<1>2. \A i \in Iterators : ~Running(i)
  BY <1>1 DEF Running
<1> QED  BY <1>2, IndInit DEF LoopInv, Alone, InStep

\* Giving up a buffer does not touch a loop over another result set.
LEMMA DetachedElsewhere ==
  ASSUME TypeInv, NEW r \in Results, NEW j \in Iterators
  PROVE  /\ Detached(r)[j].pos = iter[j].pos
         /\ iter[j].rs # r => Detached(r)[j] = iter[j]
BY DetachedType DEF Detached

\* begin() of a result set that no loop walks starts one on the first row.
LEMMA BeginLoops ==
  ASSUME Looping, LoopInv, Next, NEW r \in Results, NEW i \in Iterators, Begin(r, i)
  PROVE  LoopInv'
<1>0. TypeInv /\ IndInv /\ IndInv' /\ UNCHANGED <<backend, rows>> /\ rows \in Nat
  BY StepRefines, Types DEF LoopInv, IndInv, Looping, Next
<1>1. /\ At(r)' = After(0)
      /\ \A x \in Results : x # r => At(x)' = At(x)
  <2>1. Seq!Take("begin", r, 0)
    BY <1>0, StepRefines DEF Looping
  <2> QED  BY <2>1, TakenFrom
<1>2. \A j \in Iterators : iter[j].rs = r => iter[j].pos < 0
  BY DEF Begin, Undisturbed, Looping
<1>f. result[r].stmt \notin freed
  BY <1>0 DEF IndInv
<1>3. /\ \A x \in Results : x # r => result'[x] = result[x]
      /\ \A x \in Results : result'[x].class = result[x].class
      /\ \A j \in Iterators : j # i => iter'[j] = Detached(r)[j]
      /\ iter'[i].pos >= 0 => rows > 0
  <2> HIDE DEF Begin
  <2> QED  BY <1>0, <1>f, BeginViews
<1>4. \A j \in Iterators : j # i => /\ iter'[j].pos = iter[j].pos
                                    /\ iter[j].pos >= 0 => iter'[j] = iter[j]
  <2>1. \A j \in Iterators :
          Detached(r)[j].pos = iter[j].pos /\ (iter[j].rs # r => Detached(r)[j] = iter[j])
    BY <1>0, DetachedElsewhere
  <2>2. \A j \in Iterators : iter[j].pos \in Int
    BY <1>0, RunningOn
  <2> QED  BY <1>2, <1>3, <2>1, <2>2
<1>5. ASSUME rows > 0
      PROVE  /\ iter'[i].rs = r /\ iter'[i].pos = 0
             /\ result[r].class \in Owning => ~iter'[i].live /\ iter'[i].row = 1
             /\ result[r].class \notin Owning => iter'[i].live
             /\ result[r].class = "mysql_stmt" => result'[r].buf = 1
  <2> HIDE DEF Begin
  <2> QED  BY <1>0, <1>f, <1>5, BeginViews
<1>6. Alone'
  <2> SUFFICES ASSUME NEW j \in Iterators, NEW k \in Iterators,
                      Running(j)', Running(k)', iter'[j].rs = iter'[k].rs
               PROVE  j = k
    BY DEF Alone
  <2>1. ASSUME NEW m \in Iterators, m # i, Running(m)'
        PROVE  iter'[m] = iter[m] /\ Running(m) /\ iter[m].rs # r
    BY <1>0, <1>2, <1>4, <2>1, RunningOn DEF Running
  <2>2. Running(i)' => iter'[i].rs = r
    BY <1>3, <1>5 DEF Running
  <2>3. CASE j = i \/ k = i
    BY <2>1, <2>2, <2>3
  <2>4. CASE j # i /\ k # i
    BY <2>1, <2>4 DEF LoopInv, Alone
  <2> QED  BY <2>3, <2>4
<1>7. InStep'
  <2> SUFFICES ASSUME NEW j \in Iterators, Running(j)'  PROVE InStepOne(j)'
    BY DEF InStep
  <2>1. CASE j = i
    <3>1. rows > 0 /\ iter'[j].rs = r /\ iter'[j].pos = 0
      BY <1>3, <1>5, <2>1 DEF Running
    <3>2. At(iter[j].rs)' = At(r)'
      BY <3>1 DEF At
    <3>3. At(r)' = 1
      BY <1>0, <1>1, <3>1 DEF After
    <3> HIDE DEF At
    <3> QED  BY <1>0, <1>3, <1>5, <2>1, <3>1, <3>2, <3>3 DEF InStepOne
  <2>2. CASE j # i
    <3>1. iter'[j] = iter[j] /\ Running(j)
      BY <1>4, <2>2 DEF Running
    <3>2. PICK x \in Results : iter[j].rs = x
      BY <1>0, <3>1, RunningOn
    <3>3. x # r
      BY <1>0, <1>2, <3>1, <3>2, RunningOn DEF Running
    <3>4. InStepOne(j)
      BY <3>1 DEF LoopInv, InStep
    <3> QED  BY <1>0, <1>1, <1>3, <3>1, <3>2, <3>3, <3>4, InStepStays
  <2> QED  BY <2>1, <2>2
<1> QED  BY <1>0, <1>6, <1>7 DEF LoopInv

\* operator++ moves the result set to the next row, or ends after the last one.
LEMMA AdvanceLoops ==
  ASSUME Looping, LoopInv, Next, NEW i \in Iterators, Advance(i)
  PROVE  LoopInv' /\ (iter'[i].pos = -1 => iter[i].pos = rows - 1)
<1>0. TypeInv /\ IndInv /\ IndInv' /\ TypeInv' /\ UNCHANGED <<backend, rows>> /\ rows \in Nat
  BY StepRefines, Types DEF LoopInv, IndInv, Looping, Next
<1>1. Running(i) /\ iter[i].pos \in Nat
  BY ResultSetAssumption DEF Running, Advance
<1>2. PICK r \in Results : iter[i].rs = r /\ Exists(r)
  BY <1>0, <1>1, RunningOn
<1>3. NextImpl("next", result, cursor, r) /\ UNCHANGED stmt
  BY <1>2 DEF Advance
<1> DEFINE p == iter[i].pos + 1
<1>4. p \in 1..rows /\ At(r) = p
  <2>1. At(iter[i].rs) = At(r)
    BY <1>2
  <2> QED  BY <1>0, <1>1, <2>1 DEF LoopInv, InStep, InStepOne
<1>5. After(p) = p + 1 /\ (p < rows <=> After(p) <= rows)
  BY <1>0, <1>4 DEF After
<1>6. /\ At(r)' = p + 1
      /\ \A x \in Results : x # r => At(x)' = At(x) /\ result'[x] = result[x]
      /\ \A x \in Results : result'[x].class = result[x].class
      /\ p < rows => CurrentRow(result', cursor', r) = p + 1
      /\ Found(r) <=> p < rows
  <2> HIDE DEF p, NextImpl, At, After, Found
  <2> QED  BY <1>0, <1>2, <1>3, <1>4, <1>5, NextMoves
<1>7. /\ iter' = [iter EXCEPT ![i] = IF p < rows THEN Viewing(r, p) ELSE Ended(r)]
      /\ iter'[i] = IF p < rows THEN Viewing(r, p) ELSE Ended(r)
      /\ \A j \in Iterators : j # i => iter'[j] = iter[j]
  <2> HIDE DEF Found
  <2>2. iter' = [iter EXCEPT ![i] = IF Found(iter[i].rs) THEN Viewing(iter[i].rs, iter[i].pos + 1)
                                                         ELSE Ended(iter[i].rs)]
    BY DEF Advance
  <2>3. iter' = [iter EXCEPT ![i] = IF p < rows THEN Viewing(r, p) ELSE Ended(r)]
    BY <1>2, <1>6, <2>2
  <2> QED  BY <1>0, <2>3 DEF TypeInv, Typed
<1>8. /\ p < rows => iter'[i].pos = p
      /\ ~(p < rows) => iter'[i].pos = -1
      /\ iter'[i].rs = r
  BY <1>7 DEF Viewing, Ended
<1>9. iter'[i].pos = -1 => iter[i].pos = rows - 1
  BY <1>0, <1>1, <1>4, <1>8
<1>10. Alone'
  BY <1>1, <1>2, <1>7, <1>8 DEF LoopInv, Alone, Running
<1>11. InStep'
  <2> SUFFICES ASSUME NEW j \in Iterators, Running(j)'  PROVE InStepOne(j)'
    BY DEF InStep
  <2>1. CASE j = i
    <3>1. p < rows
      BY <1>8, <2>1 DEF Running
    <3>2. /\ result[r].class \in Owning => ~iter'[i].live /\ iter'[i].row = p + 1
          /\ result[r].class \notin Owning => iter'[i].live
      <4>1. iter'[i] = Viewing(r, p)
        BY <1>7, <3>1
      <4>2. /\ Viewing(r, p).live = (result[r].class \notin Owning)
            /\ result[r].class \in Owning => Viewing(r, p).row = CurrentRow(result', cursor', r)
        BY DEF Viewing
      <4> QED  BY <1>6, <3>1, <4>1, <4>2
    <3>3. result[r].class = "mysql_stmt" => result'[r].buf = p + 1
      BY <1>4, <1>6, <3>1 DEF CurrentRow
    <3>4. At(iter[j].rs)' = At(r)'
      BY <1>8, <2>1 DEF At
    <3> HIDE DEF At, CurrentRow
    <3> QED  BY <1>0, <1>4, <1>6, <1>8, <2>1, <3>1, <3>2, <3>3, <3>4 DEF InStepOne
  <2>2. CASE j # i
    <3>1. iter'[j] = iter[j] /\ Running(j)
      BY <1>7, <2>2 DEF Running
    <3>2. PICK x \in Results : iter[j].rs = x
      BY <1>0, <3>1, RunningOn
    <3>3. x # r
      BY <1>1, <1>2, <2>2, <3>1, <3>2 DEF LoopInv, Alone
    <3>4. InStepOne(j)
      BY <3>1 DEF LoopInv, InStep
    <3> QED  BY <1>0, <1>6, <3>1, <3>2, <3>3, <3>4, InStepStays
  <2> QED  BY <2>1, <2>2
<1> QED  BY <1>0, <1>9, <1>10, <1>11 DEF LoopInv

\* Every other operation leaves the running loops, and what they walk, alone.
LEMMA OthersLoop ==
  ASSUME Looping, LoopInv, Next,
         ~\E i \in Iterators : Advance(i) \/ \E r \in Results : Begin(r, i)
  PROVE  LoopInv'
<1>0. TypeInv /\ IndInv /\ IndInv' /\ Disciplined /\ UNCHANGED <<backend, rows>>
  BY StepRefines DEF LoopInv, IndInv, Looping, Next
<1>d. result \in [Results -> ResultType] /\ iter \in [Iterators -> IterType]
  BY <1>0 DEF TypeInv, Typed
<1>1. ASSUME Discard \/ QueryReset  PROVE LoopInv'
  <2>1. UNCHANGED <<result, iter>>
    BY <1>1 DEF Discard, QueryReset
  <2>2. UNCHANGED Seq!seqVars
    BY <1>0, <1>1, StepRefines
  <2>3. \A x \in Results : At(x)' = At(x)
    BY <2>2, OthersStay
  <2> QED  BY <1>0, <2>1, <2>3, LoopsStay
<1>2. ASSUME NEW r \in Results,
             Reexecute(r) \/ \E s \in Statements : Execute(r, s) \/ SessionQuery(r, s)
      PROVE  LoopInv'
  <2>1. ~Exists(r) /\ UNCHANGED iter
    BY <1>2 DEF Reexecute, Execute, SessionQuery
  <2>2. \E class, s : Opened(r, class, s)
    BY <1>2 DEF Reexecute, Execute, SessionQuery
  <2>3. \A x \in Results : x # r => result'[x] = result[x]
    BY <1>d, <2>2 DEF Opened
  <2>4. Seq!OpenSeq(r)
    BY <1>0, <1>2, StepRefines
  <2>5. \A x \in Results : x # r => At(x)' = At(x)
    BY <2>4, OthersStay
  <2> QED  BY <1>0, <2>1, <2>3, <2>5, LoopsStay
<1>3. ASSUME NEW r \in Results, Drop(r)  PROVE LoopInv'
  <2>1. /\ UNCHANGED iter
        /\ \A i \in Iterators : iter[i].rs # r
        /\ \A x \in Results : x # r => result'[x] = result[x]
    BY <1>3, <1>d DEF Drop
  <2>2. Seq!CloseSeq(r)
    BY <1>0, <1>3, StepRefines
  <2>3. \A x \in Results : x # r => At(x)' = At(x)
    BY <2>2, OthersStay
  <2> QED  BY <1>0, <2>1, <2>3, LoopsStay
<1>4. ASSUME NEW r \in Results, NextRow(r)  PROVE LoopInv'
  <2>1. /\ Exists(r) /\ NextImpl("next", result, cursor, r) /\ UNCHANGED <<stmt, iter>>
        /\ \A i \in Iterators : iter[i].rs = r => iter[i].pos < 0
    BY <1>4 DEF NextRow, Undisturbed, Looping
  <2>2. \A x \in Results : x # r => At(x)' = At(x) /\ result'[x] = result[x]
    <3>1. TypeInv'
      BY <1>0 DEF IndInv
    <3> HIDE DEF NextImpl
    <3> QED  BY <1>0, <2>1, <3>1, NextMoves
  <2>3. ASSUME NEW i \in Iterators, iter'[i].pos >= 0  PROVE iter[i].rs # r
    BY <1>0, <2>1, <2>3, RunningOn
  <2> QED  BY <1>0, <2>1, <2>2, <2>3, LoopsStay
<1>5. ASSUME NEW r \in Results, NextThrows(r)  PROVE LoopInv'
  <2>1. /\ result[r].class = "mysql_stmt" /\ result[r].status = "fresh"
        /\ result' = [result EXCEPT ![r].status = "ready"]
        /\ UNCHANGED iter
    BY <1>5 DEF NextThrows
  <2>2. \A x \in Results : x # r => result'[x] = result[x]
    BY <1>d, <2>1
  <2>3. /\ result'[r].class = result[r].class
        /\ result'[r].buf = result[r].buf
    <3>1. result[r] \in ResultType
      BY <1>d
    <3> QED  BY <1>d, <2>1, <3>1 DEF ResultType
  <2>4. UNCHANGED Seq!seqVars
    BY <1>0, <1>5, StepRefines
  <2>5. \A x \in Results : At(x)' = At(x)
    BY <2>4, OthersStay
  <2> QED  BY <1>0, <2>1, <2>2, <2>3, <2>5, LoopsStay
<1>6. ASSUME NEW r \in Results, Reset(r) \/ ResetThrows(r)  PROVE LoopInv'
  <2>1. /\ iter' = Detached(r)
        /\ \A i \in Iterators : iter[i].rs = r => iter[i].pos < 0
    BY <1>6 DEF Reset, ResetThrows, Undisturbed, Looping
  <2>2. \A x \in Results : x # r => result'[x] = result[x]
    BY <1>6, <1>d DEF Reset, ResetResult, ResetThrows
  <2>3. Seq!Rewind(r)
    BY <1>0, <1>6, StepRefines
  <2>4. \A x \in Results : x # r => At(x)' = At(x)
    BY <2>3, OthersStay
  <2>5. ASSUME NEW i \in Iterators, iter'[i].pos >= 0
        PROVE  iter[i].rs # r /\ iter'[i] = iter[i]
    BY <1>0, <2>1, <2>5, DetachedElsewhere, RunningOn
  <2> QED  BY <1>0, <2>2, <2>4, <2>5, LoopsStay
<1>7. ASSUME NEW i \in Iterators, Forget(i)  PROVE LoopInv'
  <2>1. /\ iter' = [iter EXCEPT ![i] = Ended(NoResult)]
        /\ UNCHANGED <<stmt, engine, result, answer>>
    BY <1>7 DEF Forget
  <2>2. Ended(NoResult).pos = -1
    BY DEF Ended
  <2>3. \A j \in Iterators : iter'[j].pos >= 0 => iter'[j] = iter[j]
    BY <1>d, <2>1, <2>2
  <2>4. UNCHANGED Seq!seqVars
    BY <1>0, <2>1, StepRefines
  <2>5. \A x \in Results : At(x)' = At(x)
    BY <2>4, OthersStay
  <2> QED  BY <1>0, <2>1, <2>3, <2>5, LoopsStay
<1>8. \A i, j \in Iterators : ~CopyIterator(i, j)
  BY DEF CopyIterator, Looping
<1>9. \/ Discard \/ QueryReset
      \/ \E r \in Results : \/ Reexecute(r) \/ Drop(r) \/ NextRow(r) \/ NextThrows(r)
                            \/ Reset(r) \/ ResetThrows(r)
                            \/ \E s \in Statements : Execute(r, s) \/ SessionQuery(r, s)
      \/ \E i \in Iterators : Forget(i)
  <2>1. \/ Discard \/ QueryReset
        \/ \E r \in Results : \/ Reexecute(r) \/ Drop(r) \/ NextRow(r) \/ NextThrows(r)
                              \/ Reset(r) \/ ResetThrows(r)
                              \/ \E s \in Statements : Execute(r, s) \/ SessionQuery(r, s)
                              \/ \E i \in Iterators : Begin(r, i)
        \/ \E i \in Iterators : Advance(i) \/ Forget(i) \/ \E j \in Iterators : CopyIterator(i, j)
    BY <1>0, StepRefines
  <2> QED  BY <1>8, <2>1
<1> QED  BY <1>1, <1>2, <1>3, <1>4, <1>5, <1>6, <1>7, <1>9

\* Every step keeps the loops in step with their result sets.
LEMMA LoopNext == Looping /\ LoopInv /\ [Next]_vars => LoopInv'
<1>1. ASSUME LoopInv, UNCHANGED vars  PROVE LoopInv'
  <2>1. IndInv'
    BY <1>1, IndStutter DEF LoopInv
  <2> QED  BY <1>1, <2>1 DEF LoopInv, vars, Alone, InStep, InStepOne, Running, At
<1> QED  BY <1>1, BeginLoops, AdvanceLoops, OthersLoop

\* The n-th row a loop is given is the n-th row of the query: for any number of
\* result sets, statements, iterators and rows, on every backend and whatever
\* the client does with other result sets meanwhile (resultset.h:83-117).
THEOREM LoopsShowTheirRows ==
  ASSUME Looping
  PROVE  Spec => []IteratorShowsItsRow
<1>1. Init => LoopInv
  BY LoopInit
<1>2. LoopInv /\ [Next]_vars => LoopInv'
  BY LoopNext
<1>3. LoopInv => IteratorShowsItsRow
  <2> SUFFICES ASSUME LoopInv, NEW i \in Iterators, iter[i].pos >= 0
               PROVE  Shows(i) = iter[i].pos + 1
    BY DEF IteratorShowsItsRow
  <2>1. IndInv /\ TypeInv /\ Running(i) /\ InStepOne(i)
    BY DEF LoopInv, IndInv, Running, InStep
  <2>2. PICK r \in Results : iter[i].rs = r /\ Exists(r)
    BY <2>1, RunningOn
  <2>3. /\ iter[i].pos + 1 \in 1..rows /\ At(r) = iter[i].pos + 1
        /\ result[r].class \in Classes \ {"none"}
    <3>1. At(iter[i].rs) = At(r) /\ iter[i].pos \in Int
      BY <2>1, <2>2, RunningOn
    <3> QED  BY <2>1, <2>2, <3>1, Types DEF InStepOne, Exists
  <2>4. CASE result[r].class \in Owning
    BY <2>1, <2>2, <2>4 DEF InStepOne, Shows
  <2>5. CASE result[r].class = "mysql_stmt"
    <3>1. iter[i].live /\ result[r].buf = iter[i].pos + 1
      BY <2>1, <2>2, <2>5 DEF InStepOne, Owning
    <3> QED  BY <2>2, <2>3, <2>5, <3>1 DEF Shows, CurrentRow
  <2>6. CASE result[r].class = "sqlite"
    <3>1. iter[i].live
      BY <2>1, <2>2, <2>6 DEF InStepOne, Owning
    <3>2. cursor[result[r].stmt] = iter[i].pos + 1
      <4>1. result[r].status = "row"
        BY <2>1, <2>3, <2>6, Types DEF At, AlignedOne, SqliteAligned
      <4> QED  BY <2>3, <2>6, <4>1 DEF At
    <3> QED  BY <2>2, <2>3, <2>6, <3>1, <3>2 DEF Shows, CurrentRow
  <2> QED  BY <2>3, <2>4, <2>5, <2>6 DEF Classes, Owning
<1> QED  BY <1>1, <1>2, <1>3, PTL DEF Spec

\* The loop of such a client ends after the last row and not before: size() is
\* the number of rows (resultset.h, operator++; resultset.cpp, size).
THEOREM LoopsEndAfterLastRow ==
  ASSUME Looping
  PROVE  Spec => LoopEndsAfterLastRow
<1>1. Init => LoopInv
  BY LoopInit
<1>2. LoopInv /\ [Next]_vars => LoopInv'
  BY LoopNext
<1>3. LoopInv /\ [Next]_vars
        => [\A i \in Iterators : Advance(i) /\ iter'[i].pos = -1 => iter[i].pos = rows - 1]_vars
  BY AdvanceLoops
<1> QED  BY <1>1, <1>2, <1>3, PTL DEF Spec, LoopEndsAfterLastRow
=============================================================================
