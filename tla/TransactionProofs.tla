-------------------------- MODULE TransactionProofs --------------------------
(***************************************************************************)
(* Proofs about Transaction, for every backend, every client (Calls) and    *)
(* any number of handles, impls, connections, modifications and savepoints. *)
(***************************************************************************)
EXTENDS Transaction, SequenceTheorems, WellFoundedInduction, TLAPS

-----------------------------------------------------------------------------
(* The engine: every outcome of a command on a connection is well formed.   *)

\* A connection outside of a transaction has nothing pending, and one is lost
\* only if the engine may fail.
Quiet(k) == (~InTransaction(k) => k.pending = {}) /\ (k.status = "lost" => Refusable)

\* What each command preserves: types, and quietness of the connection, which
\* it does not close.
GoodOutcome(o) == o \in Outcome /\ Quiet(o.conn) /\ o.conn.status # "closed"

\* A new connection, idle or in a new transaction, is well formed.
LEMMA FreshType ==
  ASSUME NEW s \in Status, s = "lost" => Refusable
  PROVE  Fresh(s) \in Connection /\ Quiet(Fresh(s))
BY EmptySeq DEF Fresh, Connection, Quiet, InTransaction, Status

\* The answers that Engine builds are well formed.
LEMMA AnswerType ==
  ASSUME NEW k \in Connection, Quiet(k), k.status # "closed", NEW d \in SUBSET Writes,
         NEW b \in BOOLEAN, b => Refusable
  PROVE  /\ GoodOutcome(Accepted(k, d))
         /\ GoodOutcome(Refused(k, d))
         /\ GoodOutcome(StatementError(k, d))
         /\ \A x \in BOOLEAN : GoodOutcome(Discarded(x, d))
         /\ GoodOutcome(Published(k, d))
         /\ b => GoodOutcome(Lost(d)) /\ GoodOutcome(LostAfterCommit(k, d))
         /\ \A o \in Broken(k, d, b) : GoodOutcome(o)
<1>1. GoodOutcome(Accepted(k, d)) /\ GoodOutcome(Refused(k, d))
  BY DEF GoodOutcome, Accepted, Refused, Answer, Outcome
<1>2. GoodOutcome(StatementError(k, d))
  <2>1. CASE backend = "postgres" /\ k.status = "intrans"
    <3>1. /\ [k EXCEPT !.status = "inerror"] \in Connection
          /\ [k EXCEPT !.status = "inerror"].status = "inerror"
      BY DEF Connection, Status
    <3>2. Quiet([k EXCEPT !.status = "inerror"])
      BY DEF Quiet, InTransaction, Connection
    <3> QED  BY <2>1, <3>1, <3>2
          DEF StatementError, GoodOutcome, Refused, Answer, Outcome
  <2>2. CASE ~(backend = "postgres" /\ k.status = "intrans")
    BY <1>1, <2>2 DEF StatementError
  <2> QED  BY <2>1, <2>2
<1>3. /\ Fresh("idle") \in Connection /\ Quiet(Fresh("idle"))
      /\ b => Fresh("lost") \in Connection /\ Quiet(Fresh("lost"))
      /\ Fresh("idle").status # "closed" /\ Fresh("lost").status # "closed"
  <2>1. Fresh("idle").status # "closed" /\ Fresh("lost").status # "closed"
    BY DEF Fresh
  <2> QED  BY <2>1, FreshType DEF Status
<1>4. d \cup k.pending \in SUBSET Writes
  BY DEF Connection
<1>5. (\A x \in BOOLEAN : GoodOutcome(Discarded(x, d))) /\ GoodOutcome(Published(k, d))
  BY <1>3, <1>4 DEF GoodOutcome, Discarded, Published, Answer, Outcome
<1>6. b => GoodOutcome(Lost(d)) /\ GoodOutcome(LostAfterCommit(k, d))
  BY <1>3, <1>4 DEF GoodOutcome, Lost, LostAfterCommit, Answer, Outcome
<1>7. \A o \in Broken(k, d, b) : GoodOutcome(o)
  BY <1>1, <1>6 DEF Broken
<1> QED  BY <1>1, <1>2, <1>5, <1>6, <1>7

\* BEGIN, COMMIT and ROLLBACK have well-formed outcomes.
LEMMA TransactionCommandType ==
  ASSUME NEW k \in Connection, Quiet(k), k.status # "closed", NEW d \in SUBSET Writes,
         NEW r \in BOOLEAN, r => Refusable
  PROVE  /\ \A o \in BeginOutcomes(k, d, r) : GoodOutcome(o)
         /\ \A o \in CommitOutcomes(k, d, r) : GoodOutcome(o)
         /\ \A o \in RollbackOutcomes(k, d, r) : GoodOutcome(o)
         /\ \A o \in FailureOutcomes(k, d, r) : GoodOutcome(o)
<1>1. /\ Fresh("intrans") \in Connection /\ Quiet(Fresh("intrans"))
      /\ Fresh("intrans").status # "closed"
  <2>1. Fresh("intrans").status # "closed"
    BY DEF Fresh
  <2> QED  BY <2>1, FreshType DEF Status
<1>2. GoodOutcome(Accepted(Fresh("intrans"), d))
  BY <1>1, AnswerType
<1>3. GoodOutcome([Published(k, d) EXCEPT !.conn = Fresh("intrans")])
  <2>1. Published(k, d) \in Outcome
    BY AnswerType DEF GoodOutcome
  <2> QED  BY <1>1, <2>1 DEF GoodOutcome, Outcome
<1>4. /\ GoodOutcome(Accepted(k, d)) /\ GoodOutcome(Refused(k, d))
      /\ GoodOutcome(Published(k, d))
      /\ GoodOutcome(Discarded(TRUE, d)) /\ GoodOutcome(Discarded(FALSE, d))
      /\ GoodOutcome(StatementError(k, d)) /\ (r => GoodOutcome(LostAfterCommit(k, d)))
      /\ \A o \in Broken(k, d, r) : GoodOutcome(o)
  BY AnswerType
<1>5. \A o \in BeginOutcomes(k, d, r) : GoodOutcome(o)
  <2>1. GoodOutcome(Begun(k, d))
    BY <1>2, <1>3, <1>4 DEF Begun
  <2> QED  BY <1>4, <2>1 DEF BeginOutcomes
<1>6. \A o \in CommitOutcomes(k, d, r) : GoodOutcome(o)
  <2>1. r => \A o \in CommitRefusals(k, d) : GoodOutcome(o)
    BY <1>4 DEF CommitRefusals
  <2> QED  BY <1>4, <2>1 DEF CommitOutcomes
<1>7. \A o \in RollbackOutcomes(k, d, r) : GoodOutcome(o)
  BY <1>4 DEF RollbackOutcomes
<1>8. \A o \in FailureOutcomes(k, d, r) : GoodOutcome(o)
  BY <1>4 DEF FailureOutcomes
<1> QED  BY <1>5, <1>6, <1>7, <1>8

\* A non-empty set of natural numbers has a least element.
LEMMA LeastNatural ==
  ASSUME NEW T, T \subseteq Nat, T # {}
  PROVE  \E x \in T : \A y \in T : x <= y
<1> DEFINE R == {ss \in Nat \X Nat : ss[1] < ss[2]}
<1>1. IsWellFoundedOn(R, Nat)
  BY NatLessThanWellFounded, Zenon DEF OpToRel
<1>2. PICK x \in T : \A y \in T : ~(<<y, x>> \in R)
  <2> HIDE DEF R
  <2> QED  BY <1>1, WFMin
<1>3. \A y \in T : ~(y < x)
  BY <1>2
<1> QED  BY <1>2, <1>3

\* The innermost savepoint of a name exists whenever the name is on the stack.
LEMMA InnermostPosition ==
  ASSUME NEW k \in Connection, NEW n \in Names, Positions(k, n) # {}
  PROVE  Innermost(k, n) \in 1 .. Len(k.saves)
<1>1. k.saves \in Seq(Savepoint)
  BY DEF Connection
<1>2. DOMAIN k.saves = 1 .. Len(k.saves) /\ Len(k.saves) \in Nat
  BY <1>1
<1>3. Positions(k, n) \subseteq 1 .. Len(k.saves)
  BY <1>2 DEF Positions
<1> DEFINE T == {j \in Nat : Len(k.saves) - j \in Positions(k, n)}
<1>4. T # {}
  <2>1. PICK i \in Positions(k, n) : TRUE
    OBVIOUS
  <2>2. Len(k.saves) - i \in Nat /\ Len(k.saves) - (Len(k.saves) - i) = i
    BY <1>2, <1>3, <2>1
  <2>3. Len(k.saves) - i \in T
    BY <2>1, <2>2
  <2> QED  BY <2>3
<1>5. PICK m \in T : \A y \in T : m <= y
  <2> HIDE DEF T
  <2>1. T \subseteq Nat
    BY DEF T
  <2> QED  BY <1>4, <2>1, LeastNatural
<1>6. \A j \in Positions(k, n) : j <= Len(k.saves) - m
  <2> SUFFICES ASSUME NEW j \in Positions(k, n)
               PROVE  j <= Len(k.saves) - m
    OBVIOUS
  <2>1. Len(k.saves) - j \in Nat /\ Len(k.saves) - (Len(k.saves) - j) = j
    BY <1>2, <1>3
  <2>2. Len(k.saves) - j \in T
    BY <2>1
  <2> QED  BY <1>2, <1>3, <1>5, <2>2
<1>7. Innermost(k, n) \in Positions(k, n)
  BY <1>5, <1>6 DEF Innermost
<1> QED  BY <1>3, <1>7

\* SAVEPOINT, RELEASE and ROLLBACK TO have well-formed outcomes.
LEMMA SavepointCommandType ==
  ASSUME NEW k \in Connection, Quiet(k), k.status # "closed", NEW d \in SUBSET Writes,
         NEW n \in Names
  PROVE  /\ \A o \in SaveOutcomes(k, n, d) : GoodOutcome(o)
         /\ \A o \in ReleaseOutcomes(k, n, d) : GoodOutcome(o)
         /\ \A o \in RollbackToOutcomes(k, n, d) : GoodOutcome(o)
<1>1. \A x \in Connection : x.saves \in Seq(Savepoint) /\ x.pending \in SUBSET Writes
  BY DEF Connection
<1>2. ASSUME NEW x \in Connection, NEW m \in Int, m <= Len(x.saves)
      PROVE  Keep(x, m) \in Seq(Savepoint)
  BY <1>1, <1>2, SubSeqProperties DEF Keep
<1>3. ASSUME NEW x \in Connection
      PROVE  Pushed(x, n) \in Connection /\ Pushed(x, n).status = x.status
  <2>1. Shadowed(x, n) \in Seq(Savepoint)
    <3>1. CASE backend = "mysql" /\ Positions(x, n) # {}
      <4>1. Innermost(x, n) \in 1 .. Len(x.saves) /\ Len(x.saves) \in Nat
        BY <1>1, <3>1, InnermostPosition
      <4>2. Keep(x, Innermost(x, n) - 1) \in Seq(Savepoint)
        BY <1>2, <4>1
      <4>3. SubSeq(x.saves, Innermost(x, n) + 1, Len(x.saves)) \in Seq(Savepoint)
        BY <1>1, <4>1, SubSeqProperties
      <4> QED  BY <3>1, <4>2, <4>3, ConcatProperties DEF Shadowed
    <3>2. CASE ~(backend = "mysql" /\ Positions(x, n) # {})
      BY <1>1, <3>2 DEF Shadowed
    <3> QED  BY <3>1, <3>2
  <2>2. [name |-> n, pending |-> x.pending] \in Savepoint
    BY <1>1 DEF Savepoint
  <2>3. Append(Shadowed(x, n), [name |-> n, pending |-> x.pending]) \in Seq(Savepoint)
    BY <2>1, <2>2, AppendProperties
  <2> QED  BY <2>3 DEF Pushed, Connection
<1>4. \A o \in SaveOutcomes(k, n, d) : GoodOutcome(o)
  <2>1. CASE k.status = "intrans"
    <3>1. Quiet(Pushed(k, n))
      BY <1>3, <2>1 DEF Quiet, InTransaction
    <3>2. GoodOutcome(Accepted(Pushed(k, n), d))
      BY <1>3, <3>1, AnswerType
    <3> QED  BY <2>1, <3>2 DEF SaveOutcomes
  <2>2. CASE k.status # "intrans"
    <3>1. Fresh("intrans") \in Connection /\ Fresh("intrans").status = "intrans"
      BY FreshType DEF Fresh, Status
    <3> DEFINE y == [Pushed(Fresh("intrans"), n) EXCEPT !.implicit = TRUE]
    <3>2. y \in Connection /\ y.status = "intrans"
      BY <1>3, <3>1 DEF Connection
    <3>3. Quiet(y)
      BY <3>2 DEF Quiet, InTransaction
    <3> HIDE DEF y
    <3>4. GoodOutcome(Accepted(y, d)) /\ GoodOutcome(Accepted(k, d))
            /\ GoodOutcome(Refused(k, d))
      BY <3>2, <3>3, AnswerType
    <3> USE DEF y
    <3> QED  BY <2>2, <3>4 DEF SaveOutcomes
  <2> QED  BY <2>1, <2>2
<1>5. \A o \in ReleaseOutcomes(k, n, d) : GoodOutcome(o)
  <2>1. CASE k.status # "intrans" \/ Positions(k, n) = {}
    BY <2>1, AnswerType DEF ReleaseOutcomes
  <2>2. CASE k.status = "intrans" /\ Positions(k, n) # {}
    <3> DEFINE y == [k EXCEPT !.saves = Keep(k, Innermost(k, n) - 1)]
    <3>1. Innermost(k, n) \in 1 .. Len(k.saves) /\ Len(k.saves) \in Nat
      BY <1>1, <2>2, InnermostPosition
    <3>2. Keep(k, Innermost(k, n) - 1) \in Seq(Savepoint)
      BY <1>2, <3>1
    <3>3. y \in Connection /\ y.status = "intrans"
      BY <2>2, <3>2 DEF Connection
    <3>4. Quiet(y)
      BY <3>3 DEF Quiet, InTransaction
    <3> HIDE DEF y
    <3>5. GoodOutcome(Accepted(y, d)) /\ GoodOutcome(Published(k, d))
      BY <3>3, <3>4, AnswerType
    <3> USE DEF y
    <3> QED  BY <2>2, <3>5 DEF ReleaseOutcomes
  <2> QED  BY <2>1, <2>2
<1>6. \A o \in RollbackToOutcomes(k, n, d) : GoodOutcome(o)
  <2>1. CASE ~InTransaction(k) \/ Positions(k, n) = {}
    BY <2>1, AnswerType DEF RollbackToOutcomes
  <2>2. CASE InTransaction(k) /\ Positions(k, n) # {}
    <3> DEFINE y == [k EXCEPT !.status = "intrans",
                              !.saves = Keep(k, Innermost(k, n)),
                              !.pending = k.saves[Innermost(k, n)].pending]
    <3>1. Innermost(k, n) \in 1 .. Len(k.saves) /\ Len(k.saves) \in Nat
      BY <1>1, <2>2, InnermostPosition
    <3>2. Keep(k, Innermost(k, n)) \in Seq(Savepoint)
      BY <1>2, <3>1
    <3>3. k.saves[Innermost(k, n)] \in Savepoint
      BY <1>1, <3>1, ElementOfSeq
    <3>4. k.saves[Innermost(k, n)].pending \in SUBSET Writes
      BY <3>3 DEF Savepoint
    <3>5. y \in Connection /\ y.status = "intrans"
      BY <3>2, <3>4 DEF Connection, Status
    <3>6. Quiet(y)
      BY <3>5 DEF Quiet, InTransaction
    <3> HIDE DEF y
    <3>7. GoodOutcome(Accepted(y, d))
      BY <3>5, <3>6, AnswerType
    <3> USE DEF y
    <3> QED  BY <2>2, <3>7 DEF RollbackToOutcomes
  <2> QED  BY <2>1, <2>2
<1> QED  BY <1>4, <1>5, <1>6

\* A modification has well-formed outcomes.
LEMMA WriteCommandType ==
  ASSUME NEW k \in Connection, Quiet(k), k.status # "closed", NEW d \in SUBSET Writes,
         NEW w \in Writes
  PROVE  \A o \in WriteOutcomes(k, w, d) : GoodOutcome(o)
<1>1. d \cup {w} \in SUBSET Writes
  OBVIOUS
<1>2. GoodOutcome(Accepted(k, d \cup {w})) /\ GoodOutcome(Refused(k, d))
  BY <1>1, AnswerType
<1>3. CASE k.status = "intrans"
  <2> DEFINE y == [k EXCEPT !.pending = @ \cup {w}]
  <2>1. y \in Connection /\ y.status = "intrans"
    BY <1>3 DEF Connection
  <2>2. Quiet(y)
    BY <2>1 DEF Quiet, InTransaction
  <2> HIDE DEF y
  <2>3. GoodOutcome(Accepted(y, d))
    BY <2>1, <2>2, AnswerType
  <2> USE DEF y
  <2> QED  BY <1>3, <2>3 DEF WriteOutcomes
<1>4. CASE k.status # "intrans"
  BY <1>2, <1>4 DEF WriteOutcomes
<1> QED  BY <1>3, <1>4

-----------------------------------------------------------------------------
(* The inductive invariant *)

\* An impl that a handle holds has a connection: create_transaction copies the
\* session's db_, and nothing ever clears it.
HeldImplsConnected ==
  \A h \in Handles : handle[h].impl # NoImpl => impl[handle[h].impl].db # NoConn

\* Connections outside of a transaction have nothing pending.
QuietConnections == \A c \in Conns : Quiet(conn[c])

\* A handle that is no object holds no impl.
DeadIsEmpty == \A h \in Handles : ~handle[h].live => handle[h].impl = NoImpl

\* An impl that no handle holds is gone, and its reference to the connection
\* with it.
UnheldImplsFree == \A i \in Impls : Held(handle, i) \/ impl[i] = FreeImpl

IndInv ==
  TypeOK /\ HeldImplsConnected /\ QuietConnections /\ DeadIsEmpty /\ UnheldImplsFree

ImplType == [db : Conns \cup {NoConn}, active : BOOLEAN]

HandleType == [live : BOOLEAN, impl : Impls \cup {NoImpl}, successful : BOOLEAN]

FateType == {"none", "open", "committed", "rolledback"}

\* The history of an outcome is well typed.
LEMMA HistoryType ==
  ASSUME TypeOK, NEW o \in Outcome, NEW c \in Conns, NEW fs \in [Impls -> FateType]
  PROVE  /\ OwnerAfter(o, c) \in [Conns -> Impls \cup {NoImpl}]
         /\ FateAfter(fs, o, c) \in [Impls -> FateType]
<1>1. o.ended \in {"no", "committed", "rolledback"}
  BY DEF Outcome
<1>2. owner \in [Conns -> Impls \cup {NoImpl}]
  BY DEF TypeOK
<1>3. OwnerAfter(o, c) \in [Conns -> Impls \cup {NoImpl}]
  BY <1>2 DEF OwnerAfter
<1>4. FateAfter(fs, o, c) \in [Impls -> FateType]
  BY <1>1, <1>2 DEF FateAfter, FateType
<1> QED  BY <1>3, <1>4

\* A good outcome applied to a connection preserves the invariant.
LEMMA ApplyPreserves ==
  ASSUME IndInv, NEW c \in Conns, conn[c].status # "closed", NEW o, GoodOutcome(o), Apply(o, c),
         UNCHANGED <<backend, db, impl, handle>>, terminated' \in BOOLEAN
  PROVE  IndInv'
<1>1. o \in Outcome /\ o.conn \in Connection /\ o.disk \in SUBSET Writes
        /\ Quiet(o.conn) /\ o.conn.status # "closed"
  BY DEF GoodOutcome, Outcome
<1>2. fate \in [Impls -> FateType]
  BY DEF IndInv, TypeOK, FateType
<1>3. owner' \in [Conns -> Impls \cup {NoImpl}] /\ fate' \in [Impls -> FateType]
  BY <1>1, <1>2, HistoryType DEF Apply, IndInv
<1>a. ClosedIffUnreferenced'
  BY <1>1 DEF IndInv, TypeOK, ClosedIffUnreferenced, Unreferenced, Apply
<1>4. TypeOK'
  BY <1>1, <1>3, <1>a DEF IndInv, TypeOK, Apply, FateType
<1>5. HeldImplsConnected'
  BY DEF IndInv, HeldImplsConnected
<1>6. QuietConnections'
  BY <1>1 DEF IndInv, TypeOK, QuietConnections, Apply
<1>7. DeadIsEmpty' /\ UnheldImplsFree'
  BY DEF IndInv, DeadIsEmpty, UnheldImplsFree, Held
<1> QED  BY <1>4, <1>5, <1>6, <1>7 DEF IndInv

\* Releasing references preserves the invariant: handles hs that point to
\* connected impls, connections ks that are quiet.
LEMMA DropPreserves ==
  ASSUME IndInv, NEW hs \in [Handles -> HandleType], NEW ks \in [Conns -> Connection],
         NEW os \in [Conns -> Impls \cup {NoImpl}], NEW fs \in [Impls -> FateType],
         \A h \in Handles : hs[h].impl # NoImpl => impl[hs[h].impl].db # NoConn,
         \A h \in Handles : ~hs[h].live => hs[h].impl = NoImpl,
         \A c \in Conns : Quiet(ks[c]),
         \A c \in Conns : ks[c].status = "closed" => conn[c].status = "closed",
         Drop(hs, ks, os, fs), UNCHANGED <<backend, db>>, disk' \in SUBSET Writes,
         terminated' = terminated
  PROVE  IndInv'
<1>1. Fresh("closed") \in Connection /\ Quiet(Fresh("closed"))
  BY FreshType DEF Status
<1>2. impl \in [Impls -> ImplType] /\ FreeImpl \in ImplType
  BY DEF IndInv, TypeOK, ImplType, FreeImpl
<1>3. Kept(hs) \in [Impls -> ImplType]
  BY <1>2 DEF Kept
<1>4. conn' \in [Conns -> Connection] /\ QuietConnections'
  BY <1>1 DEF Drop, Reaped, QuietConnections
<1>5. owner' \in [Conns -> Impls \cup {NoImpl}]
  BY DEF Drop, ReapedOwner
<1>6. fate' \in [Impls -> FateType]
  BY DEF Drop, ReapedFate, FateType
<1>a. ClosedIffUnreferenced'
  <2>1. \A i \in Impls : Kept(hs)[i].db \in {NoConn, impl[i].db}
    BY <1>2 DEF Kept, FreeImpl
  <2>2. \A c \in Conns : ks[c].status = "closed" => Unreferenced(c, db, impl)
    BY DEF IndInv, TypeOK, ClosedIffUnreferenced
  <2>3. \A c \in Conns : Unreferenced(c, db, impl) => Unreferenced(c, db, Kept(hs))
    BY <2>1, TransactionAssumption DEF Unreferenced
  <2>4. Fresh("closed").status = "closed"
    BY DEF Fresh
  <2>5. ASSUME NEW c \in Conns
        PROVE  Reaped(ks, db, Kept(hs))[c].status = "closed" <=> Unreferenced(c, db, Kept(hs))
    BY <2>2, <2>3, <2>4 DEF Reaped
  <2> QED  BY <2>5 DEF ClosedIffUnreferenced, Drop
<1>7. TypeOK'
  BY <1>3, <1>4, <1>5, <1>6, <1>a DEF Drop, IndInv, TypeOK, ImplType, HandleType, FateType
<1>8. HeldImplsConnected'
  <2> SUFFICES ASSUME NEW h \in Handles, hs[h].impl # NoImpl
               PROVE  Kept(hs)[hs[h].impl].db # NoConn
    BY DEF HeldImplsConnected, Drop
  <2>1. hs[h].impl \in Impls /\ Held(hs, hs[h].impl)
    BY DEF HandleType, Held
  <2> QED  BY <2>1 DEF Kept
<1>9. DeadIsEmpty' /\ UnheldImplsFree'
  BY DEF Drop, Kept, DeadIsEmpty, UnheldImplsFree, Held
<1> QED  BY <1>4, <1>7, <1>8, <1>9 DEF IndInv

\* The initial states satisfy the invariant.
LEMMA InitInv == Init => IndInv
<1> SUFFICES ASSUME Init PROVE IndInv
  OBVIOUS
<1>1. /\ Fresh("closed") \in Connection /\ Quiet(Fresh("closed"))
      /\ Fresh("idle") \in Connection /\ Quiet(Fresh("idle"))
  BY FreshType DEF Status
<1>2. PICK c \in Conns :
        /\ db = c
        /\ conn = [x \in Conns |-> Fresh(IF x = c THEN "idle" ELSE "closed")]
        /\ disk = {}
        /\ impl = [i \in Impls |-> FreeImpl]
        /\ handle = [h \in Handles |-> Dead]
        /\ terminated = FALSE
        /\ owner = [x \in Conns |-> NoImpl]
        /\ fate = [i \in Impls |-> "none"]
  BY DEF Init
<1>3. conn \in [Conns -> Connection] /\ QuietConnections
  BY <1>1, <1>2 DEF QuietConnections
<1>a. ClosedIffUnreferenced
  BY <1>2, TransactionAssumption DEF ClosedIffUnreferenced, Unreferenced, Fresh, FreeImpl
<1>4. TypeOK
  BY <1>2, <1>3, <1>a DEF Init, TypeOK, FreeImpl, Dead
<1>5. HeldImplsConnected /\ DeadIsEmpty /\ UnheldImplsFree
  BY <1>2 DEF HeldImplsConnected, DeadIsEmpty, UnheldImplsFree, Dead
<1> QED  BY <1>3, <1>4, <1>5 DEF IndInv

\* The outcomes of start() well-typed: connection, database and history.
LEMMA StartedPreserves ==
  ASSUME IndInv, NEW i \in Impls, NEW c \in Conns, NEW fs \in [Impls -> FateType],
         NEW o \in BeginOutcomes(conn[c], disk, Refusable), Started(i, c, o, fs),
         conn[c].status # "closed"
  PROVE  /\ conn' \in [Conns -> Connection] /\ QuietConnections'
         /\ \A x \in Conns : conn'[x].status = "closed" <=> conn[x].status = "closed"
         /\ disk' \in SUBSET Writes
         /\ owner' \in [Conns -> Impls \cup {NoImpl}]
         /\ fate' \in [Impls -> FateType]
<1>1. conn[c] \in Connection /\ Quiet(conn[c]) /\ disk \in SUBSET Writes
        /\ Refusable \in BOOLEAN
  BY DEF IndInv, TypeOK, QuietConnections, Refusable
<1>2. GoodOutcome(o)
  BY <1>1, TransactionCommandType
<1>3. o \in Outcome /\ o.conn \in Connection /\ o.disk \in SUBSET Writes
        /\ Quiet(o.conn) /\ o.conn.status # "closed"
  BY <1>2 DEF GoodOutcome, Outcome
<1>4. /\ conn' \in [Conns -> Connection] /\ QuietConnections' /\ disk' \in SUBSET Writes
      /\ \A x \in Conns : conn'[x].status = "closed" <=> conn[x].status = "closed"
  BY <1>3 DEF IndInv, TypeOK, Started, QuietConnections
<1>6. /\ OwnerAfter(o, c) \in [Conns -> Impls \cup {NoImpl}]
      /\ FateAfter(fs, o, c) \in [Impls -> FateType]
  BY <1>3, HistoryType DEF IndInv
<1>5. owner' \in [Conns -> Impls \cup {NoImpl}]
  BY <1>6 DEF IndInv, TypeOK, Started
<1>7. fate' \in [Impls -> FateType]
  BY <1>6 DEF Started, FateType
<1> QED  BY <1>4, <1>5, <1>7

\* The session's connection is not closed.
LEMMA SessionConnected ==
  ASSUME IndInv, db \in Conns
  PROVE  conn[db].status # "closed"
BY DEF IndInv, TypeOK, ClosedIffUnreferenced, Unreferenced

\* Every step of the library and its client preserves the invariant.
LEMMA StepInv == IndInv /\ [Next]_vars => IndInv'
<1> SUFFICES ASSUME IndInv, [Next]_vars PROVE IndInv'
  OBVIOUS
<1>a. /\ backend \in Backends
      /\ db \in Conns \cup {NoConn}
      /\ disk \in SUBSET Writes
      /\ conn \in [Conns -> Connection] /\ \A c \in Conns : Quiet(conn[c])
      /\ owner \in [Conns -> Impls \cup {NoImpl}]
      /\ fate \in [Impls -> FateType]
      /\ impl \in [Impls -> ImplType]
      /\ handle \in [Handles -> HandleType]
      /\ \A h \in Handles : handle[h].impl # NoImpl => impl[handle[h].impl].db # NoConn
      /\ terminated \in BOOLEAN
      /\ \A c \in Conns : conn[c].status = "closed" <=> Unreferenced(c, db, impl)
      /\ db \in Conns => conn[db].status # "closed"
      /\ \A h \in Handles : ~handle[h].live => handle[h].impl = NoImpl
      /\ \A i \in Impls : Held(handle, i) \/ impl[i] = FreeImpl
  <2>1. /\ \A c \in Conns : conn[c].status = "closed" <=> Unreferenced(c, db, impl)
        /\ ~Unreferenced(db, db, impl)
    BY DEF IndInv, TypeOK, ClosedIffUnreferenced, Unreferenced
  <2> QED  BY <2>1 DEF IndInv, TypeOK, QuietConnections, HeldImplsConnected, ImplType, HandleType,
                       FateType, DeadIsEmpty, UnheldImplsFree
<1>u. ASSUME UNCHANGED <<handle, impl>>  PROVE DeadIsEmpty' /\ UnheldImplsFree'
  BY <1>u DEF IndInv, DeadIsEmpty, UnheldImplsFree, Held
<1>v. ASSUME \A h \in Handles : ~handle'[h].live => handle'[h].impl = NoImpl,
             \A i \in Impls : impl'[i] = impl[i] \/ Held(handle', i),
             \A i \in Impls : Held(handle, i) => Held(handle', i)
      PROVE  DeadIsEmpty' /\ UnheldImplsFree'
  BY <1>a, <1>v DEF DeadIsEmpty, UnheldImplsFree, Held
<1>b. Refusable \in BOOLEAN
  BY DEF Refusable
<1>fixed. UNCHANGED backend
  BY DEF Next, vars
<1> USE <1>fixed
<1>1. CASE UNCHANGED vars
  BY <1>1, <1>u DEF vars, IndInv, TypeOK, QuietConnections, HeldImplsConnected,
              ClosedIffUnreferenced, Unreferenced
<1>2. CASE Open
  <2>1. /\ Fresh("idle") \in Connection /\ Quiet(Fresh("idle"))
        /\ Fresh("idle").status # "closed"
    <3>1. Fresh("idle").status # "closed"
      BY DEF Fresh
    <3> QED  BY <3>1, FreshType DEF Status
  <2>2. ClosedIffUnreferenced'
    BY <1>2, <1>a, <2>1, TransactionAssumption DEF Open, ClosedIffUnreferenced, Unreferenced
  <2> QED  BY <1>2, <1>a, <1>u, <2>1, <2>2 DEF Open, IndInv, TypeOK, QuietConnections,
              HeldImplsConnected
<1>3. CASE Close
  <2>1. Fresh("closed") \in Connection /\ Quiet(Fresh("closed"))
    BY FreshType DEF Status
  <2>2. conn' \in [Conns -> Connection] /\ QuietConnections'
    BY <1>3, <1>a, <2>1 DEF Close, Reaped, QuietConnections
  <2>3. owner' \in [Conns -> Impls \cup {NoImpl}]
    BY <1>3, <1>a DEF Close, ReapedOwner
  <2>4. fate' \in [Impls -> FateType]
    BY <1>3, <1>a DEF Close, ReapedFate, FateType
  <2>a. ClosedIffUnreferenced'
    <3>1. Fresh("closed").status = "closed"
      BY DEF Fresh
    <3>2. \A c \in Conns : Unreferenced(c, db, impl) => Unreferenced(c, NoConn, impl)
      BY TransactionAssumption DEF Unreferenced
    <3>3. \A c \in Conns : Reaped(conn, NoConn, impl)[c].status = "closed"
                             <=> Unreferenced(c, NoConn, impl)
      BY <1>a, <3>1, <3>2 DEF Reaped
    <3>4. UNCHANGED impl /\ db' = NoConn /\ conn' = Reaped(conn, NoConn, impl)
      BY <1>3 DEF Close
    <3> QED  BY <3>3, <3>4 DEF ClosedIffUnreferenced
  <2>5. TypeOK'
    BY <1>3, <2>2, <2>3, <2>4, <2>a DEF Close, IndInv, TypeOK, FateType
  <2>6. HeldImplsConnected'
    BY <1>3 DEF Close, IndInv, HeldImplsConnected
  <2>7. DeadIsEmpty' /\ UnheldImplsFree'
    BY <1>3, <1>u DEF Close
  <2> QED  BY <2>2, <2>5, <2>6, <2>7 DEF IndInv
<1>4. CASE Write
  <2>1. db \in Conns
    BY <1>4, <1>a DEF Write
  <2>2. PICK w \in Writes : \E o \in WriteOutcomes(conn[db], w, disk) : Apply(o, db)
    BY <1>4 DEF Write
  <2>3. PICK o \in WriteOutcomes(conn[db], w, disk) : Apply(o, db)
    BY <2>2
  <2>4. GoodOutcome(o)
    BY <1>a, <2>1, <2>3, WriteCommandType
  <2> QED  BY <1>4, <1>a, <2>1, <2>3, <2>4, ApplyPreserves DEF Write
<1>5. CASE StatementFails
  <2>1. db \in Conns
    BY <1>5, <1>a DEF StatementFails
  <2>2. PICK o \in FailureOutcomes(conn[db], disk, Refusable) : Apply(o, db)
    BY <1>5 DEF StatementFails
  <2>3. GoodOutcome(o)
    BY <1>a, <1>b, <2>1, <2>2, TransactionCommandType
  <2> QED  BY <1>5, <1>a, <2>1, <2>2, <2>3, ApplyPreserves DEF StatementFails
<1>6. CASE StartTransactionThrows
  <2>1. db \in Conns
    BY <1>6, <1>a DEF StartTransactionThrows
  <2>2. PICK b \in BeginOutcomes(conn[db], disk, Refusable) :
          IF backend # "mysql" /\ b.conn.status = "intrans"
            THEN \E o \in RollbackOutcomes(b.conn, b.disk, Refusable) :
                   Apply(o, db) /\ terminated' = ~o.ok
            ELSE Apply(b, db) /\ UNCHANGED terminated
    BY <1>6 DEF StartTransactionThrows
  <2>3. GoodOutcome(b) /\ b.conn \in Connection /\ b.disk \in SUBSET Writes
    <3>1. GoodOutcome(b)
      BY <1>a, <1>b, <2>1, <2>2, TransactionCommandType
    <3> QED  BY <3>1 DEF GoodOutcome, Outcome
  <2>4. PICK o : GoodOutcome(o) /\ Apply(o, db) /\ terminated' \in BOOLEAN
    <3>1. CASE backend # "mysql" /\ b.conn.status = "intrans"
      <4>1. PICK o \in RollbackOutcomes(b.conn, b.disk, Refusable) :
              Apply(o, db) /\ terminated' = ~o.ok
        BY <2>2, <3>1
      <4>2. GoodOutcome(o)
        BY <1>b, <2>3, <4>1, TransactionCommandType DEF GoodOutcome
      <4> QED  BY <4>1, <4>2
    <3>2. CASE ~(backend # "mysql" /\ b.conn.status = "intrans")
      BY <1>a, <2>2, <2>3, <3>2
    <3> QED  BY <3>1, <3>2
  <2> QED  BY <1>6, <1>a, <2>1, <2>4, ApplyPreserves DEF StartTransactionThrows
<1>7. ASSUME NEW h \in Handles, Create(h) PROVE IndInv'
  <2>1. PICK i \in Impls :
          /\ ~Held(handle, i)
          /\ impl' = [impl EXCEPT ![i] = [db |-> db, active |-> FALSE]]
          /\ handle' = [handle EXCEPT ![h] =
                          [live |-> TRUE, impl |-> i, successful |-> FALSE]]
          /\ fate' = [fate EXCEPT ![i] = "none"]
    BY <1>7 DEF Create
  <2>a. ClosedIffUnreferenced'
    <3>1. impl[i].db = NoConn /\ impl'[i].db = db /\ \A j \in Impls : j # i => impl'[j] = impl[j]
      BY <1>a, <2>1 DEF FreeImpl
    <3>2. db \in Conns /\ UNCHANGED <<db, conn>>
      BY <1>7, <1>a DEF Create
    <3>3. \A c \in Conns : Unreferenced(c, db, impl) <=> Unreferenced(c, db, impl')
      BY <3>1, <3>2, TransactionAssumption DEF Unreferenced
    <3> QED  BY <1>a, <3>2, <3>3 DEF ClosedIffUnreferenced
  <2>2. TypeOK'
    BY <1>7, <2>1, <2>a DEF Create, IndInv, TypeOK
  <2>3. HeldImplsConnected'
    BY <1>7, <1>a, <2>1 DEF Create, HeldImplsConnected, ImplType, HandleType
  <2>4. DeadIsEmpty' /\ UnheldImplsFree'
    <3>1. /\ handle'[h].live = TRUE /\ handle'[h].impl = i /\ handle[h].impl = NoImpl
          /\ \A g \in Handles : g # h => handle'[g] = handle[g]
          /\ \A j \in Impls : j # i => impl'[j] = impl[j]
      BY <1>7, <1>a, <2>1 DEF Create
    <3>2. \A j \in Impls : (impl'[j] = impl[j] \/ Held(handle', j))
                             /\ (Held(handle, j) => Held(handle', j))
      BY <3>1, TransactionAssumption DEF Held
    <3> QED  BY <1>a, <1>v, <3>1, <3>2
  <2> QED  BY <1>7, <2>2, <2>3, <2>4 DEF Create, IndInv, QuietConnections
<1>8. ASSUME NEW h \in Handles, Start(h) PROVE IndInv'
  <2> DEFINE i == handle[h].impl
             c == impl[i].db
  <2>1. i \in Impls /\ c \in Conns
    BY <1>8, <1>a DEF Start, Usable, HandleType, ImplType
  <2>2. PICK o \in BeginOutcomes(conn[c], disk, Refusable) :
          /\ Started(i, c, o, fate)
          /\ impl' = [impl EXCEPT ![i].active = (backend = "mysql" /\ o.ok) \/ @]
    BY <1>8 DEF Start
  <2>3. /\ impl' \in [Impls -> ImplType] /\ \A j \in Impls : impl'[j].db = impl[j].db
        /\ \A j \in Impls : j # i => impl'[j] = impl[j]
    BY <1>a, <2>1, <2>2 DEF ImplType
  <2>a. conn[c].status # "closed" /\ UNCHANGED <<db, handle, terminated>>
    BY <1>8, <1>a, <2>1 DEF Start, Unreferenced
  <2>b. DeadIsEmpty' /\ UnheldImplsFree'
    <3>1. Held(handle', i)
      BY <2>a DEF Held
    <3> QED  BY <1>a, <1>v, <2>3, <2>a, <3>1
  <2>4. HeldImplsConnected'
    BY <1>8, <1>a, <2>3 DEF Start, HeldImplsConnected, HandleType
  <2> HIDE DEF i, c
  <2>5. /\ conn' \in [Conns -> Connection] /\ QuietConnections'
        /\ \A x \in Conns : conn'[x].status = "closed" <=> conn[x].status = "closed"
        /\ disk' \in SUBSET Writes
        /\ owner' \in [Conns -> Impls \cup {NoImpl}]
        /\ fate' \in [Impls -> FateType]
    BY <1>a, <2>1, <2>2, <2>a, StartedPreserves
  <2>c. ClosedIffUnreferenced'
    BY <1>a, <2>3, <2>5, <2>a DEF ClosedIffUnreferenced, Unreferenced
  <2>6. TypeOK'
    BY <1>8, <2>3, <2>5, <2>c DEF Start, IndInv, TypeOK, ImplType, FateType
  <2> QED  BY <2>4, <2>5, <2>6, <2>b DEF IndInv
<1>9. ASSUME NEW h \in Handles, StartTransaction(h) PROVE IndInv'
  <2>1. PICK i \in Impls : \E o \in BeginOutcomes(conn[db], disk, Refusable) :
          /\ ~Held(handle, i)
          /\ Started(i, db, o, [fate EXCEPT ![i] = "none"])
          /\ impl' = [impl EXCEPT ![i] = [db |-> db, active |-> backend = "mysql"]]
          /\ handle' = [handle EXCEPT ![h] =
                          [live |-> TRUE, impl |-> i, successful |-> FALSE]]
    BY <1>9 DEF StartTransaction
  <2>2. db \in Conns /\ [fate EXCEPT ![i] = "none"] \in [Impls -> FateType]
    BY <1>9, <1>a DEF StartTransaction, FateType
  <2>3. /\ conn' \in [Conns -> Connection] /\ QuietConnections'
        /\ \A x \in Conns : conn'[x].status = "closed" <=> conn[x].status = "closed"
        /\ disk' \in SUBSET Writes
        /\ owner' \in [Conns -> Impls \cup {NoImpl}]
        /\ fate' \in [Impls -> FateType]
    BY <1>a, <2>1, <2>2, StartedPreserves
  <2>a. [db |-> db, active |-> backend = "mysql"] \in ImplType
    <3>1. (backend = "mysql") \in BOOLEAN
      OBVIOUS
    <3> QED  BY <2>2, <3>1, Zenon DEF ImplType
  <2>b. impl' \in [Impls -> ImplType] /\ handle' \in [Handles -> HandleType]
    BY <1>a, <2>1, <2>a DEF HandleType
  <2>c. UNCHANGED <<db, terminated>>
    BY <1>9 DEF StartTransaction
  <2>d. /\ impl[i].db = NoConn /\ impl'[i].db = db
        /\ \A j \in Impls : j # i => impl'[j] = impl[j]
    <3> DEFINE v == [db |-> db, active |-> backend = "mysql"]
    <3>1. v.db = db /\ impl' = [impl EXCEPT ![i] = v]
      BY <2>1
    <3> HIDE DEF v
    <3> QED  BY <1>a, <2>1, <3>1 DEF FreeImpl
  <2>e. \A c \in Conns : Unreferenced(c, db, impl) <=> Unreferenced(c, db, impl')
    BY <2>2, <2>d, TransactionAssumption DEF Unreferenced
  <2>f. ClosedIffUnreferenced'
    BY <1>a, <2>3, <2>c, <2>e DEF ClosedIffUnreferenced
  <2>4. TypeOK'
    BY <1>a, <2>3, <2>b, <2>c, <2>f DEF TypeOK, FateType, ImplType, HandleType
  <2>5. HeldImplsConnected'
    BY <1>a, <2>1, <2>2, TransactionAssumption DEF HeldImplsConnected, HandleType, ImplType
  <2>6. DeadIsEmpty' /\ UnheldImplsFree'
    <3>1. /\ handle'[h].live = TRUE /\ handle'[h].impl = i /\ handle[h].impl = NoImpl
          /\ \A g \in Handles : g # h => handle'[g] = handle[g]
      BY <1>9, <1>a, <2>1 DEF StartTransaction
    <3>2. \A j \in Impls : (impl'[j] = impl[j] \/ Held(handle', j))
                             /\ (Held(handle, j) => Held(handle', j))
      BY <2>d, <3>1, TransactionAssumption DEF Held
    <3> QED  BY <1>a, <1>v, <3>1, <3>2
  <2> QED  BY <2>3, <2>4, <2>5, <2>6 DEF IndInv
<1>10. ASSUME NEW h \in Handles, Commit(h) PROVE IndInv'
  <2>1. db \in Conns
    BY <1>10, <1>a DEF Commit
  <2>2. PICK o \in CommitOutcomes(conn[db], disk, Refusable) : Apply(o, db)
    BY <1>10 DEF Commit
  <2>3. GoodOutcome(o)
    BY <1>a, <1>b, <2>1, <2>2, TransactionCommandType
  <2> QED  BY <1>10, <1>a, <2>1, <2>2, <2>3, ApplyPreserves DEF Commit
<1>11. ASSUME NEW h \in Handles, Rollback(h) PROVE IndInv'
  <2>1. db \in Conns
    BY <1>11, <1>a DEF Rollback
  <2>2. PICK o \in RollbackOutcomes(conn[db], disk, Refusable) : Apply(o, db)
    BY <1>11 DEF Rollback
  <2>3. GoodOutcome(o)
    BY <1>a, <1>b, <2>1, <2>2, TransactionCommandType
  <2> QED  BY <1>11, <1>a, <2>1, <2>2, <2>3, ApplyPreserves DEF Rollback
<1>12. ASSUME NEW h \in Handles, NEW n \in Names,
              Save(h, n) \/ Release(h, n) \/ RollbackTo(h, n)
       PROVE  IndInv'
  <2>1. db \in Conns /\ UNCHANGED <<db, impl, handle, terminated>>
    BY <1>12, <1>a DEF Save, Release, RollbackTo
  <2>2. PICK o \in SaveOutcomes(conn[db], n, disk)
                     \cup ReleaseOutcomes(conn[db], n, disk)
                     \cup RollbackToOutcomes(conn[db], n, disk) : Apply(o, db)
    BY <1>12 DEF Save, Release, RollbackTo
  <2>3. GoodOutcome(o)
    BY <1>a, <2>1, <2>2, SavepointCommandType
  <2> QED  BY <1>a, <2>1, <2>2, <2>3, ApplyPreserves
<1>13. ASSUME NEW h \in Handles, NEW v \in BOOLEAN, SetSuccessful(h, v)
       PROVE  IndInv'
  <2>1. handle' \in [Handles -> HandleType]
          /\ \A g \in Handles : handle'[g].impl = handle[g].impl /\ handle'[g].live = handle[g].live
    BY <1>13, <1>a DEF SetSuccessful, HandleType
  <2>2. UNCHANGED <<db, conn, disk, owner, fate, impl, terminated>>
    BY <1>13 DEF SetSuccessful, engine
  <2>3. DeadIsEmpty' /\ UnheldImplsFree'
    BY <1>a, <1>v, <2>1, <2>2 DEF Held
  <2>4. ClosedIffUnreferenced'
    BY <1>a, <2>2 DEF ClosedIffUnreferenced, Unreferenced
  <2> QED  BY <1>a, <2>1, <2>2, <2>3, <2>4 DEF IndInv, TypeOK, HandleType,
              QuietConnections, HeldImplsConnected
<1>14. ASSUME NEW h \in Handles, NEW g \in Handles,
              Copy(h, g) \/ Wrap(h, g) \/ Move(h, g)
       PROVE  IndInv'
  <2>1. /\ handle' \in [Handles -> HandleType]
        /\ \A x \in Handles : handle'[x].impl # NoImpl =>
             \E y \in Handles : handle'[x].impl = handle[y].impl
        /\ handle'[g].impl = handle[h].impl /\ handle'[g].live = TRUE
        /\ handle'[h].live = TRUE
        /\ \A x \in Handles : x # g /\ x # h => handle'[x] = handle[x]
        /\ handle[g].impl = NoImpl
    <3>1. CASE Copy(h, g)
      BY <1>a, <3>1 DEF Copy, HandleType
    <3>2. CASE Wrap(h, g)
      BY <1>a, <3>2 DEF Wrap, Usable, HandleType
    <3>3. CASE Move(h, g)
      <4>1. handle' = [handle EXCEPT ![g] = handle[h], ![h].impl = NoImpl]
              /\ handle[h].live /\ ~handle[g].live
        BY <3>3 DEF Move
      <4>2. handle' \in [Handles -> HandleType]
        BY <1>a, <4>1 DEF HandleType
      <4>3. \A x \in Handles : handle'[x].impl \in
              {NoImpl, handle[h].impl, handle[x].impl}
        BY <1>a, <4>1 DEF HandleType
      <4>4. /\ handle'[g].impl = handle[h].impl /\ handle'[g].live = TRUE
            /\ handle'[h].live = TRUE /\ handle[g].impl = NoImpl
            /\ \A x \in Handles : x # g /\ x # h => handle'[x] = handle[x]
        BY <1>a, <4>1 DEF HandleType
      <4> QED  BY <4>2, <4>3, <4>4
    <3> QED  BY <1>14, <3>1, <3>2, <3>3
  <2>2. UNCHANGED <<db, conn, disk, owner, fate, impl, terminated>>
    BY <1>14 DEF Copy, Wrap, Move, engine
  <2>3. HeldImplsConnected'
    BY <1>a, <2>1, <2>2 DEF HeldImplsConnected
  <2>4. DeadIsEmpty' /\ UnheldImplsFree'
    <3>1. ASSUME NEW i \in Impls, Held(handle, i)  PROVE Held(handle', i)
      <4>1. PICK x \in Handles : handle[x].impl = i
        BY <3>1 DEF Held
      <4>2. x # g
        BY <2>1, <4>1, TransactionAssumption
      <4> QED  BY <2>1, <4>1, <4>2 DEF Held
    <3>2. \A x \in Handles : ~handle'[x].live => handle'[x].impl = NoImpl
      BY <1>a, <2>1
    <3> QED  BY <1>v, <2>2, <3>1, <3>2
  <2>5. ClosedIffUnreferenced'
    BY <1>a, <2>2 DEF ClosedIffUnreferenced, Unreferenced
  <2> QED  BY <2>1, <2>2, <2>3, <2>4, <2>5 DEF IndInv, TypeOK, HandleType, QuietConnections
<1>15. ASSUME NEW h \in Handles, NEW g \in Handles,
              CopyAssign(h, g) \/ MoveAssign(h, g)
       PROVE  IndInv'
  <2>1. PICK hs \in {[handle EXCEPT ![g] = handle[h]],
                     [handle EXCEPT ![g] = handle[h], ![h].impl = NoImpl]} :
          Drop(hs, conn, owner, fate)
    BY <1>15 DEF CopyAssign, MoveAssign
  <2>2. /\ hs \in [Handles -> HandleType]
        /\ \A x \in Handles : hs[x].impl # NoImpl =>
             \E y \in Handles : hs[x].impl = handle[y].impl
    <3>1. handle \in [Handles -> HandleType]
      BY <1>a
    <3>2. CASE hs = [handle EXCEPT ![g] = handle[h]]
      BY <3>1, <3>2
    <3>3. CASE hs = [handle EXCEPT ![g] = handle[h], ![h].impl = NoImpl]
      <4> DEFINE k == [handle EXCEPT ![g] = handle[h]]
      <4>1. /\ k \in [Handles -> HandleType]
            /\ \A x \in Handles : \E y \in Handles : k[x].impl = handle[y].impl
        BY <3>1
      <4>2. hs = [k EXCEPT ![h].impl = NoImpl]
        BY <3>3
      <4> HIDE DEF k
      <4>3. hs \in [Handles -> HandleType]
        BY <4>1, <4>2 DEF HandleType
      <4>4. \A x \in Handles : hs[x].impl \in {NoImpl, k[x].impl}
        BY <4>1, <4>2 DEF HandleType
      <4>5. ASSUME NEW x \in Handles, hs[x].impl # NoImpl
            PROVE  \E y \in Handles : hs[x].impl = handle[y].impl
        <5>1. hs[x].impl = k[x].impl
          BY <4>4, <4>5
        <5>2. PICK y \in Handles : k[x].impl = handle[y].impl
          BY <4>1
        <5> QED  BY <5>1, <5>2
      <4> QED  BY <4>3, <4>5
    <3> QED  BY <2>1, <3>2, <3>3
  <2>5. \A x \in Handles : ~hs[x].live => hs[x].impl = NoImpl
    <3>1. handle[h].live /\ handle[g].live
      BY <1>15 DEF CopyAssign, MoveAssign
    <3>2. CASE hs = [handle EXCEPT ![g] = handle[h]]
      BY <1>a, <3>1, <3>2 DEF HandleType
    <3>3. CASE hs = [handle EXCEPT ![g] = handle[h], ![h].impl = NoImpl]
      <4> DEFINE k == [handle EXCEPT ![g] = handle[h]]
      <4>1. k \in [Handles -> HandleType] /\ \A x \in Handles : ~k[x].live => k[x].impl = NoImpl
        BY <1>a, <3>1
      <4>2. hs = [k EXCEPT ![h].impl = NoImpl]
        BY <3>3
      <4> HIDE DEF k
      <4>3. ASSUME NEW x \in Handles, ~hs[x].live  PROVE hs[x].impl = NoImpl
        BY <4>1, <4>2, <4>3 DEF HandleType
      <4> QED  BY <4>3
    <3> QED  BY <2>1, <3>2, <3>3
  <2>3. \A x \in Handles : hs[x].impl # NoImpl => impl[hs[x].impl].db # NoConn
    BY <1>a, <2>2
  <2>4. UNCHANGED <<db, disk, terminated>>
    BY <1>15 DEF CopyAssign, MoveAssign
  <2> QED  BY <1>a, <2>1, <2>2, <2>3, <2>4, <2>5, DropPreserves
<1>c. ASSUME NEW h \in Handles
      PROVE  /\ Without(h) \in [Handles -> HandleType]
             /\ \A x \in Handles : Without(h)[x].impl # NoImpl =>
                  impl[Without(h)[x].impl].db # NoConn
             /\ \A x \in Handles : ~Without(h)[x].live => Without(h)[x].impl = NoImpl
  BY <1>a DEF Without, Dead, HandleType
<1>16. ASSUME NEW h \in Handles, DestroyInactive(h) PROVE IndInv'
  BY <1>16, <1>a, <1>c, DropPreserves DEF DestroyInactive
<1>17. ASSUME NEW h \in Handles, DestroyActive(h) PROVE IndInv'
  <2>1. db \in Conns /\ UNCHANGED <<db, terminated>>
    BY <1>17, <1>a DEF DestroyActive
  <2>2. PICK o \in DestructorOutcomes(h) :
          /\ disk' = o.disk
          /\ Drop(Without(h), [conn EXCEPT ![db] = o.conn],
                  OwnerAfter(o, db), FateAfter(fate, o, db))
    BY <1>17 DEF DestroyActive
  <2>3. GoodOutcome(o)
    BY <1>a, <1>b, <2>1, <2>2, TransactionCommandType DEF DestructorOutcomes
  <2>4. o \in Outcome /\ o.conn \in Connection /\ o.disk \in SUBSET Writes
          /\ Quiet(o.conn) /\ o.conn.status # "closed"
    BY <2>3 DEF GoodOutcome, Outcome
  <2>5. /\ OwnerAfter(o, db) \in [Conns -> Impls \cup {NoImpl}]
        /\ FateAfter(fate, o, db) \in [Impls -> FateType]
    BY <1>a, <2>1, <2>4, HistoryType DEF IndInv
  <2>6. /\ [conn EXCEPT ![db] = o.conn] \in [Conns -> Connection]
        /\ \A c \in Conns : Quiet([conn EXCEPT ![db] = o.conn][c])
        /\ \A c \in Conns : [conn EXCEPT ![db] = o.conn][c].status = "closed"
                               => conn[c].status = "closed"
    BY <1>a, <2>1, <2>4
  <2> QED  BY <1>c, <2>1, <2>2, <2>4, <2>5, <2>6, DropPreserves
<1>18. ASSUME NEW h \in Handles, DestroyThrows(h) PROVE IndInv'
  BY <1>18, <1>u DEF DestroyThrows, engine, IndInv, TypeOK, QuietConnections,
               HeldImplsConnected, ClosedIffUnreferenced, Unreferenced
<1> QED
  BY <1>1, <1>2, <1>3, <1>4, <1>5, <1>6, <1>7, <1>8, <1>9, <1>10, <1>11, <1>12,
     <1>13, <1>14, <1>15, <1>16, <1>17, <1>18 DEF Next

\* Every reachable state is well typed, impls stay connected and connections
\* outside of a transaction are quiet.
THEOREM Invariance == Spec => []IndInv
BY InitInv, StepInv, PTL DEF Spec

\* Type correctness of the transaction model.
THEOREM TypeCorrect == Spec => []TypeOK
<1>1. IndInv => TypeOK
  BY DEF IndInv
<1> QED  BY <1>1, Invariance, PTL

-----------------------------------------------------------------------------
(* Action properties *)

\* ROLLBACK changes no stored data.  If it succeeds it leaves the connection
\* outside of any transaction, with nothing pending; it does unless a server
\* fails it, or sqlite has no transaction.
LEMMA RollbackEnds ==
  ASSUME NEW k \in Connection, Quiet(k), NEW d \in SUBSET Writes, NEW r \in BOOLEAN,
         NEW o \in RollbackOutcomes(k, d, r)
  PROVE  /\ o.disk = d
         /\ o.ok => o.conn.pending = {} /\ ~InTransaction(o.conn)
         /\ (k.status # "lost" /\ ~r /\ (backend = "sqlite" => InTransaction(k))) => o.ok
         /\ (backend = "sqlite" /\ InTransaction(k)) => o.ok
<1>1. o \in {Discarded(TRUE, d), Lost(d), Refused(k, d)} \/ (~InTransaction(k) /\ o = Accepted(k, d))
  BY DEF RollbackOutcomes, Broken
<1>2. o.disk = d /\ (o.ok => o.conn.pending = {} /\ ~InTransaction(o.conn))
  BY <1>1 DEF Accepted, Refused, Lost, Discarded, Answer, Fresh, InTransaction, Quiet
<1>3. (k.status # "lost" /\ ~r /\ (backend = "sqlite" => InTransaction(k))) => o.ok
  BY DEF RollbackOutcomes, Broken, Accepted, Discarded, Answer
<1>4. (backend = "sqlite" /\ InTransaction(k)) => o.ok
  BY DEF RollbackOutcomes, Broken, Discarded, Answer, InTransaction
<1> QED  BY <1>2, <1>3, <1>4

\* COMMIT inside a transaction succeeds unless the engine may refuse; outside
\* of one it fails for sqlite only.
LEMMA CommitSucceeds ==
  ASSUME NEW k \in Connection, NEW d \in SUBSET Writes, k.status # "lost",
         backend # "sqlite" \/ InTransaction(k),
         NEW o \in CommitOutcomes(k, d, FALSE)
  PROVE  o.ok
BY DEF CommitOutcomes, Broken, Accepted, Refused, Discarded, Published, Answer, InTransaction

\* Only the destructor ends a handle's life.
LEMMA DestroyedOnlyByDestructor ==
  ASSUME IndInv, Next, NEW h \in Handles, Destroyed(h)
  PROVE  DestroyInactive(h) \/ DestroyActive(h)
<1> USE DEF Destroyed
<1>a. handle \in [Handles -> HandleType]
  BY DEF IndInv, TypeOK, HandleType
<1>1. CASE Open \/ Close \/ Write \/ StatementFails \/ StartTransactionThrows
  BY <1>1 DEF Open, Close, Write, StatementFails, StartTransactionThrows
<1>2. ASSUME NEW g \in Handles,
             Create(g) \/ Start(g) \/ StartTransaction(g) \/ Commit(g) \/ Rollback(g)
      PROVE  FALSE
  BY <1>2, <1>a DEF Create, Start, StartTransaction, Commit, Rollback, HandleType
<1>3. ASSUME NEW g \in Handles, DestroyInactive(g) \/ DestroyActive(g)
      PROVE  DestroyInactive(h) \/ DestroyActive(h)
  <2>1. handle' = Without(g)
    BY <1>3 DEF DestroyInactive, DestroyActive, Drop
  <2>2. g = h
    BY <1>a, <2>1 DEF Without
  <2> QED  BY <1>3, <2>2
<1>4. ASSUME NEW g \in Handles, DestroyThrows(g) PROVE FALSE
  BY <1>4 DEF DestroyThrows
<1>5. ASSUME NEW g \in Handles, NEW n \in Names,
             Save(g, n) \/ Release(g, n) \/ RollbackTo(g, n)
      PROVE  FALSE
  BY <1>5 DEF Save, Release, RollbackTo
<1>6. ASSUME NEW g \in Handles, NEW v \in BOOLEAN, SetSuccessful(g, v) PROVE FALSE
  BY <1>6, <1>a DEF SetSuccessful, HandleType
<1>7. ASSUME NEW f \in Handles, NEW g \in Handles,
             \/ Copy(f, g) \/ Wrap(f, g) \/ Move(f, g)
             \/ CopyAssign(f, g) \/ MoveAssign(f, g)
      PROVE  FALSE
  <2>1. CASE Copy(f, g)
    BY <1>a, <2>1 DEF Copy, HandleType
  <2>2. CASE Wrap(f, g)
    BY <1>a, <2>2 DEF Wrap, Usable, HandleType
  <2>3. CASE Move(f, g)
    BY <1>a, <2>3 DEF Move, HandleType
  <2>4. CASE CopyAssign(f, g)
    BY <1>a, <2>4 DEF CopyAssign, Drop, HandleType
  <2>5. CASE MoveAssign(f, g)
    BY <1>a, <2>5 DEF MoveAssign, Drop, HandleType
  <2> QED  BY <1>7, <2>1, <2>2, <2>3, <2>4, <2>5
<1> QED  BY <1>1, <1>2, <1>3, <1>4, <1>5, <1>6, <1>7 DEF Next

\* For every backend and every client: the destructor of a handle that was not
\* set successful stores nothing and ends the transaction of its connection.
THEOREM UnsuccessfulNeverStores == Spec => UnsuccessfulScopeDiscards
<1> DEFINE A(h) ==
      Destroyed(h) /\ ~handle[h].successful =>
         /\ disk' = disk
         /\ IsActive(h) /\ impl[handle[h].impl].db = db
              => conn'[db].pending = {} /\ ~InTransaction(conn'[db])
<1>1. ASSUME IndInv, Next, NEW h \in Handles PROVE A(h)
  <2> SUFFICES ASSUME Destroyed(h), ~handle[h].successful
               PROVE  /\ disk' = disk
                      /\ IsActive(h) /\ impl[handle[h].impl].db = db
                           => conn'[db].pending = {} /\ ~InTransaction(conn'[db])
    OBVIOUS
  <2>1. CASE DestroyInactive(h)
    BY <2>1 DEF DestroyInactive
  <2>2. CASE DestroyActive(h)
    <3>1. db \in Conns /\ conn[db] \in Connection /\ Quiet(conn[db])
            /\ disk \in SUBSET Writes
      BY <1>1, <2>2 DEF DestroyActive, IndInv, TypeOK, QuietConnections
    <3>2. PICK o \in RollbackOutcomes(conn[db], disk, Refusable) :
            /\ o.ok
            /\ disk' = o.disk
            /\ Drop(Without(h), [conn EXCEPT ![db] = o.conn],
                    OwnerAfter(o, db), FateAfter(fate, o, db))
      BY <2>2 DEF DestroyActive, DestructorOutcomes
    <3>r. Refusable \in BOOLEAN
      BY DEF Refusable
    <3>3. o.disk = disk /\ o.conn.pending = {} /\ ~InTransaction(o.conn)
      BY <3>1, <3>2, <3>r, RollbackEnds
    <3>4. conn'[db] = o.conn
      BY <1>1, <3>1, <3>2 DEF Drop, Reaped, Unreferenced, IndInv, TypeOK
    <3> QED  BY <3>2, <3>3, <3>4
  <2> QED  BY <1>1, <2>1, <2>2, DestroyedOnlyByDestructor
<1>2. IndInv /\ [Next]_vars => [\A h \in Handles : A(h)]_vars
  BY <1>1
<1> QED  BY <1>2, Invariance, PTL DEF Spec, UnsuccessfulScopeDiscards

\* For every backend and every client: a destructor throws only when the session
\* is not on the handle's connection any more, or when the engine failed a
\* command it could have carried out.
THEOREM DestructorSafe == Spec => TerminatesOnlyAfterCloseOrFailure
<1> DEFINE Cause ==
      \E h \in Handles :
         /\ IsActive(h)
         /\ \/ impl[handle[h].impl].db # db
            \/ Refusable /\ (backend = "sqlite" => handle[h].successful)
<1>r. Refusable \in BOOLEAN
  BY DEF Refusable
<1>1. ASSUME IndInv, Next, terminated', ~terminated PROVE Cause
  <2>1. CASE StartTransactionThrows
    <3>1. db \in Conns /\ conn[db] \in Connection /\ Quiet(conn[db])
            /\ disk \in SUBSET Writes
      BY <1>1, <2>1 DEF StartTransactionThrows, IndInv, TypeOK, QuietConnections
    <3>2. PICK b \in BeginOutcomes(conn[db], disk, Refusable) :
            /\ ~b.ok
            /\ backend # "mysql" /\ b.conn.status = "intrans"
            /\ \E o \in RollbackOutcomes(b.conn, b.disk, Refusable) : terminated' = ~o.ok
      BY <1>1, <2>1 DEF StartTransactionThrows
    <3>3. b = Refused(conn[db], disk) /\ backend = "sqlite" /\ conn[db].status = "intrans"
      <4>1. b.conn.status # "lost"
        BY <3>2
      <4>2. b \in {Begun(conn[db], disk), Refused(conn[db], disk)}
        BY <3>2, <4>1 DEF BeginOutcomes, Broken, Lost, Answer, Fresh
      <4>3. b = Refused(conn[db], disk)
        BY <3>2, <4>2 DEF Begun, Accepted, Answer
      <4>4. conn[db].status = "intrans"
        BY <3>2, <4>3 DEF Refused, Answer
      <4>5. backend # "postgres"
        <5> SUFFICES ASSUME backend = "postgres"  PROVE FALSE
          OBVIOUS
        <5>1. b \in {Accepted(conn[db], disk), Lost(disk)}
          BY <3>2, <4>4 DEF BeginOutcomes, Broken, Begun
        <5> QED  BY <3>2, <5>1 DEF Accepted, Lost, Answer, Fresh
      <4> QED  BY <1>1, <3>2, <4>3, <4>4, <4>5, BackendAssumption DEF IndInv, TypeOK
    <3>4. PICK o \in RollbackOutcomes(conn[db], disk, Refusable) : terminated' = ~o.ok
      BY <3>2, <3>3 DEF Refused, Answer
    <3>5. o.ok
      BY <1>r, <3>1, <3>3, <3>4, RollbackEnds DEF InTransaction
    <3> QED  BY <1>1, <3>4, <3>5
  <2>2. ASSUME NEW h \in Handles, DestroyThrows(h) PROVE Cause
    <3> SUFFICES ASSUME impl[handle[h].impl].db = db
                 PROVE  Refusable /\ (backend = "sqlite" => handle[h].successful)
      BY <2>2 DEF DestroyThrows
    <3>1. handle[h].impl \in Impls /\ db \in Conns
      BY <1>1, <2>2 DEF DestroyThrows, IsActive, IndInv, TypeOK, HeldImplsConnected
    <3>2. conn[db] \in Connection /\ Quiet(conn[db]) /\ disk \in SUBSET Writes
      BY <1>1, <3>1 DEF IndInv, TypeOK, QuietConnections
    <3>3. PICK o \in DestructorOutcomes(h) : ~o.ok
      BY <2>2, <3>1, TransactionAssumption DEF DestroyThrows
    <3>4. backend = "sqlite" => InTransaction(conn[db])
      BY <2>2 DEF DestroyThrows, IsActive, ImplActive, InTransaction
    <3>5. backend = "sqlite" => handle[h].successful
      BY <1>r, <3>2, <3>3, <3>4, RollbackEnds DEF DestructorOutcomes
    <3>6. CASE ~Refusable
      <4>1. Refusable = FALSE /\ conn[db].status # "lost"
        BY <3>2, <3>6 DEF Refusable, Quiet
      <4>2. CASE handle[h].successful
        <5>1. o \in CommitOutcomes(conn[db], disk, FALSE)
          BY <3>3, <4>1, <4>2 DEF DestructorOutcomes
        <5> QED  BY <3>2, <3>3, <3>4, <4>1, <5>1, CommitSucceeds
      <4>3. CASE ~handle[h].successful
        <5>1. o \in RollbackOutcomes(conn[db], disk, FALSE)
          BY <3>3, <4>1, <4>3 DEF DestructorOutcomes
        <5> QED  BY <3>2, <3>3, <3>4, <4>1, <5>1, RollbackEnds
      <4> QED  BY <4>2, <4>3
    <3> QED  BY <3>5, <3>6
  <2>3. StartTransactionThrows \/ \E h \in Handles : DestroyThrows(h)
    BY <1>1 DEF Next, Open, Close, Write, StatementFails, Create, Start, StartTransaction,
       Commit, Rollback, Save, Release, RollbackTo, SetSuccessful, Copy, Wrap, Move,
       CopyAssign, MoveAssign, DestroyInactive, DestroyActive
  <2> QED  BY <2>1, <2>2, <2>3
<1>2. IndInv /\ [Next]_vars => [terminated' /\ ~terminated => Cause]_vars
  BY <1>1
<1> QED  BY <1>2, Invariance, PTL DEF Spec, TerminatesOnlyAfterCloseOrFailure

-----------------------------------------------------------------------------
(* The last handle leaves no transaction behind *)

\* A client that assigns no handles and keeps its session open.  Assignment
\* drops an impl and runs no destructor; a session that is closed and opened
\* again has another connection than the handles it gave out.
Scoped == Calls \cap {"assign", "close"} = {}

\* A handle whose destructor will end the transaction of the session.
Keeps(h) ==
  handle[h].impl # NoImpl /\ (backend = "mysql" => impl[handle[h].impl].active)

\* Every impl in use has the connection that the session has.
OneConnection ==
  /\ db \in Conns
  /\ \A h \in Handles : handle[h].impl # NoImpl => impl[handle[h].impl].db = db

\* Only postgres has aborted blocks, which ROLLBACK TO can revive.
AbortedIsPostgres == conn[db].status = "inerror" => backend = "postgres"

\* Somebody will end the transaction of the session.
OpenIsKept == conn[db].status = "intrans" => \E h \in Handles : Keeps(h)

LeakInv == IndInv /\ DeadIsEmpty /\ OneConnection /\ AbortedIsPostgres /\ OpenIsKept

\* What a command on a connection k may leave of its status.
StatusAfter(k, o) ==
  /\ o.conn.status = "intrans" =>
       k.status = "intrans" \/ k.status = "inerror" \/ backend = "sqlite"
  /\ o.conn.status = "inerror" => k.status = "inerror" \/ backend = "postgres"

\* The answers a command that opens no transaction is made of.
LEMMA AnswerStatus ==
  ASSUME NEW k \in Connection, NEW d
  PROVE  /\ StatusAfter(k, Accepted(k, d)) /\ StatusAfter(k, Refused(k, d))
         /\ \A b \in BOOLEAN : StatusAfter(k, Discarded(b, d))
         /\ StatusAfter(k, Published(k, d))
         /\ StatusAfter(k, StatementError(k, d))
         /\ StatusAfter(k, LostAfterCommit(k, d))
         /\ \A b \in BOOLEAN : \A o \in Broken(k, d, b) : StatusAfter(k, o)
<1>1. StatusAfter(k, Accepted(k, d)) /\ StatusAfter(k, Refused(k, d))
  BY DEF StatusAfter, Accepted, Refused, Answer
<1>2. /\ \A b \in BOOLEAN : StatusAfter(k, Discarded(b, d))
      /\ StatusAfter(k, Published(k, d))
  BY DEF StatusAfter, Discarded, Published, Answer, Fresh
<1>3. StatusAfter(k, StatementError(k, d))
  <2> DEFINE x == [k EXCEPT !.status = "inerror"]
  <2>1. x.status = "inerror"
    BY DEF Connection
  <2> HIDE DEF x
  <2>2. StatementError(k, d) =
          IF backend = "postgres" /\ k.status = "intrans" THEN Refused(x, d) ELSE Refused(k, d)
    BY DEF StatementError, x
  <2>3. backend = "postgres" => StatusAfter(k, Refused(x, d))
    BY <2>1 DEF StatusAfter, Refused, Answer
  <2> QED  BY <1>1, <2>2, <2>3
<1>4. StatusAfter(k, LostAfterCommit(k, d)) /\ StatusAfter(k, Lost(d))
  BY DEF StatusAfter, LostAfterCommit, Lost, Answer, Fresh
<1>5. \A b \in BOOLEAN : \A o \in Broken(k, d, b) : StatusAfter(k, o)
  BY <1>1, <1>4 DEF Broken
<1> QED  BY <1>1, <1>2, <1>3, <1>4, <1>5

\* COMMIT and ROLLBACK open no transaction and abort none.
LEMMA CommitRollbackStatus ==
  ASSUME NEW k \in Connection, NEW d
  PROVE  /\ \A r \in BOOLEAN : \A o \in CommitOutcomes(k, d, r) : StatusAfter(k, o)
         /\ \A r \in BOOLEAN : \A o \in RollbackOutcomes(k, d, r) : StatusAfter(k, o)
<1>1. \A r \in BOOLEAN : \A o \in CommitOutcomes(k, d, r) : StatusAfter(k, o)
  BY AnswerStatus DEF CommitOutcomes, CommitRefusals
<1>2. \A r \in BOOLEAN : \A o \in RollbackOutcomes(k, d, r) : StatusAfter(k, o)
  BY AnswerStatus DEF RollbackOutcomes
<1> QED  BY <1>1, <1>2

\* Of the savepoint commands only sqlite's SAVEPOINT opens a transaction, only
\* postgres aborts one, and only an aborted one is revived.
LEMMA SavepointStatus ==
  ASSUME NEW k \in Connection, NEW d, NEW n \in Names
  PROVE  /\ \A o \in SaveOutcomes(k, n, d) : StatusAfter(k, o)
         /\ \A o \in ReleaseOutcomes(k, n, d) : StatusAfter(k, o)
         /\ \A o \in RollbackToOutcomes(k, n, d) : StatusAfter(k, o)
<1>1. \A o \in SaveOutcomes(k, n, d) : StatusAfter(k, o)
  <2>1. Pushed(k, n).status = k.status
    BY DEF Pushed, Connection
  <2>2. StatusAfter(k, Accepted(Pushed(k, n), d))
    BY <2>1 DEF StatusAfter, Accepted, Answer
  <2> DEFINE y == [Pushed(Fresh("intrans"), n) EXCEPT !.implicit = TRUE]
  <2>3. y.status = "intrans"
    BY DEF Pushed, Fresh
  <2> HIDE DEF y
  <2>4. backend = "sqlite" => StatusAfter(k, Accepted(y, d))
    BY <2>3 DEF StatusAfter, Accepted, Answer
  <2> QED  BY AnswerStatus, <2>2, <2>4 DEF SaveOutcomes, y
<1>2. \A o \in ReleaseOutcomes(k, n, d) : StatusAfter(k, o)
  <2> DEFINE x == [k EXCEPT !.saves = Keep(k, Innermost(k, n) - 1)]
  <2>1. x.status = k.status
    BY DEF Connection
  <2> HIDE DEF x
  <2>2. StatusAfter(k, Accepted(x, d))
    BY <2>1 DEF StatusAfter, Accepted, Answer
  <2> QED  BY AnswerStatus, <2>2 DEF ReleaseOutcomes, x
<1>3. \A o \in RollbackToOutcomes(k, n, d) : StatusAfter(k, o)
  <2> DEFINE u == [k EXCEPT !.status = "intrans"]
             v == [u EXCEPT !.saves = Keep(k, Innermost(k, n))]
             w == [v EXCEPT !.pending = k.saves[Innermost(k, n)].pending]
  <2>1. u \in Connection /\ u.status = "intrans"
    BY DEF Connection, Status
  <2>2. RollbackToOutcomes(k, n, d) =
          IF ~InTransaction(k) \/ Positions(k, n) = {} THEN {StatementError(k, d)}
                                                      ELSE {Accepted(w, d)}
    BY Zenon DEF RollbackToOutcomes
  <2> HIDE DEF u
  <2>3. DOMAIN v = DOMAIN u /\ v.status = u.status
    BY <2>1 DEF Connection
  <2> HIDE DEF v
  <2>4. w.status = "intrans"
    BY <2>1, <2>3 DEF Connection
  <2> HIDE DEF w
  <2>5. InTransaction(k) => StatusAfter(k, Accepted(w, d))
    BY <2>4 DEF StatusAfter, Accepted, Answer, InTransaction
  <2> QED  BY AnswerStatus, <2>2, <2>5
<1> QED  BY <1>1, <1>2, <1>3

\* The COMMIT or ROLLBACK of a destructor that succeeds ends the transaction.
LEMMA DestructorEnds ==
  ASSUME IndInv, db \in Conns, NEW h \in Handles, NEW o \in DestructorOutcomes(h), o.ok
  PROVE  ~InTransaction(o.conn)
<1>1. conn[db] \in Connection /\ Quiet(conn[db]) /\ disk \in SUBSET Writes /\ Refusable \in BOOLEAN
  BY DEF IndInv, TypeOK, QuietConnections, Refusable
<1>2. CASE handle[h].successful
  <2>1. o \in {Accepted(conn[db], disk), Discarded(TRUE, disk), Published(conn[db], disk)}
    BY <1>1, <1>2 DEF DestructorOutcomes, CommitOutcomes, CommitRefusals, Broken, Refused,
                      Lost, LostAfterCommit, Discarded, Answer
  <2>2. o = Accepted(conn[db], disk) => conn[db].status = "idle"
    BY <1>1, <1>2 DEF DestructorOutcomes, CommitOutcomes, CommitRefusals, Broken, Refused, Accepted,
                      Lost, LostAfterCommit, Discarded, Published, Answer, Fresh
  <2> QED  BY <2>1, <2>2 DEF Accepted, Discarded, Published, Answer, Fresh, InTransaction
<1>3. CASE ~handle[h].successful
  BY <1>1, <1>3, RollbackEnds DEF DestructorOutcomes
<1> QED  BY <1>2, <1>3

\* A command on the session's connection, which the client gives through a
\* handle unless it can open no transaction.
LEMMA CommandKeeps ==
  ASSUME LeakInv, IndInv', NEW o, conn' = [conn EXCEPT ![db] = o.conn],
         StatusAfter(conn[db], o), UNCHANGED <<backend, db, impl, handle>>,
         \/ \E h \in Handles : Usable(h)
         \/ o.conn.status = "intrans" => conn[db].status = "intrans"
  PROVE  LeakInv'
<1>1. conn'[db] = o.conn
  BY DEF LeakInv, IndInv, TypeOK, OneConnection
<1>2. DeadIsEmpty' /\ OneConnection' /\ AbortedIsPostgres'
  BY <1>1 DEF LeakInv, DeadIsEmpty, OneConnection, AbortedIsPostgres, StatusAfter
<1>3. \A h \in Handles : Keeps(h)' <=> Keeps(h)
  BY DEF Keeps
<1>4. ASSUME conn'[db].status = "intrans"  PROVE \E h \in Handles : Keeps(h)
  <2>1. CASE conn[db].status = "intrans"
    BY <2>1 DEF LeakInv, OpenIsKept
  <2>2. CASE conn[db].status # "intrans"
    <3>1. PICK h \in Handles : Usable(h)
      BY <1>1, <1>4, <2>2
    <3>2. backend # "mysql"
      BY <1>1, <1>4, <2>2 DEF StatusAfter, LeakInv, AbortedIsPostgres
    <3> QED  BY <3>1, <3>2 DEF Keeps, Usable
  <2> QED  BY <2>1, <2>2
<1> QED  BY <1>2, <1>3, <1>4 DEF LeakInv, OpenIsKept

\* When a handle goes whose destructor did not leave the transaction open, or
\* could not have ended it, somebody else keeps what is open.
LEMMA DropKeeps ==
  ASSUME LeakInv, IndInv', NEW h \in Handles, NEW ks \in [Conns -> Connection], NEW os, NEW fs,
         Drop(Without(h), ks, os, fs), UNCHANGED <<backend, db>>,
         ks[db].status = "intrans" => conn[db].status = "intrans" /\ ~Keeps(h),
         ks[db].status = "inerror" => backend = "postgres"
  PROVE  LeakInv'
<1>1. handle' = Without(h) /\ impl' = Kept(Without(h)) /\ conn' = Reaped(ks, db, Kept(Without(h)))
  BY DEF Drop
<1>a. handle \in [Handles -> HandleType] /\ impl \in [Impls -> ImplType] /\ db \in Conns
  BY DEF LeakInv, OneConnection, IndInv, TypeOK, HandleType, ImplType
<1>2. /\ handle'[h] = Dead
      /\ \A g \in Handles : g # h => handle'[g] = handle[g]
  BY <1>1, <1>a DEF Without
<1>3. conn'[db] = ks[db]
  BY <1>1, <1>a DEF Reaped, Unreferenced
<1>4. ASSUME NEW g \in Handles, g # h, handle[g].impl # NoImpl
      PROVE  impl'[handle[g].impl] = impl[handle[g].impl]
  <2>1. handle[g].impl \in Impls /\ Held(Without(h), handle[g].impl)
    BY <1>1, <1>2, <1>4, <1>a DEF HandleType, Held
  <2> QED  BY <1>1, <2>1 DEF Kept
<1>5. Dead.live = FALSE /\ Dead.impl = NoImpl
  BY DEF Dead
<1>6. DeadIsEmpty'
  BY <1>2, <1>5 DEF LeakInv, DeadIsEmpty
<1>7. OneConnection'
  BY <1>2, <1>4, <1>5, <1>a DEF LeakInv, OneConnection
<1>8. AbortedIsPostgres'
  BY <1>3 DEF AbortedIsPostgres
<1>9. OpenIsKept'
  <2> SUFFICES ASSUME conn'[db].status = "intrans"  PROVE (\E g \in Handles : Keeps(g))'
    BY DEF OpenIsKept
  <2>1. PICK g \in Handles : Keeps(g) /\ g # h
    BY <1>3 DEF LeakInv, OpenIsKept
  <2>2. Keeps(g)'
    BY <1>2, <1>4, <2>1 DEF Keeps
  <2> QED  BY <2>2
<1> QED  BY <1>6, <1>7, <1>8, <1>9 DEF LeakInv

\* The session is idle and there are no handles.
LEMMA LeakInit == Init => LeakInv
<1> SUFFICES ASSUME Init  PROVE LeakInv
  OBVIOUS
<1>1. IndInv
  BY InitInv
<1>2. /\ db \in Conns /\ conn[db].status = "idle"
      /\ \A h \in Handles : handle[h].impl = NoImpl
  BY DEF Init, Fresh, Dead
<1> QED  BY <1>1, <1>2 DEF LeakInv, DeadIsEmpty, OneConnection, AbortedIsPostgres, OpenIsKept

\* start() of an impl opens a transaction only when it succeeds.
LEMMA BeginStatus ==
  ASSUME NEW k, NEW d, NEW r \in BOOLEAN, NEW o \in BeginOutcomes(k, d, r)
  PROVE  /\ o.conn.status = "inerror" => k.status = "inerror"
         /\ o.conn.status = "intrans" => o.ok \/ k.status = "intrans"
         /\ ~o.ok => o \in {Refused(k, d), Lost(d)}
<1>1. CASE o \in {Refused(k, d), Lost(d)}
  BY <1>1 DEF Refused, Lost, Answer, Fresh
<1>2. CASE o = Begun(k, d) /\ o \notin {Refused(k, d), Lost(d)}
  <2>1. CASE k.status = "idle"
    BY <1>2, <2>1 DEF Begun, Accepted, Answer, Fresh
  <2>2. CASE k.status # "idle" /\ backend = "mysql"
    <3> DEFINE p == [Published(k, d) EXCEPT !.conn = Fresh("intrans")]
    <3>1. p.ok = TRUE /\ p.conn = Fresh("intrans")
      BY DEF Published, Answer
    <3>2. o = p
      BY <1>2, <2>2 DEF Begun
    <3> HIDE DEF p
    <3> QED  BY <3>1, <3>2 DEF Fresh
  <2>3. CASE k.status # "idle" /\ backend # "mysql"
    BY <1>2, <2>3 DEF Begun, Accepted, Answer
  <2> QED  BY <2>1, <2>2, <2>3
<1> QED  BY <1>1, <1>2 DEF BeginOutcomes, Broken

\* Every step of such a client keeps the invariant.
LEMMA LeakNext == Scoped /\ LeakInv /\ [Next]_vars => LeakInv'
<1> SUFFICES ASSUME Scoped, LeakInv, [Next]_vars  PROVE LeakInv'
  OBVIOUS
<1>a. /\ IndInv /\ IndInv' /\ UNCHANGED backend /\ db \in Conns
      /\ handle \in [Handles -> HandleType] /\ impl \in [Impls -> ImplType]
      /\ conn \in [Conns -> Connection] /\ conn[db] \in Connection /\ Quiet(conn[db])
      /\ disk \in SUBSET Writes
  BY StepInv DEF LeakInv, OneConnection, IndInv, TypeOK, QuietConnections, HandleType, ImplType,
                 Next, vars
<1>b. Refusable \in BOOLEAN
  BY DEF Refusable
<1>s. ASSUME UNCHANGED <<db, conn, impl>>, \A h \in Handles : Keeps(h) => \E g \in Handles : Keeps(g)',
             \A h \in Handles : handle'[h].impl # NoImpl =>
               handle'[h].live /\ \E g \in Handles : handle'[h].impl = handle[g].impl
      PROVE  LeakInv'
  <2>1. DeadIsEmpty'
    BY <1>s DEF DeadIsEmpty
  <2>2. OneConnection' /\ AbortedIsPostgres'
    BY <1>a, <1>s DEF LeakInv, OneConnection, AbortedIsPostgres
  <2>3. OpenIsKept'
    <3> SUFFICES ASSUME conn'[db'].status = "intrans"  PROVE \E g \in Handles : Keeps(g)'
      BY DEF OpenIsKept
    <3>1. PICK h \in Handles : Keeps(h)
      BY <1>s DEF LeakInv, OpenIsKept
    <3> QED  BY <1>s, <3>1
  <2> QED  BY <1>a, <2>1, <2>2, <2>3 DEF LeakInv
<1>l. \A h \in Handles : handle[h].impl # NoImpl => handle[h].live
  BY DEF LeakInv, DeadIsEmpty
<1>1. CASE UNCHANGED vars
  <2>1. \A h \in Handles : Keeps(h)' <=> Keeps(h)
    BY <1>1 DEF vars, Keeps
  <2> QED  BY <1>1, <1>l, <1>s, <2>1 DEF vars
<1>2. ~Open /\ ~Close /\ \A h, g \in Handles : ~CopyAssign(h, g) /\ ~MoveAssign(h, g)
  BY DEF Scoped, Open, Close, CopyAssign, MoveAssign
<1>3. CASE Write
  <2>1. PICK w \in Writes : \E o \in WriteOutcomes(conn[db], w, disk) : Apply(o, db)
    BY <1>3 DEF Write
  <2>2. PICK o \in WriteOutcomes(conn[db], w, disk) : Apply(o, db)
    BY <2>1
  <2>3. o.conn.status = conn[db].status
    <3> DEFINE y == [conn[db] EXCEPT !.pending = @ \cup {w}]
    <3>1. y.status = conn[db].status
      BY <1>a DEF Connection
    <3>2. o \in {Accepted(conn[db], disk \cup {w}), Accepted(y, disk), Refused(conn[db], disk)}
      BY <2>2 DEF WriteOutcomes
    <3> HIDE DEF y
    <3> QED  BY <3>1, <3>2 DEF Accepted, Refused, Answer
  <2>4. StatusAfter(conn[db], o)
    BY <2>3 DEF StatusAfter
  <2> QED  BY <1>3, <1>a, <2>2, <2>3, <2>4, CommandKeeps DEF Write, Apply
<1>4. CASE StatementFails
  <2>1. PICK o \in FailureOutcomes(conn[db], disk, Refusable) : Apply(o, db)
    BY <1>4 DEF StatementFails
  <2>2. StatusAfter(conn[db], o)
    BY <1>a, <1>b, <2>1, AnswerStatus DEF FailureOutcomes
  <2> DEFINE x == [conn[db] EXCEPT !.status = "inerror"]
  <2>3. x.status = "inerror"
    BY <1>a DEF Connection
  <2>4. o \in {Refused(x, disk), Refused(conn[db], disk), Lost(disk)}
    BY <2>1 DEF FailureOutcomes, StatementError, Broken
  <2> HIDE DEF x
  <2>5. o.conn.status = "intrans" => conn[db].status = "intrans"
    BY <2>3, <2>4 DEF Refused, Lost, Answer, Fresh
  <2> QED  BY <1>4, <1>a, <2>1, <2>2, <2>5, CommandKeeps DEF StatementFails, Apply
<1>5. CASE StartTransactionThrows
  <2>1. PICK b \in BeginOutcomes(conn[db], disk, Refusable) :
          /\ ~b.ok
          /\ IF backend # "mysql" /\ b.conn.status = "intrans"
               THEN \E o \in RollbackOutcomes(b.conn, b.disk, Refusable) : Apply(o, db)
               ELSE Apply(b, db)
    BY <1>5 DEF StartTransactionThrows
  <2>2. b \in {Refused(conn[db], disk), Lost(disk)}
    BY <1>b, <2>1, BeginStatus
  <2>3. UNCHANGED <<db, impl, handle>>
    BY <1>5 DEF StartTransactionThrows
  <2>4. b.conn.status = "intrans" => b.conn = conn[db] /\ b.disk = disk
    BY <2>2 DEF Refused, Lost, Answer, Fresh
  <2>5. PICK o : /\ Apply(o, db) /\ StatusAfter(conn[db], o)
                 /\ o.conn.status = "intrans" => conn[db].status = "intrans"
    <3>1. CASE backend # "mysql" /\ b.conn.status = "intrans"
      <4>1. PICK o \in RollbackOutcomes(conn[db], disk, Refusable) : Apply(o, db)
        BY <2>1, <2>4, <3>1
      <4>2. StatusAfter(conn[db], o)
        BY <1>a, <1>b, <4>1, CommitRollbackStatus
      <4>3. conn[db].status = "intrans"
        BY <2>4, <3>1
      <4> QED  BY <4>1, <4>2, <4>3
    <3>2. CASE ~(backend # "mysql" /\ b.conn.status = "intrans")
      <4>1. /\ StatusAfter(conn[db], b)
            /\ b.conn.status = "intrans" => conn[db].status = "intrans"
        BY <2>2 DEF StatusAfter, Refused, Lost, Answer, Fresh
      <4> QED  BY <2>1, <3>2, <4>1
    <3> QED  BY <3>1, <3>2
  <2> QED  BY <1>a, <2>3, <2>5, CommandKeeps DEF Apply
<1>6. ASSUME NEW h \in Handles, Create(h)  PROVE LeakInv'
  <2>1. PICK i \in Impls :
          /\ ~Held(handle, i)
          /\ impl' = [impl EXCEPT ![i] = [db |-> db, active |-> FALSE]]
          /\ handle' = [handle EXCEPT ![h] =
                          [live |-> TRUE, impl |-> i, successful |-> FALSE]]
    BY <1>6 DEF Create
  <2>2. ~handle[h].live /\ UNCHANGED <<db, conn>>
    BY <1>6 DEF Create
  <2>3. /\ handle'[h].impl = i /\ handle'[h].live = TRUE /\ impl'[i].db = db
        /\ \A g \in Handles : g # h => handle'[g] = handle[g]
        /\ \A j \in Impls : j # i => impl'[j] = impl[j]
        /\ \A g \in Handles : handle[g].impl # i
        /\ handle[h].impl = NoImpl
    BY <1>a, <1>l, <2>1, <2>2 DEF Held
  <2>4. DeadIsEmpty'
    BY <1>l, <2>3 DEF DeadIsEmpty
  <2>5. OneConnection'
    BY <1>a, <2>2, <2>3 DEF LeakInv, OneConnection, HandleType
  <2>6. \A g \in Handles : Keeps(g) => Keeps(g)'
    BY <1>a, <2>3 DEF Keeps, HandleType
  <2>7. AbortedIsPostgres' /\ OpenIsKept'
    BY <1>a, <2>2, <2>6 DEF LeakInv, AbortedIsPostgres, OpenIsKept
  <2> QED  BY <1>a, <2>4, <2>5, <2>7 DEF LeakInv
<1>7. ASSUME NEW h \in Handles, Start(h)  PROVE LeakInv'
  <2> DEFINE i == handle[h].impl
  <2>1. i \in Impls /\ i # NoImpl /\ impl[i].db = db
    BY <1>7, <1>a DEF Start, Usable, HandleType, LeakInv, OneConnection
  <2>2. PICK o \in BeginOutcomes(conn[db], disk, Refusable) :
          /\ Started(i, db, o, fate)
          /\ impl' = [impl EXCEPT ![i].active = (backend = "mysql" /\ o.ok) \/ @]
    BY <1>7, <2>1 DEF Start
  <2>3. UNCHANGED <<db, handle>>
    BY <1>7 DEF Start
  <2>4. /\ o.conn.status = "inerror" => conn[db].status = "inerror"
        /\ o.conn.status = "intrans" => o.ok \/ conn[db].status = "intrans"
    BY <1>b, <2>2, BeginStatus
  <2>5. conn'[db] = o.conn
    BY <1>a, <2>2 DEF Started
  <2>6. \A j \in Impls : impl'[j].db = impl[j].db
    BY <1>a, <2>1, <2>2 DEF ImplType
  <2>7. /\ backend = "mysql" /\ o.ok => impl'[i].active
        /\ \A j \in Impls : impl[j].active => impl'[j].active
    <3> DEFINE b == (backend = "mysql" /\ o.ok) \/ impl[i].active
    <3>1. impl' = [impl EXCEPT ![i] = [impl[i] EXCEPT !.active = b]]
      BY <2>2, Zenon
    <3>2. (backend = "mysql" /\ o.ok => b) /\ (impl[i].active => b)
      OBVIOUS
    <3> HIDE DEF b
    <3>3. impl'[i].active = b /\ \A j \in Impls : j # i => impl'[j] = impl[j]
      BY <1>a, <2>1, <3>1 DEF ImplType
    <3> QED  BY <3>2, <3>3
  <2>8. DeadIsEmpty' /\ OneConnection' /\ AbortedIsPostgres'
    BY <1>a, <2>3, <2>4, <2>5, <2>6
    DEF LeakInv, DeadIsEmpty, OneConnection, AbortedIsPostgres, HandleType
  <2>9. o.ok => Keeps(h)'
    BY <1>a, <2>1, <2>3, <2>7 DEF Keeps
  <2>10. \A g \in Handles : Keeps(g) => Keeps(g)'
    BY <1>a, <2>3, <2>7 DEF Keeps, HandleType
  <2>11. OpenIsKept'
    BY <1>a, <2>3, <2>4, <2>5, <2>9, <2>10 DEF LeakInv, OpenIsKept
  <2> QED  BY <1>a, <2>8, <2>11 DEF LeakInv
<1>8. ASSUME NEW h \in Handles, StartTransaction(h)  PROVE LeakInv'
  <2>1. PICK i \in Impls : \E o \in BeginOutcomes(conn[db], disk, Refusable) :
          /\ ~Held(handle, i)
          /\ Started(i, db, o, [fate EXCEPT ![i] = "none"])
          /\ impl' = [impl EXCEPT ![i] = [db |-> db, active |-> backend = "mysql"]]
          /\ handle' = [handle EXCEPT ![h] =
                          [live |-> TRUE, impl |-> i, successful |-> FALSE]]
    BY <1>8 DEF StartTransaction
  <2>2. PICK o \in BeginOutcomes(conn[db], disk, Refusable) :
          Started(i, db, o, [fate EXCEPT ![i] = "none"])
    BY <2>1
  <2>3. UNCHANGED db
    BY <1>8 DEF StartTransaction
  <2>4. o.conn.status = "inerror" => conn[db].status = "inerror"
    BY <1>b, <2>2, BeginStatus
  <2>5. conn'[db] = o.conn
    BY <1>a, <2>2 DEF Started
  <2>6. /\ handle'[h].impl = i /\ handle'[h].live = TRUE
        /\ \A g \in Handles : g # h => handle'[g] = handle[g]
        /\ \A g \in Handles : handle[g].impl # i
    BY <1>a, <2>1 DEF Held
  <2> DEFINE v == [db |-> db, active |-> backend = "mysql"]
  <2>a. v.db = db /\ (backend = "mysql" => v.active)
    OBVIOUS
  <2>b. impl' = [impl EXCEPT ![i] = v]
    BY <2>1
  <2> HIDE DEF v
  <2>7. impl'[i] = v /\ \A j \in Impls : j # i => impl'[j] = impl[j]
    BY <1>a, <2>b
  <2>8. impl'[i].db = db /\ (backend = "mysql" => impl'[i].active)
    BY <2>7, <2>a
  <2>9. DeadIsEmpty' /\ OneConnection' /\ AbortedIsPostgres'
    BY <1>a, <1>l, <2>3, <2>4, <2>5, <2>6, <2>7, <2>8
    DEF LeakInv, DeadIsEmpty, OneConnection, AbortedIsPostgres, HandleType
  <2>10. Keeps(h)'
    BY <1>a, <2>6, <2>8, TransactionAssumption DEF Keeps
  <2> QED  BY <1>a, <2>9, <2>10 DEF LeakInv, OpenIsKept
<1>9. ASSUME NEW h \in Handles,
             \/ Commit(h) \/ Rollback(h)
             \/ \E n \in Names : Save(h, n) \/ Release(h, n) \/ RollbackTo(h, n)
      PROVE  LeakInv'
  <2>1. Usable(h) /\ UNCHANGED <<db, impl, handle>>
    BY <1>9 DEF Commit, Rollback, Save, Release, RollbackTo
  <2>2. \E o : Apply(o, db) /\ StatusAfter(conn[db], o)
    <3>1. CASE Commit(h)
      BY <1>a, <1>b, <3>1, CommitRollbackStatus DEF Commit
    <3>2. CASE Rollback(h)
      BY <1>a, <1>b, <3>2, CommitRollbackStatus DEF Rollback
    <3>3. ASSUME NEW n \in Names, Save(h, n) \/ Release(h, n) \/ RollbackTo(h, n)
          PROVE  \E o : Apply(o, db) /\ StatusAfter(conn[db], o)
      BY <1>a, <3>3, SavepointStatus DEF Save, Release, RollbackTo
    <3> QED  BY <1>9, <3>1, <3>2, <3>3
  <2>3. PICK o : Apply(o, db) /\ StatusAfter(conn[db], o)
    BY <2>2
  <2> QED  BY <1>a, <2>1, <2>3, CommandKeeps DEF Apply
<1>10. ASSUME NEW h \in Handles, NEW v \in BOOLEAN, SetSuccessful(h, v)  PROVE LeakInv'
  <2>1. /\ UNCHANGED <<db, conn, impl>>
        /\ \A g \in Handles : handle'[g].impl = handle[g].impl /\ handle'[g].live = handle[g].live
    BY <1>10, <1>a DEF SetSuccessful, engine, HandleType
  <2>2. \A g \in Handles : Keeps(g) => Keeps(g)'
    BY <1>a, <2>1 DEF Keeps
  <2> QED  BY <1>l, <1>s, <2>1, <2>2
<1>11. ASSUME NEW h \in Handles, NEW g \in Handles, Copy(h, g) \/ Wrap(h, g) \/ Move(h, g)
       PROVE  LeakInv'
  <2>1. UNCHANGED <<db, conn, impl>> /\ handle[h].live /\ ~handle[g].live
    BY <1>11 DEF Copy, Wrap, Move, Usable, engine
  <2>2. handle[g].impl = NoImpl /\ h # g
    BY <1>l, <2>1
  <2>3. /\ handle'[g].impl = handle[h].impl /\ handle'[g].live = handle[h].live
        /\ handle'[h].impl \in {NoImpl, handle[h].impl} /\ handle'[h].live = handle[h].live
        /\ \A x \in Handles : x # h /\ x # g => handle'[x] = handle[x]
    <3>1. CASE Copy(h, g)
      BY <1>a, <2>2, <3>1 DEF Copy
    <3>2. CASE Wrap(h, g)
      BY <1>a, <2>2, <3>2 DEF Wrap, HandleType
    <3>3. CASE Move(h, g)
      BY <1>a, <2>2, <3>3 DEF Move, HandleType
    <3> QED  BY <1>11, <3>1, <3>2, <3>3
  <2>4. \A x \in Handles : Keeps(x) => \E y \in Handles : Keeps(y)'
    <3> SUFFICES ASSUME NEW x \in Handles, Keeps(x)  PROVE \E y \in Handles : Keeps(y)'
      OBVIOUS
    <3>1. CASE x = h
      <4>1. Keeps(g)'
        BY <1>a, <2>1, <2>3, <3>1 DEF Keeps
      <4> QED  BY <4>1
    <3>2. CASE x # h
      <4>1. x # g
        BY <2>2 DEF Keeps
      <4>2. Keeps(x)'
        BY <1>a, <2>1, <2>3, <3>2, <4>1 DEF Keeps
      <4> QED  BY <4>2
    <3> QED  BY <3>1, <3>2
  <2> QED  BY <1>l, <1>s, <2>1, <2>3, <2>4
<1>12. ASSUME NEW h \in Handles, DestroyInactive(h)  PROVE LeakInv'
  <2>1. Drop(Without(h), conn, owner, fate) /\ ~IsActive(h) /\ UNCHANGED db
    BY <1>12 DEF DestroyInactive
  <2>2. conn[db].status = "intrans" => ~Keeps(h)
    BY <2>1 DEF IsActive, ImplActive, Keeps, LeakInv, OneConnection
  <2>3. conn[db].status = "inerror" => backend = "postgres"
    BY DEF LeakInv, AbortedIsPostgres
  <2> QED  BY <1>a, <2>1, <2>2, <2>3, DropKeeps
<1>13. ASSUME NEW h \in Handles, DestroyActive(h)  PROVE LeakInv'
  <2>1. PICK o \in DestructorOutcomes(h) :
          /\ o.ok
          /\ Drop(Without(h), [conn EXCEPT ![db] = o.conn],
                  OwnerAfter(o, db), FateAfter(fate, o, db))
    BY <1>13 DEF DestroyActive
  <2>2. ~InTransaction(o.conn) /\ UNCHANGED db
    BY <1>13, <1>a, <2>1, DestructorEnds DEF DestroyActive
  <2>3. GoodOutcome(o)
    BY <1>a, <1>b, <2>1, SessionConnected, TransactionCommandType DEF DestructorOutcomes
  <2> DEFINE ks == [conn EXCEPT ![db] = o.conn]
  <2>4. ks \in [Conns -> Connection] /\ ks[db] = o.conn
    BY <1>a, <2>3 DEF GoodOutcome, Outcome
  <2> HIDE DEF ks
  <2>5. Drop(Without(h), ks, OwnerAfter(o, db), FateAfter(fate, o, db))
    BY <2>1 DEF ks
  <2>6. ks[db].status # "intrans" /\ ks[db].status # "inerror"
    BY <2>2, <2>4 DEF InTransaction
  <2> QED  BY <1>a, <2>2, <2>4, <2>5, <2>6, DropKeeps
<1>14. ASSUME NEW h \in Handles, DestroyThrows(h)  PROVE LeakInv'
  <2>1. UNCHANGED <<db, conn, impl, handle>>
    BY <1>14 DEF DestroyThrows, engine
  <2>2. \A g \in Handles : Keeps(g) => Keeps(g)'
    BY <1>a, <2>1 DEF Keeps
  <2> QED  BY <1>l, <1>s, <2>1, <2>2
<1> QED
  BY <1>1, <1>2, <1>3, <1>4, <1>5, <1>6, <1>7, <1>8, <1>9, <1>10, <1>11, <1>12, <1>13, <1>14
  DEF Next

\* When the last handle is gone the session is in autocommit mode again: for
\* every backend and any number of handles, impls, modifications and
\* savepoints, however handles are copied, moved and destroyed, commands fail
\* and the engine refuses to commit (transaction.cpp, ~transaction).
THEOREM LastHandleEnds ==
  ASSUME Scoped
  PROVE  Spec => []NoLeakedTransaction
<1>1. LeakInv => NoLeakedTransaction
  BY DEF LeakInv, OpenIsKept, Keeps, NoLeakedTransaction
<1>2. Init => LeakInv
  BY LeakInit
<1>3. LeakInv /\ [Next]_vars => LeakInv'
  BY LeakNext
<1> QED  BY <1>1, <1>2, <1>3, PTL DEF Spec

-----------------------------------------------------------------------------
(* The scope guard *)

\* A client with one transaction at a time, which it commits, divides by
\* savepoints it made and passes on by moving its handle.
OneScope ==
  /\ Calls \subseteq {"commit", "save", "move"}
  /\ \A i, j \in Impls : i = j

\* No two handles share an impl.
Sole ==
  \A h, g \in Handles : handle[h].impl # NoImpl /\ handle[h].impl = handle[g].impl => h = g

\* The transaction an impl opened is on the session's connection.
OwnersHere == \A c \in Conns : c # db => owner[c] = NoImpl

\* The transaction of a handle is open on the session's connection until it is
\* committed.
FateOf(i) ==
  /\ fate[i] # "rolledback"
  /\ fate[i] = "open" => conn[db].status = "intrans" /\ owner[db] = i

FateOfHeld == \A h \in Handles : handle[h].impl # NoImpl => FateOf(handle[h].impl)

ScopeInv ==
  LeakInv /\ Sole /\ conn[db].status # "inerror" /\ OwnersHere /\ FateOfHeld

\* A command that leaves the transaction open or commits it.
Forward(k, o) ==
  /\ o.ended \in {"no", "committed"}
  /\ o.conn.status # "inerror"
  /\ o.ended = "no" /\ k.status = "intrans" => o.conn.status = "intrans"

\* What such a client sends is of that kind.
LEMMA ForwardCommands ==
  ASSUME NEW k \in Connection, k.status # "inerror", NEW d
  PROVE  /\ \A o \in CommitOutcomes(k, d, FALSE) : Forward(k, o)
         /\ \A w \in Writes : \A o \in WriteOutcomes(k, w, d) : Forward(k, o)
         /\ \A n \in Names : \A o \in SaveOutcomes(k, n, d) : Forward(k, o)
         /\ \A n \in Names : Positions(k, n) # {} =>
              /\ \A o \in ReleaseOutcomes(k, n, d) : Forward(k, o)
              /\ \A o \in RollbackToOutcomes(k, n, d) : Forward(k, o)
<1>a. ASSUME NEW x, NEW e, x.status # "inerror", k.status = "intrans" => x.status = "intrans"
      PROVE  Forward(k, Accepted(x, e)) /\ Forward(k, Refused(x, e))
  BY <1>a DEF Forward, Accepted, Refused, Answer
<1>1. /\ \A e : Forward(k, Accepted(k, e)) /\ Forward(k, Refused(k, e))
      /\ Forward(k, Published(k, d))
  BY <1>a DEF Forward, Published, Answer, Fresh
<1>2. k.status # "intrans" => StatementError(k, d) = Refused(k, d)
  BY DEF StatementError
<1>3. \A o \in CommitOutcomes(k, d, FALSE) : Forward(k, o)
  BY <1>1 DEF CommitOutcomes, Broken
<1>4. ASSUME NEW w \in Writes  PROVE \A o \in WriteOutcomes(k, w, d) : Forward(k, o)
  <2> DEFINE y == [k EXCEPT !.pending = @ \cup {w}]
  <2>1. y.status = k.status
    BY DEF Connection
  <2>2. WriteOutcomes(k, w, d) \subseteq {Accepted(k, d \cup {w}), Accepted(y, d), Refused(k, d)}
    BY DEF WriteOutcomes
  <2> HIDE DEF y
  <2> QED  BY <1>1, <1>a, <2>1, <2>2
<1>5. ASSUME NEW n \in Names
      PROVE  \A o \in SaveOutcomes(k, n, d) : Forward(k, o)
  <2> DEFINE y == [Pushed(Fresh("intrans"), n) EXCEPT !.implicit = TRUE]
  <2>1. Pushed(k, n).status = k.status
    BY DEF Pushed, Connection
  <2>2. y.status = "intrans"
    BY DEF Pushed, Fresh
  <2>3. SaveOutcomes(k, n, d)
          \subseteq {Accepted(Pushed(k, n), d), Accepted(y, d), Accepted(k, d), Refused(k, d)}
    BY DEF SaveOutcomes
  <2> HIDE DEF y
  <2> QED  BY <1>1, <1>a, <2>1, <2>2, <2>3
<1>6. ASSUME NEW n \in Names
      PROVE  Positions(k, n) # {} => \A o \in ReleaseOutcomes(k, n, d) : Forward(k, o)
  <2> DEFINE x == [k EXCEPT !.saves = Keep(k, Innermost(k, n) - 1)]
  <2>1. x.status = k.status
    BY DEF Connection
  <2>2. Positions(k, n) # {} =>
          ReleaseOutcomes(k, n, d) \subseteq {Refused(k, d), Published(k, d), Accepted(x, d)}
    BY <1>2 DEF ReleaseOutcomes
  <2> HIDE DEF x
  <2> QED  BY <1>1, <1>a, <2>1, <2>2
<1>7. ASSUME NEW n \in Names
      PROVE  Positions(k, n) # {} => \A o \in RollbackToOutcomes(k, n, d) : Forward(k, o)
  <2> DEFINE u == [k EXCEPT !.status = "intrans"]
             v == [u EXCEPT !.saves = Keep(k, Innermost(k, n))]
             w == [v EXCEPT !.pending = k.saves[Innermost(k, n)].pending]
  <2>1. u \in Connection /\ u.status = "intrans"
    BY DEF Connection, Status
  <2>2. RollbackToOutcomes(k, n, d) =
          IF ~InTransaction(k) \/ Positions(k, n) = {} THEN {StatementError(k, d)}
                                                      ELSE {Accepted(w, d)}
    BY Zenon DEF RollbackToOutcomes
  <2> HIDE DEF u
  <2>3. DOMAIN v = DOMAIN u /\ v.status = u.status
    BY <2>1 DEF Connection
  <2> HIDE DEF v
  <2>4. w.status = "intrans"
    BY <2>1, <2>3 DEF Connection
  <2> HIDE DEF w
  <2>5. ~InTransaction(k) => StatementError(k, d) = Refused(k, d)
    BY <1>2 DEF InTransaction
  <2> QED  BY <1>1, <1>a, <2>2, <2>4, <2>5
<1> QED  BY <1>3, <1>4, <1>5, <1>6, <1>7

\* A command of that kind keeps the transactions of the handles.
LEMMA ForwardKeeps ==
  ASSUME ScopeInv, LeakInv', NEW o, Apply(o, db), Forward(conn[db], o),
         UNCHANGED <<db, impl, handle>>
  PROVE  ScopeInv'
<1>a. /\ db \in Conns /\ conn \in [Conns -> Connection]
      /\ owner \in [Conns -> Impls \cup {NoImpl}] /\ fate \in [Impls -> FateType]
      /\ handle \in [Handles -> HandleType]
  BY DEF ScopeInv, LeakInv, OneConnection, IndInv, TypeOK, FateType, HandleType
<1>1. conn'[db] = o.conn
  BY <1>a DEF Apply
<1>2. /\ o.ended = "no" => owner' = owner /\ fate' = fate
      /\ o.ended = "committed" =>
           /\ owner' = [owner EXCEPT ![db] = NoImpl]
           /\ fate' = IF owner[db] # NoImpl THEN [fate EXCEPT ![owner[db]] = "committed"] ELSE fate
  BY DEF Apply, OwnerAfter, FateAfter
<1>3. Sole' /\ conn'[db'].status # "inerror"
  BY <1>1 DEF ScopeInv, Sole, Forward
<1>4. OwnersHere'
  BY <1>2, <1>a DEF ScopeInv, OwnersHere, Forward
<1>5. ASSUME NEW h \in Handles, handle'[h].impl # NoImpl  PROVE FateOf(handle[h].impl)'
  <2>1. PICK i \in Impls : handle[h].impl = i
    BY <1>5, <1>a DEF HandleType
  <2>2. FateOf(i) /\ handle'[h].impl = i /\ i # NoImpl
    BY <1>5, <2>1, TransactionAssumption DEF ScopeInv, FateOfHeld
  <2>3. fate'[i] # "rolledback" /\ (fate'[i] = "open" => o.conn.status = "intrans" /\ owner'[db] = i)
    <3>1. CASE o.ended = "no"
      BY <1>2, <2>2, <3>1 DEF FateOf, Forward
    <3>2. CASE o.ended = "committed"
      <4>1. fate'[i] = "committed" \/ (fate'[i] = fate[i] /\ owner[db] # i)
        BY <1>2, <1>a, <3>2, TransactionAssumption
      <4> QED  BY <2>2, <4>1 DEF FateOf
    <3> QED  BY <3>1, <3>2 DEF Forward
  <2> QED  BY <1>1, <2>2, <2>3 DEF FateOf
<1>6. FateOfHeld'
  BY <1>5 DEF FateOfHeld
<1> QED  BY <1>3, <1>4, <1>6 DEF ScopeInv

\* start() on the session's connection: it opens a transaction there or leaves
\* the connection as it is.
LEMMA BeginForward ==
  ASSUME NEW k, NEW d, NEW o \in BeginOutcomes(k, d, FALSE)
  PROVE  IF o.ok /\ (k.status = "idle" \/ o.ended # "no")
           THEN o.conn.status = "intrans"
           ELSE o.conn = k /\ o.ended = "no"
<1>1. CASE o = Refused(k, d)
  BY <1>1 DEF Refused, Answer
<1>2. CASE o = Begun(k, d)
  <2>1. CASE k.status = "idle"
    BY <1>2, <2>1 DEF Begun, Accepted, Answer, Fresh
  <2>2. CASE k.status # "idle" /\ backend = "mysql"
    <3> DEFINE p == [Published(k, d) EXCEPT !.conn = Fresh("intrans")]
    <3>1. p.ok = TRUE /\ p.conn = Fresh("intrans") /\ p.ended = "committed"
      BY DEF Published, Answer
    <3>2. o = p
      BY <1>2, <2>2 DEF Begun
    <3> HIDE DEF p
    <3> QED  BY <3>1, <3>2 DEF Fresh
  <2>3. CASE k.status # "idle" /\ backend # "mysql"
    BY <1>2, <2>3 DEF Begun, Accepted, Refused, Answer
  <2> QED  BY <2>1, <2>2, <2>3
<1> QED  BY <1>1, <1>2 DEF BeginOutcomes, Broken

\* An impl that starts, new or not, owns what it opened.
LEMMA StartKeeps ==
  ASSUME OneScope, ScopeInv, LeakInv', NEW i \in Impls, NEW fs \in [Impls -> FateType],
         NEW o \in BeginOutcomes(conn[db], disk, FALSE), Started(i, db, o, fs), UNCHANGED db, Sole',
         fs[i] # "rolledback", fs[i] = "open" => fate[i] = "open" /\ FateOf(i)
  PROVE  ScopeInv'
<1>a. /\ db \in Conns /\ conn \in [Conns -> Connection]
      /\ owner \in [Conns -> Impls \cup {NoImpl}] /\ handle' \in [Handles -> HandleType]
  BY DEF ScopeInv, LeakInv, OneConnection, IndInv, TypeOK, HandleType
<1>1. conn'[db] = o.conn
  BY <1>a DEF Started
<1>2. o.conn.status # "inerror"
  BY BeginStatus DEF ScopeInv
<1>3. OwnersHere'
  BY <1>a DEF ScopeInv, OwnersHere, Started, OwnerAfter
<1>4. fate'[i] # "rolledback" /\ (fate'[i] = "open" => o.conn.status = "intrans" /\ owner'[db] = i)
  <2>1. CASE o.ok /\ (conn[db].status = "idle" \/ o.ended # "no")
    <3>1. FateAfter(fs, o, db) \in [Impls -> {"no"} \cup FateType \cup {o.ended}]
      BY <1>a DEF FateAfter
    <3>2. fate' = [FateAfter(fs, o, db) EXCEPT ![i] = "open"] /\ owner' = [owner EXCEPT ![db] = i]
      BY <2>1 DEF Started
    <3>3. fate'[i] = "open" /\ owner'[db] = i
      BY <1>a, <3>1, <3>2
    <3>4. o.conn.status = "intrans"
      BY <2>1, BeginForward
    <3> QED  BY <3>3, <3>4
  <2>2. CASE ~(o.ok /\ (conn[db].status = "idle" \/ o.ended # "no"))
    <3>2. o.conn = conn[db] /\ o.ended = "no"
      BY <2>2, BeginForward
    <3>1. fate' = fs /\ owner' = owner
      BY <2>2, <3>2 DEF Started, OwnerAfter, FateAfter
    <3> QED  BY <3>1, <3>2 DEF FateOf
  <2> QED  BY <2>1, <2>2
<1>5. ASSUME NEW h \in Handles, handle'[h].impl # NoImpl  PROVE FateOf(handle[h].impl)'
  <2>1. handle'[h].impl = i
    BY <1>5, <1>a DEF OneScope, HandleType
  <2> QED  BY <1>1, <1>4, <2>1 DEF FateOf
<1>6. FateOfHeld'
  BY <1>5 DEF FateOfHeld
<1> QED  BY <1>1, <1>2, <1>3, <1>6 DEF ScopeInv

\* A handle goes that holds nothing, or that was the only one to hold an impl.
LEMMA DropForward ==
  ASSUME OneScope, ScopeInv, LeakInv', NEW h \in Handles, NEW ks \in [Conns -> Connection],
         NEW os \in [Conns -> Impls \cup {NoImpl}], NEW fs \in [Impls -> FateType],
         Drop(Without(h), ks, os, fs), UNCHANGED db,
         ks[db].status # "inerror", \A c \in Conns : c # db => os[c] = NoImpl,
         handle[h].impl = NoImpl => ks = conn /\ os = owner /\ fs = fate
  PROVE  ScopeInv'
<1>1. /\ handle' = Without(h) /\ impl' = Kept(Without(h))
      /\ conn' = Reaped(ks, db, impl') /\ owner' = ReapedOwner(os, db, impl')
      /\ fate' = ReapedFate(fs, os, db, impl')
  BY DEF Drop
<1>a. /\ handle \in [Handles -> HandleType] /\ impl \in [Impls -> ImplType] /\ db \in Conns
      /\ owner \in [Conns -> Impls \cup {NoImpl}]
  BY DEF ScopeInv, LeakInv, OneConnection, IndInv, TypeOK, HandleType, ImplType
<1>2. /\ handle'[h] = Dead /\ Dead.impl = NoImpl
      /\ \A g \in Handles : g # h => handle'[g] = handle[g]
  BY <1>1, <1>a DEF Without, Dead
<1>3. conn'[db] = ks[db]
  BY <1>1, <1>a DEF Reaped, Unreferenced
<1>4. Sole'
  BY <1>2 DEF ScopeInv, Sole
<1>5. OwnersHere'
  BY <1>1 DEF OwnersHere, ReapedOwner
<1>6. ASSUME NEW g \in Handles, handle'[g].impl # NoImpl  PROVE FateOf(handle[g].impl)'
  <2>1. g # h /\ handle'[g] = handle[g]
    BY <1>2, <1>6
  <2>2. PICK i \in Impls : handle[g].impl = i
    BY <1>6, <1>a, <2>1 DEF HandleType
  <2>3. handle[h].impl = NoImpl
    BY <1>a, <2>1, <2>2, TransactionAssumption DEF OneScope, ScopeInv, Sole, HandleType
  <2>4. FateOf(i) /\ impl[i].db = db /\ handle'[g].impl = i
    BY <1>6, <2>1, <2>2 DEF ScopeInv, FateOfHeld, LeakInv, OneConnection
  <2>5. impl'[i].db # NoConn
    <3>1. Held(Without(h), i)
      BY <1>1, <2>1, <2>2 DEF Held
    <3>2. impl'[i] = impl[i]
      BY <1>1, <3>1 DEF Kept
    <3> QED  BY <1>a, <2>4, <3>2, TransactionAssumption
  <2>6. \A c \in Conns : owner[c] = i => c = db
    BY TransactionAssumption DEF ScopeInv, OwnersHere
  <2>7. fate'[i] = fate[i]
    BY <1>1, <1>a, <2>3, <2>6 DEF ReapedFate, Unreferenced
  <2>8. owner[db] = i => owner'[db] = i
    BY <1>1, <1>a, <2>3, <2>5 DEF ReapedOwner, Unreferenced, Orphaned
  <2> QED  BY <1>3, <2>3, <2>4, <2>7, <2>8 DEF FateOf
<1>7. FateOfHeld'
  BY <1>6 DEF FateOfHeld
<1> QED  BY <1>3, <1>4, <1>5, <1>7 DEF ScopeInv

\* There are no handles, and no transaction was opened.
LEMMA ScopeInit == Init => ScopeInv
<1> SUFFICES ASSUME Init  PROVE ScopeInv
  OBVIOUS
<1>1. /\ db \in Conns /\ conn[db].status = "idle"
      /\ \A h \in Handles : handle[h].impl = NoImpl
      /\ \A c \in Conns : owner[c] = NoImpl
  BY DEF Init, Fresh, Dead
<1> QED  BY <1>1, LeakInit DEF ScopeInv, Sole, OwnersHere, FateOfHeld

\* Every step of such a client keeps the invariant.
LEMMA ScopeNext == OneScope /\ ScopeInv /\ [Next]_vars => ScopeInv'
<1> SUFFICES ASSUME OneScope, ScopeInv, [Next]_vars  PROVE ScopeInv'
  OBVIOUS
<1>a. /\ handle \in [Handles -> HandleType] /\ impl \in [Impls -> ImplType]
      /\ db \in Conns /\ conn \in [Conns -> Connection] /\ conn[db] \in Connection
      /\ Quiet(conn[db]) /\ disk \in SUBSET Writes /\ IndInv
      /\ owner \in [Conns -> Impls \cup {NoImpl}] /\ fate \in [Impls -> FateType]
  BY DEF ScopeInv, LeakInv, OneConnection, IndInv, TypeOK, QuietConnections, HandleType, ImplType,
         FateType
<1>b. Refusable = FALSE /\ "fail" \notin Calls
  BY DEF OneScope, Refusable
<1>c. LeakInv'
  BY LeakNext DEF OneScope, Scoped, ScopeInv
<1>d. conn[db].status # "inerror" /\ \A h \in Handles : handle[h].impl # NoImpl => handle[h].live
  BY DEF ScopeInv, LeakInv, DeadIsEmpty
<1>s. ASSUME UNCHANGED <<engine, impl>>, Sole',
             \A h \in Handles : handle'[h].impl # NoImpl =>
               \E g \in Handles : handle'[h].impl = handle[g].impl
      PROVE  ScopeInv'
  <2>1. UNCHANGED <<db, conn, owner, fate>>
    BY <1>s DEF engine
  <2>2. ASSUME NEW h \in Handles, handle'[h].impl # NoImpl  PROVE FateOf(handle[h].impl)'
    <3>1. PICK g \in Handles : handle'[h].impl = handle[g].impl
      BY <1>s, <2>2
    <3>2. FateOf(handle[g].impl)
      BY <2>2, <3>1 DEF ScopeInv, FateOfHeld
    <3> QED  BY <2>1, <3>1, <3>2 DEF FateOf
  <2>3. FateOfHeld' /\ OwnersHere' /\ conn'[db'].status # "inerror"
    BY <1>d, <2>1, <2>2 DEF ScopeInv, OwnersHere, FateOfHeld
  <2> QED  BY <1>c, <1>s, <2>3 DEF ScopeInv
<1>1. CASE UNCHANGED vars
  BY <1>1, <1>s DEF vars, engine, ScopeInv, Sole
<1>2. /\ ~Open /\ ~Close /\ ~StatementFails /\ ~StartTransactionThrows
      /\ \A h \in Handles : ~Rollback(h)
      /\ \A h, g \in Handles : ~Copy(h, g) /\ ~Wrap(h, g) /\ ~CopyAssign(h, g) /\ ~MoveAssign(h, g)
  BY DEF OneScope, Open, Close, StatementFails, StartTransactionThrows, Rollback, Copy, Wrap,
         CopyAssign, MoveAssign
<1>3. CASE Write
  <2>1. PICK w \in Writes : \E o \in WriteOutcomes(conn[db], w, disk) : Apply(o, db)
    BY <1>3 DEF Write
  <2>2. PICK o \in WriteOutcomes(conn[db], w, disk) : Apply(o, db)
    BY <2>1
  <2>3. Forward(conn[db], o)
    BY <1>a, <1>d, <2>2, ForwardCommands
  <2> QED  BY <1>3, <1>c, <2>2, <2>3, ForwardKeeps DEF Write
<1>4. ASSUME NEW h \in Handles, Create(h)  PROVE ScopeInv'
  <2>1. PICK i \in Impls :
          /\ ~Held(handle, i)
          /\ handle' = [handle EXCEPT ![h] = [live |-> TRUE, impl |-> i, successful |-> FALSE]]
          /\ fate' = [fate EXCEPT ![i] = "none"]
    BY <1>4 DEF Create
  <2>2. UNCHANGED <<db, conn, owner>>
    BY <1>4 DEF Create
  <2>3. /\ handle'[h].impl = i
        /\ \A g \in Handles : g # h => handle'[g] = handle[g]
        /\ \A g \in Handles : handle[g].impl # i
    BY <1>a, <2>1 DEF Held
  <2>4. \A g \in Handles : handle[g].impl = NoImpl
    BY <1>a, <2>3 DEF OneScope, HandleType
  <2>5. Sole'
    BY <2>3, <2>4 DEF Sole
  <2>6. fate'[i] = "none"
    BY <1>a, <2>1
  <2>7. ASSUME NEW g \in Handles, handle'[g].impl # NoImpl  PROVE FateOf(handle[g].impl)'
    <3>1. handle'[g].impl = i
      BY <2>3, <2>4, <2>7
    <3> QED  BY <2>6, <3>1 DEF FateOf
  <2>8. FateOfHeld' /\ OwnersHere' /\ conn'[db'].status # "inerror"
    BY <1>d, <2>2, <2>7 DEF ScopeInv, OwnersHere, FateOfHeld
  <2> QED  BY <1>c, <2>5, <2>8 DEF ScopeInv
<1>5. ASSUME NEW h \in Handles, Start(h)  PROVE ScopeInv'
  <2>1. PICK i \in Impls : handle[h].impl = i
    BY <1>5, <1>a DEF Start, Usable, HandleType
  <2>2. impl[i].db = db /\ FateOf(i)
    BY <2>1, TransactionAssumption DEF ScopeInv, FateOfHeld, LeakInv, OneConnection
  <2>3. PICK o \in BeginOutcomes(conn[db], disk, FALSE) : Started(i, db, o, fate)
    BY <1>5, <1>b, <2>1, <2>2 DEF Start
  <2>4. UNCHANGED <<db, handle>>
    BY <1>5 DEF Start
  <2>5. Sole'
    BY <2>4 DEF ScopeInv, Sole
  <2>6. fate[i] # "rolledback"
    BY <2>2 DEF FateOf
  <2> QED  BY <1>a, <1>c, <2>2, <2>3, <2>4, <2>5, <2>6, StartKeeps
<1>6. ASSUME NEW h \in Handles, StartTransaction(h)  PROVE ScopeInv'
  <2>1. PICK i \in Impls : \E o \in BeginOutcomes(conn[db], disk, FALSE) :
          /\ ~Held(handle, i)
          /\ Started(i, db, o, [fate EXCEPT ![i] = "none"])
          /\ handle' = [handle EXCEPT ![h] = [live |-> TRUE, impl |-> i, successful |-> FALSE]]
    BY <1>6, <1>b DEF StartTransaction
  <2> DEFINE fs == [fate EXCEPT ![i] = "none"]
  <2>2. PICK o \in BeginOutcomes(conn[db], disk, FALSE) : Started(i, db, o, fs)
    BY <2>1
  <2>3. fs \in [Impls -> FateType] /\ fs[i] = "none"
    BY <1>a DEF FateType
  <2> HIDE DEF fs
  <2>4. /\ handle'[h].impl = i
        /\ \A g \in Handles : g # h => handle'[g] = handle[g]
        /\ \A g \in Handles : handle[g].impl # i
    BY <1>a, <2>1 DEF Held
  <2>5. \A g \in Handles : handle[g].impl = NoImpl
    BY <1>a, <2>4 DEF OneScope, HandleType
  <2>6. Sole'
    BY <2>4, <2>5 DEF Sole
  <2>7. UNCHANGED db
    BY <1>6 DEF StartTransaction
  <2> QED  BY <1>c, <2>2, <2>3, <2>6, <2>7, StartKeeps
<1>7. ASSUME NEW h \in Handles, Commit(h)  PROVE ScopeInv'
  <2>1. PICK o \in CommitOutcomes(conn[db], disk, FALSE) : Apply(o, db)
    BY <1>7, <1>b DEF Commit
  <2>2. Forward(conn[db], o)
    BY <1>a, <1>d, <2>1, ForwardCommands
  <2> QED  BY <1>7, <1>c, <2>1, <2>2, ForwardKeeps DEF Commit
<1>8. ASSUME NEW h \in Handles, NEW n \in Names, Save(h, n) \/ Release(h, n) \/ RollbackTo(h, n)
      PROVE  ScopeInv'
  <2>1. PICK o : Apply(o, db) /\ Forward(conn[db], o)
    BY <1>8, <1>a, <1>b, <1>d, ForwardCommands DEF Save, Release, RollbackTo
  <2> QED  BY <1>8, <1>c, <2>1, ForwardKeeps DEF Save, Release, RollbackTo
<1>9. ASSUME NEW h \in Handles, NEW v \in BOOLEAN, SetSuccessful(h, v)  PROVE ScopeInv'
  <2>1. /\ UNCHANGED <<engine, impl>>
        /\ \A g \in Handles : handle'[g].impl = handle[g].impl
    BY <1>9, <1>a DEF SetSuccessful, HandleType
  <2>2. Sole'
    BY <2>1 DEF ScopeInv, Sole
  <2> QED  BY <1>s, <2>1, <2>2
<1>10. ASSUME NEW h \in Handles, NEW g \in Handles, Move(h, g)  PROVE ScopeInv'
  <2>1. UNCHANGED <<engine, impl>> /\ handle[h].live /\ ~handle[g].live
    BY <1>10 DEF Move
  <2>2. h # g
    BY <2>1
  <2>3. /\ handle'[g].impl = handle[h].impl /\ handle'[h].impl = NoImpl
        /\ \A x \in Handles : x # h /\ x # g => handle'[x] = handle[x]
    BY <1>10, <1>a, <2>2 DEF Move, HandleType
  <2>4. Sole'
    BY <2>3 DEF ScopeInv, Sole
  <2>5. \A x \in Handles : handle'[x].impl # NoImpl =>
          \E y \in Handles : handle'[x].impl = handle[y].impl
    BY <2>3
  <2> QED  BY <1>s, <2>1, <2>4, <2>5
<1>11. ASSUME NEW h \in Handles, DestroyInactive(h)  PROVE ScopeInv'
  <2>1. Drop(Without(h), conn, owner, fate) /\ UNCHANGED db
    BY <1>11 DEF DestroyInactive
  <2>2. \A c \in Conns : c # db => owner[c] = NoImpl
    BY DEF ScopeInv, OwnersHere
  <2> QED  BY <1>a, <1>c, <1>d, <2>1, <2>2, DropForward
<1>12. ASSUME NEW h \in Handles, DestroyActive(h)  PROVE ScopeInv'
  <2>1. PICK o \in DestructorOutcomes(h) :
          /\ o.ok
          /\ Drop(Without(h), [conn EXCEPT ![db] = o.conn],
                  OwnerAfter(o, db), FateAfter(fate, o, db))
    BY <1>12 DEF DestroyActive
  <2>2. ~InTransaction(o.conn) /\ UNCHANGED db /\ handle[h].impl # NoImpl
    BY <1>12, <1>a, <2>1, DestructorEnds DEF DestroyActive, IsActive
  <2>3. GoodOutcome(o)
    BY <1>a, <1>b, <2>1, SessionConnected, TransactionCommandType DEF DestructorOutcomes
  <2> DEFINE ks == [conn EXCEPT ![db] = o.conn]
             os == OwnerAfter(o, db)
             fs == FateAfter(fate, o, db)
  <2>4. ks \in [Conns -> Connection] /\ ks[db] = o.conn
    BY <1>a, <2>3 DEF GoodOutcome, Outcome
  <2>5. os \in [Conns -> Impls \cup {NoImpl}] /\ fs \in [Impls -> FateType]
    BY <1>a, <2>3, HistoryType DEF GoodOutcome, IndInv
  <2>6. \A c \in Conns : c # db => os[c] = NoImpl
    BY <1>a DEF OwnerAfter, ScopeInv, OwnersHere
  <2> HIDE DEF ks, os, fs
  <2>7. Drop(Without(h), ks, os, fs)
    BY <2>1 DEF ks, os, fs
  <2>8. ks[db].status # "inerror"
    BY <2>2, <2>4 DEF InTransaction
  <2> QED  BY <1>c, <2>2, <2>4, <2>5, <2>6, <2>7, <2>8, DropForward
<1>13. ASSUME NEW h \in Handles, DestroyThrows(h)  PROVE ScopeInv'
  BY <1>13, <1>s DEF DestroyThrows, ScopeInv, Sole
<1> QED
  BY <1>1, <1>2, <1>3, <1>4, <1>5, <1>6, <1>7, <1>8, <1>9, <1>10, <1>11, <1>12, <1>13 DEF Next

\* README.md:339-342, for every backend and any number of handles,
\* modifications and savepoints: the transaction of a handle that was set
\* successful is committed when the handle goes out of scope, whatever the
\* client committed, saved and moved before, as long as it has one transaction
\* at a time and the engine does not fail (transaction.cpp, ~transaction).
THEOREM SuccessfulScopesCommit ==
  ASSUME OneScope
  PROVE  Spec => SuccessfulScopeCommits
<1> DEFINE A(h) ==
      /\ Destroyed(h) /\ handle[h].successful /\ handle[h].impl # NoImpl
      /\ fate[handle[h].impl] # "none"
      => fate'[handle[h].impl] = "committed"
<1>1. ASSUME ScopeInv, Next, NEW h \in Handles  PROVE A(h)
  <2> SUFFICES ASSUME Destroyed(h), handle[h].successful, handle[h].impl # NoImpl,
                      fate[handle[h].impl] # "none"
               PROVE  fate'[handle[h].impl] = "committed"
    OBVIOUS
  <2>a. /\ handle \in [Handles -> HandleType] /\ db \in Conns /\ conn[db] \in Connection
        /\ IndInv /\ owner \in [Conns -> Impls \cup {NoImpl}] /\ fate \in [Impls -> FateType]
    BY <1>1 DEF ScopeInv, LeakInv, OneConnection, IndInv, TypeOK, HandleType, FateType
  <2>1. PICK i \in Impls : handle[h].impl = i
    BY <2>a DEF HandleType
  <2>2. FateOf(i) /\ impl[i].db = db /\ i # NoImpl
    BY <1>1, <2>1, TransactionAssumption DEF ScopeInv, FateOfHeld, LeakInv, OneConnection
  <2>3. fate[i] = "open" \/ fate[i] = "committed"
    BY <2>1, <2>2, <2>a DEF FateOf, FateType
  <2>4. \A c \in Conns : c # db => owner[c] = NoImpl
    BY <1>1 DEF ScopeInv, OwnersHere
  <2>5. CASE DestroyInactive(h)
    <3>1. fate[i] # "open"
      <4> SUFFICES ASSUME fate[i] = "open"  PROVE FALSE
        OBVIOUS
      <4>1. conn[db].status = "intrans"
        BY <2>2 DEF FateOf
      <4>2. PICK g \in Handles : Keeps(g)
        BY <1>1, <4>1 DEF ScopeInv, LeakInv, OpenIsKept
      <4>3. handle[g].impl = i
        BY <2>a, <4>2 DEF Keeps, OneScope, HandleType
      <4>4. IsActive(h)
        BY <2>1, <2>2, <4>1, <4>2, <4>3 DEF Keeps, IsActive, ImplActive
      <4> QED  BY <2>5, <4>4 DEF DestroyInactive
    <3>2. fate' = ReapedFate(fate, owner, db, Kept(Without(h)))
      BY <2>5 DEF DestroyInactive, Drop
    <3>3. fate'[i] = fate[i]
      BY <2>2, <2>4, <3>2 DEF ReapedFate, Unreferenced
    <3> QED  BY <2>1, <2>3, <3>1, <3>3
  <2>6. CASE DestroyActive(h)
    <3>1. Refusable = FALSE
      BY DEF OneScope, Refusable
    <3>2. PICK o \in CommitOutcomes(conn[db], disk, FALSE) :
            Drop(Without(h), [conn EXCEPT ![db] = o.conn], OwnerAfter(o, db), FateAfter(fate, o, db))
      BY <2>6, <3>1 DEF DestroyActive, DestructorOutcomes
    <3> DEFINE os == OwnerAfter(o, db)
               fs == FateAfter(fate, o, db)
    <3>3. fs[i] = "committed"
      <4>1. CASE fate[i] = "open"
        <5>1. owner[db] = i /\ conn[db].status = "intrans"
          BY <2>2, <4>1 DEF FateOf
        <5>2. o = Published(conn[db], disk)
          BY <3>2, <5>1 DEF CommitOutcomes, Broken
        <5>3. o.ended = "committed"
          BY <5>2 DEF Published, Answer
        <5> QED  BY <2>2, <2>a, <5>1, <5>3 DEF FateAfter
      <4>2. CASE fate[i] = "committed"
        <5>1. conn[db].status # "inerror"
          BY <1>1 DEF ScopeInv
        <5>2. o.ended = "no" \/ o.ended = "committed"
          BY <3>2, <5>1 DEF CommitOutcomes, Broken, Refused, Accepted, Published, Answer
        <5> QED  BY <2>a, <4>2, <5>2 DEF FateAfter
      <4> QED  BY <2>3, <4>1, <4>2
    <3>4. \A c \in Conns : c # db => os[c] = NoImpl
      BY <2>4, <2>a DEF OwnerAfter
    <3>5. fate' = ReapedFate(fs, os, db, Kept(Without(h)))
      BY <3>2 DEF Drop
    <3> HIDE DEF fs, os
    <3>6. fate'[i] = fs[i]
      BY <2>2, <3>4, <3>5 DEF ReapedFate, Unreferenced
    <3> QED  BY <2>1, <3>3, <3>6
  <2> QED  BY <1>1, <2>a, <2>5, <2>6, DestroyedOnlyByDestructor
<1>2. ScopeInv /\ [Next]_vars => [\A h \in Handles : A(h)]_vars
  BY <1>1
<1>3. Init => ScopeInv
  BY ScopeInit
<1>4. ScopeInv /\ [Next]_vars => ScopeInv'
  BY ScopeNext
<1> QED  BY <1>2, <1>3, <1>4, PTL DEF Spec, SuccessfulScopeCommits
=============================================================================
