---------------------------- MODULE SessionProofs ----------------------------
(***************************************************************************)
(* Proofs about Session, for every backend and any number of objects and    *)
(* connections.                                                             *)
(***************************************************************************)
EXTENDS Session, TLAPS

-----------------------------------------------------------------------------
(* The inductive invariant *)

\* A connection is open exactly as long as a db_ owns it.
OpenIffOwned == \A c \in Conns : conn[c] = "open" <=> Owned(db, kind, on, c)

\* The session has a connection only while somebody holds the session_impl.
ConnectedIsHeld == db # 0 => ImplHeld(handle, cached, kind)

\* An orderly client has left no results to own the session alone.
NoOutlivingResults == orderly => ~ResultsOutlive(handle, cached, kind)

\* An orderly client has leaked no connection.
NothingLeaked == orderly => \A c \in Conns : conn[c] # "leaked"

IndInv ==
  /\ TypeOK
  /\ OpenIffOwned
  /\ ConnectedIsHeld
  /\ NoOutlivingResults
  /\ NothingLeaked
  /\ ConnectionOutlivesItsUsers

\* The invariant holds of a new session.
LEMMA InitInv == Init => IndInv
<1> SUFFICES ASSUME Init PROVE IndInv
  OBVIOUS
<1>1. /\ conn = [c \in Conns |-> "unused"] /\ db = 0 /\ handle = TRUE
      /\ cached = FALSE /\ backend \in Backends /\ orderly = TRUE
      /\ kind = [o \in Objects |-> "none"] /\ on = [o \in Objects |-> 0]
  BY DEF Init
<1>2. TypeOK
  <2>1. conn \in [Conns -> {"unused", "open", "closed", "leaked", "abandoned"}]
    BY <1>1
  <2>2. db \in 0..MaxConn /\ on \in [Objects -> 0..MaxConn]
    BY <1>1, SessionAssumption
  <2>3. kind \in [Objects -> Native \cup {"transaction", "schema", "none"}]
    BY <1>1
  <2>4. \A o \in Objects : kind[o] \in {"schema", "none"} => on[o] = 0
    BY <1>1
  <2>5. handle \in BOOLEAN /\ cached \in BOOLEAN /\ orderly \in BOOLEAN
    BY <1>1, Zenon
  <2> QED  BY <1>1, <2>1, <2>2, <2>3, <2>4, <2>5 DEF TypeOK
<1>3. OpenIffOwned /\ ConnectedIsHeld /\ NothingLeaked /\ ConnectionOutlivesItsUsers
  BY <1>1 DEF OpenIffOwned, ConnectedIsHeld, NothingLeaked,
              ConnectionOutlivesItsUsers, Owned, Conns
<1>4. NoOutlivingResults
  BY <1>1 DEF NoOutlivingResults, ResultsOutlive, Results
<1> QED  BY <1>2, <1>3, <1>4 DEF IndInv

-----------------------------------------------------------------------------
(* What the last owner's going does to the connections *)

\* Closing closes exactly the connections whose last owner goes.
LEMMA ClosingOpen ==
  ASSUME TypeOK, OpenIffOwned, NEW d \in 0..MaxConn,
         NEW k \in [Objects -> Native \cup {"transaction", "schema", "none"}],
         NEW w \in [Objects -> 0..MaxConn], NEW Late,
         \A c \in Conns : Owned(d, k, w, c) => Owned(db, kind, on, c),
         Closing(d, k, w, Late)
  PROVE  /\ conn' \in [Conns -> {"unused", "open", "closed", "leaked", "abandoned"}]
         /\ \A c \in Conns : conn'[c] = "open" <=> Owned(d, k, w, c)
<1>1. \A b : AfterClose(b) \in {"closed", "leaked"}
  BY DEF AfterClose
<1>2. \A c \in Conns : conn[c] \in {"unused", "open", "closed", "leaked", "abandoned"}
  BY DEF TypeOK
<1>3. conn' \in [Conns -> {"unused", "open", "closed", "leaked", "abandoned"}]
  BY <1>1, <1>2 DEF Closing
<1>4. ASSUME NEW c \in Conns
      PROVE  conn'[c] = "open" <=> Owned(d, k, w, c)
  <2>1. CASE LastOwnerGone(d, k, w, c)
    <3>1. conn'[c] \in {"closed", "leaked"}
      BY <1>1, <2>1 DEF Closing
    <3> QED  BY <2>1, <3>1 DEF LastOwnerGone
  <2>2. CASE ~LastOwnerGone(d, k, w, c)
    <3>1. conn'[c] = conn[c]
      BY <2>2 DEF Closing
    <3>2. conn[c] = "open" <=> Owned(db, kind, on, c)
      BY DEF OpenIffOwned
    <3> QED  BY <2>2, <3>1, <3>2 DEF LastOwnerGone
  <2> QED  BY <2>1, <2>2
<1> QED  BY <1>3, <1>4

\* Nothing leaks when no native statement is on a connection that is closed.
LEMMA ClosingClean ==
  ASSUME NEW d, NEW k, NEW w, NEW Late,
         \A c \in Conns : conn[c] # "leaked",
         Closing(d, k, w, Late),
         \A c \in Conns : LastOwnerGone(d, k, w, c) =>
           \A o \in Objects : on[o] = c /\ kind[o] \in Native => k[o] = "none" /\ o \notin Late
  PROVE  \A c \in Conns : conn'[c] # "leaked"
<1> SUFFICES ASSUME NEW c \in Conns PROVE conn'[c] # "leaked"
  OBVIOUS
<1>1. CASE LastOwnerGone(d, k, w, c)
  <2>1. ~\E o \in Objects : on[o] = c /\ kind[o] \in Native /\ (k[o] # "none" \/ o \in Late)
    BY <1>1
  <2>2. conn'[c] = AfterClose(FALSE)
    BY <1>1, <2>1 DEF Closing
  <2> QED  BY <2>2 DEF AfterClose
<1>2. CASE ~LastOwnerGone(d, k, w, c)
  BY <1>2 DEF Closing
<1> QED  BY <1>1, <1>2

-----------------------------------------------------------------------------
(* One lemma per action *)

\* session::open gives the connection its first owner.
LEMMA OpenInv == ASSUME IndInv, NEW c \in Conns, Open(c), UNCHANGED backend PROVE IndInv'
<1> USE SessionAssumption
<1>0. /\ TypeOK /\ OpenIffOwned /\ ConnectedIsHeld
      /\ NoOutlivingResults /\ NothingLeaked /\ ConnectionOutlivesItsUsers
  BY DEF IndInv
<1>1. ~Owned(db, kind, on, c) /\ conn[c] = "unused" /\ c \in 1..MaxConn /\ db = 0
  BY <1>0 DEF OpenIffOwned, Open, Conns
<1>2. /\ conn' = [conn EXCEPT ![c] = "open"] /\ db' = c
      /\ UNCHANGED <<handle, cached, kind, on, orderly>>
  BY DEF Open
<1>3. TypeOK'
  BY <1>0, <1>1, <1>2 DEF TypeOK, Conns
<1>4. OpenIffOwned'
  BY <1>0, <1>1, <1>2 DEF OpenIffOwned, Owned, TypeOK, Conns
<1>5. ConnectedIsHeld'
  BY <1>2 DEF ConnectedIsHeld, Open, Reachable, ImplHeld, SessionHeld
<1>6. NoOutlivingResults'
  BY <1>0, <1>2 DEF NoOutlivingResults, ResultsOutlive, SessionHeld
<1>7. NothingLeaked'
  BY <1>0, <1>2 DEF NothingLeaked, TypeOK
<1>8. ConnectionOutlivesItsUsers'
  BY <1>0, <1>1, <1>2 DEF ConnectionOutlivesItsUsers, TypeOK, Conns
<1> QED  BY <1>3, <1>4, <1>5, <1>6, <1>7, <1>8 DEF IndInv

\* A connection that could not be opened is owned by nobody.
LEMMA OpenFailsInv == ASSUME IndInv, NEW c \in Conns, OpenFails(c), UNCHANGED backend PROVE IndInv'
<1> USE SessionAssumption
<1>0. /\ TypeOK /\ OpenIffOwned /\ ConnectedIsHeld
      /\ NoOutlivingResults /\ NothingLeaked /\ ConnectionOutlivesItsUsers
  BY DEF IndInv
<1>1. ~Owned(db, kind, on, c) /\ conn[c] = "unused" /\ c \in 1..MaxConn /\ db = 0
  BY <1>0 DEF OpenIffOwned, OpenFails, Conns
<1>2. PICK x \in {"abandoned", "closed"} : conn' = [conn EXCEPT ![c] = x]
  BY DEF OpenFails
<1>3. UNCHANGED <<backend, db, handle, cached, kind, on, orderly>>
  BY DEF OpenFails
<1>4. TypeOK'
  BY <1>0, <1>1, <1>2, <1>3 DEF TypeOK, Conns
<1>5. OpenIffOwned'
  BY <1>0, <1>1, <1>2, <1>3 DEF OpenIffOwned, Owned, TypeOK, Conns
<1>6. ConnectedIsHeld' /\ NoOutlivingResults'
  BY <1>0, <1>3 DEF ConnectedIsHeld, NoOutlivingResults, ResultsOutlive, ImplHeld, SessionHeld
<1>7. NothingLeaked'
  BY <1>0, <1>2, <1>3 DEF NothingLeaked, TypeOK
<1>8. ConnectionOutlivesItsUsers'
  BY <1>0, <1>1, <1>2, <1>3 DEF ConnectionOutlivesItsUsers, TypeOK, Conns
<1> QED  BY <1>4, <1>5, <1>6, <1>7, <1>8 DEF IndInv

\* session::close lets go of the connection of the session.
LEMMA CloseInv == ASSUME IndInv, Close, UNCHANGED backend PROVE IndInv'
<1> USE SessionAssumption
<1>0. /\ TypeOK /\ OpenIffOwned /\ ConnectedIsHeld
      /\ NoOutlivingResults /\ NothingLeaked /\ ConnectionOutlivesItsUsers
  BY DEF IndInv
<1>1. /\ db' = 0 /\ Closing(0, kind, on, {})
      /\ orderly' = (orderly /\ \A o \in Objects : kind[o] \notin Native)
      /\ UNCHANGED <<backend, handle, cached, kind, on>>
  BY DEF Close
<1>2. \A c \in Conns : Owned(0, kind, on, c) => Owned(db, kind, on, c)
  BY DEF Owned, Conns
<1>3. /\ conn' \in [Conns -> {"unused", "open", "closed", "leaked", "abandoned"}]
      /\ \A c \in Conns : conn'[c] = "open" <=> Owned(0, kind, on, c)
  BY <1>0, <1>1, <1>2, ClosingOpen DEF TypeOK
<1>4. TypeOK'
  BY <1>0, <1>1, <1>3 DEF TypeOK
<1>5. OpenIffOwned'
  BY <1>1, <1>3 DEF OpenIffOwned, Owned
<1>6. ConnectedIsHeld'
  BY <1>1 DEF ConnectedIsHeld
<1>7. NoOutlivingResults'
  BY <1>0, <1>1 DEF NoOutlivingResults, ResultsOutlive, SessionHeld
<1>8. NothingLeaked'
  <2> SUFFICES ASSUME orderly' PROVE \A c \in Conns : conn'[c] # "leaked"
    BY DEF NothingLeaked
  <2>1. orderly /\ \A o \in Objects : kind[o] \notin Native
    BY <1>1
  <2>2. \A c \in Conns : conn[c] # "leaked"
    BY <1>0, <2>1 DEF NothingLeaked
  <2> QED  BY <1>1, <2>1, <2>2, ClosingClean
<1>9. ConnectionOutlivesItsUsers'
  <2> SUFFICES ASSUME NEW o \in Objects, on[o] # 0
               PROVE  /\ kind[o] = "transaction" => conn'[on[o]] = "open"
                      /\ kind[o] \in Native /\ orderly' => on[o] = db'
    BY <1>1 DEF ConnectionOutlivesItsUsers
  <2>1. on[o] \in Conns
    BY <1>0 DEF TypeOK, Conns
  <2>2. kind[o] = "transaction" => conn'[on[o]] = "open"
    BY <1>3, <2>1 DEF Owned
  <2>3. kind[o] \in Native => ~orderly'
    BY <1>1
  <2> QED  BY <2>2, <2>3
<1> QED  BY <1>4, <1>5, <1>6, <1>7, <1>8, <1>9 DEF IndInv

\* The session's db_ follows the last holder of the session_impl: DropSession
\* and Destroy, which leave kinds k and connections w behind.
LEMMA LettingGo ==
  ASSUME IndInv, UNCHANGED backend,
         handle' \in BOOLEAN,
         NEW k \in [Objects -> Native \cup {"transaction", "schema", "none"}],
         NEW w \in [Objects -> 0..MaxConn],
         \A o \in Objects : (k[o] = kind[o] /\ w[o] = on[o]) \/ (k[o] = "none" /\ w[o] = 0),
         NEW Late \in SUBSET Objects,
         \A o \in Late : kind[o] \in Results,
         cached' = cached, kind' = k, on' = w,
         db' = DbAfter(ImplHeld(handle', cached, k)),
         Closing(DbAfter(ImplHeld(handle', cached, k)), k, w, Late),
         orderly' \in BOOLEAN,
         orderly' => orderly,
         orderly' => ~ResultsOutlive(handle', cached, k),
         orderly' /\ Late # {} => SessionHeld(handle', cached, k) \/ \E o \in Objects : k[o] = "statement"
  PROVE  IndInv'
<1> USE SessionAssumption
<1>0. /\ TypeOK /\ OpenIffOwned /\ ConnectedIsHeld
      /\ NoOutlivingResults /\ NothingLeaked /\ ConnectionOutlivesItsUsers
  BY DEF IndInv
<1> DEFINE d == DbAfter(ImplHeld(handle', cached, k))
<1>1. d \in {0, db} /\ d \in 0..MaxConn
  BY <1>0 DEF DbAfter, TypeOK
<1>2. d # 0 => ImplHeld(handle', cached, k)
  BY DEF DbAfter
<1>3. \A c \in Conns : Owned(d, k, w, c) => Owned(db, kind, on, c)
  BY <1>1 DEF Owned, Conns
<1>4. db' = d /\ Closing(d, k, w, Late)
  OBVIOUS
<1>5. ~ImplHeld(handle', cached, k) => d = 0
  BY DEF DbAfter
<1>6. ImplHeld(handle', cached, k) => d = db
  BY DEF DbAfter
<1> HIDE DEF d
<1>7. /\ conn' \in [Conns -> {"unused", "open", "closed", "leaked", "abandoned"}]
      /\ \A c \in Conns : conn'[c] = "open" <=> Owned(d, k, w, c)
  BY <1>0, <1>1, <1>3, <1>4, ClosingOpen
<1>8. OpenIffOwned'
  BY <1>4, <1>7 DEF OpenIffOwned
<1>9. TypeOK'
  <2>1. db' # 0 => conn'[db'] = "open"
    BY <1>1, <1>4, <1>7 DEF Owned, Conns
  <2>2. \A o \in Objects : k[o] \in {"schema", "none"} => w[o] = 0
    BY <1>0 DEF TypeOK
  <2> QED  BY <1>0, <1>1, <1>4, <1>7, <2>1, <2>2 DEF TypeOK
<1>10. ConnectedIsHeld'
  BY <1>2, <1>4 DEF ConnectedIsHeld
<1>11. NoOutlivingResults'
  BY DEF NoOutlivingResults
<1>12. ASSUME orderly', NEW o \in Objects, kind[o] \in Native, on[o] # 0,
              k[o] # "none" \/ o \in Late
       PROVE  d = on[o]
  <2>1. orderly /\ on[o] = db
    BY <1>0, <1>12 DEF ConnectionOutlivesItsUsers
  <2>2. ImplHeld(handle', cached, k)
    <3>1. CASE o \in Late
      BY <1>12, <3>1 DEF ImplHeld
    <3>2. CASE k[o] # "none" /\ kind[o] \in Results
      BY <1>12, <3>2 DEF ResultsOutlive, ImplHeld
    <3>3. CASE k[o] # "none" /\ kind[o] \in Prepared
      BY <1>12, <3>3 DEF ImplHeld, SessionHeld, Prepared
    <3> QED  BY <1>12, <3>1, <3>2, <3>3 DEF Native
  <2> QED  BY <1>6, <2>1, <2>2
<1>13. NothingLeaked'
  <2> SUFFICES ASSUME orderly' PROVE \A c \in Conns : conn'[c] # "leaked"
    BY DEF NothingLeaked
  <2>1. \A c \in Conns : conn[c] # "leaked"
    BY <1>0 DEF NothingLeaked
  <2>2. \A c \in Conns : LastOwnerGone(d, k, w, c) =>
          \A o \in Objects : on[o] = c /\ kind[o] \in Native => k[o] = "none" /\ o \notin Late
    BY <1>12 DEF LastOwnerGone, Owned, Conns
  <2> QED  BY <1>4, <2>1, <2>2, ClosingClean
<1>14. ConnectionOutlivesItsUsers'
  <2> SUFFICES ASSUME NEW o \in Objects, w[o] # 0
               PROVE  /\ k[o] = "transaction" => conn'[w[o]] = "open"
                      /\ k[o] \in Native /\ orderly' => w[o] = db'
    BY DEF ConnectionOutlivesItsUsers
  <2>1. k[o] = kind[o] /\ w[o] = on[o] /\ w[o] \in Conns
    BY DEF Conns
  <2>2. k[o] = "transaction" => conn'[w[o]] = "open"
    BY <1>7, <2>1 DEF Owned
  <2>3. k[o] \in Native /\ orderly' => w[o] = db'
    BY <1>4, <1>12, <2>1 DEF Native, Prepared, Results
  <2> QED  BY <2>2, <2>3
<1> QED  BY <1>8, <1>9, <1>10, <1>11, <1>13, <1>14 DEF IndInv

\* The client lets go of its session.
LEMMA DropSessionInv == ASSUME IndInv, DropSession, UNCHANGED backend PROVE IndInv'
<1>1. TypeOK /\ NoOutlivingResults
  BY DEF IndInv
<1>2. /\ kind \in [Objects -> Native \cup {"transaction", "schema", "none"}]
      /\ on \in [Objects -> 0..MaxConn] /\ orderly \in BOOLEAN
  BY <1>1 DEF TypeOK
<1>3. /\ handle' = FALSE /\ db' = DbAfter(ImplHeld(FALSE, cached, kind))
      /\ Closing(DbAfter(ImplHeld(FALSE, cached, kind)), kind, on, {})
      /\ orderly' = (orderly /\ ~ResultsOutlive(FALSE, cached, kind))
      /\ cached' = cached /\ kind' = kind /\ on' = on
  BY DEF DropSession
<1>4. orderly' \in BOOLEAN /\ (orderly' => orderly) /\ (orderly' => ~ResultsOutlive(FALSE, cached, kind))
  BY <1>3, Zenon
<1>5. /\ handle' \in BOOLEAN
      /\ ImplHeld(handle', cached, kind) <=> ImplHeld(FALSE, cached, kind)
      /\ ResultsOutlive(handle', cached, kind) <=> ResultsOutlive(FALSE, cached, kind)
  BY <1>3 DEF ImplHeld, SessionHeld, ResultsOutlive
<1>6. /\ db' = DbAfter(ImplHeld(handle', cached, kind))
      /\ Closing(DbAfter(ImplHeld(handle', cached, kind)), kind, on, {})
  BY <1>3, <1>5 DEF DbAfter
<1>7. /\ {} \in SUBSET Objects /\ \A o \in {} : kind[o] \in Results
      /\ \A o \in Objects :
           (kind[o] = kind[o] /\ on[o] = on[o]) \/ (kind[o] = "none" /\ on[o] = 0)
      /\ orderly' /\ {} # {} =>
           SessionHeld(handle', cached, kind) \/ \E o \in Objects : kind[o] = "statement"
  OBVIOUS
<1>8. orderly' => ~ResultsOutlive(handle', cached, kind)
  BY <1>4, <1>5
<1>9. orderly' \in BOOLEAN /\ (orderly' => orderly)
  BY <1>4
<1>10. cached' = cached /\ kind' = kind /\ on' = on
  BY <1>3
<1> QED  BY <1>2, <1>5, <1>6, <1>7, <1>8, <1>9, <1>10, LettingGo

\* An object goes, and with it what it was the last to own.
LEMMA DestroyInv == ASSUME IndInv, NEW o \in Objects, Destroy(o), UNCHANGED backend PROVE IndInv'
<1> DEFINE k == [kind EXCEPT ![o] = "none"]
           w == [on EXCEPT ![o] = 0]
           Late == IF SessionFirst(kind[o]) THEN {o} ELSE {}
<1>1. TypeOK /\ NoOutlivingResults
  BY DEF IndInv
<1>2. /\ k \in [Objects -> Native \cup {"transaction", "schema", "none"}]
      /\ w \in [Objects -> 0..MaxConn] /\ orderly \in BOOLEAN /\ handle \in BOOLEAN
  BY <1>1, SessionAssumption DEF TypeOK
<1>3. \A p \in Objects : (k[p] = kind[p] /\ w[p] = on[p]) \/ (k[p] = "none" /\ w[p] = 0)
  <2>1. /\ kind \in [Objects -> Native \cup {"transaction", "schema", "none"}]
        /\ on \in [Objects -> 0..MaxConn]
    BY <1>1 DEF TypeOK
  <2>2. \A p \in Objects : k[p] = IF p = o THEN "none" ELSE kind[p]
    BY <2>1
  <2>3. \A p \in Objects : w[p] = IF p = o THEN 0 ELSE on[p]
    BY <2>1
  <2> HIDE DEF k, w
  <2> QED  BY <2>2, <2>3
<1>4. /\ handle' = handle /\ cached' = cached /\ kind' = k /\ on' = w
      /\ db' = DbAfter(ImplHeld(handle, cached, k))
      /\ Closing(DbAfter(ImplHeld(handle, cached, k)), k, w, Late)
      /\ orderly' = (orderly /\ (kind[o] \notin Results => ~ResultsOutlive(handle, cached, k)))
  BY DEF Destroy
<1>5. Late \in SUBSET Objects /\ \A p \in Late : p = o /\ kind[p] \in Results
  BY DEF SessionFirst, Results
<1>6. k[o] = "none" /\ \A p \in Objects \ {o} : k[p] = kind[p]
  BY <1>1 DEF TypeOK
<1> HIDE DEF k, w, Late
<1>7. ASSUME orderly', kind[o] \in Results
      PROVE  SessionHeld(handle, cached, k) \/ \E p \in Objects : k[p] = "statement"
  <2>1. ~ResultsOutlive(handle, cached, kind)
    BY <1>1, <1>4, <1>7 DEF NoOutlivingResults
  <2>2. SessionHeld(handle, cached, kind) \/ \E p \in Objects : kind[p] = "statement"
    BY <1>7, <2>1 DEF ResultsOutlive
  <2>3. kind[o] \notin {"query", "transaction", "schema", "statement"}
    BY <1>7 DEF Results
  <2> QED  BY <1>6, <2>2, <2>3 DEF SessionHeld
<1>8. orderly' => ~ResultsOutlive(handle, cached, k)
  BY <1>4, <1>7 DEF ResultsOutlive
<1>9. orderly' /\ Late # {} =>
        SessionHeld(handle, cached, k) \/ \E p \in Objects : k[p] = "statement"
  BY <1>5, <1>7
<1>10. orderly' \in BOOLEAN /\ (orderly' => orderly)
  BY <1>2, <1>4
<1> QED  BY <1>2, <1>3, <1>4, <1>5, <1>8, <1>9, <1>10, LettingGo

\* A new object of kind k on connection c: a transaction is on the session's
\* connection, a native statement of an orderly client too, and a result is
\* made from something that holds the session or from another result.
LEMMA GetsInv ==
  ASSUME IndInv, UNCHANGED backend, NEW o \in Objects,
         NEW k \in Native \cup {"transaction", "schema"}, NEW c \in 0..MaxConn,
         Gets(o, k, c), cached' \in BOOLEAN, cached => cached',
         k = "schema" => c = 0,
         k = "transaction" => c = db /\ db # 0,
         k \in Native /\ c # 0 /\ orderly => c = db,
         k \in Results => \/ SessionHeld(handle, cached, kind)
                          \/ \E p \in Objects : kind[p] = "statement" \/ kind[p] \in Results
  PROVE  IndInv'
<1> USE SessionAssumption
<1>0. /\ TypeOK /\ OpenIffOwned /\ ConnectedIsHeld
      /\ NoOutlivingResults /\ NothingLeaked /\ ConnectionOutlivesItsUsers
  BY DEF IndInv
<1>1. /\ kind[o] = "none" /\ kind' = [kind EXCEPT ![o] = k] /\ on' = [on EXCEPT ![o] = c]
      /\ conn' = conn /\ db' = db /\ handle' = handle /\ orderly' = orderly
  BY DEF Gets
<1>2. /\ kind'[o] = k /\ on'[o] = c
      /\ \A p \in Objects \ {o} : kind'[p] = kind[p] /\ on'[p] = on[p]
  BY <1>0, <1>1 DEF TypeOK
<1>3. TypeOK'
  <2>1. kind' \in [Objects -> Native \cup {"transaction", "schema", "none"}]
    BY <1>0, <1>1 DEF TypeOK
  <2>2. on' \in [Objects -> 0..MaxConn]
    BY <1>0, <1>1 DEF TypeOK
  <2>3. \A p \in Objects : kind'[p] \in {"schema", "none"} => on'[p] = 0
    BY <1>0, <1>2 DEF TypeOK, Native, Prepared, Results
  <2> QED  BY <1>0, <1>1, <2>1, <2>2, <2>3 DEF TypeOK
<1>4. OpenIffOwned'
  <2>1. \A d \in Conns : Owned(db, kind, on, d) <=> Owned(db, kind', on', d)
    BY <1>0, <1>1, <1>2 DEF Owned, Conns
  <2> QED  BY <1>0, <1>1, <2>1 DEF OpenIffOwned
<1>5. SessionHeld(handle, cached, kind) => SessionHeld(handle', cached', kind')
  BY <1>1, <1>2 DEF SessionHeld
<1>6. ConnectedIsHeld'
  BY <1>0, <1>1, <1>2, <1>5 DEF ConnectedIsHeld, ImplHeld
<1>7. NoOutlivingResults'
  <2> SUFFICES ASSUME orderly, \E p \in Objects : kind'[p] \in Results
               PROVE  \/ SessionHeld(handle', cached', kind')
                      \/ \E p \in Objects : kind'[p] = "statement"
    BY <1>1 DEF NoOutlivingResults, ResultsOutlive
  <2>1. ~ResultsOutlive(handle, cached, kind)
    BY <1>0 DEF NoOutlivingResults
  <2>2. \/ SessionHeld(handle, cached, kind)
        \/ \E p \in Objects : kind[p] = "statement" \/ kind[p] \in Results
    BY <1>2
  <2>3. SessionHeld(handle, cached, kind) \/ \E p \in Objects : kind[p] = "statement"
    BY <2>1, <2>2 DEF ResultsOutlive
  <2> QED  BY <1>1, <1>2, <1>5, <2>3
<1>8. NothingLeaked'
  BY <1>0, <1>1 DEF NothingLeaked
<1>9. ConnectionOutlivesItsUsers'
  <2> SUFFICES ASSUME NEW p \in Objects, on'[p] # 0
               PROVE  /\ kind'[p] = "transaction" => conn[on'[p]] = "open"
                      /\ kind'[p] \in Native /\ orderly => on'[p] = db
    BY <1>1 DEF ConnectionOutlivesItsUsers
  <2>1. CASE p = o
    BY <1>0, <1>2, <2>1 DEF TypeOK
  <2>2. CASE p # o
    BY <1>0, <1>2, <2>2 DEF ConnectionOutlivesItsUsers
  <2> QED  BY <2>1, <2>2
<1> QED  BY <1>3, <1>4, <1>6, <1>7, <1>8, <1>9 DEF IndInv

\* Every action that makes an object is one of GetsInv.
LEMMA CreationInv ==
  ASSUME IndInv, UNCHANGED backend, NEW o \in Objects, NEW p \in Objects,
         \/ GetSchema(o)
         \/ CreateTransaction(o)
         \/ \E k \in Prepared : CreateStatement(o, k)
         \/ QuerySession(o)
         \/ Query(o, p) \/ CurrentRow(o, p) \/ ColumnOf(o, p)
  PROVE  IndInv'
<1>0. TypeOK /\ ConnectionOutlivesItsUsers
  BY DEF IndInv
<1>1. /\ db \in 0..MaxConn /\ on[o] \in 0..MaxConn /\ 0 \in 0..MaxConn
      /\ cached \in BOOLEAN
  BY <1>0, SessionAssumption DEF TypeOK
<1>2. Reachable => SessionHeld(handle, cached, kind)
  BY DEF Reachable, SessionHeld
<1>3. kind[o] \in Native /\ on[o] # 0 /\ orderly => on[o] = db
  BY <1>0 DEF ConnectionOutlivesItsUsers
<1>4. CASE GetSchema(o)
  <2>1. Gets(o, "schema", 0) /\ cached' = TRUE
    BY <1>4 DEF GetSchema
  <2>2. cached' \in BOOLEAN /\ (cached => cached')
    BY <2>1
  <2>3. "schema" \notin Native
    BY DEF Native, Prepared, Results
  <2> QED  BY <1>1, <2>1, <2>2, <2>3, GetsInv DEF Native
<1>5. CASE CreateTransaction(o)
  <2>1. Gets(o, "transaction", db) /\ cached' = cached /\ db # 0
    BY <1>5 DEF CreateTransaction
  <2>2. "transaction" \notin Native
    BY DEF Native, Prepared, Results
  <2> QED  BY <1>1, <2>1, <2>2, GetsInv DEF Native
<1>6. ASSUME NEW k \in Prepared, CreateStatement(o, k) PROVE IndInv'
  <2>1. Gets(o, k, 0) /\ cached' = cached
    BY <1>6 DEF CreateStatement
  <2>2. k \in Native /\ k \notin Results /\ k \notin {"transaction", "schema"}
    BY DEF Native, Prepared, Results
  <2> QED  BY <1>1, <2>1, <2>2, GetsInv
<1>7. CASE QuerySession(o)
  <2>1. PICK c \in {0, db} : Gets(o, "resultset", c)
    BY <1>7 DEF QuerySession
  <2>2. cached' = cached /\ SessionHeld(handle, cached, kind)
    BY <1>2, <1>7 DEF QuerySession
  <2> QED  BY <1>1, <2>1, <2>2, GetsInv DEF Native, Results
<1>8. CASE Query(o, p)
  <2>1. Gets(p, "resultset", on[o]) /\ cached' = cached /\ kind[o] \in Prepared
    BY <1>8 DEF Query
  <2>2. SessionHeld(handle, cached, kind) \/ \E q \in Objects : kind[q] = "statement"
    BY <2>1 DEF SessionHeld, Prepared
  <2> QED  BY <1>1, <1>3, <2>1, <2>2, GetsInv DEF Native, Results
<1>9. CASE CurrentRow(o, p)
  <2>1. Gets(p, "row", on[o]) /\ cached' = cached /\ kind[o] = "resultset"
    BY <1>9 DEF CurrentRow
  <2> QED  BY <1>1, <1>3, <2>1, GetsInv DEF Native, Results
<1>10. CASE ColumnOf(o, p)
  <2>1. Gets(p, "column", on[o]) /\ cached' = cached /\ kind[o] = "row"
    BY <1>10 DEF ColumnOf
  <2> QED  BY <1>1, <1>3, <2>1, GetsInv DEF Native, Results
<1> QED  BY <1>4, <1>5, <1>6, <1>7, <1>8, <1>9, <1>10

\* prepare() and finish() change the native statement of one object.
LEMMA StatementInv ==
  ASSUME IndInv, UNCHANGED backend, NEW o \in Objects, Prepare(o) \/ Finish(o)
  PROVE  IndInv'
<1> USE SessionAssumption
<1>0. /\ TypeOK /\ OpenIffOwned /\ ConnectedIsHeld
      /\ NoOutlivingResults /\ NothingLeaked /\ ConnectionOutlivesItsUsers
  BY DEF IndInv
<1>1. PICK c \in {0, db} : on' = [on EXCEPT ![o] = c]
  BY DEF Prepare, Finish
<1>2. UNCHANGED <<conn, db, handle, cached, kind, orderly>>
  BY DEF Prepare, Finish
<1>3. kind[o] \in Prepared
  BY DEF Prepare, Finish, Prepared
<1>4. on'[o] = c /\ \A p \in Objects \ {o} : on'[p] = on[p]
  BY <1>0, <1>1 DEF TypeOK
<1>5. TypeOK'
  <2>1. on' \in [Objects -> 0..MaxConn]
    BY <1>0, <1>1 DEF TypeOK
  <2>2. \A p \in Objects : kind[p] \in {"schema", "none"} => on'[p] = 0
    BY <1>0, <1>3, <1>4 DEF TypeOK, Prepared
  <2> QED  BY <1>0, <1>2, <2>1, <2>2 DEF TypeOK
<1>6. OpenIffOwned'
  <2>1. \A d \in Conns : Owned(db, kind, on, d) <=> Owned(db, kind, on', d)
    BY <1>3, <1>4 DEF Owned, Prepared
  <2> QED  BY <1>0, <1>2, <2>1 DEF OpenIffOwned
<1>7. ConnectedIsHeld' /\ NoOutlivingResults' /\ NothingLeaked'
  BY <1>0, <1>2 DEF ConnectedIsHeld, NoOutlivingResults, NothingLeaked
<1>8. ConnectionOutlivesItsUsers'
  <2> SUFFICES ASSUME NEW p \in Objects, on'[p] # 0
               PROVE  /\ kind[p] = "transaction" => conn[on'[p]] = "open"
                      /\ kind[p] \in Native /\ orderly => on'[p] = db
    BY <1>2 DEF ConnectionOutlivesItsUsers
  <2>1. CASE p = o
    BY <1>3, <1>4, <2>1 DEF Prepared
  <2>2. CASE p # o
    BY <1>0, <1>4, <2>2 DEF ConnectionOutlivesItsUsers
  <2> QED  BY <2>1, <2>2
<1> QED  BY <1>5, <1>6, <1>7, <1>8 DEF IndInv

\* clear_schema() breaks the cycle of the session and its schemas.
LEMMA ClearSchemaInv == ASSUME IndInv, ClearSchema, UNCHANGED backend PROVE IndInv'
<1>0. /\ TypeOK /\ OpenIffOwned /\ ConnectedIsHeld
      /\ NoOutlivingResults /\ NothingLeaked /\ ConnectionOutlivesItsUsers
  BY DEF IndInv
<1>1. cached' = FALSE /\ UNCHANGED <<conn, db, handle, kind, on, orderly>>
  BY DEF ClearSchema
<1>2. SessionHeld(handle', cached', kind')
  BY <1>1 DEF ClearSchema, Reachable, SessionHeld
<1>3. TypeOK'
  <2>1. cached' \in BOOLEAN
    BY <1>1
  <2> QED  BY <1>0, <1>1, <2>1 DEF TypeOK
<1>4. OpenIffOwned' /\ NothingLeaked' /\ ConnectionOutlivesItsUsers'
  BY <1>0, <1>1 DEF OpenIffOwned, NothingLeaked, ConnectionOutlivesItsUsers
<1>5. ConnectedIsHeld' /\ NoOutlivingResults'
  BY <1>2 DEF ConnectedIsHeld, NoOutlivingResults, ResultsOutlive, ImplHeld
<1> QED  BY <1>3, <1>4, <1>5 DEF IndInv

\* Every step keeps the invariant.
LEMMA NextInv == IndInv /\ [Next]_vars => IndInv'
<1> SUFFICES ASSUME IndInv, [Next]_vars PROVE IndInv'
  OBVIOUS
<1>1. CASE UNCHANGED vars
  BY <1>1 DEF vars, IndInv, TypeOK, OpenIffOwned, ConnectedIsHeld, NoOutlivingResults,
              NothingLeaked, ConnectionOutlivesItsUsers
<1>2. CASE Next
  <2>0. UNCHANGED backend
    BY <1>2 DEF Next
  <2>1. ASSUME NEW c \in Conns, Open(c) \/ OpenFails(c) PROVE IndInv'
    BY <2>0, <2>1, OpenInv, OpenFailsInv
  <2>2. CASE Close
    BY <2>0, <2>2, CloseInv
  <2>3. CASE DropSession
    BY <2>0, <2>3, DropSessionInv
  <2>4. CASE ClearSchema
    BY <2>0, <2>4, ClearSchemaInv
  <2>5. ASSUME NEW o \in Objects, Prepare(o) \/ Finish(o) PROVE IndInv'
    BY <2>0, <2>5, StatementInv
  <2>6. ASSUME NEW o \in Objects,
               \/ GetSchema(o)
               \/ CreateTransaction(o)
               \/ \E k \in Prepared : CreateStatement(o, k)
               \/ QuerySession(o)
        PROVE IndInv'
    BY <2>0, <2>6, CreationInv
  <2>7. ASSUME NEW o \in Objects, NEW p \in Objects,
               Query(o, p) \/ CurrentRow(o, p) \/ ColumnOf(o, p)
        PROVE IndInv'
    BY <2>0, <2>7, CreationInv
  <2>8. ASSUME NEW o \in Objects, Destroy(o) PROVE IndInv'
    BY <2>0, <2>8, DestroyInv
  <2> QED  BY <1>2, <2>1, <2>2, <2>3, <2>4, <2>5, <2>6, <2>7, <2>8 DEF Next
<1> QED  BY <1>1, <1>2

-----------------------------------------------------------------------------
(* Theorems *)

\* The invariant holds of every behaviour.
LEMMA Invariance == Spec => []IndInv
BY InitInv, NextInv, PTL DEF Spec

\* The model of sessions is well typed; in particular the session's db_ is
\* never a connection that was closed (session::db_).
THEOREM SessionTypeCorrect == Spec => []TypeOK
<1>1. IndInv => TypeOK
  BY DEF IndInv
<1> QED  BY <1>1, Invariance, PTL

\* A transaction has an open connection as long as it lives, and the native
\* statements of an orderly client are on the connection of their session
\* (db_ of transaction_impl, session::close).
THEOREM UsersKeepTheirConnection == Spec => []ConnectionOutlivesItsUsers
<1>1. IndInv => ConnectionOutlivesItsUsers
  BY DEF IndInv
<1> QED  BY <1>1, Invariance, PTL

\* When nothing owns the session, an orderly client has every connection
\* closed, in whatever order the owners went
\* (stmt_ and sess_ of the classes, session::~session, close_db).
THEOREM OrderlyClientReleases == Spec => []ReleasedAfterUse
<1>1. IndInv => ReleasedAfterUse
  <2> SUFFICES ASSUME IndInv, orderly, ~ImplHeld(handle, cached, kind), NEW c \in Conns
               PROVE  conn[c] \notin {"open", "leaked"}
    BY DEF ReleasedAfterUse
  <2>1. conn[c] # "leaked"
    BY DEF IndInv, NothingLeaked
  <2>2. db = 0 /\ ~Owned(db, kind, on, c)
    BY DEF IndInv, ConnectedIsHeld, ImplHeld, SessionHeld, Owned, Conns
  <2> QED  BY <2>1, <2>2 DEF IndInv, OpenIffOwned
<1> QED  BY <1>1, Invariance, PTL
=============================================================================
