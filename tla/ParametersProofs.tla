-------------------------- MODULE ParametersProofs ---------------------------
(***************************************************************************)
(* Proofs about the parameters of a query, from the value a client gives to *)
(* the one the engine reads, and about the parameter arrays of Binding, for *)
(* any number of conditions, SET columns, parameters, binding objects and   *)
(* values, and any sizes of allocation.                                     *)
(***************************************************************************)
EXTENDS WhereProofs, FiniteSetTheorems

IndInv == BindingTypeOK /\ ArrayIsMap

\* What bind(index, value) leaves of an array: it covers the index, holds the
\* value there, keeps the other cells and zeroes the new ones.
LEMMA StoredCells ==
  ASSUME NEW a \in Seq(Cells), NEW i \in Nat \ {0}, NEW v \in Cells
  PROVE  /\ Stored(a, i, v) \in Seq(Cells)
         /\ i \in DOMAIN Stored(a, i, v)
         /\ DOMAIN a \subseteq DOMAIN Stored(a, i, v)
         /\ \A j \in DOMAIN Stored(a, i, v) :
              Stored(a, i, v)[j] = IF j = i THEN v ELSE IF j \in DOMAIN a THEN a[j] ELSE Unset
<1> USE BindingAssumption
<1>1. Unset \in Cells /\ Len(a) \in Nat /\ DOMAIN a = 1..Len(a)
  BY DEF Cells
<1>2. CASE i <= Len(a)
  <2>1. Stored(a, i, v) = [[a EXCEPT ![i] = Unset] EXCEPT ![i] = v]
    <3>1. Reallocated(a, i) = [a EXCEPT ![i] = Unset]
      BY <1>2, Zenon DEF Reallocated
    <3>2. i # 0
      OBVIOUS
    <3> QED  BY <3>1, <3>2, Zenon DEF Stored
  <2>2. Stored(a, i, v) \in [1..Len(a) -> Cells]
    <3>1. a \in [1..Len(a) -> Cells]
      OBVIOUS
    <3> QED  BY <1>1, <2>1, <3>1
  <2>3. \A j \in 1..Len(a) : Stored(a, i, v)[j] = IF j = i THEN v ELSE a[j]
    BY <1>1, <2>1
  <2> QED  BY <1>1, <1>2, <2>2, <2>3
<1>3. CASE i > Len(a)
  <2> DEFINE n == i + Increment
             b == [j \in 1..n |-> IF j <= Len(a) THEN a[j] ELSE Unset]
  <2>1. n \in Nat /\ i \in 1..n /\ Len(a) < n
    BY <1>1, <1>3
  <2>2. b \in [1..n -> Cells]
    BY <1>1
  <2>3. Stored(a, i, v) = [b EXCEPT ![i] = v]
    <3>1. ~(i <= Len(a)) /\ i # 0
      BY <1>1, <1>3
    <3>2. Reallocated(a, i) = b
      BY <3>1, Zenon DEF Reallocated
    <3> QED  BY <3>1, <3>2, Zenon DEF Stored
  <2>4. \A j \in 1..n : b[j] = IF j \in DOMAIN a THEN a[j] ELSE Unset
    BY <1>1
  <2> HIDE DEF n, b
  <2>5. Stored(a, i, v) \in [1..n -> Cells]
    BY <2>1, <2>2, <2>3
  <2>6. \A j \in 1..n : Stored(a, i, v)[j] = IF j = i THEN v ELSE b[j]
    BY <2>1, <2>2, <2>3
  <2>7. DOMAIN Stored(a, i, v) = 1..n
    BY <2>5
  <2> QED  BY <1>1, <2>1, <2>4, <2>5, <2>6, <2>7
<1> QED  BY <1>1, <1>2, <1>3

-----------------------------------------------------------------------------
(* One step of the binding objects *)

\* What index i should read as where v was bound and c are the copied indexes.
Surviving(v, i, c) ==
  IF backend = "postgres" /\ i \in c /\ v \in Blobs THEN Garbled ELSE v

\* What ArrayIsMap says of one object that holds array a, was given g and has the
\* values of the indexes in c from a copy.
Holds(a, g, c) ==
  /\ \A i \in Indexes : g[i] # Unset => i \in DOMAIN a
  /\ \A i \in DOMAIN a : a[i] = IF i \in Indexes THEN Surviving(g[i], i, c) ELSE Unset

\* ArrayIsMap, one object at a time.
LEMMA MapIsHolds == ArrayIsMap <=> \A b \in Objects : array[b] # Dead => Holds(array[b], given[b], copied[b])
BY DEF ArrayIsMap, Alive, Holds, Expected, Surviving

\* The same after a step that keeps the backend.
LEMMA MapHoldsNext ==
  ASSUME UNCHANGED backend,
         \A b \in Objects : array'[b] # Dead => Holds(array'[b], given'[b], copied'[b])
  PROVE  ArrayIsMap'
BY DEF ArrayIsMap, Alive, Holds, Expected, Surviving, Indexes

\* An array without a value is the map without an entry.
LEMMA NothingHeld ==
  /\ NothingGiven \in [Indexes -> Cells]
  /\ Zeroed \in Seq(Cells) /\ Holds(Zeroed, NothingGiven, {})
  /\ <<>> \in Seq(Cells) /\ \A c : Holds(<<>>, NothingGiven, c)
<1> USE BindingAssumption
<1>1. Unset \in Cells
  BY DEF Cells
<1>2. NothingGiven \in [Indexes -> Cells] /\ \A i \in Indexes : NothingGiven[i] = Unset
  BY <1>1 DEF NothingGiven
<1>3. Zeroed \in Seq(Cells) /\ \A i \in DOMAIN Zeroed : Zeroed[i] = Unset
  BY <1>1 DEF Zeroed
<1>4. <<>> \in Seq(Cells) /\ DOMAIN <<>> = {}
  OBVIOUS
<1> QED  BY <1>2, <1>3, <1>4 DEF Holds, Surviving

\* A copy holds what the object holds, but for the blobs of postgres.
LEMMA CopyHolds ==
  ASSUME NEW a \in Seq(Cells), NEW g \in [Indexes -> Cells], NEW c, Holds(a, g, c)
  PROVE  Copied(a) \in Seq(Cells) /\ Holds(Copied(a), g, Indexes)
<1> DEFINE d == Copied(a)
<1>1. Garbled \in Cells /\ Garbled \notin Blobs /\ Unset \notin Blobs
  BY BindingAssumption DEF Cells
<1>2. /\ DOMAIN d = DOMAIN a
      /\ \A i \in DOMAIN a : d[i] = IF backend = "postgres" /\ a[i] \in Blobs THEN Garbled ELSE a[i]
  BY DEF Copied
<1>3. d \in Seq(Cells)
  <2>1. \A i \in 1..Len(a) : d[i] \in Cells
    BY <1>1, <1>2
  <2>2. d = [i \in 1..Len(a) |-> d[i]]
    BY DEF Copied
  <2> HIDE DEF d
  <2> QED  BY <2>1, <2>2
<1>4. \A i \in Indexes : g[i] # Unset => i \in DOMAIN d
  BY <1>2 DEF Holds
<1> HIDE DEF d
<1>5. ASSUME NEW i \in DOMAIN d
      PROVE  d[i] = IF i \in Indexes THEN Surviving(g[i], i, Indexes) ELSE Unset
  <2>1. a[i] = IF i \in Indexes THEN Surviving(g[i], i, c) ELSE Unset
    BY <1>2, <1>5 DEF Holds
  <2> QED  BY <1>1, <1>2, <1>5, <2>1 DEF Surviving
<1> QED  BY <1>3, <1>4, <1>5 DEF Holds, d

\* The types and the maps of the objects that IndInv gives.
LEMMA ObjectsHold ==
  ASSUME IndInv
  PROVE  /\ array \in [Objects -> Seq(Cells) \cup {Dead}] /\ given \in [Objects -> [Indexes -> Cells]]
         /\ copied \in [Objects -> SUBSET Indexes]
         /\ backend \in {"sqlite", "postgres", "mysql"}
         /\ \A b \in Objects : given[b] \in [Indexes -> Cells] /\ copied[b] \in SUBSET Indexes
         /\ \A b \in Objects :
              array[b] # Dead => array[b] \in Seq(Cells) /\ Holds(array[b], given[b], copied[b])
BY MapIsHolds DEF IndInv, BindingTypeOK

\* An object that took array a, was given g and copied the indexes in k, the
\* others as before.
LEMMA ObjectsInv ==
  ASSUME IndInv, UNCHANGED backend, NEW c \in Objects,
         NEW a \in Seq(Cells) \cup {Dead}, NEW g \in [Indexes -> Cells], NEW k \in SUBSET Indexes,
         Holding(c, a, g, k), a # Dead => Holds(a, g, k)
  PROVE  IndInv'
<1>1. /\ array \in [Objects -> Seq(Cells) \cup {Dead}] /\ given \in [Objects -> [Indexes -> Cells]]
      /\ copied \in [Objects -> SUBSET Indexes]
      /\ backend \in {"sqlite", "postgres", "mysql"}
  BY ObjectsHold
<1>2. /\ array' \in [Objects -> Seq(Cells) \cup {Dead}] /\ given' \in [Objects -> [Indexes -> Cells]]
      /\ copied' \in [Objects -> SUBSET Indexes]
      /\ \A b \in Objects : array'[b] = IF b = c THEN a ELSE array[b]
      /\ \A b \in Objects : given'[b] = IF b = c THEN g ELSE given[b]
      /\ \A b \in Objects : copied'[b] = IF b = c THEN k ELSE copied[b]
  BY <1>1 DEF Holding
<1>3. BindingTypeOK'
  BY <1>1, <1>2 DEF BindingTypeOK
<1>4. \A b \in Objects : array[b] # Dead => Holds(array[b], given[b], copied[b])
  BY ObjectsHold
<1>5. \A b \in Objects : array'[b] # Dead => Holds(array'[b], given'[b], copied'[b])
  BY <1>2, <1>4
<1>6. ArrayIsMap'
  BY <1>5, MapHoldsNext
<1> QED  BY <1>3, <1>6 DEF IndInv

\* Every operation of a binding object keeps the array and the map together.
LEMMA BindingStepInv == IndInv /\ BindingNext => IndInv'
<1> SUFFICES ASSUME IndInv, BindingNext PROVE IndInv'
  OBVIOUS
<1> USE BindingAssumption
<1>0. UNCHANGED backend
  BY DEF BindingNext
<1>1. /\ array \in [Objects -> Seq(Cells) \cup {Dead}] /\ given \in [Objects -> [Indexes -> Cells]]
      /\ copied \in [Objects -> SUBSET Indexes]
      /\ \A b \in Objects : given[b] \in [Indexes -> Cells] /\ copied[b] \in SUBSET Indexes
      /\ \A b \in Objects :
           array[b] # Dead => array[b] \in Seq(Cells) /\ Holds(array[b], given[b], copied[b])
  BY ObjectsHold
<1>2. ASSUME NEW b \in Objects, Construct(b) \/ ResetBinding(b) \/ DestroyBinding(b) PROVE IndInv'
  <2>1. PICK a \in {Zeroed, <<>>, Dead} : Holding(b, a, NothingGiven, {})
    BY <1>2 DEF Construct, ResetBinding, DestroyBinding
  <2>2. a \in Seq(Cells) \cup {Dead} /\ (a # Dead => Holds(a, NothingGiven, {}))
    BY NothingHeld
  <2> QED  BY <1>0, <2>1, <2>2, NothingHeld, ObjectsInv
<1>3. ASSUME NEW b \in Objects, NEW i \in 0..MaxIndex, NEW v \in Values \cup {Null}, BindIndex(b, i, v)
      PROVE  IndInv'
  <2> DEFINE a == Stored(array[b], i, v)
             g == [j \in Indexes |-> IF j = i THEN v ELSE given[b][j]]
             k == copied[b] \ {i}
  <2>1. array[b] # Dead /\ Holding(b, a, g, k)
    BY <1>3 DEF BindIndex, Alive
  <2>2. /\ array[b] \in Seq(Cells) /\ Holds(array[b], given[b], copied[b])
        /\ given[b] \in [Indexes -> Cells] /\ copied[b] \in SUBSET Indexes
    BY <1>1, <2>1
  <2>3. v \in Cells /\ v # Unset
    BY DEF Cells
  <2>4. /\ g \in [Indexes -> Cells] /\ \A j \in Indexes : g[j] = IF j = i THEN v ELSE given[b][j]
        /\ k \in SUBSET Indexes /\ i \notin k /\ \A j : j # i => (j \in k <=> j \in copied[b])
    BY <2>2, <2>3
  <2>5. a \in Seq(Cells) /\ Holds(a, g, k)
    <3>1. CASE i = 0
      <4>1. a = array[b]
        BY <3>1, Zenon DEF Stored
      <4>2. \A j \in Indexes : j # i /\ g[j] = given[b][j]
        BY <2>4, <3>1 DEF Indexes
      <4> HIDE DEF a, g, k
      <4> QED  BY <2>2, <2>4, <4>1, <4>2 DEF Holds, Surviving
    <3>2. CASE i # 0
      <4>1. i \in Nat \ {0} /\ i \in Indexes
        BY <3>2 DEF Indexes
      <4>2. /\ a \in Seq(Cells) /\ i \in DOMAIN a /\ DOMAIN array[b] \subseteq DOMAIN a
            /\ \A j \in DOMAIN a : a[j] = IF j = i THEN v ELSE IF j \in DOMAIN array[b] THEN array[b][j] ELSE Unset
        BY <2>2, <2>3, <4>1, StoredCells
      <4> HIDE DEF a, g, k
      <4>3. \A j \in Indexes : g[j] # Unset => j \in DOMAIN a
        BY <2>2, <2>4, <4>2 DEF Holds
      <4>4. ASSUME NEW j \in DOMAIN a  PROVE a[j] = IF j \in Indexes THEN Surviving(g[j], j, k) ELSE Unset
        <5>1. CASE j = i
          BY <2>4, <4>1, <4>2, <5>1 DEF Surviving
        <5>2. CASE j # i /\ j \in DOMAIN array[b]
          BY <2>2, <2>4, <4>2, <5>2 DEF Holds, Surviving
        <5>3. CASE j # i /\ j \notin DOMAIN array[b]
          <6>1. a[j] = Unset /\ (j \in Indexes => g[j] = Unset)
            BY <2>2, <2>4, <4>2, <5>3 DEF Holds
          <6> QED  BY <6>1 DEF Surviving
        <5> QED  BY <5>1, <5>2, <5>3
      <4> QED  BY <4>2, <4>3, <4>4 DEF Holds
    <3> QED  BY <3>1, <3>2
  <2> HIDE DEF a, g, k
  <2> QED  BY <1>0, <2>1, <2>4, <2>5, ObjectsInv
<1>4. ASSUME NEW b \in Objects, NEW c \in Objects, CopyConstruct(b, c) \/ CopyAssignBinding(b, c)
      PROVE  IndInv'
  <2>1. /\ array[b] \in Seq(Cells) /\ Holds(array[b], given[b], copied[b])
        /\ given[b] \in [Indexes -> Cells]
    BY <1>1, <1>4 DEF CopyConstruct, CopyAssignBinding, Alive
  <2>2. Copied(array[b]) \in Seq(Cells) /\ Holds(Copied(array[b]), given[b], Indexes)
    BY <2>1, CopyHolds
  <2>3. CASE Holding(c, Copied(array[b]), given[b], Indexes)
    BY <1>0, <2>1, <2>2, <2>3, ObjectsInv
  <2>4. CASE CopyThrows(b) /\ Holding(c, <<>>, given[b], Indexes)
    <3>1. Copied(array[b]) = <<>>
      BY <2>4 DEF CopyThrows, Copied
    <3> HIDE DEF Copied
    <3> QED  BY <1>0, <2>1, <2>2, <2>4, <3>1, ObjectsInv
  <2> QED  BY <1>4, <2>3, <2>4 DEF CopyConstruct, CopyAssignBinding
<1>5. ASSUME NEW b \in Objects, NEW c \in Objects, MoveBinding(b, c)
      PROVE  IndInv'
  <2>1. /\ array[b] \in Seq(Cells) /\ Holds(array[b], given[b], copied[b])
        /\ given[b] \in [Indexes -> Cells] /\ copied[b] \in SUBSET Indexes /\ b # c
    BY <1>1, <1>5 DEF MoveBinding, Alive
  <2>2. /\ array' = [array EXCEPT ![c] = array[b], ![b] = <<>>]
        /\ given' = [given EXCEPT ![c] = given[b], ![b] = NothingGiven]
        /\ copied' = [copied EXCEPT ![c] = copied[b], ![b] = {}]
    BY <1>5 DEF MoveBinding
  <2>3. /\ \A x \in Objects : array'[x] = IF x = b THEN <<>> ELSE IF x = c THEN array[b] ELSE array[x]
        /\ \A x \in Objects : given'[x] = IF x = b THEN NothingGiven ELSE IF x = c THEN given[b] ELSE given[x]
        /\ \A x \in Objects : copied'[x] = IF x = b THEN {} ELSE IF x = c THEN copied[b] ELSE copied[x]
    BY <1>1, <2>1, <2>2
  <2>4. array' \in [Objects -> Seq(Cells) \cup {Dead}]
    BY <1>1, <2>1, <2>2, NothingHeld
  <2>5. given' \in [Objects -> [Indexes -> Cells]] /\ copied' \in [Objects -> SUBSET Indexes]
    BY <1>1, <2>1, <2>2, NothingHeld
  <2>6. BindingTypeOK'
    BY <1>0, <2>4, <2>5 DEF IndInv, BindingTypeOK
  <2>7. \A x \in Objects : array'[x] # Dead => Holds(array'[x], given'[x], copied'[x])
    BY <1>1, <2>1, <2>3, NothingHeld
  <2> QED  BY <1>0, <2>6, <2>7, MapHoldsNext DEF IndInv
<1> QED  BY <1>2, <1>3, <1>4, <1>5 DEF BindingNext

\* There is no array yet.
LEMMA ArraysInit == Init => IndInv
<1> SUFFICES ASSUME Init PROVE IndInv
  OBVIOUS
<1>1. /\ array = [b \in Objects |-> Dead] /\ given = [b \in Objects |-> NothingGiven]
      /\ copied = [b \in Objects |-> {}] /\ backend \in {"sqlite", "postgres", "mysql"}
  BY ParametersAssumption DEF Init, BindingInit
<1> QED  BY <1>1, NothingHeld DEF IndInv, BindingTypeOK, ArrayIsMap, Alive

\* Every step keeps the arrays.
LEMMA ArraysNext == IndInv /\ [Next]_vars => IndInv'
<1> SUFFICES ASSUME IndInv, [Next]_vars PROVE IndInv'
  OBVIOUS
<1>1. CASE BindingNext
  BY <1>1, BindingStepInv
<1>2. CASE UNCHANGED <<backend, array, given, copied>>
  BY <1>2 DEF IndInv, BindingTypeOK, ArrayIsMap, Expected, Alive, Indexes, Cells
<1> QED  BY <1>1, <1>2 DEF Next, StatementStep, vars, bindingVars

\* The array of a mysql or postgres statement is the map from index to value
\* that was bound, for any sizes of the first allocation and of its growth, but
\* for the blobs that postgres copied
\* (binding::reallocate_value, clear_value, copy_value).
THEOREM ArraysAreMaps == Spec => []ArrayIsMap
<1>1. IndInv => ArrayIsMap
  BY DEF IndInv
<1> QED  BY <1>1, ArraysInit, ArraysNext, PTL DEF Spec

-----------------------------------------------------------------------------
(* Chosen and Sent, one member at a time *)

\* One unfolding of the function that Chosen is read from.
Choosing(f, s, P, m) ==
  [n \in 0..m |-> IF n = 0 THEN <<>>
                  ELSE IF s[n] \in P THEN Append(f[n - 1], s[n]) ELSE f[n - 1]]

\* The function exists.
LEMMA ChoosingExists ==
  ASSUME NEW s, NEW P, NEW m \in Nat
  PROVE  \E f : f = Choosing(f, s, P, m)
<1> DEFINE Bad == {n \in Nat : ~\E f : f = Choosing(f, s, P, n)}
           Add(a, n) == IF s[n] \in P THEN Append(a, s[n]) ELSE a
<1> SUFFICES ASSUME Bad # {}  PROVE FALSE
  OBVIOUS
<1>1. PICK k \in Bad : \A y \in Bad : k <= y
  <2>1. Bad \subseteq Nat
    OBVIOUS
  <2> HIDE DEF Bad
  <2> QED  BY <2>1, Least
<1>2. k \in Nat /\ ~\E f : f = Choosing(f, s, P, k)
  BY <1>1
<1>3. CASE k = 0
  <2> DEFINE f == [n \in 0..0 |-> <<>>]
  <2>1. f = Choosing(f, s, P, 0)
    BY DEF Choosing
  <2> QED  BY <1>2, <1>3, <2>1
<1>4. CASE k # 0
  <2>1. k - 1 \in Nat /\ k - 1 \notin Bad
    BY <1>1, <1>2, <1>4
  <2>2. PICK g : g = Choosing(g, s, P, k - 1)
    BY <2>1
  <2>3. \A n \in 0..(k - 1) : g[n] = IF n = 0 THEN <<>> ELSE Add(g[n - 1], n)
    BY <2>2, Zenon DEF Choosing
  <2> HIDE DEF Add
  <2> DEFINE f == [n \in 0..k |-> IF n < k THEN g[n] ELSE Add(g[k - 1], k)]
  <2>4. ASSUME NEW n \in 0..k
        PROVE  f[n] = IF n = 0 THEN <<>> ELSE Add(f[n - 1], n)
    <3>1. CASE n = 0
      BY <1>2, <1>4, <2>3, <3>1
    <3>2. CASE n # 0 /\ n < k
      <4>1. n \in 0..(k - 1) /\ n - 1 \in 0..k /\ n - 1 < k
        BY <1>2, <3>2
      <4> QED  BY <2>3, <3>2, <4>1
    <3>3. CASE n # 0 /\ n = k
      <4>1. n - 1 \in 0..k /\ n - 1 < k /\ ~(k < k)
        BY <1>2, <3>3
      <4> QED  BY <3>3, <4>1
    <3> QED  BY <1>2, <3>1, <3>2, <3>3
  <2>5. f = [n \in 0..k |-> IF n = 0 THEN <<>> ELSE Add(f[n - 1], n)]
    BY <2>4
  <2> HIDE DEF f
  <2>6. f = Choosing(f, s, P, k)
    BY <2>5, Zenon DEF Choosing, Add
  <2> QED  BY <1>2, <2>6
<1> QED  BY <1>3, <1>4

\* What Chosen is read from.
LEMMA ChosenIs ==
  ASSUME NEW s, NEW P, Len(s) \in Nat
  PROVE  \E f : /\ Chosen(s, P) = f[Len(s)]
               /\ \A n \in 0..Len(s) :
                    f[n] = IF n = 0 THEN <<>>
                           ELSE IF s[n] \in P THEN Append(f[n - 1], s[n]) ELSE f[n - 1]
<1> DEFINE f == CHOOSE h : h = Choosing(h, s, P, Len(s))
<1>1. f = Choosing(f, s, P, Len(s))
  BY ChoosingExists
<1>2. Chosen(s, P) = f[Len(s)]
  BY Zenon DEF Chosen, Choosing
<1> HIDE DEF f
<1>3. \A n \in 0..Len(s) :
        f[n] = IF n = 0 THEN <<>> ELSE IF s[n] \in P THEN Append(f[n - 1], s[n]) ELSE f[n - 1]
  BY <1>1, Zenon DEF Choosing
<1> QED  BY <1>2, <1>3

\* What is chosen stands in s and belongs to P.
LEMMA ChosenMembers ==
  ASSUME NEW S, NEW s \in Seq(S), NEW P
  PROVE  Chosen(s, P) \in Seq({s[j] : j \in DOMAIN s} \cap P)
<1> DEFINE M == {s[j] : j \in DOMAIN s} \cap P
           m == Len(s)
<1>1. m \in Nat /\ \A n \in 1..m : s[n] \in P => s[n] \in M
  OBVIOUS
<1>2. PICK f : /\ Chosen(s, P) = f[m]
               /\ \A n \in 0..m :
                    f[n] = IF n = 0 THEN <<>>
                           ELSE IF s[n] \in P THEN Append(f[n - 1], s[n]) ELSE f[n - 1]
  BY <1>1, ChosenIs
<1> HIDE DEF m, M
<1> DEFINE Bad == {n \in 0..m : f[n] \notin Seq(M)}
<1>3. ASSUME Bad # {}  PROVE FALSE
  <2>1. PICK x \in Bad : \A y \in Bad : x <= y
    <3>1. Bad \subseteq Nat
      BY <1>1
    <3> HIDE DEF Bad
    <3> QED  BY <1>3, <3>1, Least
  <2>2. x \in 0..m /\ f[x] \notin Seq(M)
    BY <2>1
  <2>3. x # 0
    <3>1. 0 \in 0..m /\ <<>> \in Seq(M)
      BY <1>1
    <3>2. f[0] = <<>>
      BY <1>2, <3>1, Zenon
    <3> QED  BY <2>2, <3>1, <3>2
  <2>4. x - 1 \in 0..m /\ x \in 1..m
    BY <1>1, <2>2, <2>3
  <2>5. x - 1 \notin Bad
    BY <1>1, <2>1, <2>2
  <2>6. f[x - 1] \in Seq(M)
    BY <2>4, <2>5
  <2>7. f[x] = IF s[x] \in P THEN Append(f[x - 1], s[x]) ELSE f[x - 1]
    BY <1>2, <2>2, <2>3
  <2> QED  BY <1>1, <2>2, <2>4, <2>6, <2>7
<1>4. m \in 0..m
  BY <1>1
<1> QED  BY <1>2, <1>3, <1>4 DEF M

\* Choosing goes member by member: one more that belongs is put at the end.
LEMMA ChosenAppend ==
  ASSUME NEW S, NEW s \in Seq(S), NEW c \in S, NEW P, NEW Q, c \in Q,
         \A n \in 1..Len(s) : s[n] \in P <=> s[n] \in Q
  PROVE  Chosen(Append(s, c), Q) = Append(Chosen(s, P), c)
<1> DEFINE m == Len(s)
           u == Append(s, c)
<1>1. /\ m \in Nat /\ Len(u) = m + 1 /\ u[m + 1] = c /\ \A n \in 1..m : s[n] = u[n]
      /\ \A n \in 1..m : s[n] \in P <=> s[n] \in Q
  OBVIOUS
<1>2. PICK f : /\ Chosen(s, P) = f[m]
               /\ \A n \in 0..m :
                    f[n] = IF n = 0 THEN <<>>
                           ELSE IF s[n] \in P THEN Append(f[n - 1], s[n]) ELSE f[n - 1]
  BY <1>1, ChosenIs
<1> HIDE DEF m, u
<1>3. PICK g : /\ Chosen(u, Q) = g[m + 1]
               /\ \A n \in 0..(m + 1) :
                    g[n] = IF n = 0 THEN <<>>
                           ELSE IF u[n] \in Q THEN Append(g[n - 1], u[n]) ELSE g[n - 1]
  <2> DEFINE k == Len(u)
  <2>1. k \in Nat /\ k = m + 1
    BY <1>1
  <2>2. \E g : /\ Chosen(u, Q) = g[k]
              /\ \A n \in 0..k :
                   g[n] = IF n = 0 THEN <<>>
                          ELSE IF u[n] \in Q THEN Append(g[n - 1], u[n]) ELSE g[n - 1]
    BY <2>1, ChosenIs
  <2> HIDE DEF k
  <2> QED  BY <2>1, <2>2
<1> DEFINE Bad == {n \in 0..m : f[n] # g[n]}
<1>4. ASSUME Bad # {}  PROVE FALSE
  <2>1. PICK x \in Bad : \A y \in Bad : x <= y
    <3>1. Bad \subseteq Nat
      BY <1>1
    <3> HIDE DEF Bad
    <3> QED  BY <1>4, <3>1, Least
  <2>2. x \in 0..m /\ f[x] # g[x] /\ x \in 0..(m + 1)
    BY <1>1, <2>1
  <2>3. x # 0
    BY <1>2, <1>3, <2>2
  <2>4. x - 1 \in 0..m /\ x \in 1..m
    BY <1>1, <2>2, <2>3
  <2>5. x - 1 \notin Bad
    BY <1>1, <2>1, <2>2
  <2>6. f[x - 1] = g[x - 1]
    BY <2>4, <2>5
  <2>7. /\ f[x] = IF s[x] \in P THEN Append(f[x - 1], s[x]) ELSE f[x - 1]
        /\ g[x] = IF u[x] \in Q THEN Append(g[x - 1], u[x]) ELSE g[x - 1]
    BY <1>2, <1>3, <2>2, <2>3
  <2>8. u[x] = s[x] /\ (s[x] \in P <=> s[x] \in Q)
    BY <1>1, <2>4
  <2> QED  BY <2>2, <2>6, <2>7, <2>8
<1>5. f[m] = g[m]
  <2>1. m \in 0..m
    BY <1>1
  <2> QED  BY <1>4, <2>1
<1>6. g[m + 1] = Append(g[m], c)
  <2>1. m + 1 \in 0..(m + 1) /\ m + 1 # 0 /\ (m + 1) - 1 = m
    BY <1>1
  <2> QED  BY <1>1, <1>3, <2>1
<1> QED  BY <1>2, <1>3, <1>5, <1>6 DEF u

\* One condition, and none.
LEMMA ChosenFew ==
  ASSUME NEW S, NEW s \in Seq(S)
  PROVE  Chosen(s, {}) = <<>> /\ \A c \in S : Chosen(<<c>>, {c}) = <<c>>
<1>1. ASSUME NEW t \in Seq(S)  PROVE Chosen(t, {}) = <<>>
  <2>1. {t[j] : j \in DOMAIN t} \cap {} = {}
    OBVIOUS
  <2>2. Chosen(t, {}) \in Seq({})
    BY <2>1, ChosenMembers
  <2> HIDE DEF Chosen
  <2> QED  BY <2>2
<1>2. ASSUME NEW c \in S  PROVE Chosen(<<c>>, {c}) = <<c>>
  <2>1. <<>> \in Seq(S) /\ \A n \in 1..Len(<<>>) : <<>>[n] \in {} <=> <<>>[n] \in {c}
    OBVIOUS
  <2>2. Chosen(Append(<<>>, c), {c}) = Append(Chosen(<<>>, {}), c)
    BY <2>1, ChosenAppend
  <2>3. Chosen(<<>>, {}) = <<>>
    BY <1>1, <2>1, Zenon
  <2>4. Append(<<>>, c) = <<c>>
    OBVIOUS
  <2> QED  BY <2>2, <2>3, <2>4
<1> QED  BY <1>1, <1>2

\* One unfolding of the function that Sent is read from.
Sending(f, p, m) == [n \in 0..m |-> IF n = 0 THEN Zeroed ELSE Stored(f[n - 1], n, p[n])]

\* The function exists.
LEMMA SendingExists ==
  ASSUME NEW p, NEW m \in Nat
  PROVE  \E f : f = Sending(f, p, m)
<1> DEFINE Bad == {n \in Nat : ~\E f : f = Sending(f, p, n)}
<1> SUFFICES ASSUME Bad # {}  PROVE FALSE
  OBVIOUS
<1>1. PICK k \in Bad : \A y \in Bad : k <= y
  <2>1. Bad \subseteq Nat
    OBVIOUS
  <2> HIDE DEF Bad
  <2> QED  BY <2>1, Least
<1>2. k \in Nat /\ ~\E f : f = Sending(f, p, k)
  BY <1>1
<1>3. CASE k = 0
  <2> DEFINE f == [n \in 0..0 |-> Zeroed]
  <2>1. f = Sending(f, p, 0)
    BY DEF Sending
  <2> QED  BY <1>2, <1>3, <2>1
<1>4. CASE k # 0
  <2>1. k - 1 \in Nat /\ k - 1 \notin Bad
    BY <1>1, <1>2, <1>4
  <2>2. PICK g : g = Sending(g, p, k - 1)
    BY <2>1
  <2>3. \A n \in 0..(k - 1) : g[n] = IF n = 0 THEN Zeroed ELSE Stored(g[n - 1], n, p[n])
    BY <2>2, Zenon DEF Sending
  <2> DEFINE f == [n \in 0..k |-> IF n < k THEN g[n] ELSE Stored(g[k - 1], k, p[k])]
  <2>4. ASSUME NEW n \in 0..k
        PROVE  f[n] = IF n = 0 THEN Zeroed ELSE Stored(f[n - 1], n, p[n])
    <3>1. CASE n = 0
      BY <1>2, <1>4, <2>3, <3>1
    <3>2. CASE n # 0 /\ n < k
      <4>1. n \in 0..(k - 1) /\ n - 1 \in 0..k /\ n - 1 < k
        BY <1>2, <3>2
      <4> QED  BY <2>3, <3>2, <4>1
    <3>3. CASE n # 0 /\ n = k
      <4>1. n - 1 \in 0..k /\ n - 1 < k /\ ~(k < k)
        BY <1>2, <3>3
      <4> QED  BY <3>3, <4>1
    <3> QED  BY <1>2, <3>1, <3>2, <3>3
  <2>5. f = Sending(f, p, k)
    BY <2>4 DEF Sending
  <2> QED  BY <1>2, <2>5
<1> QED  BY <1>3, <1>4

\* A statement is sent the parameters of the query, each at its index, and
\* nothing else.
LEMMA SentIsParams ==
  ASSUME params \in Seq(Given)
  PROVE  /\ Sent \in Seq(Cells) /\ DOMAIN params \subseteq DOMAIN Sent
         /\ \A j \in DOMAIN Sent : Sent[j] = IF j \in DOMAIN params THEN params[j] ELSE Unset
<1> DEFINE m == Len(params)
           Carries(a, n) ==
             /\ a \in Seq(Cells) /\ 1..n \subseteq DOMAIN a
             /\ \A j \in DOMAIN a : a[j] = IF j \in 1..n THEN params[j] ELSE Unset
           f == CHOOSE h : h = Sending(h, params, m)
<1>1. m \in Nat /\ DOMAIN params = 1..m /\ (\A n \in 1..m : params[n] \in Cells) /\ Unset \in Cells
  BY DEF Given, Cells
<1>2. f = Sending(f, params, m)
  BY <1>1, SendingExists
<1>3. Sent = f[m]
  BY Zenon DEF Sent, Sending
<1> HIDE DEF f, m
<1>4. \A n \in 0..m : f[n] = IF n = 0 THEN Zeroed ELSE Stored(f[n - 1], n, params[n])
  BY <1>2, Zenon DEF Sending
<1>5. Carries(Zeroed, 0)
  <2>1. Zeroed \in Seq(Cells) /\ DOMAIN Zeroed = 1..Prealloc /\ \A j \in 1..Prealloc : Zeroed[j] = Unset
    BY <1>1, BindingAssumption DEF Zeroed
  <2> QED  BY <2>1
<1>6. ASSUME NEW n \in 1..m, NEW a, Carries(a, n - 1)  PROVE Carries(Stored(a, n, params[n]), n)
  <2>1. a \in Seq(Cells) /\ n \in Nat \ {0} /\ params[n] \in Cells
    BY <1>1, <1>6
  <2> DEFINE b == Stored(a, n, params[n])
  <2>2. /\ b \in Seq(Cells) /\ n \in DOMAIN b /\ DOMAIN a \subseteq DOMAIN b
        /\ \A j \in DOMAIN b : b[j] = IF j = n THEN params[n] ELSE IF j \in DOMAIN a THEN a[j] ELSE Unset
    BY <2>1, StoredCells
  <2> HIDE DEF b
  <2>3. 1..n \subseteq DOMAIN b
    BY <1>6, <2>1, <2>2
  <2>4. ASSUME NEW j \in DOMAIN b  PROVE b[j] = IF j \in 1..n THEN params[j] ELSE Unset
    <3>1. j \in Nat
      BY <2>2
    <3>2. CASE j = n
      BY <2>1, <2>2, <3>2
    <3>3. CASE j # n
      <4>1. j \in 1..n <=> j \in 1..(n - 1)
        BY <2>1, <3>1, <3>3
      <4>2. j \in 1..(n - 1) => j \in DOMAIN a
        BY <1>6
      <4> QED  BY <1>6, <2>2, <3>3, <4>1, <4>2
    <3> QED  BY <3>2, <3>3
  <2> QED  BY <2>2, <2>3, <2>4 DEF b
<1> HIDE DEF Carries
<1> DEFINE Bad == {n \in 0..m : ~Carries(f[n], n)}
<1>7. ASSUME Bad # {}  PROVE FALSE
  <2>1. PICK x \in Bad : \A y \in Bad : x <= y
    <3>1. Bad \subseteq Nat
      BY <1>1
    <3> HIDE DEF Bad
    <3> QED  BY <1>7, <3>1, Least
  <2>2. x \in 0..m /\ ~Carries(f[x], x)
    BY <2>1
  <2>3. x # 0
    BY <1>4, <1>5, <2>2
  <2>4. x - 1 \in 0..m /\ x \in 1..m
    BY <1>1, <2>2, <2>3
  <2>5. x - 1 \notin Bad
    BY <1>1, <2>1, <2>2
  <2>6. Carries(f[x - 1], x - 1)
    BY <2>4, <2>5
  <2>7. f[x] = Stored(f[x - 1], x, params[x])
    BY <1>4, <2>2, <2>3
  <2> QED  BY <1>6, <2>2, <2>4, <2>6, <2>7
<1>8. Carries(f[m], m)
  <2>1. m \in 0..m
    BY <1>1
  <2> QED  BY <1>7, <2>1
<1> QED  BY <1>1, <1>3, <1>8 DEF Carries

\* postgres counts every parameter, a null too.
LEMMA SentIsCounted ==
  ASSUME params \in Seq(Given), backend = "postgres"
  PROVE  Counted(Sent) = Len(params)
<1>1. /\ Sent \in Seq(Cells) /\ DOMAIN params \subseteq DOMAIN Sent
      /\ \A j \in DOMAIN Sent : Sent[j] = IF j \in DOMAIN params THEN params[j] ELSE Unset
  BY SentIsParams
<1>2. DOMAIN params = 1..Len(params) /\ Len(params) \in Nat
      /\ \A j \in DOMAIN params : params[j] \in Values \/ params[j] = Null
  BY DEF Given
<1>3. {i \in DOMAIN Sent : \/ Sent[i] \in Values \cup {Garbled}
                           \/ backend = "postgres" /\ Sent[i] = Null} = 1..Len(params)
  <2>1. \A i \in DOMAIN Sent : (Sent[i] \in Values \cup {Garbled} \/ Sent[i] = Null) <=> i \in DOMAIN params
    BY <1>1, <1>2, BindingAssumption
  <2> QED  BY <1>1, <1>2, <2>1
<1>4. Cardinality(1..Len(params)) = Len(params)
  <2> DEFINE n == Len(params)
  <2>1. 1 \in Int /\ n \in Int /\ n \in Nat
    BY <1>2
  <2> HIDE DEF n
  <2>2. Cardinality(1..n) = IF 1 > n THEN 0 ELSE n - 1 + 1
    BY <2>1, FS_Interval
  <2>3. Cardinality(1..n) = n
    BY <2>1, <2>2
  <2> QED  BY <2>3 DEF n
<1> QED  BY <1>3, <1>4 DEF Counted

-----------------------------------------------------------------------------
(* Parameters *)

\* params_[i] = v: the rest is kept and a gap becomes null.
LEMMA PutParams ==
  ASSUME NEW p \in Seq(Given), NEW i \in Nat \ {0}, NEW v \in Given
  PROVE  /\ Put(p, i, v) \in Seq(Given)
         /\ i \in DOMAIN Put(p, i, v)
         /\ DOMAIN p \subseteq DOMAIN Put(p, i, v)
         /\ \A j \in DOMAIN Put(p, i, v) :
              Put(p, i, v)[j] = IF j = i THEN v ELSE IF j \in DOMAIN p THEN p[j] ELSE Null
<1> DEFINE n == IF i > Len(p) THEN i ELSE Len(p)
           q == [j \in 1..n |-> CASE j = i -> v [] j # i /\ j <= Len(p) -> p[j] [] OTHER -> Null]
<1>1. Len(p) \in Nat /\ n \in Nat /\ i \in 1..n /\ n >= Len(p) /\ Null \in Given
  BY DEF Given
<1>2. Put(p, i, v) = q
  BY Zenon DEF Put
<1>3. \A j \in 1..n : q[j] = IF j = i THEN v ELSE IF j \in DOMAIN p THEN p[j] ELSE Null
  BY <1>1
<1>4. \A j \in 1..n : q[j] \in Given
  BY <1>1, <1>3
<1>5. DOMAIN q = 1..n
  OBVIOUS
<1>6. q \in Seq(Given)
  <2> HIDE DEF n
  <2> QED  BY <1>1, <1>4
<1> HIDE DEF n, q
<1> QED  BY <1>1, <1>2, <1>3, <1>5, <1>6

\* It makes the array no longer than the index needs.
LEMMA PutLength ==
  ASSUME NEW p \in Seq(Given), NEW i \in Nat \ {0}, NEW v \in Given
  PROVE  Len(Put(p, i, v)) = IF i > Len(p) THEN i ELSE Len(p)
<1> DEFINE n == IF i > Len(p) THEN i ELSE Len(p)
           q == [j \in 1..n |-> CASE j = i -> v [] j # i /\ j <= Len(p) -> p[j] [] OTHER -> Null]
<1>1. n \in Nat
  OBVIOUS
<1>2. Put(p, i, v) = q
  BY Zenon DEF Put
<1>3. Len(q) = n
  <2> HIDE DEF n
  <2> QED  BY <1>1
<1> QED  BY <1>2, <1>3

\* The operands a client can give.
LEMMA Operands ==
  ASSUME NEW o \in Operators
  PROVE  /\ o.op \in Single \cup {"in", "between"} /\ o.args \in Seq(Given) /\ o.args[1] \in Given
         /\ o.op \notin Single => o.args[2] = o.args[1] /\ o.args[2] \in Given
<1>1. CASE \/ o \in [op : {"scalar", "negated"}, args : {<<v>> : v \in Given}]
           \/ o \in [op : {"isnull"}, args : {<<Null>>}]
  <2>1. PICK v \in Given : o.args = <<v>>
    BY <1>1 DEF Given
  <2>2. o.op \in Single
    BY <1>1 DEF Single
  <2>3. <<v>> \in Seq(Given) /\ <<v>>[1] = v
    OBVIOUS
  <2> QED  BY <2>1, <2>2, <2>3
<1>2. CASE o \in [op : {"in", "between"}, args : {<<v, v>> : v \in Values \ {AtValue}}]
  <2>1. PICK v \in Given : o.args = <<v, v>>
    BY <1>2 DEF Given
  <2>2. o.op \in {"in", "between"} /\ o.op \notin Single
    BY <1>2 DEF Single
  <2>3. <<v, v>> \in Seq(Given) /\ <<v, v>>[1] = v /\ <<v, v>>[2] = v
    OBVIOUS
  <2> QED  BY <2>1, <2>2, <2>3
<1> QED  BY <1>1, <1>2 DEF Operators

\* where_builder::bind beyond the last index: the parameters before it are kept and
\* the operand stands at its number; one operand takes one parameter.
LEMMA BoundParams ==
  ASSUME NEW p \in Seq(Given), NEW o \in Operators, NEW i \in Nat, i > Len(p), NEW q, q = Bound(p, i, o)
  PROVE  /\ q \in Seq(Given) /\ Len(q) >= Len(p) /\ \A j \in 1..Len(p) : q[j] = p[j]
         /\ ~Named(o) => i \in DOMAIN q /\ q[i] = o.args[1]
         /\ ~Named(o) /\ o.op = "scalar" => Len(q) = i
<1>0. /\ o.op \in Single \cup {"in", "between"} /\ o.args[1] \in Given
      /\ o.op \notin Single => o.args[2] = o.args[1] /\ o.args[2] \in Given
  BY Operands
<1>n. Len(p) \in Nat /\ i \in Nat \ {0} /\ i + 1 \in Nat \ {0} /\ i > Len(p)
  OBVIOUS
<1> DEFINE a == o.args[1]
           b == o.args[2]
           r == Put(p, i, a)
<1>a. a \in Given /\ (o.op \notin Single => b = a /\ b \in Given)
  BY <1>0
<1>1. r \in Seq(Given) /\ Len(r) = i /\ r[i] = a /\ \A j \in 1..Len(p) : r[j] = p[j]
  <2> HIDE DEF a
  <2>1. /\ r \in Seq(Given) /\ i \in DOMAIN r
        /\ \A j \in DOMAIN r : r[j] = IF j = i THEN a ELSE IF j \in DOMAIN p THEN p[j] ELSE Null
    BY <1>n, <1>a, PutParams
  <2>2. Len(r) = i
    BY <1>n, <1>a, PutLength
  <2> HIDE DEF r
  <2> QED  BY <1>n, <2>1, <2>2
<1> HIDE DEF r
<1>2. CASE Named(o)
  <2>1. q = p
    BY <1>2 DEF Bound, Named, Single
  <2> QED  BY <1>n, <1>2, <2>1
<1>3. CASE ~Named(o) /\ o.op \in Single
  <2>1. q = r
    BY <1>3 DEF Bound, Named, Single, r
  <2> QED  BY <1>n, <1>1, <1>3, <2>1
<1>4. CASE o.op = "in" /\ o.op \notin Single
  <2> DEFINE k == i + 1
             t == Put(r, k, b)
  <2>1. q = t
    BY <1>4 DEF Bound, Named, r
  <2>2. k \in Nat \ {0} /\ b \in Given /\ k > Len(r)
    BY <1>n, <1>a, <1>1, <1>4
  <2> HIDE DEF k, b
  <2>3. /\ t \in Seq(Given) /\ DOMAIN r \subseteq DOMAIN t
        /\ \A j \in DOMAIN t : t[j] = IF j = k THEN b ELSE IF j \in DOMAIN r THEN r[j] ELSE Null
    BY <1>1, <2>2, PutParams
  <2> HIDE DEF t
  <2>4. Len(t) >= i /\ \A j \in 1..i : t[j] = r[j]
    <3>1. Len(t) \in Nat /\ DOMAIN t = 1..Len(t) /\ DOMAIN r = 1..i /\ i \in 1..i
      BY <1>n, <1>1, <2>3
    <3>2. i \in DOMAIN t
      BY <2>3, <3>1
    <3>3. \A j \in 1..i : j # k
      BY <1>n DEF k
    <3> QED  BY <1>n, <2>3, <3>1, <3>2, <3>3
  <2> QED  BY <1>n, <1>1, <1>4, <2>1, <2>3, <2>4
<1>5. CASE o.op = "between" /\ o.op \notin Single
  <2> DEFINE t == Put(r, i, b)
  <2>1. q = t
    BY <1>5 DEF Bound, Named, r
  <2>2. b \in Given /\ b = a
    BY <1>a, <1>5
  <2> HIDE DEF b
  <2>3. /\ t \in Seq(Given) /\ i \in DOMAIN t /\ DOMAIN r \subseteq DOMAIN t
        /\ \A j \in DOMAIN t : t[j] = IF j = i THEN b ELSE IF j \in DOMAIN r THEN r[j] ELSE Null
    <3>1. r \in Seq(Given) /\ b \in Given
      BY <1>1, <2>2
    <3> QED  BY <1>n, <3>1, PutParams
  <2> HIDE DEF t
  <2>4. Len(t) >= i /\ t[i] = a /\ \A j \in 1..Len(p) : t[j] = p[j]
    <3>1. Len(t) \in Nat /\ DOMAIN t = 1..Len(t) /\ DOMAIN r = 1..i
      BY <1>n, <1>1, <2>3
    <3>2. \A j \in 1..Len(p) : j \in 1..i /\ j # i
      BY <1>n
    <3> QED  BY <1>1, <2>2, <2>3, <3>1, <3>2
  <2> QED  BY <1>n, <1>1, <1>5, <2>1, <2>3, <2>4
<1>6. o.op \in Single \/ (o.op \in {"in", "between"} /\ o.op \notin Single)
  BY <1>0 DEF Single
<1> QED  BY <1>2, <1>3, <1>4, <1>5, <1>6

-----------------------------------------------------------------------------
(* The round of a query, as relations between its parts: n SET columns, the
   parameters p, the placeholders sl of the text, the conditions cs, the values
   sg given to the SET columns, the conditions fr given a value, and the
   departure d from the usual order *)

CondRecs == [op : Single \cup {"in", "between"}, args : Seq(Given), ph : 0..MaxParams]

Typed(n, p, sl, cs, sg, fr) ==
  /\ n \in 0..MaxSet /\ p \in Seq(Given) /\ sl \in Seq(Conditions)
  /\ cs \in [Conditions -> CondRecs] /\ sg \in [1..MaxSet -> Cells] /\ fr \subseteq Conditions

\* The parameter a condition is numbered by is its operand.
Kept(p, cs, fr, d) ==
  d # "broken" => \A c \in fr : cs[c].ph \in DOMAIN p /\ p[cs[c].ph] = cs[c].args[1]

\* As long as there is no condition, the parameters are the first SET columns.
SetFirst(n, p, sg, fr, d) ==
  d = "none" /\ fr = {} =>
    Len(p) <= n /\ \A j \in 1..n : sg[j] = IF j <= Len(p) THEN p[j] ELSE Unset

\* A condition took the number of a SET column, which then gets no value
\* without a departure.
Stuck(n, cs, sg, fr) == \E c \in fr : cs[c].ph \in 1..n /\ sg[cs[c].ph] = Unset

Scalars(sl, cs, fr) == \A k \in DOMAIN sl : sl[k] \in fr /\ cs[sl[k]].op = "scalar"

\* The conditions follow the SET columns, one parameter each.
Follows(n, p, sl, cs, sg, fr, d) ==
  d = "none" /\ fr # {} /\ ~Stuck(n, cs, sg, fr) =>
    /\ \A j \in 1..n : j \in DOMAIN p /\ sg[j] # Unset /\ p[j] = sg[j]
    /\ Scalars(sl, cs, fr) =>
         Len(p) = n + Len(sl) /\ \A k \in DOMAIN sl : cs[sl[k]].ph = n + k

\* Column x is the first without a value.
FirstUnset(x, n, sg) == x \in 1..n /\ sg[x] = Unset /\ \A k \in 1..(x - 1) : sg[k] # Unset

\* The values of the SET columns after one was given.
Replaced(sg, x, v) == [j \in 1..MaxSet |-> IF j = x THEN v ELSE sg[j]]

\* value(v) gives the next SET column its value; nx is that column.
LEMMA ValueKeeps ==
  ASSUME NEW n, NEW p, NEW sl, NEW cs, NEW sg, NEW fr, Typed(n, p, sl, cs, sg, fr),
         NEW d, Kept(p, cs, fr, d), SetFirst(n, p, sg, fr, d),
         NEW v \in Given, NEW q, q = Append(p, v), NEW nx,
         NEW sh, sh = Replaced(sg, nx, v),
         NEW e, e # "broken" => d # "broken",
         e = "none" => d = "none" /\ fr = {} /\ FirstUnset(nx, n, sg)
  PROVE  /\ Typed(n, q, sl, cs, sh, fr) /\ Kept(q, cs, fr, e)
         /\ SetFirst(n, q, sh, fr, e) /\ Follows(n, q, sl, cs, sh, fr, e)
<1>0. MaxSet \in Nat /\ n \in Nat /\ n <= MaxSet /\ Unset \notin Given /\ Given \subseteq Cells
  BY ParametersAssumption, BindingAssumption DEF Typed, Given, Cells
<1>1. /\ p \in Seq(Given) /\ Len(p) \in Nat /\ DOMAIN p = 1..Len(p) /\ q \in Seq(Given)
      /\ Len(q) = Len(p) + 1 /\ DOMAIN q = 1..(Len(p) + 1) /\ q[Len(p) + 1] = v
      /\ \A j \in 1..Len(p) : q[j] = p[j]
  BY DEF Typed
<1>2. sg \in [1..MaxSet -> Cells] /\ sh \in [1..MaxSet -> Cells]
      /\ \A j \in 1..MaxSet : sh[j] = IF j = nx THEN v ELSE sg[j]
  BY <1>0 DEF Typed, Replaced
<1>3. Typed(n, q, sl, cs, sh, fr)
  BY <1>1, <1>2 DEF Typed
<1>4. Kept(q, cs, fr, e)
  <2> SUFFICES ASSUME e # "broken", NEW c \in fr
               PROVE  cs[c].ph \in DOMAIN q /\ q[cs[c].ph] = cs[c].args[1]
    BY DEF Kept
  <2>1. cs[c].ph \in DOMAIN p /\ p[cs[c].ph] = cs[c].args[1]
    BY DEF Kept
  <2> QED  BY <1>1, <2>1
<1>5. SetFirst(n, q, sh, fr, e)
  <2> SUFFICES ASSUME e = "none"
               PROVE  Len(q) <= n /\ \A j \in 1..n : sh[j] = IF j <= Len(q) THEN q[j] ELSE Unset
    BY DEF SetFirst
  <2>1. Len(p) <= n /\ \A j \in 1..n : sg[j] = IF j <= Len(p) THEN p[j] ELSE Unset
    BY DEF SetFirst
  <2>2. \A j \in 1..n : j <= Len(p) => sg[j] # Unset
    BY <1>0, <1>1, <2>1
  <2>f. nx \in 1..n /\ sg[nx] = Unset /\ \A k \in 1..(nx - 1) : sg[k] # Unset
    BY DEF FirstUnset
  <2>3. nx \in 1..n /\ nx > Len(p) /\ ~(Len(p) + 1 < nx)
    BY <1>0, <1>1, <2>1, <2>2, <2>f
  <2>4. nx = Len(p) + 1
    BY <1>1, <2>3
  <2> QED  BY <1>0, <1>1, <1>2, <2>1, <2>3, <2>4
<1>6. Follows(n, q, sl, cs, sh, fr, e)
  BY DEF Follows
<1> QED  BY <1>3, <1>4, <1>5, <1>6

\* The parameters that values({v, ...}) leaves.
Filled(p, n, v) ==
  [j \in 1..(IF Len(p) > n THEN Len(p) ELSE n) |-> IF j <= n THEN v ELSE p[j]]

\* Every SET column has the value, and there are no more than there were or
\* than there are columns.
LEMMA ValuesFill ==
  ASSUME NEW n \in Nat, NEW p \in Seq(Given), NEW v \in Given
  PROVE  /\ Filled(p, n, v) \in Seq(Given) /\ (\A j \in 1..n : Filled(p, n, v)[j] = v)
         /\ Len(p) <= n => Len(Filled(p, n, v)) = n
         /\ \A k \in Nat : Len(p) <= k /\ n <= k => Len(Filled(p, n, v)) <= k
<1> DEFINE q == Filled(p, n, v)
<1>0. q = [j \in 1..(IF Len(p) > n THEN Len(p) ELSE n) |-> IF j <= n THEN v ELSE p[j]]
  BY DEF Filled
<1> HIDE DEF q
<1>1. Len(p) \in Nat /\ DOMAIN p = 1..Len(p)
  OBVIOUS
<1>2. CASE Len(p) > n
  <2> DEFINE m == Len(p)
             f == [j \in 1..m |-> IF j <= n THEN v ELSE p[j]]
  <2>1. q = f
    BY <1>0, <1>2, Zenon
  <2>2. m \in Nat /\ m > n /\ \A j \in 1..m : p[j] \in Given
    BY <1>1, <1>2
  <2> HIDE DEF m
  <2>3. f \in [1..m -> Given] /\ \A j \in 1..n : f[j] = v
    BY <2>2
  <2> HIDE DEF f
  <2>4. f \in Seq(Given) /\ Len(f) = m
    BY <2>2, <2>3
  <2>5. ~(m <= n) /\ \A k \in Nat : m <= k => Len(f) <= k
    BY <2>2, <2>4
  <2> QED  BY <2>1, <2>3, <2>4, <2>5, Zenon DEF m, q
<1>3. CASE ~(Len(p) > n)
  <2>1. q = [j \in 1..n |-> IF j <= n THEN v ELSE p[j]]
    BY <1>0, <1>3, Zenon
  <2>2. q \in [1..n -> Given] /\ \A j \in 1..n : q[j] = v
    BY <2>1
  <2>3. q \in Seq(Given) /\ Len(q) = n
    BY <2>2
  <2>4. \A k \in Nat : n <= k => Len(q) <= k
    BY <2>3
  <2> QED  BY <2>2, <2>3, <2>4, Zenon DEF q
<1> QED  BY <1>2, <1>3

\* values({v, ...}) gives every SET column its value.
LEMMA ValuesKeep ==
  ASSUME NEW n, NEW p, NEW sl, NEW cs, NEW sg, NEW fr, Typed(n, p, sl, cs, sg, fr),
         NEW d, SetFirst(n, p, sg, fr, d), NEW v \in Given,
         NEW q \in Seq(Given), \A j \in 1..n : q[j] = v, Len(p) <= n => Len(q) = n,
         NEW sh \in [1..MaxSet -> Cells], \A j \in 1..n : sh[j] = v,
         NEW e, e # "broken" => fr = {}, e = "none" => d = "none"
  PROVE  /\ Typed(n, q, sl, cs, sh, fr) /\ Kept(q, cs, fr, e)
         /\ SetFirst(n, q, sh, fr, e) /\ Follows(n, q, sl, cs, sh, fr, e)
<1>1. Typed(n, q, sl, cs, sh, fr)
  BY DEF Typed
<1>2. Kept(q, cs, fr, e) /\ Follows(n, q, sl, cs, sh, fr, e)
  BY DEF Kept, Follows
<1>3. SetFirst(n, q, sh, fr, e)
  <2> SUFFICES ASSUME e = "none", fr = {}
               PROVE  Len(q) <= n /\ \A j \in 1..n : sh[j] = IF j <= Len(q) THEN q[j] ELSE Unset
    BY DEF SetFirst
  <2>1. n \in Nat /\ Len(q) = n
    BY DEF SetFirst, Typed
  <2> QED  BY <2>1
<1> QED  BY <1>1, <1>2, <1>3

\* bind(i, v) for a SET column; it takes no number of a condition.
LEMMA BindKeeps ==
  ASSUME NEW n, NEW p, NEW sl, NEW cs, NEW sg, NEW fr, Typed(n, p, sl, cs, sg, fr),
         NEW d, Kept(p, cs, fr, d), SetFirst(n, p, sg, fr, d), Follows(n, p, sl, cs, sg, fr, d),
         NEW i \in Nat \ {0}, NEW v \in Given, NEW q, q = Put(p, i, v),
         NEW sh, sh = [j \in 1..MaxSet |-> IF j = i /\ i <= n THEN v ELSE sg[j]],
         NEW e, e # "broken" => /\ d # "broken" /\ i <= n /\ i <= Len(p) + 1
                                /\ \A c \in fr : cs[c].ph # i,
         e = "none" => d = "none"
  PROVE  /\ Typed(n, q, sl, cs, sh, fr) /\ Kept(q, cs, fr, e)
         /\ SetFirst(n, q, sh, fr, e) /\ Follows(n, q, sl, cs, sh, fr, e)
<1>0. MaxSet \in Nat /\ n \in Nat /\ n <= MaxSet /\ Unset \notin Given /\ Given \subseteq Cells
  BY ParametersAssumption, BindingAssumption DEF Typed, Given, Cells
<1>p. p \in Seq(Given)
  BY DEF Typed
<1>1. /\ q \in Seq(Given) /\ i \in DOMAIN q /\ DOMAIN p \subseteq DOMAIN q
      /\ \A j \in DOMAIN q : q[j] = IF j = i THEN v ELSE IF j \in DOMAIN p THEN p[j] ELSE Null
  BY <1>p, PutParams
<1>2. Len(q) = IF i > Len(p) THEN i ELSE Len(p)
  BY <1>p, PutLength
<1>3. Len(p) \in Nat /\ DOMAIN p = 1..Len(p) /\ DOMAIN q = 1..Len(q)
  BY <1>p, <1>1
<1>4. /\ sg \in [1..MaxSet -> Cells] /\ sh \in [1..MaxSet -> Cells]
      /\ \A j \in 1..MaxSet : sh[j] = IF j = i /\ i <= n THEN v ELSE sg[j]
  BY <1>0 DEF Typed
<1>5. Typed(n, q, sl, cs, sh, fr)
  BY <1>1, <1>4 DEF Typed
<1>6. Kept(q, cs, fr, e)
  <2> SUFFICES ASSUME e # "broken", NEW c \in fr
               PROVE  cs[c].ph \in DOMAIN q /\ q[cs[c].ph] = cs[c].args[1]
    BY DEF Kept
  <2>1. cs[c].ph \in DOMAIN p /\ p[cs[c].ph] = cs[c].args[1] /\ cs[c].ph # i
    BY DEF Kept
  <2> QED  BY <1>1, <2>1
<1>7. SetFirst(n, q, sh, fr, e)
  <2> SUFFICES ASSUME e = "none", fr = {}
               PROVE  Len(q) <= n /\ \A j \in 1..n : sh[j] = IF j <= Len(q) THEN q[j] ELSE Unset
    BY DEF SetFirst
  <2>1. Len(p) <= n /\ \A j \in 1..n : sg[j] = IF j <= Len(p) THEN p[j] ELSE Unset
    BY DEF SetFirst
  <2>2. Len(q) <= n
    BY <1>0, <1>2, <1>3, <2>1
  <2>3. ASSUME NEW j \in 1..n  PROVE sh[j] = IF j <= Len(q) THEN q[j] ELSE Unset
    <3>1. CASE j = i
      BY <1>0, <1>1, <1>3, <1>4, <3>1
    <3>2. CASE j # i
      <4>1. sh[j] = IF j <= Len(p) THEN p[j] ELSE Unset
        BY <1>0, <1>4, <2>1, <3>2
      <4>2. (j <= Len(q)) <=> (j <= Len(p))
        BY <1>2, <1>3, <3>2
      <4>3. j <= Len(p) => j \in DOMAIN p /\ j \in DOMAIN q
        BY <1>1, <1>3
      <4> QED  BY <1>1, <3>2, <4>1, <4>2, <4>3
    <3> QED  BY <3>1, <3>2
  <2> QED  BY <2>2, <2>3
<1>8. Follows(n, q, sl, cs, sh, fr, e)
  <2> SUFFICES ASSUME e = "none", fr # {}, ~Stuck(n, cs, sh, fr)
               PROVE  /\ \A j \in 1..n : j \in DOMAIN q /\ sh[j] # Unset /\ q[j] = sh[j]
                      /\ Scalars(sl, cs, fr) =>
                           Len(q) = n + Len(sl) /\ \A k \in DOMAIN sl : cs[sl[k]].ph = n + k
    BY DEF Follows
  <2>1. ~Stuck(n, cs, sg, fr)
    <3>1. \A c \in fr : cs[c].ph \in 1..n => sh[cs[c].ph] = sg[cs[c].ph]
      <4> SUFFICES ASSUME NEW c \in fr, cs[c].ph \in 1..n  PROVE sh[cs[c].ph] = sg[cs[c].ph]
        OBVIOUS
      <4>1. cs[c].ph # i /\ cs[c].ph \in 1..MaxSet
        BY <1>0
      <4> QED  BY <1>4, <4>1
    <3> QED  BY <3>1 DEF Stuck
  <2>2. /\ \A j \in 1..n : j \in DOMAIN p /\ sg[j] # Unset /\ p[j] = sg[j]
        /\ Scalars(sl, cs, fr) =>
             Len(p) = n + Len(sl) /\ \A k \in DOMAIN sl : cs[sl[k]].ph = n + k
    BY <2>1 DEF Follows
  <2>3. i \in 1..n /\ i <= Len(p) /\ Len(q) = Len(p)
    <3>1. i \in 1..n
      BY <1>0
    <3>2. i \in 1..Len(p)
      BY <1>3, <2>2, <3>1
    <3>3. i <= Len(p) /\ ~(i > Len(p))
      BY <1>3, <3>2
    <3> QED  BY <1>2, <3>1, <3>3
  <2>4. ASSUME NEW j \in 1..n  PROVE j \in DOMAIN q /\ sh[j] # Unset /\ q[j] = sh[j]
    <3>1. j \in DOMAIN p /\ j \in DOMAIN q /\ j \in 1..MaxSet
      BY <1>0, <1>1, <2>2
    <3> QED  BY <1>0, <1>1, <1>4, <2>2, <2>3, <3>1
  <2> QED  BY <2>2, <2>3, <2>4
<1> QED  BY <1>5, <1>6, <1>7, <1>8

\* The parameters q after the operands of o were bound behind p.
Extended(p, q, o) ==
  /\ q \in Seq(Given) /\ Len(q) >= Len(p) /\ \A j \in 1..Len(p) : q[j] = p[j]
  /\ ~Named(o) => Len(p) + 1 \in DOMAIN q /\ q[Len(p) + 1] = o.args[1]
  /\ ~Named(o) /\ o.op = "scalar" => Len(q) = Len(p) + 1

\* They stand where they were.
LEMMA ExtendedKeeps ==
  ASSUME NEW p \in Seq(Given), NEW q, NEW o, Extended(p, q, o)
  PROVE  \A j \in DOMAIN p : j \in DOMAIN q /\ q[j] = p[j]
<1>1. q \in Seq(Given) /\ Len(q) >= Len(p) /\ \A j \in 1..Len(p) : q[j] = p[j]
  BY DEF Extended
<1>2. DOMAIN p = 1..Len(p) /\ DOMAIN q = 1..Len(q) /\ Len(p) \in Nat /\ Len(q) \in Nat
  BY <1>1
<1>3. \A j \in 1..Len(p) : j \in 1..Len(q)
  BY <1>1, <1>2
<1> QED  BY <1>1, <1>2, <1>3, Zenon

\* When the SET columns have their values first, no condition takes a number of
\* theirs unless one of them is left out.
LEMMA FirstCondition ==
  ASSUME NEW n \in Nat, NEW p \in Seq(Given), NEW sg, SetFirst(n, p, sg, {}, "none"),
         Len(p) + 1 \in 1..n => sg[Len(p) + 1] # Unset
  PROVE  Len(p) = n /\ \A j \in 1..n : j \in DOMAIN p /\ sg[j] # Unset /\ p[j] = sg[j]
<1>1. Len(p) <= n /\ \A j \in 1..n : sg[j] = IF j <= Len(p) THEN p[j] ELSE Unset
  BY DEF SetFirst
<1>2. Len(p) \in Nat /\ DOMAIN p = 1..Len(p)
  OBVIOUS
<1>3. Len(p) = n
  <2>1. ~(Len(p) + 1 \in 1..n)
    <3>1. ~(Len(p) + 1 <= Len(p))
      BY <1>2
    <3> QED  BY <1>1, <3>1, Zenon
  <2> DEFINE m == Len(p)
  <2>2. m \in Nat /\ m <= n /\ ~(m + 1 \in 1..n)
    BY <1>1, <1>2, <2>1
  <2> HIDE DEF m
  <2>3. m = n
    BY <2>2
  <2> QED  BY <2>3 DEF m
<1>4. Unset \notin Given
  BY BindingAssumption DEF Given
<1>5. \A j \in 1..n : sg[j] = p[j] /\ p[j] \in Given
  BY <1>1, <1>2, <1>3
<1> QED  BY <1>2, <1>3, <1>4, <1>5, Zenon

\* where(o): condition c is the only one left.
LEMMA WhereKeeps ==
  ASSUME NEW n, NEW p, NEW sl, NEW cs, NEW sg, NEW fr, Typed(n, p, sl, cs, sg, fr),
         NEW d, SetFirst(n, p, sg, fr, d), NEW o, NEW q, Extended(p, q, o), NEW c \in Conditions,
         NEW ct \in [Conditions -> CondRecs],
         ct[c].op = o.op, ct[c].args = o.args, ct[c].ph = Len(p) + 1,
         NEW e, e # "broken" => ~Named(o), e = "none" => d = "none" /\ fr = {}
  PROVE  /\ Typed(n, q, <<c>>, ct, sg, {c}) /\ Kept(q, ct, {c}, e)
         /\ SetFirst(n, q, sg, {c}, e) /\ Follows(n, q, <<c>>, ct, sg, {c}, e)
<1>1. Typed(n, q, <<c>>, ct, sg, {c})
  BY DEF Typed, Extended
<1>2. Kept(q, ct, {c}, e)
  BY DEF Kept, Extended
<1>3. SetFirst(n, q, sg, {c}, e)
  BY DEF SetFirst
<1>4. Follows(n, q, <<c>>, ct, sg, {c}, e)
  <2> SUFFICES ASSUME e = "none", ~Stuck(n, ct, sg, {c})
               PROVE  /\ \A j \in 1..n : j \in DOMAIN q /\ sg[j] # Unset /\ q[j] = sg[j]
                      /\ Scalars(<<c>>, ct, {c}) =>
                           /\ Len(q) = n + Len(<<c>>)
                           /\ \A k \in DOMAIN <<c>> : ct[<<c>>[k]].ph = n + k
    BY DEF Follows
  <2>1. n \in Nat /\ p \in Seq(Given)
    BY DEF Typed
  <2>2. Len(p) + 1 \in 1..n => sg[Len(p) + 1] # Unset
    BY DEF Stuck
  <2>3. SetFirst(n, p, sg, {}, "none")
    BY DEF SetFirst
  <2>f. Len(p) = n /\ \A j \in 1..n : j \in DOMAIN p /\ sg[j] # Unset /\ p[j] = sg[j]
    BY <2>1, <2>2, <2>3, FirstCondition, Zenon
  <2>4. Len(p) = n /\ \A j \in 1..n : j \in DOMAIN q /\ sg[j] # Unset /\ q[j] = sg[j]
    BY <2>1, <2>f, ExtendedKeeps, Zenon
  <2>5. Len(<<c>>) = 1 /\ DOMAIN <<c>> = {1} /\ <<c>>[1] = c
    OBVIOUS
  <2>6. Scalars(<<c>>, ct, {c}) => Len(q) = n + 1
    <3> SUFFICES ASSUME Scalars(<<c>>, ct, {c})  PROVE Len(q) = n + 1
      OBVIOUS
    <3>1. o.op = "scalar"
      BY <2>5 DEF Scalars
    <3> QED  BY <2>4, <3>1 DEF Extended
  <2>7. \A k \in DOMAIN <<c>> : ct[<<c>>[k]].ph = n + k
    BY <2>4, <2>5
  <2> QED  BY <2>4, <2>5, <2>6, <2>7
<1> QED  BY <1>1, <1>2, <1>3, <1>4

\* Condition c is the only one that changes, and it is not in the text yet.
OthersSame(cs, ct, c) == \A x \in Conditions \ {c} : ct[x] = cs[x]
Lacks(sl, c) == \A k \in DOMAIN sl : sl[k] # c
Joins(c, sl, sm, fr, gr) == sm = Append(sl, c) /\ gr = fr \cup {c}

\* && o and || o: condition c joins the others.
LEMMA AppendKeeps ==
  ASSUME NEW n, NEW p, NEW sl, NEW cs, NEW sg, NEW fr, Typed(n, p, sl, cs, sg, fr),
         NEW d, Kept(p, cs, fr, d), SetFirst(n, p, sg, fr, d), Follows(n, p, sl, cs, sg, fr, d),
         NEW o, NEW q, Extended(p, q, o), NEW c \in Conditions, c \notin fr,
         Lacks(sl, c), NEW ct \in [Conditions -> CondRecs], OthersSame(cs, ct, c),
         ct[c].op = o.op, ct[c].args = o.args, ct[c].ph = Len(p) + 1,
         NEW e, e # "broken" => d # "broken" /\ ~Named(o), e = "none" => d = "none",
         NEW sm, NEW gr, Joins(c, sl, sm, fr, gr)
  PROVE  /\ Typed(n, q, sm, ct, sg, gr) /\ Kept(q, ct, gr, e)
         /\ SetFirst(n, q, sg, gr, e) /\ Follows(n, q, sm, ct, sg, gr, e)
<1>0. /\ n \in Nat /\ p \in Seq(Given) /\ Len(p) \in Nat /\ DOMAIN p = 1..Len(p)
      /\ sl \in Seq(Conditions) /\ Len(sl) \in Nat /\ DOMAIN sl = 1..Len(sl)
      /\ fr \subseteq Conditions
  BY DEF Typed
<1>j. gr = fr \cup {c}
  BY DEF Joins
<1>s. /\ sm \in Seq(Conditions) /\ Len(sm) = Len(sl) + 1 /\ DOMAIN sm = 1..(Len(sl) + 1)
      /\ sm[Len(sl) + 1] = c /\ \A k \in 1..Len(sl) : sm[k] = sl[k]
  BY <1>0 DEF Joins
<1>q. q \in Seq(Given) /\ Len(q) \in Nat /\ DOMAIN q = 1..Len(q)
  BY DEF Extended
<1>e. \A j \in DOMAIN p : j \in DOMAIN q /\ q[j] = p[j]
  BY <1>0, ExtendedKeeps, Zenon
<1>x. \A x \in fr : x \in Conditions \ {c} /\ ct[x] = cs[x]
  BY <1>0 DEF OthersSame
<1>1. Typed(n, q, sm, ct, sg, gr)
  BY <1>j, <1>s, <1>q DEF Typed
<1>2. Kept(q, ct, gr, e)
  <2> SUFFICES ASSUME e # "broken", NEW x \in gr
               PROVE  ct[x].ph \in DOMAIN q /\ q[ct[x].ph] = ct[x].args[1]
    BY DEF Kept
  <2>1. CASE x = c
    BY <2>1 DEF Extended
  <2>2. CASE x # c
    <3>1. x \in fr /\ ct[x] = cs[x]
      BY <1>j, <1>x, <2>2
    <3>2. cs[x].ph \in DOMAIN p /\ p[cs[x].ph] = cs[x].args[1]
      BY <3>1 DEF Kept
    <3>3. \A j \in DOMAIN p : j \in DOMAIN q /\ q[j] = p[j]
      BY <1>e
    <3> QED  BY <3>1, <3>2, <3>3
  <2> QED  BY <2>1, <2>2
<1>3. SetFirst(n, q, sg, gr, e)
  BY <1>j DEF SetFirst
<1>4. Follows(n, q, sm, ct, sg, gr, e)
  <2> SUFFICES ASSUME e = "none", ~Stuck(n, ct, sg, gr)
               PROVE  /\ \A j \in 1..n : j \in DOMAIN q /\ sg[j] # Unset /\ q[j] = sg[j]
                      /\ Scalars(sm, ct, gr) =>
                           Len(q) = n + Len(sm) /\ \A k \in DOMAIN sm : ct[sm[k]].ph = n + k
    BY DEF Follows
  <2>1. \A k \in DOMAIN sl : k \in DOMAIN sm /\ sm[k] = sl[k]
    BY <1>0, <1>s
  <2>2. Scalars(sm, ct, gr) => \A k \in DOMAIN sl : sl[k] \in fr /\ cs[sl[k]].op = "scalar"
    <3> SUFFICES ASSUME Scalars(sm, ct, gr), NEW k \in DOMAIN sl
                 PROVE  sl[k] \in fr /\ cs[sl[k]].op = "scalar"
      OBVIOUS
    <3>1. sl[k] \in gr /\ ct[sl[k]].op = "scalar"
      BY <2>1 DEF Scalars
    <3>2. sl[k] \in fr
      BY <1>j, <3>1 DEF Lacks
    <3> QED  BY <1>x, <3>1, <3>2
  <2>3. Scalars(sm, ct, gr) => Len(q) = Len(p) + 1
    <3> SUFFICES ASSUME Scalars(sm, ct, gr)  PROVE Len(q) = Len(p) + 1
      OBVIOUS
    <3>1. Len(sl) + 1 \in DOMAIN sm
      BY <1>0, <1>s
    <3>2. o.op = "scalar"
      BY <1>s, <3>1 DEF Scalars
    <3> QED  BY <3>2 DEF Extended
  <2>4. CASE fr = {}
    <3>1. Len(p) + 1 \in 1..n => sg[Len(p) + 1] # Unset
      BY <1>j DEF Stuck
    <3>2. SetFirst(n, p, sg, {}, "none")
      BY <2>4 DEF SetFirst
    <3>f. Len(p) = n /\ \A j \in 1..n : j \in DOMAIN p /\ sg[j] # Unset /\ p[j] = sg[j]
      BY <1>0, <3>1, <3>2, FirstCondition, Zenon
    <3>3. Len(p) = n /\ \A j \in 1..n : j \in DOMAIN q /\ sg[j] # Unset /\ q[j] = sg[j]
      BY <1>e, <3>f
    <3>4. ASSUME Scalars(sm, ct, gr)
          PROVE  Len(q) = n + Len(sm) /\ \A k \in DOMAIN sm : ct[sm[k]].ph = n + k
      <4>0. 1 \notin DOMAIN sl
        BY <2>2, <2>4, <3>4
      <4>1. Len(sl) = 0
        BY <1>0, <4>0
      <4> QED  BY <1>s, <2>3, <3>3, <3>4, <4>1
    <3> QED  BY <3>3, <3>4
  <2>5. CASE fr # {}
    <3>1. ~Stuck(n, cs, sg, fr)
      BY <1>j, <1>x DEF Stuck
    <3>2. /\ \A j \in 1..n : j \in DOMAIN p /\ sg[j] # Unset /\ p[j] = sg[j]
          /\ Scalars(sl, cs, fr) =>
               Len(p) = n + Len(sl) /\ \A k \in DOMAIN sl : cs[sl[k]].ph = n + k
      BY <2>5, <3>1 DEF Follows
    <3>3. \A j \in DOMAIN p : j \in DOMAIN q /\ q[j] = p[j]
      BY <1>e
    <3>4. ASSUME Scalars(sm, ct, gr)
          PROVE  Len(q) = n + Len(sm) /\ \A k \in DOMAIN sm : ct[sm[k]].ph = n + k
      <4>1. Scalars(sl, cs, fr)
        BY <2>2, <3>4 DEF Scalars
      <4>2. Len(p) = n + Len(sl) /\ \A k \in DOMAIN sl : cs[sl[k]].ph = n + k
        BY <3>2, <4>1
      <4>3. \A k \in 1..Len(sl) : sl[k] \in fr /\ ct[sl[k]] = cs[sl[k]]
        BY <1>0, <1>x, <2>2, <3>4
      <4>4. ASSUME NEW k \in DOMAIN sm  PROVE ct[sm[k]].ph = n + k
        <5>1. CASE k = Len(sl) + 1
          BY <1>0, <1>s, <4>2, <5>1
        <5>2. CASE k # Len(sl) + 1
          <6>1. k \in 1..Len(sl)
            BY <1>0, <1>s, <5>2
          <6>2. k \in DOMAIN sl /\ sm[k] = sl[k]
            BY <1>0, <1>s, <6>1
          <6> QED  BY <4>2, <4>3, <6>1, <6>2
        <5> QED  BY <5>1, <5>2
      <4>5. Len(q) = n + Len(sm)
        BY <1>0, <1>s, <2>3, <3>4, <4>2
      <4> QED  BY <4>4, <4>5
    <3>5. \A j \in 1..n : j \in DOMAIN q /\ sg[j] # Unset /\ q[j] = sg[j]
      BY <3>2, <3>3
    <3> QED  BY <3>4, <3>5
  <2> QED  BY <2>4, <2>5
<1> QED  BY <1>1, <1>2, <1>3, <1>4

-----------------------------------------------------------------------------
(* The text of the query and its placeholders *)

\* Slots, of a clause w and conditions cs.
SlotsOf(w, cs) == Chosen(WhereSql(w).slots, {c \in Conditions : cs[c].ph # 0})

\* The where clause of a query only gets conditions, with && .
Chain(w) == w.ors = <<>> /\ (w.value = EmptyText => w = EmptyClause)

\* Placeholders stand in the text.
LEMMA SlotsAreWritten ==
  ASSUME NEW w \in Clause, NEW cs
  PROVE  /\ SlotsOf(w, cs) \in Seq(Conditions)
         /\ \A k \in DOMAIN SlotsOf(w, cs) :
              \E j \in DOMAIN WhereSql(w).slots : SlotsOf(w, cs)[k] = WhereSql(w).slots[j]
<1> DEFINE s == WhereSql(w).slots
           P == {c \in Conditions : cs[c].ph # 0}
           M == {s[j] : j \in DOMAIN s} \cap P
<1>1. s \in Seq(Conditions)
  BY SqlOfClause, PartsOf
<1>2. SlotsOf(w, cs) = Chosen(s, P)
  BY Zenon DEF SlotsOf
<1> HIDE DEF s
<1>3. Chosen(s, P) \in Seq(M)
  <2> HIDE DEF P
  <2> QED  BY <1>1, ChosenMembers
<1>4. M \subseteq Conditions /\ \A x \in M : \E j \in DOMAIN s : x = s[j]
  BY <1>1
<1> HIDE DEF P, M
<1>5. Chosen(s, P) \in Seq(Conditions)
  BY <1>3, <1>4
<1>6. \A k \in DOMAIN Chosen(s, P) : Chosen(s, P)[k] \in M
  BY <1>3
<1> QED  BY <1>2, <1>4, <1>5, <1>6 DEF s

\* where(...) starts the text anew.
LEMMA FirstOfChain ==
  ASSUME NEW c \in Conditions, NEW v, v = ClauseOf(Condition(c))
  PROVE  v \in Clause /\ Chain(v) /\ WhereSql(v).slots = <<c>>
<1>1. Condition(c) \in Text /\ Condition(c) # EmptyText /\ Condition(c).slots = <<c>>
  BY ConditionIsText
<1>2. v \in Clause /\ v.value = Condition(c) /\ v.ands = <<>> /\ v.ors = <<>>
  BY <1>1, EmptySql, FirstText DEF ClauseOf
<1>3. WhereSql(v) = Condition(c)
  BY <1>2, SqlOfClause
<1> QED  BY <1>1, <1>2, <1>3 DEF Chain

\* && puts a condition behind the others.
LEMMA NextOfChain ==
  ASSUME NEW w \in Clause, Chain(w), NEW c \in Conditions, NEW v, v = AndString(w, Condition(c))
  PROVE  v \in Clause /\ Chain(v) /\ WhereSql(v).slots = Append(WhereSql(w).slots, c)
<1>1. Condition(c) \in Text /\ Condition(c) # EmptyText /\ Condition(c).slots = <<c>>
  BY ConditionIsText
<1>2. CASE w.value = EmptyText
  <2>1. w = EmptyClause /\ WhereSql(w).slots = <<>>
    BY <1>2, EmptySql, EmptyIsFalse DEF Chain
  <2>2. v = ClauseOf(Condition(c))
    BY <1>1, <1>2, <2>1 DEF AndString, ClauseOf
  <2>3. v \in Clause /\ Chain(v) /\ WhereSql(v).slots = <<c>>
    BY <2>2, FirstOfChain
  <2> QED  BY <2>1, <2>3
<1>3. CASE w.value # EmptyText
  <2>1. v = [w EXCEPT !.ands = Append(w.ands, Condition(c))]
    BY <1>1, <1>3 DEF AndString
  <2>2. v \in Clause /\ v.value = w.value /\ v.ors = <<>> /\ Anded(v) = AndText(Anded(w), Condition(c))
    BY <1>1, <2>1, AndedAppend DEF Chain
  <2>3. Anded(w) \in Text /\ WhereSql(w) = Anded(w) /\ WhereSql(v) = Anded(v)
    BY <2>2, SqlOfClause DEF Chain
  <2>4. WhereSql(v).slots = WhereSql(w).slots \o <<c>>
    <3>1. AndText(Anded(w), Condition(c)).slots = Anded(w).slots \o Condition(c).slots
      BY <1>1, <2>3, AndIsIntersection, Zenon
    <3> QED  BY <1>1, <2>2, <2>3, <3>1, Zenon
  <2>5. WhereSql(w).slots \in Seq(Conditions)
    BY <2>3, PartsOf
  <2>6. WhereSql(w).slots \o <<c>> = Append(WhereSql(w).slots, c)
    BY <2>5
  <2>7. Chain(v)
    BY <1>3, <2>2 DEF Chain
  <2> QED  BY <2>2, <2>4, <2>6, <2>7
<1> QED  BY <1>2, <1>3

\* The placeholders then: none, one, or one more.
LEMMA SlotsChange ==
  ASSUME NEW c \in Conditions, NEW v \in Clause, NEW ct
  PROVE  /\ (\A x \in Conditions : ct[x].ph = 0) => SlotsOf(v, ct) = <<>>
         /\ WhereSql(v).slots = <<c>> /\ ct[c].ph # 0 /\ (\A x \in Conditions \ {c} : ct[x].ph = 0)
              => SlotsOf(v, ct) = <<c>>
<1> DEFINE P == {x \in Conditions : ct[x].ph # 0}
<1>1. SlotsOf(v, ct) = Chosen(WhereSql(v).slots, P)
  BY Zenon DEF SlotsOf
<1>2. WhereSql(v).slots \in Seq(Conditions)
  BY SqlOfClause, PartsOf
<1>3. ASSUME \A x \in Conditions : ct[x].ph = 0  PROVE SlotsOf(v, ct) = <<>>
  <2>1. P = {}
    BY <1>3
  <2> HIDE DEF P
  <2> QED  BY <1>1, <1>2, <2>1, ChosenFew
<1>4. ASSUME WhereSql(v).slots = <<c>>, ct[c].ph # 0, \A x \in Conditions \ {c} : ct[x].ph = 0
      PROVE  SlotsOf(v, ct) = <<c>>
  <2>1. P = {c}
    BY <1>4
  <2> HIDE DEF P
  <2>2. Chosen(<<c>>, {c}) = <<c>>
    BY <1>2, ChosenFew, Zenon
  <2> QED  BY <1>1, <1>4, <2>1, <2>2
<1> QED  BY <1>3, <1>4

\* && and || put a placeholder behind the others.
LEMMA SlotsAppend ==
  ASSUME NEW w \in Clause, NEW v \in Clause, NEW c \in Conditions, NEW cs, NEW ct,
         WhereSql(v).slots = Append(WhereSql(w).slots, c), Lacks(WhereSql(w).slots, c),
         ct[c].ph # 0, OthersSame(cs, ct, c)
  PROVE  SlotsOf(v, ct) = Append(SlotsOf(w, cs), c)
<1> DEFINE P == {x \in Conditions : cs[x].ph # 0}
           Q == {x \in Conditions : ct[x].ph # 0}
           s == WhereSql(w).slots
<1>1. SlotsOf(w, cs) = Chosen(s, P) /\ SlotsOf(v, ct) = Chosen(Append(s, c), Q)
  BY Zenon DEF SlotsOf
<1>2. s \in Seq(Conditions)
  BY SqlOfClause, PartsOf
<1>3. c \in Q
  OBVIOUS
<1>4. \A n \in 1..Len(s) : s[n] \in Conditions \ {c}
  BY <1>2 DEF Lacks
<1>5. \A x \in Conditions \ {c} : x \in P <=> x \in Q
  BY DEF OthersSame
<1> HIDE DEF P, Q, s
<1>6. \A n \in 1..Len(s) : s[n] \in P <=> s[n] \in Q
  BY <1>4, <1>5
<1>7. Chosen(Append(s, c), Q) = Append(Chosen(s, P), c)
  BY <1>2, <1>3, <1>6, ChosenAppend
<1> QED  BY <1>1, <1>7

-----------------------------------------------------------------------------
(* The round of a query, in a behaviour *)

Plainly ==
  /\ mode \in Modes /\ kind \in {"select", "modify"} /\ dirty \in BOOLEAN
  /\ departure \in {"none", "loose", "broken"} /\ Len(params) <= MaxParams

Round ==
  /\ Typed(setlist, params, Slots, conds, setGiven, fresh)
  /\ Kept(params, conds, fresh, departure)
  /\ SetFirst(setlist, params, setGiven, fresh, departure)
  /\ Follows(setlist, params, Slots, conds, setGiven, fresh, departure)

\* A condition that was given a value stands in the text.
FreshWritten == \A c \in fresh : \E k \in DOMAIN Sql.slots : Sql.slots[k] = c

QueryInv == Plainly /\ Round /\ Chain(clause[0]) /\ FreshWritten

\* The parts of the round after a step.
LEMMA RoundAfter ==
  ASSUME NEW p, NEW sl, NEW cs, NEW sg, NEW fr, NEW d, UNCHANGED setlist,
         params' = p, Slots' = sl, conds' = cs, setGiven' = sg, fresh' = fr, departure' = d,
         Typed(setlist, p, sl, cs, sg, fr), Kept(p, cs, fr, d), SetFirst(setlist, p, sg, fr, d),
         Follows(setlist, p, sl, cs, sg, fr, d)
  PROVE  Round'
BY DEF Round

\* A step that leaves the text and the conditions alone.
LEMMA SameText ==
  ASSUME QueryInv, clause'[0] = clause[0], UNCHANGED <<conds, fresh>>
  PROVE  Slots' = Slots /\ Chain(clause[0])' /\ FreshWritten'
<1>1. Sql' = Sql
  BY DEF Sql
<1>2. Slots' = Slots
  BY <1>1 DEF Slots
<1>3. Chain(clause[0])'
  BY DEF QueryInv, Chain
<1>4. FreshWritten'
  BY <1>1 DEF QueryInv, FreshWritten
<1> QED  BY <1>2, <1>3, <1>4

\* A step that changes nothing of the query.
LEMMA SameQuery ==
  ASSUME QueryInv, clause'[0] = clause[0], mode' \in Modes, dirty' \in BOOLEAN,
         UNCHANGED <<kind, setlist, params, conds, setGiven, fresh, departure>>
  PROVE  QueryInv'
<1>1. Slots' = Slots /\ Chain(clause[0])' /\ FreshWritten'
  BY SameText
<1>2. Round'
  BY <1>1 DEF QueryInv, Round
<1>3. Plainly'
  BY DEF QueryInv, Plainly
<1> QED  BY <1>1, <1>2, <1>3 DEF QueryInv

\* A step that empties the round, or leaves it: modify_query::execute resets.
LEMMA RunKeeps ==
  ASSUME QueryInv, AfterRun, clause'[0] = clause[0], mode' \in Modes, dirty' \in BOOLEAN,
         UNCHANGED <<kind, setlist, conds>>
  PROVE  QueryInv'
<1>1. CASE kind # "modify"
  BY <1>1, SameQuery DEF AfterRun
<1>2. CASE kind = "modify"
  <2>1. /\ params' = <<>> /\ setGiven' = [j \in 1..MaxSet |-> Unset] /\ fresh' = {}
        /\ departure' = "none"
    BY <1>2 DEF AfterRun
  <2>2. Sql' = Sql /\ Slots' = Slots
    BY DEF Sql, Slots
  <2>3. Unset \in Cells /\ MaxSet \in Nat /\ MaxParams \in Nat
    BY ParametersAssumption DEF Cells
  <2>4. setlist \in 0..MaxSet /\ Typed(setlist, params, Slots, conds, setGiven, fresh)
    BY DEF QueryInv, Round, Typed
  <2> DEFINE sg == [j \in 1..MaxSet |-> Unset]
  <2>5. Typed(setlist, <<>>, Slots, conds, sg, {})
    BY <2>3, <2>4 DEF Typed
  <2>6. \A j \in 1..setlist : sg[j] = Unset
    BY <2>3, <2>4
  <2> HIDE DEF sg
  <2>7. SetFirst(setlist, <<>>, sg, {}, "none")
    <3>1. Len(<<>>) <= setlist /\ \A j \in 1..setlist : ~(j <= Len(<<>>))
      BY <2>3, <2>4
    <3> QED  BY <2>6, <3>1 DEF SetFirst
  <2>8. Kept(<<>>, conds, {}, "none") /\ Follows(setlist, <<>>, Slots, conds, sg, {}, "none")
    BY DEF Kept, Follows
  <2>9. Round'
    <3>1. setGiven' = sg
      BY <2>1 DEF sg
    <3> QED  BY <2>1, <2>2, <2>5, <2>7, <2>8, <3>1, RoundAfter
  <2>10. Plainly'
    BY <2>1, <2>3 DEF QueryInv, Plainly
  <2>11. FreshWritten'
    BY <2>1 DEF FreshWritten
  <2>12. Chain(clause[0])'
    BY DEF QueryInv, Chain
  <2> QED  BY <2>9, <2>10, <2>11, <2>12 DEF QueryInv
<1> QED  BY <1>1, <1>2

\* NextColumn is the first column without a value.
LEMMA NextColumnIs ==
  ASSUME setlist \in Nat, NextColumn # 0
  PROVE  /\ NextColumn \in 1..setlist /\ setGiven[NextColumn] = Unset
         /\ \A k \in 1..(NextColumn - 1) : setGiven[k] # Unset
<1> DEFINE U == {j \in 1..setlist : setGiven[j] = Unset}
           P(j) == setGiven[j] = Unset /\ \A k \in 1..(j - 1) : setGiven[k] # Unset
           x == CHOOSE j \in 1..setlist : P(j)
<1>1. U # {} /\ NextColumn = x
  BY DEF NextColumn
<1>2. PICK y \in U : \A z \in U : y <= z
  <2>1. U \subseteq Nat
    OBVIOUS
  <2> HIDE DEF U
  <2> QED  BY <1>1, <2>1, Least
<1>3. y \in 1..setlist /\ P(y)
  <2>1. y \in 1..setlist /\ setGiven[y] = Unset
    BY <1>2
  <2>2. ASSUME NEW k \in 1..(y - 1)  PROVE setGiven[k] # Unset
    <3>1. k \in 1..setlist /\ ~(y <= k)
      BY <2>1
    <3>2. k \notin U
      BY <1>2, <3>1
    <3> QED  BY <3>1, <3>2
  <2> QED  BY <2>1, <2>2
<1>4. x \in 1..setlist /\ P(x)
  <2> HIDE DEF P
  <2> QED  BY <1>3
<1> QED  BY <1>1, <1>4

\* value(v).
LEMMA ValueStep ==
  ASSUME QueryInv, mode' \in Modes, NEW v \in Given, Value(v), UNCHANGED clause
  PROVE  QueryInv'
<1>1. /\ Len(params) < MaxParams /\ params' = Append(params, v)
      /\ setGiven' = [j \in 1..MaxSet |-> IF j = NextColumn THEN v ELSE setGiven[j]]
      /\ departure' = Departed(fresh # {}, NextColumn = 0) /\ dirty' = TRUE
      /\ UNCHANGED <<kind, setlist, conds, fresh>>
  BY DEF Value
<1>2. Slots' = Slots /\ Chain(clause[0])' /\ FreshWritten'
  BY <1>1, SameText
<1>3. /\ Typed(setlist, params, Slots, conds, setGiven, fresh)
      /\ Kept(params, conds, fresh, departure)
      /\ SetFirst(setlist, params, setGiven, fresh, departure)
  BY DEF QueryInv, Round
<1>4. setlist \in Nat /\ params \in Seq(Given) /\ departure \in {"none", "loose", "broken"}
  BY <1>3 DEF Typed, QueryInv, Plainly
<1>5. /\ departure' \in {"none", "loose", "broken"}
      /\ departure' # "broken" => departure # "broken"
      /\ departure' = "none" => departure = "none" /\ fresh = {} /\ NextColumn # 0
  BY <1>1, <1>4 DEF Departed
<1>6. departure' = "none" =>
        /\ departure = "none" /\ fresh = {} /\ NextColumn \in 1..setlist
        /\ setGiven[NextColumn] = Unset /\ \A k \in 1..(NextColumn - 1) : setGiven[k] # Unset
  BY <1>4, <1>5, NextColumnIs
<1> DEFINE nx == NextColumn
           sh == [j \in 1..MaxSet |-> IF j = nx THEN v ELSE setGiven[j]]
           q == Append(params, v)
           e == departure'
<1>7. sh = Replaced(setGiven, nx, v) /\ q = Append(params, v)
  BY Zenon DEF Replaced
<1>8. params' = q /\ setGiven' = sh /\ departure' = e /\ fresh' = fresh /\ conds' = conds
  BY <1>1
<1> HIDE DEF sh, q, nx, e
<1>9. /\ Typed(setlist, q, Slots, conds, sh, fresh) /\ Kept(q, conds, fresh, e)
      /\ SetFirst(setlist, q, sh, fresh, e) /\ Follows(setlist, q, Slots, conds, sh, fresh, e)
  <2>1. e # "broken" => departure # "broken"
    BY <1>5 DEF e
  <2>2. e = "none" => departure = "none" /\ fresh = {} /\ FirstUnset(nx, setlist, setGiven)
    BY <1>6 DEF e, nx, FirstUnset
  <2> QED  BY <1>3, <1>7, <2>1, <2>2, ValueKeeps
<1>10. Round'
  BY <1>1, <1>2, <1>8, <1>9, RoundAfter
<1>11. Plainly'
  <2>1. Len(params') = Len(params) + 1 /\ Len(params) \in Nat /\ MaxParams \in Nat
    BY <1>1, <1>4, ParametersAssumption
  <2> QED  BY <1>1, <1>5, <2>1 DEF QueryInv, Plainly
<1> QED  BY <1>2, <1>10, <1>11 DEF QueryInv

\* values({v, ...}).
LEMMA ValuesStep ==
  ASSUME QueryInv, mode' \in Modes, NEW v \in Given, ValuesFromOne(v), UNCHANGED clause
  PROVE  QueryInv'
<1>1. /\ params' = [j \in 1..(IF Len(params) > setlist THEN Len(params) ELSE setlist) |->
                      IF j <= setlist THEN v ELSE params[j]]
      /\ setGiven' = [j \in 1..MaxSet |-> IF j <= setlist THEN v ELSE Unset]
      /\ departure' = Departed(FALSE, fresh # {}) /\ dirty' = TRUE
      /\ UNCHANGED <<kind, setlist, conds, fresh>>
  BY DEF ValuesFromOne
<1>2. Slots' = Slots /\ Chain(clause[0])' /\ FreshWritten'
  BY <1>1, SameText
<1>3. /\ Typed(setlist, params, Slots, conds, setGiven, fresh)
      /\ SetFirst(setlist, params, setGiven, fresh, departure)
  BY DEF QueryInv, Round
<1>4. /\ setlist \in Nat /\ setlist <= MaxSet /\ params \in Seq(Given)
      /\ departure \in {"none", "loose", "broken"} /\ Len(params) <= MaxParams
      /\ MaxSet \in Nat /\ MaxParams \in Nat /\ MaxSet <= MaxParams
  BY <1>3, ParametersAssumption DEF Typed, QueryInv, Plainly
<1>5. /\ departure' \in {"none", "loose", "broken"}
      /\ departure' # "broken" => fresh = {}
      /\ departure' = "none" => departure = "none"
  BY <1>1, <1>4 DEF Departed
<1>6. /\ params' \in Seq(Given) /\ (\A j \in 1..setlist : params'[j] = v)
      /\ Len(params) <= setlist => Len(params') = setlist
      /\ \A k \in Nat : Len(params) <= k /\ setlist <= k => Len(params') <= k
  <2>1. params' = [j \in 1..(IF Len(params) > setlist THEN Len(params) ELSE setlist) |->
                     IF j <= setlist THEN v ELSE params[j]]
    BY <1>1
  <2>2. setlist \in Nat /\ params \in Seq(Given)
    BY <1>4
  <2>3. params' = Filled(params, setlist, v)
    BY <2>1, Zenon DEF Filled
  <2> QED  BY <2>2, <2>3, ValuesFill
<1>7. setGiven' \in [1..MaxSet -> Cells] /\ \A j \in 1..setlist : setGiven'[j] = v
  <2>1. v \in Cells /\ Unset \in Cells
    BY DEF Given, Cells
  <2>2. \A j \in 1..setlist : j \in 1..MaxSet /\ j <= setlist
    BY <1>4
  <2>3. setGiven' = [j \in 1..MaxSet |-> IF j <= setlist THEN v ELSE Unset]
    BY <1>1
  <2> QED  BY <2>1, <2>2, <2>3
<1> DEFINE q == params'
           sh == setGiven'
           e == departure'
<1>8. /\ q \in Seq(Given) /\ (\A j \in 1..setlist : q[j] = v)
      /\ (Len(params) <= setlist => Len(q) = setlist)
      /\ sh \in [1..MaxSet -> Cells] /\ (\A j \in 1..setlist : sh[j] = v)
      /\ (e # "broken" => fresh = {}) /\ (e = "none" => departure = "none")
  BY <1>5, <1>6, <1>7, Zenon
<1>9. params' = q /\ setGiven' = sh /\ departure' = e /\ fresh' = fresh /\ conds' = conds
  BY <1>1
<1> HIDE DEF q, sh, e
<1>10. /\ Typed(setlist, q, Slots, conds, sh, fresh) /\ Kept(q, conds, fresh, e)
       /\ SetFirst(setlist, q, sh, fresh, e) /\ Follows(setlist, q, Slots, conds, sh, fresh, e)
  BY <1>3, <1>8, ValuesKeep
<1>11. Round'
  BY <1>1, <1>2, <1>9, <1>10, RoundAfter
<1>12. Plainly'
  <2>1. Len(params') <= MaxParams
    BY <1>4, <1>6
  <2> QED  BY <1>1, <1>5, <2>1 DEF QueryInv, Plainly
<1> QED  BY <1>2, <1>11, <1>12 DEF QueryInv

\* bind(i, v).
LEMMA BindStep ==
  ASSUME QueryInv, mode' \in Modes, NEW v \in Given, NEW i \in 1..MaxParams, BindAt(i, v),
         UNCHANGED clause
  PROVE  QueryInv'
<1>1. /\ params' = Put(params, i, v)
      /\ setGiven' = [j \in 1..MaxSet |-> IF j = i /\ i <= setlist THEN v ELSE setGiven[j]]
      /\ dirty' = TRUE /\ UNCHANGED <<kind, setlist, conds, fresh>>
  BY DEF BindAt
<1>2. Slots' = Slots /\ Chain(clause[0])' /\ FreshWritten'
  BY <1>1, SameText
<1>3. /\ Typed(setlist, params, Slots, conds, setGiven, fresh)
      /\ Kept(params, conds, fresh, departure)
      /\ SetFirst(setlist, params, setGiven, fresh, departure)
      /\ Follows(setlist, params, Slots, conds, setGiven, fresh, departure)
  BY DEF QueryInv, Round
<1>4. /\ setlist \in Nat /\ params \in Seq(Given) /\ departure \in {"none", "loose", "broken"}
      /\ Len(params) <= MaxParams /\ MaxParams \in Nat /\ i \in Nat \ {0} /\ i <= MaxParams
      /\ Len(params) \in Nat
  BY <1>3, ParametersAssumption DEF Typed, QueryInv, Plainly
<1>5. /\ departure' \in {"none", "loose", "broken"}
      /\ departure' # "broken" =>
           /\ departure # "broken"
           /\ ~(i > setlist \/ i > Len(params) + 1 \/ \E c \in fresh : conds[c].ph = i)
      /\ departure' = "none" => departure = "none"
  BY <1>4 DEF BindAt, Departed
<1>6. departure' # "broken" => /\ departure # "broken" /\ i <= setlist /\ i <= Len(params) + 1
                               /\ \A c \in fresh : conds[c].ph # i
  BY <1>4, <1>5
<1> DEFINE sh == [j \in 1..MaxSet |-> IF j = i /\ i <= setlist THEN v ELSE setGiven[j]]
           q == Put(params, i, v)
           e == departure'
<1>7. /\ sh = [j \in 1..MaxSet |-> IF j = i /\ i <= setlist THEN v ELSE setGiven[j]]
      /\ q = Put(params, i, v)
  OBVIOUS
<1>8. params' = q /\ setGiven' = sh /\ departure' = e /\ fresh' = fresh /\ conds' = conds
  BY <1>1
<1>9. Len(q) <= MaxParams
  <2>1. i \in Nat \ {0} /\ params \in Seq(Given)
    BY <1>4
  <2>2. Len(q) = IF i > Len(params) THEN i ELSE Len(params)
    BY <2>1, PutLength, Zenon
  <2> HIDE DEF q
  <2> QED  BY <1>4, <2>2
<1> HIDE DEF sh, q, e
<1>10. /\ Typed(setlist, q, Slots, conds, sh, fresh) /\ Kept(q, conds, fresh, e)
       /\ SetFirst(setlist, q, sh, fresh, e) /\ Follows(setlist, q, Slots, conds, sh, fresh, e)
  <2>1. i \in Nat \ {0}
    BY <1>4
  <2>2. (e = "none" => departure = "none")
        /\ (e # "broken" => /\ departure # "broken" /\ i <= setlist /\ i <= Len(params) + 1
                            /\ \A c \in fresh : conds[c].ph # i)
    BY <1>5, <1>6 DEF e
  <2> QED  BY <1>3, <1>7, <2>1, <2>2, BindKeeps
<1>11. Round'
  BY <1>1, <1>2, <1>8, <1>10, RoundAfter
<1>12. Plainly'
  BY <1>1, <1>5, <1>8, <1>9 DEF QueryInv, Plainly
<1> QED  BY <1>2, <1>11, <1>12 DEF QueryInv

\* The parameters after a condition was written.
LEMMA WriteExtends ==
  ASSUME params \in Seq(Given), NEW o \in Operators
  PROVE  Extended(params, Bound(params, NextIndex, o), o)
<1> DEFINE i == NextIndex
           q == Bound(params, i, o)
<1>1. i = Len(params) + 1 /\ i \in Nat /\ i > Len(params)
  BY DEF NextIndex
<1>2. q = Bound(params, i, o)
  OBVIOUS
<1> HIDE DEF i, q
<1>3. /\ q \in Seq(Given) /\ Len(q) >= Len(params) /\ \A j \in 1..Len(params) : q[j] = params[j]
      /\ ~Named(o) => i \in DOMAIN q /\ q[i] = o.args[1]
      /\ ~Named(o) /\ o.op = "scalar" => Len(q) = i
  <2>1. i \in Nat /\ i > Len(params)
    BY <1>1
  <2> QED  BY <1>2, <2>1, BoundParams
<1>4. Extended(params, q, o)
  BY <1>1, <1>3 DEF Extended
<1> QED  BY <1>4 DEF i, q

\* The conditions after condition c was written beside those in K.
LEMMA WriteConditions ==
  ASSUME QueryInv, NEW c \in Conditions, NEW o \in Operators, NEW K, Write(c, o, K)
  PROVE  /\ conds' \in [Conditions -> CondRecs]
         /\ conds'[c].op = o.op /\ conds'[c].args = o.args /\ conds'[c].ph = Len(params) + 1
         /\ \A x \in Conditions \ {c} : x \in K => conds'[x] = conds[x]
         /\ \A x \in Conditions \ {c} : x \notin K => conds'[x].ph = 0
<1> DEFINE r == [op |-> o.op, args |-> o.args, ph |-> NextIndex]
<1>1. /\ conds \in [Conditions -> CondRecs] /\ params \in Seq(Given) /\ NextIndex <= MaxParams
      /\ MaxParams \in Nat
  BY ParametersAssumption DEF QueryInv, Round, Typed, Write
<1>2. NextIndex = Len(params) + 1 /\ NextIndex \in 0..MaxParams
  BY <1>1 DEF NextIndex
<1>3. r \in CondRecs /\ r.op = o.op /\ r.args = o.args /\ r.ph = Len(params) + 1
  BY <1>2, Operands DEF CondRecs
<1>4. NoCond \in CondRecs /\ NoCond.ph = 0
  <2>1. <<Null>> \in Seq(Given) /\ 0 \in 0..MaxParams
    BY <1>1 DEF Given
  <2> QED  BY <2>1 DEF NoCond, CondRecs, Single
<1>5. conds' = [d \in Conditions |->
                  CASE d = c -> r [] d # c /\ d \in K -> conds[d] [] OTHER -> NoCond]
  BY DEF Write
<1> HIDE DEF r
<1>6. ASSUME NEW x \in Conditions
      PROVE  /\ x = c => conds'[x] = r
             /\ x # c /\ x \in K => conds'[x] = conds[x]
             /\ x # c /\ x \notin K => conds'[x] = NoCond
  BY <1>5
<1>7. \A x \in Conditions : conds'[x] \in CondRecs
  BY <1>1, <1>3, <1>4, <1>6
<1>8. conds' \in [Conditions -> CondRecs]
  BY <1>5, <1>7
<1> QED  BY <1>3, <1>4, <1>6, <1>8

\* What every writing of a condition does.
LEMMA WritePlainly ==
  ASSUME QueryInv, mode' \in Modes, NEW c \in Conditions, NEW o \in Operators, NEW K,
         Write(c, o, K), dirty' \in BOOLEAN, departure' \in {"none", "loose", "broken"}
  PROVE  /\ Plainly' /\ UNCHANGED setlist /\ setGiven' = setGiven
         /\ Extended(params, params', o) /\ fresh' = (fresh \cap K) \cup {c}
<1>1. /\ params' = Bound(params, NextIndex, o) /\ Len(params') <= MaxParams
      /\ UNCHANGED <<kind, setlist, setGiven>> /\ fresh' = (fresh \cap K) \cup {c}
  BY DEF Write
<1>2. params \in Seq(Given)
  BY DEF QueryInv, Round, Typed
<1>3. Extended(params, params', o)
  BY <1>1, <1>2, WriteExtends
<1>4. Plainly'
  BY <1>1 DEF QueryInv, Plainly
<1> QED  BY <1>1, <1>3, <1>4

\* where(o).
LEMMA WhereStep ==
  ASSUME QueryInv, ClauseInv, mode' \in Modes, NEW c \in Conditions, NEW o \in Operators,
         WhereOp(c, o)
  PROVE  QueryInv'
<1>1. /\ Write(c, o, {}) /\ dirty' \in BOOLEAN
      /\ clause' = [clause EXCEPT ![0] = ClauseOf(Condition(c))]
  BY DEF WhereOp
<1>2. /\ departure' \in {"none", "loose", "broken"}
      /\ departure' # "broken" => ~Named(o)
      /\ departure' = "none" => departure = "none" /\ fresh = {}
  BY DEF WhereOp, Departed, QueryInv, Plainly
<1>3. clause'[0] = ClauseOf(Condition(c))
  BY <1>1 DEF ClauseInv, ClauseTypes
<1>4. clause'[0] \in Clause /\ Chain(clause'[0]) /\ WhereSql(clause'[0]).slots = <<c>>
  BY <1>3, FirstOfChain
<1>5. /\ Plainly' /\ UNCHANGED setlist /\ setGiven' = setGiven
      /\ Extended(params, params', o) /\ fresh' = {c}
  BY <1>1, <1>2, WritePlainly
<1>6. /\ conds' \in [Conditions -> CondRecs]
      /\ conds'[c].op = o.op /\ conds'[c].args = o.args /\ conds'[c].ph = Len(params) + 1
      /\ \A x \in Conditions \ {c} : conds'[x].ph = 0
  BY <1>1, WriteConditions
<1>7. /\ Typed(setlist, params, Slots, conds, setGiven, fresh)
      /\ SetFirst(setlist, params, setGiven, fresh, departure)
  BY DEF QueryInv, Round
<1> DEFINE q == params'
           ct == conds'
           e == departure'
           w == clause'[0]
<1>8. Slots' = <<c>>
  <2>1. Slots' = SlotsOf(w, ct)
    BY Zenon DEF Slots, Sql, SlotsOf
  <2>2. ct[c].ph # 0
    <3>1. params \in Seq(Given)
      BY <1>7 DEF Typed
    <3> QED  BY <1>6, <3>1
  <2>3. w \in Clause /\ WhereSql(w).slots = <<c>> /\ \A x \in Conditions \ {c} : ct[x].ph = 0
    BY <1>4, <1>6
  <2> HIDE DEF w, ct
  <2>4. SlotsOf(w, ct) = <<c>>
    BY <2>2, <2>3, SlotsChange
  <2> QED  BY <2>1, <2>4
<1>9. /\ Typed(setlist, q, <<c>>, ct, setGiven, {c}) /\ Kept(q, ct, {c}, e)
      /\ SetFirst(setlist, q, setGiven, {c}, e) /\ Follows(setlist, q, <<c>>, ct, setGiven, {c}, e)
  <2>1. /\ Extended(params, q, o) /\ ct \in [Conditions -> CondRecs]
        /\ ct[c].op = o.op /\ ct[c].args = o.args /\ ct[c].ph = Len(params) + 1
        /\ (e # "broken" => ~Named(o)) /\ (e = "none" => departure = "none" /\ fresh = {})
    BY <1>2, <1>5, <1>6
  <2> HIDE DEF q, ct, e
  <2> QED  BY <1>7, <2>1, WhereKeeps
<1>10. Round'
  <2>1. /\ params' = q /\ conds' = ct /\ departure' = e /\ setGiven' = setGiven /\ fresh' = {c}
        /\ UNCHANGED setlist
    BY <1>5
  <2> HIDE DEF q, ct, e
  <2> QED  BY <1>8, <1>9, <2>1, RoundAfter
<1>11. FreshWritten'
  <2>1. fresh' = {c} /\ Sql'.slots = <<c>>
    BY <1>4, <1>5 DEF Sql
  <2>2. 1 \in DOMAIN <<c>> /\ <<c>>[1] = c
    OBVIOUS
  <2> QED  BY <2>1, <2>2 DEF FreshWritten
<1> QED  BY <1>4, <1>5, <1>10, <1>11 DEF QueryInv

\* A condition of this round stands in the text; one that stands nowhere is none.
LEMMA UnwrittenIsNew ==
  ASSUME QueryInv, ClauseInv, NEW c \in Conditions, Unwritten(c)
  PROVE  /\ c \notin fresh
         /\ \A k \in DOMAIN WhereSql(clause[0]).slots : WhereSql(clause[0]).slots[k] # c
         /\ \A k \in DOMAIN Slots : Slots[k] # c
<1>1. \A k \in DOMAIN WhereSql(clause[0]).slots : WhereSql(clause[0]).slots[k] # c
  BY DEF Unwritten
<1>2. c \notin fresh
  BY <1>1 DEF QueryInv, FreshWritten, Sql
<1>3. clause[0] \in Clause
  BY DEF ClauseInv, ClauseTypes
<1>4. Slots = SlotsOf(clause[0], conds)
  BY Zenon DEF Slots, Sql, SlotsOf
<1>5. \A k \in DOMAIN Slots : Slots[k] # c
  BY <1>1, <1>3, <1>4, SlotsAreWritten
<1> QED  BY <1>1, <1>2, <1>5

\* && o and || o.
LEMMA AppendStep ==
  ASSUME QueryInv, ClauseInv, mode' \in Modes, NEW c \in Conditions, NEW o \in Operators,
         Unwritten(c), AppendAnd(c, o) \/ AppendOr(c, o)
  PROVE  QueryInv'
<1>1. /\ Write(c, o, Conditions) /\ dirty' \in BOOLEAN
      /\ clause' = [clause EXCEPT ![0] = AndString(clause[0], Condition(c))]
      /\ departure' = Departed(FALSE, Named(o))
  BY DEF AppendAnd, AppendOr
<1>2. /\ departure' \in {"none", "loose", "broken"}
      /\ departure' # "broken" => departure # "broken" /\ ~Named(o)
      /\ departure' = "none" => departure = "none"
  BY <1>1 DEF Departed, QueryInv, Plainly
<1>3. clause[0] \in Clause /\ clause'[0] = AndString(clause[0], Condition(c))
  BY <1>1 DEF ClauseInv, ClauseTypes
<1> DEFINE w == clause[0]
           v == clause'[0]
           q == params'
           ct == conds'
           e == departure'
           s == WhereSql(w).slots
<1>4. v \in Clause /\ Chain(v) /\ WhereSql(v).slots = Append(s, c)
  <2>1. w \in Clause /\ Chain(w) /\ v = AndString(w, Condition(c))
    BY <1>3 DEF QueryInv
  <2> HIDE DEF w, v
  <2> QED  BY <2>1, NextOfChain
<1>5. /\ Plainly' /\ UNCHANGED setlist /\ setGiven' = setGiven
      /\ Extended(params, params', o) /\ fresh' = (fresh \cap Conditions) \cup {c}
  BY <1>1, <1>2, WritePlainly
<1>6. /\ conds' \in [Conditions -> CondRecs]
      /\ conds'[c].op = o.op /\ conds'[c].args = o.args /\ conds'[c].ph = Len(params) + 1
      /\ \A x \in Conditions \ {c} : conds'[x] = conds[x]
  BY <1>1, WriteConditions
<1>7. /\ Typed(setlist, params, Slots, conds, setGiven, fresh)
      /\ Kept(params, conds, fresh, departure)
      /\ SetFirst(setlist, params, setGiven, fresh, departure)
      /\ Follows(setlist, params, Slots, conds, setGiven, fresh, departure)
  BY DEF QueryInv, Round
<1>8. /\ c \notin fresh /\ (\A k \in DOMAIN s : s[k] # c) /\ \A k \in DOMAIN Slots : Slots[k] # c
  BY UnwrittenIsNew
<1>9. fresh' = fresh \cup {c}
  <2>1. fresh \subseteq Conditions
    BY <1>7 DEF Typed
  <2> QED  BY <1>5, <2>1
<1>10. Slots' = Append(Slots, c)
  <2>1. Slots' = SlotsOf(v, ct) /\ Slots = SlotsOf(w, conds)
    BY Zenon DEF Slots, Sql, SlotsOf
  <2>2. ct[c].ph # 0
    <3>1. params \in Seq(Given)
      BY <1>7 DEF Typed
    <3> QED  BY <1>6, <3>1
  <2>3. OthersSame(conds, ct, c)
    BY <1>6 DEF OthersSame
  <2>4. w \in Clause /\ v \in Clause
    BY <1>3, <1>4
  <2>5. WhereSql(v).slots = Append(WhereSql(w).slots, c) /\ Lacks(WhereSql(w).slots, c)
    BY <1>4, <1>8 DEF Lacks
  <2> HIDE DEF v, w, ct
  <2>6. SlotsOf(v, ct) = Append(SlotsOf(w, conds), c)
    BY <2>2, <2>3, <2>4, <2>5, SlotsAppend
  <2> QED  BY <2>1, <2>6
<1> DEFINE sm == Append(Slots, c)
           gr == fresh \cup {c}
<1>11. /\ Typed(setlist, q, sm, ct, setGiven, gr) /\ Kept(q, ct, gr, e)
       /\ SetFirst(setlist, q, setGiven, gr, e) /\ Follows(setlist, q, sm, ct, setGiven, gr, e)
  <2>1. /\ Extended(params, q, o) /\ ct \in [Conditions -> CondRecs]
        /\ ct[c].op = o.op /\ ct[c].args = o.args /\ ct[c].ph = Len(params) + 1
        /\ OthersSame(conds, ct, c)
    BY <1>5, <1>6 DEF OthersSame
  <2>2. (e # "broken" => departure # "broken" /\ ~Named(o)) /\ (e = "none" => departure = "none")
    BY <1>2
  <2>3. Joins(c, Slots, sm, fresh, gr)
    BY DEF Joins
  <2>4. c \notin fresh /\ Lacks(Slots, c)
    BY <1>8 DEF Lacks
  <2> HIDE DEF q, ct, e, sm, gr
  <2> QED  BY <1>7, <2>1, <2>2, <2>3, <2>4, AppendKeeps
<1>12. Round'
  <2>1. /\ params' = q /\ conds' = ct /\ departure' = e /\ setGiven' = setGiven /\ fresh' = gr
        /\ Slots' = sm /\ UNCHANGED setlist
    BY <1>5, <1>9, <1>10
  <2> HIDE DEF q, ct, e, sm, gr
  <2> QED  BY <1>11, <2>1, RoundAfter
<1>13. FreshWritten'
  <2> SUFFICES ASSUME NEW x \in fresh \cup {c}  PROVE \E k \in DOMAIN Append(s, c) : Append(s, c)[k] = x
    BY <1>4, <1>9 DEF FreshWritten, Sql
  <2>1. s \in Seq(Conditions)
    BY <1>3, SqlOfClause, PartsOf
  <2>2. x # c => \E k \in DOMAIN s : s[k] = x
    BY DEF QueryInv, FreshWritten, Sql
  <2> HIDE DEF s
  <2>3. CASE x = c
    <3>1. Len(s) + 1 \in DOMAIN Append(s, c) /\ Append(s, c)[Len(s) + 1] = c
      BY <2>1
    <3> QED  BY <2>3, <3>1
  <2>4. CASE x # c
    <3>1. PICK k \in DOMAIN s : s[k] = x
      BY <2>2, <2>4
    <3>2. k \in DOMAIN Append(s, c) /\ Append(s, c)[k] = x
      BY <2>1, <3>1
    <3> QED  BY <3>2
  <2> QED  BY <2>3, <2>4
<1> QED  BY <1>4, <1>5, <1>12, <1>13 DEF QueryInv

\* where(clause) of update and delete.
LEMMA UseStep ==
  ASSUME QueryInv, ClauseInv, mode' \in Modes, NEW c \in Conditions, UseClause(c)
  PROVE  QueryInv'
<1>1. /\ clause' = [clause EXCEPT ![0] = ClauseOf(Condition(c))]
      /\ conds' = [d \in Conditions |-> NoCond] /\ fresh' = {} /\ dirty' = TRUE
      /\ UNCHANGED <<kind, setlist, params, setGiven>>
  BY DEF UseClause
<1>2. /\ departure' \in {"none", "loose", "broken"}
      /\ departure' = "none" => departure = "none" /\ fresh = {}
  BY DEF UseClause, Departed, QueryInv, Plainly
<1>3. clause'[0] = ClauseOf(Condition(c))
  BY <1>1 DEF ClauseInv, ClauseTypes
<1>4. clause'[0] \in Clause /\ Chain(clause'[0])
  BY <1>3, FirstOfChain
<1>5. /\ Typed(setlist, params, Slots, conds, setGiven, fresh)
      /\ SetFirst(setlist, params, setGiven, fresh, departure)
  BY DEF QueryInv, Round
<1>6. conds' \in [Conditions -> CondRecs] /\ \A x \in Conditions : conds'[x].ph = 0
  <2>1. <<Null>> \in Seq(Given) /\ 0 \in 0..MaxParams
    BY ParametersAssumption DEF Given
  <2>2. NoCond \in CondRecs /\ NoCond.ph = 0
    BY <2>1 DEF NoCond, CondRecs, Single
  <2> QED  BY <1>1, <2>2
<1> DEFINE ct == conds'
           v == clause'[0]
           e == departure'
<1>7. Slots' = <<>>
  <2>1. Slots' = SlotsOf(v, ct)
    BY Zenon DEF Slots, Sql, SlotsOf
  <2>2. v \in Clause /\ \A x \in Conditions : ct[x].ph = 0
    BY <1>4, <1>6
  <2> HIDE DEF v, ct
  <2> QED  BY <2>1, <2>2, SlotsChange
<1>8. Typed(setlist, params, <<>>, ct, setGiven, {})
  BY <1>5, <1>6 DEF Typed
<1>9. SetFirst(setlist, params, setGiven, {}, e)
  BY <1>2, <1>5 DEF SetFirst
<1>10. Kept(params, ct, {}, e) /\ Follows(setlist, params, <<>>, ct, setGiven, {}, e)
  BY DEF Kept, Follows
<1>11. Round'
  <2>1. /\ params' = params /\ conds' = ct /\ departure' = e /\ setGiven' = setGiven /\ fresh' = {}
        /\ UNCHANGED setlist
    BY <1>1
  <2> HIDE DEF ct, e
  <2> QED  BY <1>7, <1>8, <1>9, <1>10, <2>1, RoundAfter
<1>12. Plainly' /\ FreshWritten'
  BY <1>1, <1>2 DEF QueryInv, Plainly, FreshWritten
<1> QED  BY <1>4, <1>11, <1>12 DEF QueryInv

\* There is nothing yet.
LEMMA QueryInit == Init => QueryInv
<1> SUFFICES ASSUME Init  PROVE QueryInv
  OBVIOUS
<1>1. /\ mode \in Modes /\ kind \in {"select", "modify"} /\ setlist \in 0..MaxSet /\ params = <<>>
      /\ dirty = TRUE /\ clause[0] = EmptyClause /\ conds = [c \in Conditions |-> NoCond]
      /\ setGiven = [j \in 1..MaxSet |-> Unset] /\ fresh = {} /\ departure = "none"
  BY DEF Init
<1>2. Unset \in Cells /\ MaxSet \in Nat /\ MaxParams \in Nat
  BY ParametersAssumption DEF Cells
<1>3. Slots \in Seq(Conditions)
  <2>1. Slots = SlotsOf(clause[0], conds)
    BY Zenon DEF Slots, Sql, SlotsOf
  <2> QED  BY <1>1, <2>1, EmptySql, SlotsAreWritten
<1>4. conds \in [Conditions -> CondRecs]
  <2>1. <<Null>> \in Seq(Given) /\ 0 \in 0..MaxParams
    BY <1>2 DEF Given
  <2>2. NoCond \in CondRecs
    BY <2>1 DEF NoCond, CondRecs, Single
  <2> QED  BY <1>1, <2>2
<1>5. setGiven \in [1..MaxSet -> Cells] /\ \A j \in 1..setlist : setGiven[j] = Unset
  BY <1>1, <1>2
<1>6. Typed(setlist, params, Slots, conds, setGiven, fresh)
  BY <1>1, <1>3, <1>4, <1>5 DEF Typed
<1>7. SetFirst(setlist, params, setGiven, fresh, departure)
  <2>1. Len(params) <= setlist /\ \A j \in 1..setlist : ~(j <= Len(params))
    BY <1>1, <1>2
  <2> QED  BY <1>5, <2>1 DEF SetFirst
<1>8. /\ Kept(params, conds, fresh, departure) /\ FreshWritten
      /\ Follows(setlist, params, Slots, conds, setGiven, fresh, departure)
  BY <1>1 DEF Kept, Follows, FreshWritten
<1>9. Chain(clause[0])
  BY <1>1, EmptySql DEF Chain
<1>10. Plainly
  BY <1>1, <1>2 DEF Plainly
<1> QED  BY <1>6, <1>7, <1>8, <1>9, <1>10 DEF QueryInv, Round

\* Every step keeps the round of the query in order.
LEMMA QueryNext == QueryInv /\ ClauseInv /\ [Next]_vars => QueryInv'
<1> SUFFICES ASSUME QueryInv, ClauseInv, [Next]_vars  PROVE QueryInv'
  OBVIOUS
<1>0. mode' \in Modes /\ UNCHANGED mode /\ dirty \in BOOLEAN
  BY DEF QueryInv, Plainly, Next, vars
<1>w. 1..MaxWhere \subseteq Conditions
  BY WhereAssumption, ParametersAssumption DEF Conditions
<1>1. CASE UNCHANGED <<queryVars, clauseVars>>
  BY <1>0, <1>1, SameQuery DEF queryVars, clauseVars
<1>2. CASE QueryStep
  <2>1. ASSUME NEW v \in Given, Value(v), UNCHANGED clauseVars  PROVE QueryInv'
    BY <1>0, <2>1, ValueStep DEF clauseVars
  <2>2. ASSUME NEW v \in Given, ValuesFromOne(v), UNCHANGED clauseVars  PROVE QueryInv'
    BY <1>0, <2>2, ValuesStep DEF clauseVars
  <2>3. ASSUME NEW v \in Given, NEW i \in 1..MaxParams, BindAt(i, v), UNCHANGED clauseVars
        PROVE  QueryInv'
    BY <1>0, <2>3, BindStep DEF clauseVars
  <2>4. ASSUME NEW c \in 1..MaxWhere, UseClause(c)  PROVE QueryInv'
    BY <1>0, <1>w, <2>4, UseStep
  <2>5. ASSUME NEW c \in 1..MaxWhere, NEW o \in Operators, WhereOp(c, o)  PROVE QueryInv'
    BY <1>0, <1>w, <2>5, WhereStep
  <2>6. ASSUME NEW c \in 1..MaxWhere, FirstUnwritten(c), NEW o \in Operators,
               AppendAnd(c, o) \/ AppendOr(c, o)
        PROVE  QueryInv'
    BY <1>0, <1>w, <2>6, AppendStep DEF FirstUnwritten
  <2> QED  BY <1>2, <2>1, <2>2, <2>3, <2>4, <2>5, <2>6 DEF QueryStep
<1>3. CASE ClauseStep
  <2>1. UNCHANGED queryVars
    BY <1>3 DEF ClauseStep
  <2>2. clause'[0] = clause[0]
    <3>1. PICK w \in Free : \E x : clause' = [clause EXCEPT ![w] = x]
      BY <1>3 DEF ClauseStep, ClauseAndText, ClauseOrText, ClauseAnd, ClauseOr, ClauseReset
    <3>2. clause \in [{0, 1, 2} -> Clause] /\ w # 0
      BY <3>1 DEF Free, ClauseInv, ClauseTypes
    <3> QED  BY <3>1, <3>2
  <2> QED  BY <1>0, <2>1, <2>2, SameQuery DEF queryVars
<1>4. CASE Run
  <2>1. UNCHANGED clause
    BY <1>4 DEF Run, clauseVars
  <2>2. CASE Execute \/ ExecuteAgain
    BY <1>0, <2>1, <2>2, RunKeeps DEF Execute, ExecuteAgain
  <2>3. CASE ExecuteRefused
    <3>1. CASE backend = "postgres"
      BY <1>0, <2>1, <2>3, <3>1, RunKeeps DEF ExecuteRefused
    <3>2. CASE backend # "postgres"
      BY <1>0, <2>1, <2>3, <3>2, SameQuery DEF ExecuteRefused
    <3> QED  BY <3>1, <3>2
  <2> QED  BY <1>4, <2>2, <2>3 DEF Run
<1>5. CASE StatementStep
  BY <1>1, <1>5 DEF StatementStep
<1> QED  BY <1>1, <1>2, <1>3, <1>4, <1>5 DEF Next, vars

-----------------------------------------------------------------------------
(* What a behaviour of the query never leaves *)

\* Every variable keeps its type: no value gets into params_, a condition or
\* an array that was not given, and no index outgrows the parameters
\* (query::bind, where_builder, binding).
THEOREM ParametersTyped == Spec => []TypeOK
<1>1. IndInv /\ ClauseInv /\ QueryInv => TypeOK
  <2> SUFFICES ASSUME IndInv, ClauseInv, QueryInv  PROVE TypeOK
    OBVIOUS
  <2>1. BindingTypeOK
    BY DEF IndInv
  <2>2. /\ mode \in Modes /\ kind \in {"select", "modify"} /\ dirty \in BOOLEAN
        /\ departure \in {"none", "loose", "broken"} /\ Len(params) <= MaxParams
    BY DEF QueryInv, Plainly
  <2>3. /\ setlist \in 0..MaxSet /\ params \in Seq(Given) /\ conds \in [Conditions -> CondRecs]
        /\ setGiven \in [1..MaxSet -> Cells] /\ fresh \subseteq Conditions
    BY DEF QueryInv, Round, Typed
  <2>4. \A w \in {0, 1, 2} : WhereSql(clause[w]).slots \in Seq(Conditions)
    <3> SUFFICES ASSUME NEW w \in {0, 1, 2}  PROVE WhereSql(clause[w]).slots \in Seq(Conditions)
      OBVIOUS
    <3>1. clause[w] \in Clause
      BY DEF ClauseInv, ClauseTypes
    <3> QED  BY <3>1, SqlOfClause, PartsOf
  <2>5. /\ meant \in [{0, 1, 2} -> SUBSET Assignments]
        /\ form \in [{0, 1, 2} -> {"none", "conjunction", "disjunction", "mixed"}]
    BY DEF ClauseInv, ClauseTypes, Forms, Plain, Factors
  <2> QED  BY <2>1, <2>2, <2>3, <2>4, <2>5 DEF TypeOK, CondRecs
<1> QED  BY <1>1, ArraysInit, ArraysNext, ClauseInit, ClauseNext, QueryInit, QueryNext, PTL DEF Spec

Row(x, n) == x = [j \in 1..n |-> x[j]]
Rows(r, x, y) == r = x \o y

\* One row after another.
LEMMA RowsJoined ==
  ASSUME NEW n \in Nat, NEW m \in Nat, NEW x, NEW y, Row(x, n), Row(y, m), NEW r, Rows(r, x, y)
  PROVE  /\ DOMAIN r = 1..(n + m)
         /\ \A k \in 1..n : r[k] = x[k]
         /\ \A k \in 1..m : r[n + k] = y[k]
<1> DEFINE T == {x[j] : j \in 1..n} \cup {y[k] : k \in 1..m}
<1>1. x \in Seq(T) /\ Len(x) = n
  BY DEF Row
<1>2. y \in Seq(T) /\ Len(y) = m
  BY DEF Row
<1> HIDE DEF T
<1>3. /\ DOMAIN (x \o y) = 1..(n + m)
      /\ \A k \in 1..n : (x \o y)[k] = x[k]
      /\ \A k \in 1..m : (x \o y)[n + k] = y[k]
  BY <1>1, <1>2
<1>4. r = x \o y
  BY DEF Rows
<1> QED  BY <1>3, <1>4, Zenon

\* A statement's placeholders, one by one: the SET columns, then the conditions.
LEMMA Places ==
  ASSUME setlist \in Nat, Slots \in Seq(Conditions)
  PROVE  /\ DOMAIN Numbers = 1..(setlist + Len(Slots)) /\ DOMAIN Wants = 1..(setlist + Len(Slots))
         /\ \A k \in 1..setlist : Numbers[k] = k /\ Wants[k] = setGiven[k]
         /\ \A k \in 1..Len(Slots) :
              /\ Numbers[setlist + k] = conds[Slots[k]].ph
              /\ Slots[k] \in fresh => Wants[setlist + k] = conds[Slots[k]].args[1]
              /\ Slots[k] \notin fresh => Wants[setlist + k] = Unset
<1> DEFINE n == setlist
           m == Len(Slots)
           f == [k \in 1..m |-> conds[Slots[k]].ph]
           g == [k \in 1..m |-> IF Slots[k] \in fresh THEN conds[Slots[k]].args[1] ELSE Unset]
           h == [j \in 1..n |-> setGiven[j]]
           i == [j \in 1..n |-> j]
<1>1. DOMAIN Slots = 1..m /\ m \in Nat /\ n \in Nat
  OBVIOUS
<1>2. Rows(Numbers, i, f) /\ Rows(Wants, h, g)
  BY <1>1 DEF Numbers, Wants, Rows
<1>3. /\ \A k \in 1..m : f[k] = conds[Slots[k]].ph
      /\ \A k \in 1..m : Slots[k] \in fresh => g[k] = conds[Slots[k]].args[1]
      /\ \A k \in 1..m : Slots[k] \notin fresh => g[k] = Unset
      /\ \A j \in 1..n : i[j] = j /\ h[j] = setGiven[j]
  OBVIOUS
<1>4. Row(i, n) /\ Row(h, n) /\ Row(f, m) /\ Row(g, m)
  BY DEF Row
<1> HIDE DEF n, m, f, g, h, i
<1>5. /\ DOMAIN Numbers = 1..(n + m)
      /\ \A k \in 1..n : Numbers[k] = i[k]
      /\ \A k \in 1..m : Numbers[n + k] = f[k]
  <2>1. n \in Nat /\ m \in Nat /\ Row(i, n) /\ Row(f, m) /\ Rows(Numbers, i, f)
    BY <1>1, <1>2, <1>4
  <2> QED  BY <2>1, RowsJoined
<1>6. /\ DOMAIN Wants = 1..(n + m)
      /\ \A k \in 1..n : Wants[k] = h[k]
      /\ \A k \in 1..m : Wants[n + k] = g[k]
  BY <1>1, <1>2, <1>4, RowsJoined
<1>7. \A k \in 1..n : Numbers[k] = k /\ Wants[k] = setGiven[k]
  BY <1>3, <1>5, <1>6
<1>8. ASSUME NEW k \in 1..m
      PROVE  /\ Numbers[n + k] = conds[Slots[k]].ph
             /\ Slots[k] \in fresh => Wants[n + k] = conds[Slots[k]].args[1]
             /\ Slots[k] \notin fresh => Wants[n + k] = Unset
  <2>1. Numbers[n + k] = f[k] /\ Wants[n + k] = g[k]
    BY <1>5, <1>6
  <2> QED  BY <1>3, <2>1, Zenon
<1> QED  BY <1>5, <1>6, <1>7, <1>8 DEF n, m

\* A condition of a round without a broken departure reads its operand.
LEMMA ConditionReads ==
  ASSUME QueryInv, backend # "mysql", departure # "broken", NEW k \in DOMAIN Numbers,
         k > setlist, Wants[k] # Unset
  PROVE  Reads(k) = Wants[k]
<1>1. /\ setlist \in Nat /\ Slots \in Seq(Conditions) /\ params \in Seq(Given)
      /\ Kept(params, conds, fresh, departure)
  BY ParametersAssumption DEF QueryInv, Round, Typed
<1>2. /\ DOMAIN Numbers = 1..(setlist + Len(Slots))
      /\ \A l \in 1..Len(Slots) :
           /\ Numbers[setlist + l] = conds[Slots[l]].ph
           /\ Slots[l] \in fresh => Wants[setlist + l] = conds[Slots[l]].args[1]
           /\ Slots[l] \notin fresh => Wants[setlist + l] = Unset
  BY <1>1, Places
<1> DEFINE l == k - setlist
<1>3. l \in 1..Len(Slots) /\ k = setlist + l
  BY <1>1, <1>2
<1> HIDE DEF l
<1>4. /\ Numbers[k] = conds[Slots[l]].ph /\ Slots[l] \in fresh
      /\ Wants[k] = conds[Slots[l]].args[1]
  BY <1>2, <1>3
<1>5. conds[Slots[l]].ph \in DOMAIN params /\ params[conds[Slots[l]].ph] = conds[Slots[l]].args[1]
  BY <1>1, <1>4 DEF Kept
<1>6. Numbers[k] <= Len(params) /\ params[Numbers[k]] = Wants[k]
  BY <1>1, <1>4, <1>5
<1> QED  BY <1>6 DEF Reads

\* On sqlite and postgres a condition is compared with its own operand,
\* whatever the client gave before and after it, for any number of parameters
\* (where_builder::reset, operator&&).
THEOREM ConditionsKeepTheirValues == Spec => []NumberedConditionsKeepTheirValues
<1>1. QueryInv => NumberedConditionsKeepTheirValues
  BY ConditionReads DEF NumberedConditionsKeepTheirValues
<1> QED  BY <1>1, ClauseInit, ClauseNext, QueryInit, QueryNext, PTL DEF Spec

\* In the usual order the parameters are the placeholders, one by one.
LEMMA OrderlyParams ==
  ASSUME QueryInv, Wellformed, departure = "none", \A k \in DOMAIN Wants : Wants[k] # Unset
  PROVE  /\ DOMAIN Numbers = DOMAIN params
         /\ \A k \in DOMAIN params : Numbers[k] = k /\ Wants[k] = params[k]
<1>1. /\ setlist \in Nat /\ Slots \in Seq(Conditions) /\ params \in Seq(Given)
      /\ Kept(params, conds, fresh, departure)
      /\ SetFirst(setlist, params, setGiven, fresh, departure)
      /\ Follows(setlist, params, Slots, conds, setGiven, fresh, departure)
  BY ParametersAssumption DEF QueryInv, Round, Typed
<1> DEFINE n == setlist
           m == Len(Slots)
           z == Len(params)
<1>2. /\ DOMAIN Numbers = 1..(n + m) /\ DOMAIN Wants = 1..(n + m)
      /\ \A k \in 1..n : Numbers[k] = k /\ Wants[k] = setGiven[k]
      /\ \A k \in 1..m :
           /\ Numbers[n + k] = conds[Slots[k]].ph
           /\ Slots[k] \in fresh => Wants[n + k] = conds[Slots[k]].args[1]
           /\ Slots[k] \notin fresh => Wants[n + k] = Unset
  BY <1>1, Places
<1>3. n \in Nat /\ m \in Nat /\ z \in Nat /\ DOMAIN params = 1..z /\ DOMAIN Slots = 1..m
  BY <1>1
<1>4. \A k \in 1..n : setGiven[k] # Unset
  <2> SUFFICES ASSUME NEW k \in 1..n  PROVE setGiven[k] # Unset
    OBVIOUS
  <2>1. k \in DOMAIN Wants
    BY <1>2, <1>3
  <2> QED  BY <1>2, <2>1
<1>5. \A k \in 1..m : Slots[k] \in fresh
  <2> SUFFICES ASSUME NEW k \in 1..m  PROVE Slots[k] \in fresh
    OBVIOUS
  <2>1. n + k \in DOMAIN Wants
    BY <1>2, <1>3
  <2> QED  BY <1>2, <2>1
<1>6. CASE fresh = {}
  <2>1. 1 \notin 1..m
    BY <1>5, <1>6
  <2>2. m = 0
    BY <1>3, <2>1
  <2>3. z <= n /\ \A j \in 1..n : setGiven[j] = IF j <= z THEN params[j] ELSE Unset
    BY <1>1, <1>6 DEF SetFirst
  <2> HIDE DEF n, m, z
  <2>4. z = n
    <3>1. n \in 1..n => n <= z
      BY <1>4, <2>3
    <3> QED  BY <1>3, <2>3, <3>1
  <2>5. \A j \in 1..n : setGiven[j] = params[j]
    BY <1>3, <2>3, <2>4
  <2> QED  BY <1>2, <1>3, <2>2, <2>4, <2>5
<1>7. CASE fresh # {}
  <2>1. ~Stuck(n, conds, setGiven, fresh)
    BY <1>4 DEF Stuck
  <2>2. Scalars(Slots, conds, fresh)
    BY <1>3, <1>5 DEF Scalars, Wellformed
  <2>3. /\ \A j \in 1..n : j \in DOMAIN params /\ params[j] = setGiven[j]
        /\ z = n + m
        /\ \A k \in DOMAIN Slots : conds[Slots[k]].ph = n + k
    BY <1>1, <1>7, <2>1, <2>2 DEF Follows
  <2>4. \A k \in 1..m : params[n + k] = conds[Slots[k]].args[1]
    <3> SUFFICES ASSUME NEW k \in 1..m  PROVE params[n + k] = conds[Slots[k]].args[1]
      OBVIOUS
    <3>1. Slots[k] \in fresh /\ conds[Slots[k]].ph = n + k
      BY <1>3, <1>5, <2>3
    <3> QED  BY <1>1, <3>1 DEF Kept
  <2>5. ASSUME NEW k \in DOMAIN params  PROVE Numbers[k] = k /\ Wants[k] = params[k]
    <3>1. CASE k \in 1..n
      BY <1>2, <2>3, <3>1
    <3>2. CASE k \notin 1..n
      <4> DEFINE l == k - n
      <4>1. l \in 1..m /\ k = n + l
        <5> HIDE DEF n, m, z
        <5> QED  BY <1>3, <2>3, <3>2
      <4> HIDE DEF l
      <4>2. Slots[l] \in fresh /\ conds[Slots[l]].ph = n + l
        BY <1>3, <1>5, <2>3, <4>1
      <4>3. Numbers[n + l] = n + l /\ Wants[n + l] = params[n + l]
        BY <1>2, <2>4, <4>1, <4>2
      <4> QED  BY <4>1, <4>3
    <3> QED  BY <3>1, <3>2
  <2> QED  BY <1>2, <1>3, <2>3, <2>5
<1> QED  BY <1>6, <1>7

\* A client that keeps to the usual order gets the statement it wrote on every
\* backend, for any number of SET columns, conditions and parameters and any
\* sizes of the arrays
\* (where_builder::reset, operator&&; query::prepare; reallocate_value).
THEOREM OrderlyQueriesAreFaithful == Spec => []OrderlyQueryIsFaithful
<1>1. ASSUME QueryInv  PROVE OrderlyQueryIsFaithful
  <2> SUFFICES ASSUME Wellformed, departure = "none", \A k \in DOMAIN Wants : Wants[k] # Unset
               PROVE  Accepted /\ \A k \in DOMAIN Numbers : Reads(k) = Wants[k]
    BY DEF OrderlyQueryIsFaithful
  <2>1. /\ DOMAIN Numbers = DOMAIN params
        /\ \A k \in DOMAIN params : Numbers[k] = k /\ Wants[k] = params[k]
    BY <1>1, OrderlyParams
  <2>2. /\ params \in Seq(Given) /\ Len(params) \in Nat /\ DOMAIN params = 1..Len(params)
        /\ Len(params) <= MaxParams /\ MaxParams \in Nat
    BY <1>1, ParametersAssumption DEF QueryInv, Plainly, Round, Typed
  <2>3. Numbered = DOMAIN params
    <3>1. \A i \in DOMAIN params : i \in 1..MaxParams
      BY <2>2
    <3> QED  BY <2>1, <3>1 DEF Numbered
  <2>4. Accepted
    <3>1. Len(params) \in {0} \cup Numbered
      BY <2>2, <2>3
    <3>2. backend = "postgres" => \A i \in Numbered : i <= Counted(Sent)
      BY <2>2, <2>3, SentIsCounted
    <3> QED  BY <2>3, <3>1, <3>2 DEF Accepted
  <2>5. ASSUME NEW k \in DOMAIN Numbers  PROVE Reads(k) = Wants[k]
    <3>1. k \in 1..Len(params) /\ Numbers[k] = k /\ Wants[k] = params[k]
      BY <2>1, <2>2
    <3>2. CASE backend = "mysql"
      <4>1. /\ Sent \in Seq(Cells) /\ DOMAIN params \subseteq DOMAIN Sent
            /\ \A j \in DOMAIN Sent : Sent[j] = IF j \in DOMAIN params THEN params[j] ELSE Unset
        BY <2>2, SentIsParams
      <4>2. k \in DOMAIN Sent /\ Sent[k] = params[k]
        BY <2>2, <3>1, <4>1
      <4>3. k <= Len(Sent)
        BY <4>1, <4>2
      <4> QED  BY <3>1, <3>2, <4>2, <4>3 DEF Reads
    <3>3. CASE backend # "mysql"
      BY <2>2, <3>1, <3>3 DEF Reads
    <3> QED  BY <3>2, <3>3
  <2> QED  BY <2>4, <2>5
<1> QED  BY <1>1, ClauseInit, ClauseNext, QueryInit, QueryNext, PTL DEF Spec
=============================================================================
