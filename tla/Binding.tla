------------------------------- MODULE Binding -------------------------------
(***************************************************************************)
(* The parameter arrays of the mysql and postgres statements:               *)
(* mysql/binding.cpp, postgres/binding.cpp, alloc.h and bindable.cpp.       *)
(*                                                                          *)
(* A binding object keeps a C array that grows when an index beyond its end *)
(* is bound.  mysql keeps one array of MYSQL_BIND and postgres four         *)
(* parallel ones of the same length, so one sequence of cells stands for    *)
(* either.  A null is stored as a type without a buffer.                    *)
(***************************************************************************)
EXTENDS Naturals, Sequences, FiniteSets

CONSTANTS
  Objects,     \* binding objects
  Values,      \* non-null, non-empty values
  Blobs,       \* those of them that are sql_blobs with a zero byte in them
  Null, Unset, \* sql_null, and a zeroed cell
  Garbled,     \* a buffer that ends before the length kept beside it
  Dead,        \* an object that is not constructed
  Prealloc,    \* prealloc_size
  Increment,   \* prealloc_increment
  MaxIndex     \* bound: the largest index a client binds

ASSUME BindingAssumption ==
  /\ Null \notin Values
  /\ Unset \notin Values \cup {Null}
  /\ Blobs \subseteq Values
  /\ Garbled \notin Values \cup {Null, Unset}
  /\ Dead \notin Seq(Values \cup {Null, Unset, Garbled})
  /\ Prealloc \in Nat
  /\ Increment \in Nat
  /\ MaxIndex \in Nat

VARIABLES
  backend,     \* the backend whose binding class is used
  array,       \* value_ / values_, types_, lengths_, formats_ and size_
  given,       \* history: what was bound since the object was last emptied
  copied       \* history: the indexes whose values came with a copy

bindingVars == <<backend, array, given, copied>>

Cells == Values \cup {Null, Unset, Garbled}

Indexes == 1..MaxIndex

\* The abstract content: a map from the indexes in use to their values.
NothingGiven == [i \in Indexes |-> Unset]

BindingTypeOK ==
  /\ backend \in {"sqlite", "postgres", "mysql"}
  /\ array \in [Objects -> Seq(Cells) \cup {Dead}]
  /\ given \in [Objects -> [Indexes -> Cells]]
  /\ copied \in [Objects -> SUBSET Indexes]

BindingInit ==
  /\ array = [b \in Objects |-> Dead]
  /\ given = [b \in Objects |-> NothingGiven]
  /\ copied = [b \in Objects |-> {}]

Alive(b) == array[b] # Dead

\* binding::binding(): calloc of prealloc_size cells
Zeroed == [i \in 1..Prealloc |-> Unset]

-----------------------------------------------------------------------------
\* Variant of Reallocated: realloc without the memset of the new cells, which
\* then hold what a freed array of an earlier statement left there.
ReallocatedDirty(a, i) ==
  IF i <= Len(a)
    THEN [a EXCEPT ![i] = Unset]
    ELSE [j \in 1..(i + Increment) |-> IF j <= Len(a) THEN a[j] ELSE Null]

\* reallocate_value(index), index > 0
Reallocated(a, i) ==
  IF i <= Len(a)
    THEN [a EXCEPT ![i] = Unset]
    ELSE [j \in 1..(i + Increment) |-> IF j <= Len(a) THEN a[j] ELSE Unset]

\* binding::bind(index, value): index 0 is ignored
Stored(a, i, v) ==
  IF i = 0 THEN a ELSE [Reallocated(a, i) EXCEPT ![i] = v]

\* Variant of Counted: postgres counts values_, not types_.
CountedBuffers(a) == Cardinality({i \in DOMAIN a : a[i] \in Values \cup {Garbled}})

\* num_of_bindings(): mysql counts buffers, postgres counts types
Counted(a) ==
  Cardinality({i \in DOMAIN a : \/ a[i] \in Values \cup {Garbled}
                                \/ backend = "postgres" /\ a[i] = Null})

-----------------------------------------------------------------------------
\* copy_value: postgres copies a buffer with strdup, up to its first zero byte,
\* and keeps the length it had
Copied(a) ==
  [i \in DOMAIN a |-> IF backend = "postgres" /\ a[i] \in Blobs THEN Garbled ELSE a[i]]

\* object b holds a, of which g was given and the indexes in c came with a copy
Holding(b, a, g, c) ==
  /\ array' = [array EXCEPT ![b] = a]
  /\ given' = [given EXCEPT ![b] = g]
  /\ copied' = [copied EXCEPT ![b] = c]

Construct(b) ==
  /\ ~Alive(b)
  /\ Holding(b, Zeroed, NothingGiven, {})

BindIndex(b, i, v) ==
  /\ Alive(b)
  /\ Holding(b, Stored(array[b], i, v),
             [j \in Indexes |-> IF j = i THEN v ELSE given[b][j]], copied[b] \ {i})

\* reset(): clear_value() frees the array
ResetBinding(b) ==
  /\ Alive(b)
  /\ Holding(b, <<>>, NothingGiven, {})

\* mysql's copy_value allocates size_ cells, and calloc of none is taken for
\* running out of memory
CopyThrows(b) == backend = "mysql" /\ array[b] = <<>>

CopyConstruct(b, c) ==
  /\ Alive(b) /\ ~Alive(c)
  /\ ~CopyThrows(b)
  /\ Holding(c, Copied(array[b]), given[b], Indexes)

\* operator=(const binding &): clear_value() comes first, so that the target is
\* empty when the copy throws (there was nothing to copy then)
CopyAssignBinding(b, c) ==
  /\ b # c
  /\ Alive(b) /\ Alive(c)
  /\ Holding(c, IF CopyThrows(b) THEN <<>> ELSE Copied(array[b]), given[b], Indexes)

\* the move constructor and the move assignment leave the source without array
MoveBinding(b, c) ==
  /\ b # c
  /\ Alive(b)
  /\ array' = [array EXCEPT ![c] = array[b], ![b] = <<>>]
  /\ given' = [given EXCEPT ![c] = given[b], ![b] = NothingGiven]
  /\ copied' = [copied EXCEPT ![c] = copied[b], ![b] = {}]

DestroyBinding(b) ==
  /\ Alive(b)
  /\ Holding(b, Dead, NothingGiven, {})

BindingNext ==
  /\ UNCHANGED backend
  /\ \E b \in Objects :
       \/ Construct(b)
       \/ \E i \in 0..MaxIndex, v \in Values \cup {Null} : BindIndex(b, i, v)
       \/ ResetBinding(b)
       \/ DestroyBinding(b)
       \/ \E c \in Objects :
            \/ CopyConstruct(b, c)
            \/ CopyAssignBinding(b, c)
            \/ MoveBinding(b, c)

-----------------------------------------------------------------------------
(* Properties *)

\* What index i of object b should read as: the value bound there last, unless
\* it is a blob with a zero byte that came with a copy on postgres.
Expected(b, i) ==
  IF backend = "postgres" /\ i \in copied[b] /\ given[b][i] \in Blobs
    THEN Garbled ELSE given[b][i]

\* Whatever order indexes are bound in, and through every growth, reset, copy
\* and move, an object holds at each index the value bound there last and a
\* zeroed cell everywhere else: nothing of an earlier array shows through, and
\* no index that was bound lies outside the allocation
\* (binding::reallocate_value, clear_value, copy_value).  The one value that a
\* copy does not keep is a blob on postgres (postgres/binding.cpp:309), and it is
\* right again once its index is bound anew, and in the object it was copied from.
ArrayIsMap ==
  \A b \in Objects : Alive(b) =>
    /\ \A i \in Indexes : given[b][i] # Unset => i \in DOMAIN array[b]
    /\ \A i \in DOMAIN array[b] :
         array[b][i] = IF i \in Indexes THEN Expected(b, i) ELSE Unset
=============================================================================
