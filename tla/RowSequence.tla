----------------------------- MODULE RowSequence -----------------------------
(***************************************************************************)
(* What a result set promises: its own pass over the rows of a query.  It   *)
(* stands before the first row, on a row or after the last one; next()      *)
(* moves it to the following row and current_row() shows that row; reset()  *)
(* and begin() take it back.  No statement, no buffer and no other result   *)
(* set exists at this level: module ResultSet has them and is shown to      *)
(* implement this one.                                                      *)
(***************************************************************************)
EXTENDS Integers

CONSTANTS
  Results,    \* result sets
  NoResult,   \* no result set has answered yet
  MaxRows     \* bound on the number of rows

VARIABLES
  rows,       \* how many rows the query has
  at,         \* where every result set stands: 0 is before the first row
  answer      \* the last call of next(), begin() or reset() and the row it gave,
              \* 0 if none was left

seqVars == <<rows, at, answer>>

\* the result set does not exist
Closed == -1

SeqInit ==
  /\ rows \in 0..MaxRows
  /\ at = [r \in Results |-> Closed]
  /\ answer = [call |-> "none", result |-> NoResult, row |-> 0]

OpenSeq(r) ==
  /\ at[r] = Closed
  /\ at' = [at EXCEPT ![r] = 0]
  /\ UNCHANGED answer

CloseSeq(r) ==
  /\ at' = [at EXCEPT ![r] = Closed]
  /\ UNCHANGED answer

Rewind(r) ==
  /\ at[r] # Closed
  /\ at' = [at EXCEPT ![r] = 0]
  /\ answer' = [call |-> "reset", result |-> r, row |-> 0]

\* r moves to the row after k
Take(call, r, k) ==
  /\ at[r] # Closed
  /\ at' = [at EXCEPT ![r] = IF k < rows THEN k + 1 ELSE rows + 1]
  /\ answer' = [call |-> call, result |-> r, row |-> IF k < rows THEN k + 1 ELSE 0]

SeqNext ==
  /\ UNCHANGED rows
  /\ \E r \in Results : \/ OpenSeq(r) \/ CloseSeq(r) \/ Rewind(r)
                        \/ Take("next", r, at[r]) \/ Take("begin", r, 0)

SeqSpec == SeqInit /\ [][SeqNext]_seqVars
=============================================================================
