-------------------------------- MODULE Sums --------------------------------
(* SQL's SUM over the rows of a table, as a fold over the set of their keys. *)
EXTENDS Integers, FiniteSets, Functions

Plus(a, b) == a + b

(* SUM(column) over the rows whose keys are in a set. *)
SumOf(column, keys) == FoldFunctionOnSet(Plus, 0, column, keys)
=============================================================================
