----------------------------- MODULE RowTotals -----------------------------
(***************************************************************************)
(* The sum a database computes over rows numbered from 1, and, to say what *)
(* must be true of events, the sum of a column over a set of rows.         *)
(***************************************************************************)
EXTENDS Integers, Functions

RunningTotal(count, amounts) ==
  LET sum[n \in 0..count] == IF n = 0 THEN 0 ELSE sum[n - 1] + amounts[n]
  IN  sum

TotalOf(count, amounts) == RunningTotal(count, amounts)[count]

ColumnTotal(rows, column) == SumFunction([row \in rows |-> row[column]])
=============================================================================
