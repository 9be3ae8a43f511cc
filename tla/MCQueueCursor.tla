--------------------------- MODULE MCQueueCursor ----------------------------
(* A small station for TLC: many faults, or rows that are overtaken. *)
EXTENDS QueueCursor

MCRows == <<1, 2, 3>>
MCOrigin == [i \in Items |-> IF i \in {1, 2} THEN 9 ELSE None]

Budget(faults, crashes, edits, stale) ==
  [faults |-> faults, crashes |-> crashes, edits |-> edits, stale |-> stale]

MCBudgets == {Budget(2, 1, 1, FALSE), Budget(0, 0, 1, TRUE), Budget(1, 0, 0, TRUE)}
=============================================================================
