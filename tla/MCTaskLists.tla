---------------------------- MODULE MCTaskLists -----------------------------
(* TLC instance of TaskLists: two tasks of priority 1, one of each other. *)
EXTENDS TaskLists

MCPriorityOf == [t \in 0 .. MaxTask - 1 |-> IF t = 0 THEN 2 ELSE IF t = 1 THEN 0 ELSE 1]

\* The table maps every bit of a 32-bit word to its position.
ASSUME LookupCorrect == \A k \in 0 .. 31 : QueueIndex({k}) = k
=============================================================================
