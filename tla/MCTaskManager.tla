---------------------------- MODULE MCTaskManager ----------------------------
(* Small instances of TaskManager for TLC. *)
EXTENDS TaskManager, TLC

CONSTANTS n1, n2, t1, t2, x1, k, kx

\* Two submissions of one key and an upload, all on the first node.
AllOnFirst == [t \in Tasks |-> n1]
Keys == [t \in Tasks |-> IF t \in External THEN kx ELSE k]
=============================================================================
