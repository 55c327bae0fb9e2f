--------------------------- MODULE MCTaskDeletion ---------------------------
(* A small instance of TaskDeletion for TLC. *)
EXTENDS TaskDeletion

CONSTANTS t1, t2
=============================================================================
