----------------------------- MODULE MCTaskWork -----------------------------
(* Small instances of TaskWork for TLC. *)
EXTENDS TaskWork

CONSTANTS t1, w1, w2

OneTask == [w \in Work |-> t1]
=============================================================================
