------------------------------ MODULE MCQueueFs -----------------------------
(* Small instances of QueueFs for TLC. *)
EXTENDS QueueFs, TLC

CONSTANTS q1, m1, m2, i1, i2

Requeue == {<<q1, q1>>}
NoFeeds == {}

FreshMessages == Permutations(Message)
=============================================================================
