--------------------------- MODULE MCQueueCompletion -------------------------
(* Small instances of QueueCompletion for TLC. *)
EXTENDS QueueCompletion, TLC

CONSTANTS semantic, embedding, m1, m2, m3, i1, i2

\* A semantic handler enqueues embedding work; any handler may enqueue its own
\* message again.
Pipeline == {<<semantic, embedding>>}
Requeue == {<<q, q>> : q \in Queue}

EmbeddingFirst == <<embedding, semantic>>

FreshMessages == Permutations(Message)
=============================================================================
