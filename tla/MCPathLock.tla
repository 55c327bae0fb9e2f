----------------------------- MODULE MCPathLock -----------------------------
(* Small instances of PathLock for TLC. *)
EXTENDS PathLockInductive, Sequences, TLC

CONSTANTS p1, p2, o1, o2, o3, l1, l2, l3

\* A directory and a file in it, as sequences of names.
Dir  == <<"a">>
File == <<"a", "b">>
MCPath == {Dir, File}
OnePath == {File}

IsPrefix(p, q) == Len(p) < Len(q) /\ SubSeq(q, 1, Len(p)) = p
MCancestor_paths == [q \in Path |-> {p \in Path : IsPrefix(p, q)}]
MCRank == [p \in Path |-> Len(p)]

Req(dir, file) == [p \in Path |-> IF p = Dir THEN dir ELSE file]
MCRequest == {Req("Tree", "None"), Req("None", "Exact"), Req("Exact", "Exact")}
RequestFile == {Req("None", "Exact")}
RequestEither == {Req("Tree", "None"), Req("None", "Exact")}

NoSkew == [pr \in Proc |-> 0]
MCSkew == [pr \in Proc |-> IF pr = p1 THEN 0 ELSE 1]

Ids == Permutations(Owner) \cup Permutations(Lease)
IdsAndProcs == Ids \cup Permutations(Proc)
=============================================================================
