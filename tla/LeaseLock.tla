----------------------------- MODULE LeaseLock ------------------------------
(***************************************************************************)
(* What PathLock promises its callers: coverage is granted to leases, a    *)
(* grant is made only when it is compatible with every grant of another    *)
(* owner, and grants otherwise only shrink.  There are no tokens, clocks,  *)
(* processes or storage here.                                              *)
(***************************************************************************)
EXTENDS PathLockTokens

VARIABLE granted   \* lease -> the owner and coverage it authorizes

Nothing == [owner |-> NoOwner, cov |-> [p \in Path |-> "None"]]

\* Two coverages meet in no path: not the same path, and neither holds a Tree
\* above a path of the other.
Compatible(c, d) ==
  \A p \in lock_paths(c), q \in lock_paths(d) :
    /\ p # q
    /\ ~(c[p] = "Tree" /\ p \in ancestor_paths[q])
    /\ ~(d[q] = "Tree" /\ q \in ancestor_paths[p])

Init == granted = [l \in Lease |-> Nothing]

Grant(l, o, c) ==
  /\ granted[l] = Nothing
  /\ \A k \in Lease :
       granted[k].owner \notin {o, NoOwner} => Compatible(granted[k].cov, c)
  /\ granted' = [granted EXCEPT ![l] = [owner |-> o, cov |-> c]]

\* Releases, expiry and crashes take coverage away, from any number of leases.
Shrink ==
  /\ granted' \in [Lease -> [owner : Owner \cup {NoOwner}, cov : Coverage]]
  /\ \A l \in Lease :
       \/ granted'[l] = Nothing
       \/ /\ granted'[l].owner = granted[l].owner
          /\ \A p \in Path : granted'[l].cov[p] \in {granted[l].cov[p], "None"}

Next == Shrink \/ \E l \in Lease, o \in Owner, c \in Coverage : Grant(l, o, c)

Spec == Init /\ [][Next]_granted
=============================================================================
