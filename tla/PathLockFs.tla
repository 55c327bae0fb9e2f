----------------------------- MODULE PathLockFs -----------------------------
(***************************************************************************)
(* PathLock over the filesystem provider, which has no transaction over a  *)
(* batch.  An attempt reads the tokens in the way of each request one by   *)
(* one, writes its holder by compare-and-swap, goes on to the next         *)
(* request, and when all are written reads everything once more; any       *)
(* conflict undoes the holders written so far.  Everything else is         *)
(* PathLock: this module replaces its CommitAcquire and RejectAcquire.     *)
(*                                                                         *)
(* Every read takes the clock afresh and may fail.  The code reads the     *)
(* clock a little before it reads the token, which can only make it see a  *)
(* conflict more, and that is the outcome of a failed read.  A listing of  *)
(* the descendants followed by a read of each listed token is one read per *)
(* descendant, at the listing if it found nothing and else at the read.    *)
(***************************************************************************)
EXTENDS PathLock

VARIABLE scan   \* process -> owner -> where the attempt is

fsvars == <<now, tokens, entries, task, handoffs, unparking, scan>>

\* todo: requests not yet done in this phase; reads: paths still to be read
\* for the first of them; clock: when the last step of the attempt was taken.
NoScan == [phase |-> "none", todo |-> {}, reads |-> {}, clock |-> 0]

below(p) == {d \in Path : p \in ancestor_paths[d]}

\* Mutant: a Tree request does not look below its path.
reads_for_line(r, S) ==
  UNION {ancestor_paths[p] \cup {p} : p \in {q \in S : IsFirst(q, S)}}

\* The paths whose tokens decide about request p: ancestors, the path itself
\* and, for a Tree, everything below.
reads_for(r, S) ==
  UNION {ancestor_paths[p] \cup {p} \cup (IF r[p] = "Tree" THEN below(p) ELSE {}) :
           p \in {q \in S : IsFirst(q, S)}}

\* The next read: the ancestors from the nearest up, then the path itself, then
\* the descendants in no particular order.
IsNextRead(q, p, reads) ==
  /\ q \in reads
  /\ q \in ancestor_paths[p] => \A r \in reads : r \in ancestor_paths[p] => Rank[r] <= Rank[q]
  /\ q = p => reads \cap ancestor_paths[p] = {}
  /\ p \in ancestor_paths[q] => reads \subseteq below(p)

phase_for(phase, r, S) ==
  [phase |-> phase, todo |-> S,
   reads |-> IF phase = "source" THEN {} ELSE reads_for(r, S), clock |-> now]

\* Another owner's token at q stops a request at p: above it only a live Tree
\* does, elsewhere any live token.
stops(q, p, pr, o) ==
  LET kind == live_kind(tokens[q], now_ns(pr) - TTL)
  IN  /\ foreign(tokens[q], o)
      /\ IF q \in ancestor_paths[p] THEN kind = "Tree" ELSE kind # "None"

InPhase(pr, o, phase) == task[pr][o].op = "acquire" /\ scan[pr][o].phase = phase

\* Mutant: a conflict found by the verification rolls nothing back.
give_up_verified(pr, o) ==
  LET t       == task[pr][o]
      s       == scan[pr][o]
      written == IF s.phase = "check" THEN lock_paths(t.req) \ s.todo ELSE {}
  IN  /\ task' = [task EXCEPT ![pr][o] =
                    IF written = {} THEN Idle
                    ELSE [t EXCEPT !.op = "undo", !.result = todo_for(written)]]
      /\ scan' = [scan EXCEPT ![pr][o] = NoScan]
      /\ UNCHANGED <<now, tokens, entries, handoffs, unparking>>

\* The attempt fails: the holders it wrote, if any, are rolled back.
give_up(pr, o) ==
  LET t       == task[pr][o]
      s       == scan[pr][o]
      written == CASE s.phase = "check"  -> lock_paths(t.req) \ s.todo
                   [] s.phase = "verify" -> lock_paths(t.req)
                   [] OTHER              -> {}
  IN  /\ task' = [task EXCEPT ![pr][o] =
                    IF written = {} THEN Idle
                    ELSE [t EXCEPT !.op = "undo", !.result = todo_for(written)]]
      /\ scan' = [scan EXCEPT ![pr][o] = NoScan]
      /\ UNCHANGED <<now, tokens, entries, handoffs, unparking>>

-----------------------------------------------------------------------------
(* try_acquire_batch_once on a provider without transactions *)

FsBegin(pr, o) ==
  LET t == task[pr][o] IN
  /\ InPhase(pr, o, "none")
  /\ scan' = [scan EXCEPT ![pr][o] =
                phase_for(IF t.source = NoLease THEN "check" ELSE "source",
                          t.req, lock_paths(t.req))]
  /\ UNCHANGED vars

\* An adoption first looks at its source at every path.
FsSource(pr, o) ==
  LET t == task[pr][o]
      s == scan[pr][o]
  IN  /\ InPhase(pr, o, "source")
      /\ \E p \in Path :
           /\ IsFirst(p, s.todo)
           /\ validate_handoff_source(tokens[p], o, t.source, t.req[p],
                                      stale_before_at(pr, t.started))
           /\ scan' = [scan EXCEPT ![pr][o] =
                         IF s.todo = {p} THEN phase_for("check", t.req, lock_paths(t.req))
                         ELSE phase_for("source", t.req, s.todo \ {p})]
      /\ UNCHANGED vars

\* check_ancestor_tree_locks, check_lock_paths, check_descendant_locks: one
\* token is read and does not stand in the way.  The last read of the
\* verification ends the attempt.
FsRead(pr, o) ==
  LET t == task[pr][o]
      s == scan[pr][o]
  IN  /\ task[pr][o].op = "acquire"
      /\ \E p \in Path, q \in Path :
           /\ IsFirst(p, s.todo) /\ IsNextRead(q, p, s.reads)
           /\ ~stops(q, p, pr, o)
           /\ scan' = [scan EXCEPT ![pr][o] =
                         IF s.phase = "check" \/ s.reads # {q}
                         THEN [s EXCEPT !.reads = @ \ {q}, !.clock = now]
                         ELSE IF s.todo = {p} THEN NoScan
                         ELSE phase_for("verify", t.req, s.todo \ {p})]
           /\ task' = IF s.phase = "verify" /\ s.reads = {q} /\ s.todo = {p}
                      THEN [task EXCEPT ![pr][o].op = "publish"] ELSE task
      /\ UNCHANGED <<now, tokens, entries, handoffs, unparking>>

\* try_acquire_holder: the clock was read after the last check, the token is
\* replaced as it is now.
FsWrite(pr, o) ==
  LET t == task[pr][o]
      s == scan[pr][o]
  IN  /\ InPhase(pr, o, "check")
      /\ s.reads = {}
      /\ \E p \in Path, stamp \in s.clock .. now :
           LET sb == stale_before_at(pr, stamp) IN
           /\ IsFirst(p, s.todo)
           /\ t.source # NoLease =>
                validate_handoff_source(tokens[p], o, t.source, t.req[p], sb)
           /\ ~conflict_at(tokens, p, o, sb)
           /\ tokens' = [tokens EXCEPT ![p] =
                           with_holder(@, o, t.lease, t.req[p], stamp + Skew[pr], sb, t.source)]
           /\ task' = [task EXCEPT ![pr][o].replaced[p] =
                         {h \in tokens[p].holders : h.id = t.source}]
           /\ scan' = [scan EXCEPT ![pr][o] =
                         IF s.todo = {p} THEN phase_for("verify", t.req, lock_paths(t.req))
                         ELSE phase_for("check", t.req, s.todo \ {p})]
      /\ UNCHANGED <<now, entries, handoffs, unparking>>

\* The attempt meets another owner's token after it wrote its own: it backs off.
BackOff(pr, o) ==
  /\ InPhase(pr, o, "verify")
  /\ \E p \in Path, q \in Path :
       /\ IsFirst(p, scan[pr][o].todo) /\ IsNextRead(q, p, scan[pr][o].reads)
       /\ stops(q, p, pr, o)
  /\ give_up(pr, o)

\* A conflict before the write, a source that is gone, a storage error, or the
\* compare-and-swap lost HOLDER_CAS_ATTEMPTS times.
FsFail(pr, o) ==
  /\ task[pr][o].op = "acquire" /\ scan[pr][o].phase # "none"
  /\ give_up(pr, o)

FsCrash(pr) == Crash(pr) /\ scan' = [scan EXCEPT ![pr] = [o \in Owner |-> NoScan]]

FsInit == Init /\ scan = [pr \in Proc |-> [o \in Owner |-> NoScan]]

FsAttempt(pr, o) ==
  \/ FsBegin(pr, o)
  \/ FsSource(pr, o)
  \/ FsRead(pr, o)
  \/ FsWrite(pr, o)
  \/ BackOff(pr, o)
  \/ FsFail(pr, o)

FsNext ==
  \/ \E pr \in Proc, o \in Owner :
       \/ Acquiring(pr, o) /\ UNCHANGED scan
       \/ FsAttempt(pr, o)
       \/ Holding(pr, o) /\ UNCHANGED scan
  \/ \E pr \in Proc, l \in Lease : Unpark(pr, l) /\ UNCHANGED scan
  \/ \E m \in handoffs : AckHandoff(m) /\ UNCHANGED scan
  \/ Tick /\ UNCHANGED scan
  \/ \E pr \in Crashing : FsCrash(pr)

FsSpec == FsInit /\ [][FsNext]_fsvars

\* The properties of PathLock are checked of FsSpec as well.
=============================================================================
