------------------------------ MODULE PathLock ------------------------------
(***************************************************************************)
(* PathLock managers over one shared token store (crates/ragfs/src/lock).  *)
(*                                                                         *)
(* Every process runs a PathLockManager with its own registry of leases.   *)
(* A registry is split by owner and each owner's part is guarded by an     *)
(* async mutex held across the storage calls of one operation, so at most  *)
(* one operation per (process, owner) is in flight: task[pr][o].  Between  *)
(* two steps of an operation other owners and other processes run, time    *)
(* passes and the process may die.  The storage transactions themselves    *)
(* (memory, SQLite) are atomic and each is one step.                       *)
(*                                                                         *)
(* Two clocks appear in the code: the monotonic clock that ends a local    *)
(* authorization, and the wall clock written into tokens and used to call  *)
(* them stale.  `now' is true time; a process reads now + Skew[pr] from    *)
(* its wall clock and measures elapsed time exactly.                       *)
(***************************************************************************)
EXTENDS PathLockTokens, FiniteSets

CONSTANTS
  Proc, NoProc,
  Request,        \* the batches callers ask for
  Skew,           \* wall clock offset of each process
  TTL,            \* lock_expire_secs
  Validity,       \* LEASE_VALIDITY_RATIO * lock_expire_secs
  CleanupWindow,  \* CLEANUP_RETRY_INTERVALS heartbeats
  MaxTime,        \* bound on time, for model checking
  MaxHandoffs,    \* bound on the handoff references queued at once
  Crashing,       \* the processes that may die
  Outcome         \* may a storage call succeed (TRUE), fail (FALSE)?

ASSUME TimeAssumption ==
  /\ TTL \in Nat /\ Validity \in Nat /\ CleanupWindow \in Nat /\ MaxTime \in Nat
  /\ MaxHandoffs \in Nat
  /\ 0 < Validity /\ Validity < TTL

\* Wall clocks disagree by no more than the margin between the local deadline
\* and the expiry of the token.
ASSUME SkewAssumption ==
  /\ Skew \in [Proc -> Nat]
  /\ \A p, q \in Proc : Skew[p] - Skew[q] <= TTL - Validity

ASSUME RequestAssumption ==
  /\ Request \subseteq Coverage
  /\ \A r \in Request : lock_paths(r) # {}
  /\ NoProc \notin Proc /\ Crashing \subseteq Proc /\ Outcome \subseteq BOOLEAN

VARIABLES
  now,        \* true time
  tokens,     \* the shared store: path -> token
  entries,    \* the registries: lease -> its entry, and in whose registry
  task,       \* process -> owner -> the operation that holds the owner mutex
  handoffs,   \* handoff references in durable queues
  unparking   \* <<process, source>> of adoptions that still have to drop the
              \* source from the local registry

vars == <<now, tokens, entries, task, handoffs, unparking>>

-----------------------------------------------------------------------------
Reason == {"TokenLost", "ConfirmationDeadlineExceeded", "ReleaseFailed"}

NoCoverage == [p \in Path |-> "None"]

\* LeaseEntry with its lease, its TokenHealth per path (conf, the last
\* confirmation) and the holder it was adopted from.
Entry ==
  [proc : Proc \cup {NoProc}, owner : Owner \cup {NoOwner}, cov : Coverage,
   conf : [Path -> Nat], pending_handoff : BOOLEAN,
   invalidation : Reason \cup {"None"}, at : Nat, source : Lease \cup {NoLease}]

NoEntry ==
  [proc |-> NoProc, owner |-> NoOwner, cov |-> NoCoverage,
   conf |-> [p \in Path |-> 0], pending_handoff |-> FALSE,
   invalidation |-> "None", at |-> 0, source |-> NoLease]

Published(l) == entries[l].proc # NoProc

\* An operation in flight: the lease it is about, the batch and the source of
\* an acquisition, the capability it was called with, when it started, and the
\* outcome of its storage call at each path.
TaskRecord ==
  [op : {"idle", "acquire", "publish", "undo", "refresh", "release"},
   lease : Lease \cup {NoLease}, req : Coverage, source : Lease \cup {NoLease},
   cap : Lease \cup {NoLease}, started : Nat,
   result : [Path -> {"none", "todo", "ok", "lost", "err"}],
   replaced : [Path -> SUBSET Holder]]

Task == {t \in TaskRecord : t.op # "idle" => t.lease \in Lease}

NoResult == [p \in Path |-> "none"]

Idle ==
  [op |-> "idle", lease |-> NoLease, req |-> NoCoverage, source |-> NoLease,
   cap |-> NoLease, started |-> 0, result |-> NoResult,
   replaced |-> [p \in Path |-> {}]]

Todo(t) == {p \in Path : t.result[p] = "todo"}

todo_for(S) == [p \in Path |-> IF p \in S THEN "todo" ELSE "none"]

now_ns(pr) == now + Skew[pr]

\* stale_before of an operation that read its clock at `started'.
stale_before_at(pr, started) == started + Skew[pr] - TTL

-----------------------------------------------------------------------------
(* OwnerRegistry *)

registry(E, pr, o) == {l \in Lease : E[l].proc = pr /\ E[l].owner = o}

expired(entry) ==
  \E p \in lock_paths(entry.cov) : now - entry.conf[p] >= Validity

\* Mutant: every failure restarts the cleanup window.
invalidate_again(entry, reason) == [entry EXCEPT !.invalidation = reason, !.at = now]

\* The first reason and time are kept.
invalidate(entry, reason) ==
  IF entry.invalidation = "None"
  THEN [entry EXCEPT !.invalidation = reason, !.at = now]
  ELSE entry

invalidate_expired(E, pr, o) ==
  [l \in Lease |-> IF l \in registry(E, pr, o) /\ expired(E[l])
                   THEN invalidate(E[l], "ConfirmationDeadlineExceeded")
                   ELSE E[l]]

capability_matches(E, pr, l) ==
  E[l].proc = pr /\ ~E[l].pending_handoff /\ E[l].invalidation = "None"

remove_path(entry, p) ==
  IF lock_paths(entry.cov) \subseteq {p} THEN NoEntry
  ELSE [entry EXCEPT !.cov[p] = "None", !.conf[p] = 0]

\* Mutant: late results are applied before the deadline is looked at.
apply_refresh_results_late(E, pr, o, l, result, started) ==
  LET conf == [p \in Path |-> IF result[p] = "ok" THEN started ELSE E[l].conf[p]]
      kept == [E[l] EXCEPT !.conf = conf]
  IN  invalidate_expired(
        [E EXCEPT ![l] = IF \E p \in Path : result[p] = "lost"
                         THEN invalidate(kept, "TokenLost") ELSE kept], pr, o)

apply_refresh_results(E, pr, o, l, result, started) ==
  LET first  == invalidate_expired(E, pr, o)
      conf   == [p \in Path |-> IF result[p] = "ok" THEN started ELSE first[l].conf[p]]
      kept   == [first[l] EXCEPT !.conf = conf]
      second == [first EXCEPT ![l] =
                   IF \E p \in Path : result[p] = "lost"
                   THEN invalidate(kept, "TokenLost") ELSE kept]
  IN  invalidate_expired(second, pr, o)

\* The lease authorizes protected writes: every lookup first runs
\* invalidate_expired and then asks for an entry that is neither parked nor
\* invalidated.
Usable(l) ==
  Published(l) /\ ~entries[l].pending_handoff /\ entries[l].invalidation = "None"

Authorized(l) == Usable(l) /\ ~expired(entries[l])

\* The part of an authorization that rests on the token of one path.
AuthorizedAt(l, p) ==
  Usable(l) /\ entries[l].cov[p] # "None" /\ now - entries[l].conf[p] < Validity

-----------------------------------------------------------------------------
(* Identities.  The code draws a UUID for each owner and lease; an identity *)
(* that nothing refers to any more is as good as a new one.                 *)

FreshLease(l) ==
  /\ ~Published(l)
  /\ \A k \in Lease : entries[k].source # l
  /\ \A p \in Path : \A h \in tokens[p].holders : h.id # l
  /\ \A pr \in Proc, o \in Owner :
        task[pr][o].lease # l /\ task[pr][o].source # l /\ task[pr][o].cap # l
  /\ \A m \in handoffs : m.lease # l
  /\ \A u \in unparking : u[2] # l

FreshOwner(o) ==
  /\ \A l \in Lease : entries[l].owner # o
  /\ \A p \in Path : tokens[p].owner # o
  /\ \A pr \in Proc : task[pr][o].op = "idle"
  /\ \A m \in handoffs : m.owner # o

-----------------------------------------------------------------------------
Init ==
  /\ now = 0
  /\ tokens = [p \in Path |-> NoToken]
  /\ entries = [l \in Lease |-> NoEntry]
  /\ task = [pr \in Proc |-> [o \in Owner |-> Idle]]
  /\ handoffs = {}
  /\ unparking = {}

(* acquire_batch_for_owner: take the owner mutex and start one attempt.  A   *)
(* retry after a conflict is a new attempt.                                  *)

start_acquire(pr, o, l, r, source, cap) ==
  /\ task[pr][o].op = "idle"
  /\ task' = [task EXCEPT ![pr][o] =
                [Idle EXCEPT !.op = "acquire", !.lease = l, !.req = r,
                             !.source = source, !.cap = cap, !.started = now]]
  /\ entries' = invalidate_expired(entries, pr, o)
  /\ UNCHANGED <<now, tokens, handoffs, unparking>>

\* acquire_batch with no capability: a new owner.
AcquireBatch(pr, o, l, r) ==
  /\ FreshOwner(o) /\ FreshLease(l)
  /\ start_acquire(pr, o, l, r, NoLease, NoLease)

\* acquire_batch under the owner of a lease the caller holds.
AcquireReentrant(pr, o, l, r, cap) ==
  /\ FreshLease(l)
  /\ entries[cap].owner = o
  /\ capability_matches(invalidate_expired(entries, pr, o), pr, cap)
  /\ start_acquire(pr, o, l, r, NoLease, cap)

\* reacquire_batch: the owner and coverage of a durable handoff, a new holder.
ReacquireBatch(pr, o, l, m) ==
  /\ FreshLease(l) /\ m.owner = o
  /\ start_acquire(pr, o, l, m.cov, NoLease, NoLease)

\* adopt: a source in this process's registry must be parked and match.
Adopt(pr, o, l, m) ==
  /\ FreshLease(l) /\ m.owner = o
  /\ entries[m.lease].proc = pr =>
        entries[m.lease].pending_handoff /\ entries[m.lease].cov = m.cov
  /\ start_acquire(pr, o, l, m.cov, m.lease, NoLease)

\* try_acquire_batch_once on a transactional provider: the batch is granted.
CommitAcquire(pr, o) ==
  LET t  == task[pr][o]
      sb == stale_before_at(pr, t.started)
  IN  /\ t.op = "acquire"
      /\ sources_valid(tokens, t.req, o, t.source, sb)
      /\ ~has_conflict(tokens, t.req, o, sb)
      /\ tokens' = acquire_holder_records(tokens, t.req, o, t.lease,
                                          t.started + Skew[pr], sb, t.source)
      /\ task' = [task EXCEPT ![pr][o] =
                    [t EXCEPT !.op = "publish",
                              !.replaced = [p \in Path |->
                                 {h \in tokens[p].holders :
                                    t.req[p] # "None" /\ h.id = t.source}]]]
      /\ UNCHANGED <<now, entries, handoffs, unparking>>

\* The attempt fails: a conflict, a source that is gone, or a storage error
\* before anything was written.  The memory provider keeps the deletions of
\* stale tokens it made before it met the conflict.
RejectAcquire(pr, o) ==
  LET t  == task[pr][o]
      sb == stale_before_at(pr, t.started)
  IN  /\ t.op = "acquire"
      /\ \/ UNCHANGED tokens
         \/ /\ has_conflict(tokens, t.req, o, sb)
            /\ \E S \in SUBSET stale_in_way(tokens, t.req, o, sb) :
                  tokens' = remove_stale(tokens, S)
      /\ task' = [task EXCEPT ![pr][o] = Idle]
      /\ UNCHANGED <<now, entries, handoffs, unparking>>

\* Back in the manager with the tokens written: the capability and the
\* validity of the confirmation are checked again before the lease is
\* inserted and published.
acquired_in_time(E, pr, t) ==
  /\ now - t.started < Validity
  /\ t.cap # NoLease => capability_matches(E, pr, t.cap)

PublishLease(pr, o) ==
  LET t == task[pr][o]
      E == invalidate_expired(entries, pr, o)
  IN  /\ t.op = "publish"
      /\ acquired_in_time(E, pr, t)
      /\ entries' = [E EXCEPT ![t.lease] =
                       [NoEntry EXCEPT !.proc = pr, !.owner = o, !.cov = t.req,
                                       !.conf = [p \in Path |->
                                          IF t.req[p] = "None" THEN 0 ELSE t.started],
                                       !.source = t.source]]
      /\ task' = [task EXCEPT ![pr][o] = Idle]
      /\ unparking' = IF t.source = NoLease THEN unparking
                      ELSE unparking \cup {<<pr, t.source>>}
      /\ UNCHANGED <<now, tokens, handoffs>>

RollbackLease(pr, o) ==
  LET t == task[pr][o]
      E == invalidate_expired(entries, pr, o)
  IN  /\ t.op = "publish"
      /\ ~acquired_in_time(E, pr, t)
      /\ entries' = E
      /\ task' = [task EXCEPT ![pr][o] =
                    [t EXCEPT !.op = "undo", !.result = todo_for(lock_paths(t.req))]]
      /\ UNCHANGED <<now, tokens, handoffs, unparking>>

\* Mutant: the rollback ends with the first path it undoes.
UndoPathOnce(pr, o, ok) ==
  LET t == task[pr][o] IN
  /\ t.op = "undo"
  /\ \E p \in Path :
       /\ IsLast(p, Todo(t))
       /\ tokens' = IF ~ok THEN tokens
                    ELSE [tokens EXCEPT ![p] =
                            mutate_holder_record(@, o, t.lease, now_ns(pr), 0, TRUE)]
  /\ task' = [task EXCEPT ![pr][o] = Idle]
  /\ UNCHANGED <<now, entries, handoffs, unparking>>

\* rollback_holders, last path first: remove the new holder or put the
\* replaced source back.  An error leaves the holder to expire.
UndoPath(pr, o, ok) ==
  LET t == task[pr][o] IN
  /\ t.op = "undo"
  /\ \E p \in Path :
       /\ IsLast(p, Todo(t))
       /\ tokens' = IF ~ok THEN tokens
                    ELSE [tokens EXCEPT ![p] =
                            IF t.replaced[p] # {}
                            THEN replace_holder(@, o, t.lease, t.replaced[p], now_ns(pr) - TTL)
                            ELSE mutate_holder_record(@, o, t.lease, now_ns(pr), 0, TRUE)]
       /\ task' = [task EXCEPT ![pr][o] =
                     IF Todo(t) = {p} THEN Idle
                     ELSE [t EXCEPT !.result[p] = IF ok THEN "ok" ELSE "err"]]
  /\ UNCHANGED <<now, entries, handoffs, unparking>>

\* adopt, last part: a source still parked here leaves the local registry.
Unpark(pr, l) ==
  /\ <<pr, l>> \in unparking
  /\ entries[l].proc = pr => task[pr][entries[l].owner].op = "idle"
  /\ entries' = [entries EXCEPT ![l] =
                   IF @.proc = pr /\ @.pending_handoff THEN NoEntry ELSE @]
  /\ unparking' = unparking \ {<<pr, l>>}
  /\ UNCHANGED <<now, tokens, task, handoffs>>

-----------------------------------------------------------------------------
(* Renewal: the heartbeat and refresh() share these steps. *)

\* The heartbeat also renews parked leases, never invalidated ones.
StartRefresh(pr, o, l) ==
  LET E == invalidate_expired(entries, pr, o) IN
  /\ task[pr][o].op = "idle"
  /\ l \in registry(entries, pr, o)
  /\ entries' = E
  /\ task' = IF E[l].invalidation = "None"
             THEN [task EXCEPT ![pr][o] =
                     [Idle EXCEPT !.op = "refresh", !.lease = l, !.started = now,
                                  !.result = todo_for(lock_paths(E[l].cov))]]
             ELSE task
  /\ UNCHANGED <<now, tokens, handoffs, unparking>>

\* mutate_holder at one path with the clock read when the refresh started.
RefreshPath(pr, o, ok) ==
  LET t  == task[pr][o]
      sb == stale_before_at(pr, t.started)
  IN  /\ t.op = "refresh"
      /\ \E p \in Path :
           /\ IsFirst(p, Todo(t))
           /\ tokens' = IF ~ok THEN tokens
                        ELSE [tokens EXCEPT ![p] =
                                mutate_holder_record(@, o, t.lease, t.started + Skew[pr], sb, FALSE)]
           /\ task' = [task EXCEPT ![pr][o] =
                         [t EXCEPT !.result[p] =
                            IF ~ok THEN "err"
                            ELSE IF holder_found(tokens[p], o, t.lease, sb, FALSE)
                                 THEN "ok" ELSE "lost"]]
      /\ UNCHANGED <<now, entries, handoffs, unparking>>

ApplyRefresh(pr, o) ==
  LET t == task[pr][o] IN
  /\ t.op = "refresh"
  /\ Todo(t) = {}
  /\ entries' = apply_refresh_results(entries, pr, o, t.lease, t.result, t.started)
  /\ task' = [task EXCEPT ![pr][o] = Idle]
  /\ UNCHANGED <<now, tokens, handoffs, unparking>>

-----------------------------------------------------------------------------
(* Release, selected release and cleanup of invalidated leases *)

start_release(pr, o, l, S) ==
  /\ task' = [task EXCEPT ![pr][o] =
                [Idle EXCEPT !.op = "release", !.lease = l, !.started = now,
                             !.result = todo_for(S)]]
  /\ UNCHANGED <<now, tokens, entries, handoffs, unparking>>

\* release and release_selected: allowed after invalidation, not once parked.
Release(pr, o, l, S) ==
  /\ task[pr][o].op = "idle"
  /\ l \in registry(entries, pr, o)
  /\ ~entries[l].pending_handoff
  /\ S # {} /\ S \subseteq lock_paths(entries[l].cov)
  /\ start_release(pr, o, l, S)

\* The heartbeat retries the release of an invalidated lease...
Cleanup(pr, o, l) ==
  /\ task[pr][o].op = "idle"
  /\ l \in registry(entries, pr, o)
  /\ entries[l].invalidation # "None"
  /\ now - entries[l].at < CleanupWindow
  /\ start_release(pr, o, l, lock_paths(entries[l].cov))

\* ... and forgets it once the retry window is over.
Forget(pr, o, l) ==
  /\ task[pr][o].op = "idle"
  /\ l \in registry(entries, pr, o)
  /\ entries[l].invalidation # "None"
  /\ now - entries[l].at >= CleanupWindow
  /\ entries' = [entries EXCEPT ![l] = NoEntry]
  /\ UNCHANGED <<now, tokens, task, handoffs, unparking>>

\* Mutant: a path counts as released even if the store reports an error.
ReleasePathBlindly(pr, o, ok) ==
  LET t == task[pr][o] IN
  /\ t.op = "release"
  /\ \E p \in Path :
       /\ IsFirst(p, Todo(t))
       /\ tokens' = IF ~ok THEN tokens
                    ELSE [tokens EXCEPT ![p] =
                            mutate_holder_record(@, o, t.lease, now_ns(pr), 0, TRUE)]
       /\ entries' = [entries EXCEPT ![t.lease] = remove_path(@, p)]
       /\ task' = [task EXCEPT ![pr][o] =
                     IF Todo(t) = {p} THEN Idle ELSE [t EXCEPT !.result[p] = "ok"]]
  /\ UNCHANGED <<now, handoffs, unparking>>

\* One path of a release.  A holder already absent counts as released; an
\* error revokes the authorization and keeps the path for cleanup.
ReleasePath(pr, o, ok) ==
  LET t == task[pr][o] IN
  /\ t.op = "release"
  /\ \E p \in Path :
       /\ IsFirst(p, Todo(t))
       /\ tokens' = IF ~ok THEN tokens
                    ELSE [tokens EXCEPT ![p] =
                            mutate_holder_record(@, o, t.lease, now_ns(pr), 0, TRUE)]
       /\ entries' = [entries EXCEPT ![t.lease] =
                        IF ok THEN remove_path(@, p) ELSE invalidate(@, "ReleaseFailed")]
       /\ task' = [task EXCEPT ![pr][o] =
                     IF Todo(t) = {p} THEN Idle ELSE [t EXCEPT !.result[p] = "ok"]]
  /\ UNCHANGED <<now, handoffs, unparking>>

-----------------------------------------------------------------------------
(* Handoff *)

\* handoff() parks the lease; its reference goes into a durable queue.
Handoff(pr, o, l) ==
  LET E == invalidate_expired(entries, pr, o) IN
  /\ task[pr][o].op = "idle"
  /\ l \in registry(entries, pr, o)
  /\ Cardinality(handoffs) < MaxHandoffs
  /\ IF capability_matches(E, pr, l)
     THEN /\ entries' = [E EXCEPT ![l].pending_handoff = TRUE]
          /\ handoffs' = handoffs \cup {[lease |-> l, owner |-> o, cov |-> E[l].cov]}
     ELSE entries' = E /\ UNCHANGED handoffs
  /\ UNCHANGED <<now, tokens, task, unparking>>

\* The queue acknowledges the message; until then it may be delivered again.
AckHandoff(m) ==
  /\ m \in handoffs
  /\ handoffs' = handoffs \ {m}
  /\ UNCHANGED <<now, tokens, entries, task, unparking>>

\* get_owned_lease*, require_covered_lease_ref, resolve_auto_pathlock_action.
Lookup(pr, o) ==
  /\ task[pr][o].op = "idle"
  /\ registry(entries, pr, o) # {}
  /\ entries' = invalidate_expired(entries, pr, o)
  /\ UNCHANGED <<now, tokens, task, handoffs, unparking>>

-----------------------------------------------------------------------------
Tick ==
  /\ now < MaxTime
  /\ now' = now + 1
  /\ UNCHANGED <<tokens, entries, task, handoffs, unparking>>

\* The process dies and restarts: its registry and its operations are gone,
\* what it wrote into the store stays.
Crash(pr) ==
  /\ entries' = [l \in Lease |-> IF entries[l].proc = pr THEN NoEntry ELSE entries[l]]
  /\ task' = [task EXCEPT ![pr] = [o \in Owner |-> Idle]]
  /\ unparking' = {u \in unparking : u[1] # pr}
  /\ UNCHANGED <<now, tokens, handoffs>>

Acquiring(pr, o) ==
  \/ \E l \in Lease, r \in Request : AcquireBatch(pr, o, l, r)
  \/ \E l \in Lease, r \in Request, cap \in Lease : AcquireReentrant(pr, o, l, r, cap)
  \/ \E l \in Lease, m \in handoffs : ReacquireBatch(pr, o, l, m)
  \/ \E l \in Lease, m \in handoffs : Adopt(pr, o, l, m)
  \/ PublishLease(pr, o)
  \/ RollbackLease(pr, o)
  \/ \E ok \in Outcome : UndoPath(pr, o, ok)

Holding(pr, o) ==
  \/ \E l \in Lease : StartRefresh(pr, o, l)
  \/ \E ok \in Outcome : RefreshPath(pr, o, ok)
  \/ ApplyRefresh(pr, o)
  \/ \E l \in Lease, S \in SUBSET Path : Release(pr, o, l, S)
  \/ \E l \in Lease : Cleanup(pr, o, l)
  \/ \E l \in Lease : Forget(pr, o, l)
  \/ \E ok \in Outcome : ReleasePath(pr, o, ok)
  \/ \E l \in Lease : Handoff(pr, o, l)
  \/ Lookup(pr, o)

Environment ==
  \/ \E m \in handoffs : AckHandoff(m)
  \/ Tick
  \/ \E pr \in Crashing : Crash(pr)

Next ==
  \/ \E pr \in Proc, o \in Owner :
       \/ Acquiring(pr, o)
       \/ CommitAcquire(pr, o)
       \/ RejectAcquire(pr, o)
       \/ Holding(pr, o)
  \/ \E pr \in Proc, l \in Lease : Unpark(pr, l)
  \/ Environment

Spec == Init /\ [][Next]_vars

\* Storage calls return, with or without an error, and the heartbeat gets its
\* turn at the owner mutex (a fair queue) however busy the owner is.
Progress(pr, o) ==
  \/ CommitAcquire(pr, o)
  \/ RejectAcquire(pr, o)
  \/ PublishLease(pr, o)
  \/ RollbackLease(pr, o)
  \/ \E ok \in Outcome : UndoPath(pr, o, ok)
  \/ \E ok \in Outcome : RefreshPath(pr, o, ok)
  \/ ApplyRefresh(pr, o)
  \/ \E ok \in Outcome : ReleasePath(pr, o, ok)

Fairness ==
  /\ WF_vars(Tick)
  /\ \A pr \in Proc, o \in Owner :
       /\ WF_vars(Progress(pr, o))
       /\ \A l \in Lease : SF_vars(Forget(pr, o, l))

FairSpec == Spec /\ Fairness

-----------------------------------------------------------------------------
(* Properties *)

TypeOK ==
  /\ now \in Nat
  /\ tokens \in [Path -> Token]
  /\ entries \in [Lease -> Entry]
  /\ task \in [Proc -> [Owner -> Task]]
  /\ handoffs \subseteq [lease : Lease, owner : Owner, cov : Coverage]
  /\ unparking \subseteq Proc \X Lease

\* Two owners are never both authorized to mutate one path, whatever kinds
\* and paths their leases were granted on, however late their refreshes and
\* acquisitions complete and whatever processes died on the way.
MutualExclusion ==
  \A l, k \in Lease :
    Authorized(l) /\ Authorized(k) /\ entries[l].owner # entries[k].owner =>
      \A p \in Path : ~(covers(entries[l].cov, p, "Exact") /\ covers(entries[k].cov, p, "Exact"))

\* The promise to callers, as the leases that authorize at this moment.
Granted ==
  [l \in Lease |->
     IF Authorized(l) THEN [owner |-> entries[l].owner, cov |-> entries[l].cov]
     ELSE [owner |-> NoOwner, cov |-> NoCoverage]]

Abstract == INSTANCE LeaseLock WITH granted <- Granted

\* The managers and the store together implement LeaseLock: a lease starts to
\* authorize only while no lease of another owner authorizes a path it meets.
ImplementsLeaseLock == Abstract!Spec

\* The store backs the lease at p: the holder is there, with the kind asked
\* for, and no process takes it for stale.
Backed(l, p) ==
  /\ tokens[p].owner = entries[l].owner
  /\ \E h \in tokens[p].holders :
       /\ h.id = l /\ h.kind = entries[l].cov[p]
       /\ \A pr \in Proc : h.time >= now_ns(pr) - TTL

\* An authorization at a path has its holder in the store: no takeover,
\* sibling release, partial refresh or undone handoff may take it away before
\* the local authorization has ended.
HolderBacked ==
  \A l \in Lease, p \in Path : AuthorizedAt(l, p) => Backed(l, p)

\* What a lease authorizes is its owner's alone in the store: on no path it covers
\* is there a holder of another owner, be it parked for a handoff, expired, revived
\* by a slow refresh or put back by the undo of an adoption.
Undisputed ==
  \A l \in Lease, p \in Path :
    Authorized(l) /\ covers(entries[l].cov, p, "Exact") /\ tokens[p].holders # {} =>
      tokens[p].owner = entries[l].owner

\* A handoff reference delivered twice yields one adopted lease.
AdoptedOnce ==
  \A l, k \in Lease :
    Published(l) /\ Published(k) /\ entries[l].source # NoLease
      /\ entries[l].source = entries[k].source => l = k

\* A published lease that lost its authorization at a path, by deadline, token
\* loss, failed release or handoff, never has it again: a late refresh does not
\* restore it.
RevocationIsFinal ==
  [][\A l \in Lease, p \in Path :
       Published(l) /\ ~AuthorizedAt(l, p) => ~AuthorizedAt(l, p)']_vars

\* A lease that leaves its registry leaves no holder behind to block other owners,
\* unless the process died, gave up at the end of the cleanup window, or cleaned up a
\* parked lease, whose holder an adoption that is being undone may put back behind it.
NoHolderLeftBehind ==
  [][\A l \in Lease :
       /\ Published(l) /\ ~Published(l)'
       /\ ~(\E pr \in Proc : Crash(pr))
       /\ ~(\E pr \in Proc, o \in Owner : Forget(pr, o, l))
       /\ ~(entries[l].pending_handoff /\ \E pr \in Proc, o \in Owner : ReleasePath(pr, o, TRUE))
       => \A p \in Path : \A h \in tokens'[p].holders : h.id # l]_vars

\* A lease that lost its authorization leaves the registry: the heartbeat gives
\* up on it at the end of the cleanup window even if every release fails.  (Of
\* windows that end within MaxTime.)
InvalidatedLeaves ==
  \A l \in Lease :
    (Published(l) /\ entries[l].invalidation # "None" /\ entries[l].at + CleanupWindow <= MaxTime)
      ~> ~Published(l)

\* The attempt of this process and owner ends in failure, at a path whose undo
\* did not fail.
UndoneAt(pr, o, p) ==
  /\ task[pr][o].op \in {"acquire", "undo"} /\ task[pr][o].req[p] # "None"
  /\ task'[pr][o].op = "idle" /\ ~Crash(pr)
  /\ task[pr][o].result[p] # "err"
  /\ ~(Todo(task[pr][o]) = {p} /\ UndoPath(pr, o, FALSE))

\* An acquisition that fails after it wrote some or all of its holders leaves
\* none of them behind.
AllOrNothing ==
  [][\A pr \in Proc, o \in Owner, p \in Path :
       UndoneAt(pr, o, p) => \A h \in tokens'[p].holders : h.id # task[pr][o].lease]_vars

\* A failed adoption leaves the producer's parked lease, if that is still valid, backed
\* as it was, unless the attempt took so long that the holder standing in for it expired.
SourceRestored ==
  [][\A pr \in Proc, o \in Owner, p \in Path, src \in Lease :
       /\ UndoneAt(pr, o, p) /\ task[pr][o].replaced[p] # {} /\ task[pr][o].source = src
       /\ \A qr \in Proc : task[pr][o].started + Skew[pr] >= now_ns(qr) - TTL
       /\ Published(src) /\ entries[src].invalidation = "None" /\ ~expired(entries[src])
       => Backed(src, p)']_vars
=============================================================================
