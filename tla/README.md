# Verification of OpenViking

OpenViking is a context database for agents: a virtual filesystem (`viking://`) over
pluggable storage, durable queues that turn written content into summaries and vectors,
sessions that are archived and distilled into memories, and retrieval over the result.
Several server processes may share one storage. What keeps their writes apart is
**PathLock**, the lock subsystem of the Rust crate `ragfs` (`crates/ragfs/src/lock`), and
that is where this verification starts: it is the part every mutating operation goes
through, it is concurrent, distributed over processes, depends on clocks, and survives
crashes, handoffs and failing storage. The second part is **QueueFS**, the durable queues
between the services, with the workers that consume them. The third is what the services do
over locks and queues: **background tasks** and the work they consist of, the **deletion** of
accounts and users, and the two-phase **commit of sessions** with the readers beside it.

Line numbers below refer to `crates/ragfs/src/lock/` unless a path is given.

## 1. Inventory

| Component | State | Operations | Interacts with | Hard behaviour | What makes it correct |
|---|---|---|---|---|---|
| PathLock tokens (`types.rs`, `provider.rs`, `resolver.rs`) | one token per path in a shared store: owner, holders with kind and timestamp | acquire a batch, refresh, release or replace one holder, remove stale tokens | called by every PathLockManager | several leases of one owner share a token; expiry judged by another process's clock | a conflict is found whichever of the two owners is above, below or at the path |
| PathLock manager (`manager.rs`) | registry of leases split by owner; per lease the coverage, the last confirmation of each token, parked / invalidated flags | acquire, re-enter, reacquire, adopt, refresh, release, selected release, handoff, lookup, heartbeat with cleanup | store, durable queues (handoff references), protected filesystem | awaits between reading and using state, late results, partial failure, crash, duplicate handoff | owners never overlap; an authorization is always backed by the store; what is lost stays lost; nothing is left behind |
| Filesystem provider (`provider.rs`, `try_acquire_batch_once`) | tokens as sidecar files | check, write by compare-and-swap, verify, back off | same | no transaction over a batch | two attempts that race see each other |
| Redis provider (`cache_provder.rs`) | tokens as hash fields, server clock | Lua scripts for the same operations | same | server time, scope scans | as for the other providers |
| Protected filesystem (`wrapper.rs`) | none | every mutating file call checks or takes a lease | manager, mounted filesystems | a write outlives its authorization | no mutation without authorization at its start |
| Handoff recovery (`openviking/storage/pathlock_recovery.py`) | retry counter | adopt, else reacquire, else fail | manager, queues | retry of what was already done | a message ends adopted, reacquired or failed |
| QueueFS (`crates/ragfs/src/plugins/queuefs`) | pending and processing messages per queue; heartbeats of instances (Redis) | enqueue, dequeue, ack, recover stale, clear | queue workers | crash between dequeue and ack; a late ack after recovery | every message is delivered until acknowledged |
| Queue workers (`openviking/storage/queuefs`) | in-flight counters, stop flags | poll, handle, acknowledge, drain | QueueFS, processors | shutdown against running handlers | completion is reported only when nothing is pending or processing |
| Queue processors (`semantic_processor.py` and others) | coalesced work, adopted leases | build summaries, re-enqueue parents | queues, PathLock, models | coalescing while a run is in progress | the last change is reflected |
| Session commit (`openviking/session/session.py`) | live messages, numbered archives with their marker files, the counter of commits | append, commit (Phase 1), publish, extract memories (Phase 2), reset the context, retry, read the context | PathLock, queues, tasks | crash at any file of Phase 1, publication after the lock is released, archives handled side by side, readers without a lock | no message is lost or hidden from a reader; memories are extracted in archive order; a commit comes to an end |
| Task tracker, store and queue middleware (`openviking/service/task_*.py`) | durable task records; work records in memory, rebuilt from the queues | create, withdraw, run inline, enqueue, start, finish, requeue, cancel, expire | queues, every service | results, cancellations and deliveries in any order; enqueues that fail after they took effect; restart without the work records | a task ends once, when nothing of it is left, and stays ended |
| Deletion (`openviking/service/deletion.py`) | a fence in the account store, a cleanup task and its queue message | request, replace, cancel the tasks of the identity, erase, finish, resume at start | account store, tasks, queues | tasks created while their owner goes; requests that meet a cleanup; restart | nothing is erased under a running handler, nothing outlives its owner |
| Multi-backend storage (`crates/ragfs/src/multibackend`) | change log and checkpoints per backend | write to primary, catch up | filesystems | partial failure, restart | backends converge |
| Cache and cache runtime | cached entries, generations | read through, invalidate | filesystems | invalidation against a read in flight | no stale read after a write |
| Viking filesystem, access control, resource and content services | none of their own | orchestrate locks, files and queues | all of the above | one step of several failing | lock held over the whole operation |
| Vector database, C++ index, parsing, models, retrieval, server, CLI, SDKs, bot | indexes, connections | numeric search, model calls, HTTP | services | external services | outside the reach of model checking |

`PROJECT.json` lists the components with their sources and status, and the hazards with the
lines where they bite.

## 2. What is modelled

    PathLockTokens          tokens, coverage, conflicts: pure operators
      |-- LeaseLock         what PathLock promises its callers (abstract specification)
      |-- PathLock          managers in several processes over one transactional store
            |-- PathLockFs          the filesystem provider's acquisition in place of the transaction
            |     |-- PathLockFsInductive   the inductive invariants of that acquisition
            |           |-- PathLockFsProofs  theorems over the filesystem provider
            |-- PathLockInductive   the inductive invariants
                  |-- PathLockStructureProofs    types, structure, adoption
                        |-- PathLockExclusionProofs    claims, exclusion, refinement
                              |-- PathLockHandoffProofs      what is left in the store
    DurableQueue            what a queue promises its producers (abstract specification)
      |-- QueueFs           the SQLite and cache backends and the workers
            |-- QueueCompletion     a caller that waits until the queues are drained
                  |-- QueueProofs   inductive invariants and theorems of both, refinement of DurableQueue
    TaskLife                what tasks look like from outside (abstract specification)
      |-- TaskWork          task records, work records and queue deliveries
            |-- TaskWorkProofs      its inductive invariant and theorems, refinement of TaskLife
      |-- TaskDeletion      deletion of the owner of the tasks, composed with TaskLife
            |-- TaskDeletionProofs  its inductive invariant and theorems
    SessionCommit           commits of a session: archives, publication, Phase 2
      |-- SessionContext    a reader beside the commits
            |-- SessionProofs       inductive invariants and theorems of both
    MCPathLock, MCPathLockFs, MCQueueFs, MCQueueCompletion, MCTaskWork, MCTaskDeletion
                            small instances for TLC (SessionCommit and SessionContext need none)

### PathLockTokens

`types.rs` and the functions of `provider.rs` that the memory and SQLite providers share. A
token is an owner and a set of holders; a holder has the id of a lease, a kind (Exact or
Tree) and a timestamp. A token without holders is an absent token (the code deletes it). A
normalized batch (`normalize_requests`: one kind per path, Tree winning) is a function from
paths to kinds. Paths are abstract: `ancestor_paths` is any tree order, `Rank` any linear
order in which ancestors come first, as the sort by length and name does.

### PathLock

| Variable | Code |
|---|---|
| `now` | true time; a process reads `now + Skew[pr]` from its wall clock (`now_ns`) |
| `tokens` | the store of the provider, shared by all processes |
| `entries` | `LeaseRegistry` and `OwnerRegistry` of every process: lease to `LeaseEntry` |
| `task[pr][o]` | the operation that holds the async mutex of owner `o` in process `pr`, and where it stands between its awaits |
| `handoffs` | `PathLockHandoffRef`s that sit in durable queue messages |
| `unparking` | adoptions that have published their lease and still have to drop the source from the local registry |

An operation that awaits storage is split at every await, because other owners, other
processes, time and death come in between; the mutex keeps other operations of the same
owner in the same process out.

| Actions | Code |
|---|---|
| `AcquireBatch`, `AcquireReentrant`, `ReacquireBatch`, `Adopt` | the entry points down to the storage call (`acquire_batch_for_owner`, `adopt`) |
| `CommitAcquire`, `RejectAcquire` | one `try_acquire_batch_once` on a provider with transactions; the memory provider keeps the stale tokens it removed before it met a conflict |
| `PublishLease`, `RollbackLease`, `UndoPath` | after the storage call: capability and validity are checked again, the lease is published or its holders are undone last path first, restoring a replaced source |
| `Unpark` | the end of `adopt` |
| `StartRefresh`, `RefreshPath`, `ApplyRefresh` | heartbeat and `refresh`: one storage call per path, results applied together at the end |
| `Release`, `Cleanup`, `ReleasePath`, `Forget` | `release`, `release_selected`, the heartbeat's cleanup of invalidated leases and its end |
| `Handoff`, `AckHandoff` | `handoff` parks the lease; the queue message may be delivered any number of times until acknowledged |
| `Lookup` | every authorization check first invalidates what is past its deadline |
| `Tick`, `Crash` | time; a process loses its registry and its operations, the store keeps its tokens |

Every storage call may fail (`Outcome`). A call that fails has not changed the store, which is
what a rolled back transaction or a lost compare-and-swap gives. A call that took effect and
whose answer is lost needs a remote store; it is planned together with the Redis provider.

### PathLockFs

Replaces `CommitAcquire` and `RejectAcquire`: an attempt reads the tokens around each
request one by one (`FsRead`), writes its holder (`FsWrite`), goes on to the next request,
and reads everything again when all are written. `BackOff` is a conflict found by that
verification, `FsFail` any other failure; both undo what was written. An adoption looks at
its source first (`FsSource`).

### LeaseLock

The promise without tokens, clocks, processes or storage: coverage is granted to a lease
only if it is compatible with the grants of other owners, and otherwise only shrinks.
`PathLock!ImplementsLeaseLock` states that the managers and the store implement it, with
the leases that authorize at this moment as the grants.

### QueueFs

An *instance* is one opening of the queue storage by one process; a restart is a new instance.
A Lua script or an SQLite transaction is one step.

| Variable | Code |
|---|---|
| `pending`, `processing`, `payload` | the list, the sorted set of ids with their instance and the message keys of the cache backend; the rows by `status` of the SQLite backend |
| `heartbeat`, `leader` | the `:alive` keys and the recovery leader key, which outlive their process until they expire |
| `round`, `renewed` | where an instance's `run_continuous_recovery` stands: queues to visit, and whether it has renewed the lead for the next |
| `inst`, `deliveries` | life of an instance; messages its workers have fetched and are handling, or have handled and not acknowledged |
| `sent` | ids in the order of their enqueue, the order of SQLite's row ids |
| `handled`, `cleared`, `lapsed` | history |

| Actions | Code |
|---|---|
| `Start` (`open_cache`, `open_sqlite`) | `open_with_timing` (heartbeat before anything else); `SQLiteQueueBackend::open` with `recover_stale`, which returns every claim to the place of its row (`return_claims`) |
| `RefreshHeartbeat`, `StartRound`, `RenewLeader`, `RecoverStale`, `BreakOff` | the two background tasks of `cache_backend.rs` |
| `HeartbeatExpires`, `LeaderExpires`, `Crash` | the server's expiry, the end of a process |
| `Enqueue`, `FollowUp` | an enqueue by a service, and by a handler before its own message is acknowledged |
| `Dequeue`, `Settle`, `Raise`, `Ack` | the worker: fetch, the handler returns or raises, acknowledge |
| `Stop`, `Cancel`, `Shutdown` | `QueueManager.stop`, the drain that times out, `CacheQueueStorage::shutdown` |
| `Clear` | `clear` |

An `Outcome` of `FALSE` is a dequeue whose answer is lost (the message is claimed and nobody
knows), an acknowledgement that does not arrive, a shutdown that cannot delete its keys, a
recovery round that fails. An acknowledgement names the message and not the claim: it removes
whatever claim there is.

Time is not modelled: the key of an open instance named in `Lapsing` may expire at any moment,
as for a process that is paused. SQLite databases have one process at a time, as the
workspace lock ensures for embedded vector storage (`openviking/service/core.py:353`).

### QueueCompletion

`wait_complete`: passes over the queues, one status call at a time, until a pass finds all of
them empty. `covered` follows the work that was present at the call and what its handlers enqueue.

### TaskWork

A *task* is the durable record a user sees; *work* is a unit of it, queued (with a message) or
inline (the operation in the caller). The store holds the record lock of a task over each of its
operations, so each is one step; what lies between two calls of a request, a handler or the
middleware is open to everybody else.

| Variable | Code |
|---|---|
| `task`, `work` | `TaskRecord` on disk, `WorkRecord` in memory, of the inline work of a task under the task's own name |
| `queue` | where each message is: not sent, pending, claimed, gone. The `k`-th message of a work is its first or a replacement by a handler |
| `op` | where the request or `run_tracked_operation` of a task is |
| `by`, `send` | who is enqueueing a message, and whether that call created the work record it may have to undo |
| `run` | where the delivery of a message is: claimed, running, its outcome, settled, left unacknowledged |
| `orphaned`, `revoked` | history: tasks a crash left without a message; work whose enqueue was undone |

| Actions | Code |
|---|---|
| `Create`, `Confirm`, `Withdraw` | `TaskTracker.create` around the deletion guard |
| `Submit`, `SubmitRejected`, `OperationSends`, `HandlerSends`, `Replace`, then `Commit`, `WriteRaises`, `UndoSend` | an enqueue through `TaskWorkQueueMiddleware`: registration, the write, what is undone if the write raises or its caller is cancelled |
| `StartTask`, `RegisterInline`, `StartInline`, `Report`, `Unregister` | `run_tracked_operation` |
| `Cancel`, `Expire` | `TaskTracker.cancel`, also of an ended skill update; retention |
| `Fetch`, `Admit`, `Refuse`, `DropCancelled`, `Settle`, `HandlerReports`, `Return`, `Raise`, `Interrupted`, `Persist`, `Ack` | a delivery through the middleware |
| `Stop`, `Restart` | `QueueManager.stop`; a new process, whose `prepare_task_tracking` rebuilds the work |

`finalize_task` is part of every operation that can close the last work, as in the code.

### TaskLife and TaskDeletion

`TaskLife` is what is left of `TaskWork` when only the status of a task, its creation and whether a queue handler runs for it
can be seen; `TaskWork!ImplementsTaskLife` is the refinement. `TaskDeletion` composes it with the deletion of
the identity that owns the tasks: they do whatever `TaskLife` allows while the request
(`submit`: `BeginDeletion`, `LookUpDeletion`, `ReplaceDeletion`, `CreateDeletion`, `EnqueueDeletion`) and the single
consumer (`clean`: `TakeCleanup`, `LookAtFence`, `ListTasks`, `CancelListed`, `AwaitTasks`, `PurgeTasks`, `DropTask`,
`StartErasing`, `FinishDeletion`, and the ways in which these fail) go their steps. `fence` is the deletion record in
the account store, which names the cleanup task that owns the deletion. `registered` is the authentication mode: `initialize` installs
`_creation_blocked` (a fence or a missing identity) as the guard of task creation if identities have to be registered, which is so in mode
`api_key` (`openviking/server/app.py:214`), and `_is_deleting` (the fence alone) in mode `trusted`. The runs and theorems are about both.

### SessionCommit and SessionContext

| Variable | Code |
|---|---|
| `accepted`, `root`, `count` | messages so far; `messages.jsonl` and `commit_count` of the session |
| `arch` | the files of each archive: `phase1.status` of `.meta.json`, `messages.jsonl`, `.done`, `.failed.json` |
| `phase1` | the commit under the session lock and what it has written |
| `pub`, `lease` | an archive between Phase 1 and its queue message; the exact lock on its directory |
| `work`, `revived` | the work record of its task; a recovery recorded by `retry_archive` |
| `msg` | its queue messages, of which there may be several, and where each, or the handler of it, is; one that was `left` is claimed and handled by nobody until a restart |
| `twice` | history: archives with more than one message in the queue since a crash |
| `reader` | the request for the context: where it is (`Load`, `List`, `Scan`, `ReadMessages`, `Merge`, `Return`), the live messages it loaded, the archives still to read, the messages so far |

Each file write is a step, so a crash or a failing write can come between any two. `FailPhase1` lets a write fail before
or after it took effect, and the failure marker fail as well. `CancelPhase1` and `CancelUnpublished` are a caller that is cancelled: `commit_async` catches
`Exception` only, so nothing is marked and the publication lease stays with the process, which refreshes it (`leaked`). The handler of a message follows `SessionCommitProcessor`, `resume_queued_commit` and
`_can_run_archive`: recovery, terminal markers, order, the probe for a publication under way (`Probe`, `Judge`), extraction.

| Actions, for archive `n` and its message `c` | Code |
|---|---|
| `Deliver`, `DeliverLate` | `start_work` admits open work, also when another message of it is handled; a message of work that is over is acknowledged, after `on_cancelled` if it was cancelled |
| `Requeue`, `Ack` | the replacement is enqueued before the old message is acknowledged (`session_commit_processor.py:79-88`), and a failing acknowledgement is only logged; a crash in between leaves both |
| `HandlerRaises`, `HandlerLeaves` | an error ends the work; where the work could not be started, the task not be registered or the outcome not be stored, the message stays |
| `CancelTask` | the task is cancelled: its handlers are interrupted, of which one that extracts marks the archive |
| `Crash`, `LeaseExpires` | every message is pending again; the locks of the dead process go after a while |

`MaxCopies` bounds the messages of one archive at a time. When there is no room for another, the old message becomes the new one.

### Abstractions

- Readings of the wall clock and of the monotonic clock that the code takes one after the
  other without an await are one reading. The monotonic clock is exact; wall clocks differ by
  a constant per process.
- Time is an integer; only comparisons of differences with `TTL`, `Validity` and
  `CleanupWindow` matter.
- The code draws a UUID for every owner and lease. An identity nothing refers to any more
  is as good as a new one, so identities are reused when free (`FreshLease`, `FreshOwner`).
- A retry after a conflict is a new attempt; polling intervals, jitter and timeouts are left
  out, so an acquisition may be retried or abandoned at any time.
- Tokens of format v1 (no holder list) and handoffs recorded without a holder are not
  modelled.
- Task results and errors are present or absent; the first error wins, and no property tells errors apart.
- The effect of a deletion on vectors, files, tokens and uploads is one step that may fail.
- A file write of a session is one step. Plain `localfs` truncates a file before it writes it (`crates/ragfs/src/plugins/localfs/mod.rs:879-913`), so a crash inside the rewrite of
  `messages.jsonl` is outside `NoMessageLost` and `ContextComplete`; they are about crashes and errors between the writes.
- `CanRunArchive` reads the markers and the work of the predecessor in one step where the code awaits in between. A marker that appears meanwhile is read as one that
  was there, and `.done` wins over `.failed.json` for every reader.
- A session commit keeps any number of the latest messages live; how many the retention policy
  keeps, and what the model extracts, does not matter to the properties.
- The SQL and file formats are not modelled; a transaction is one step, a compare-and-swap
  is one step.

## 3. What TLC checks

| Run | Instance | Shows |
|---|---|---|
| `handoff` | 2 processes, clocks 1 apart, 2 owners competing for a directory and a file in it, handoffs, a crash | `MutualExclusion`: no two owners authorized on one path; `HolderBacked`: an authorization has its holder in the store, live for every clock; `Undisputed`: where an authorization reaches, the store has no other owner's holder; `ImplementsLeaseLock` |
| `siblings` | 1 process, 2 leases of one owner, a directory and a file in it, two-path batches, late, partial and failing calls, fairness | `TypeOK`, `RevocationIsFinal`, `NoHolderLeftBehind`, `AllOrNothing`; `InvalidatedLeaves`: an invalidated lease leaves the registry |
| `fs_batches` | 2 processes with skew, a directory and a file in it, on the filesystem protocol | `MutualExclusion`, `AllOrNothing` |
| `fs_handoff` | 2 processes, 3 leases of one owner on the filesystem protocol, one reference delivered again and again | `AdoptedOnce`; `SourceRestored`: a failed adoption puts the source back |
| `queue_cache` | cache backend, 2 instances (one crashes, stops, is paused), 2 messages, 2 deliveries at a time, failing calls, handlers that enqueue again | `NothingLost`: at-least-once delivery; `OnePlace`: an id is pending once or claimed once, with its payload; `SingleDelivery`: live instances keep what they work on; `ImplementsDurableQueue` |
| `queue_recovery` | cache backend under fairness, one instance goes away | `ClaimsReturn`: its claims return |
| `completion` | SQLite backend over a restart, 2 queues with 3 messages, handlers that enqueue again into their own queue, failing calls | `NothingLost`, `SingleDelivery`; `CompletionIsReal`: after `wait_complete` nothing of the awaited work is queued |
| `completion_order` | violation | when one queue feeds the other `wait_complete` can miss work that moves between its reads |
| `tasks` | 1 task, inline operation, 2 works, 2 messages, failing enqueues and acknowledgements, cancellation also after the end, expiry, a stop and a restart, fairness | `TaskTypeOK`; `EndedIsClosed`: ended tasks have no open work, cancelling ones have some; `NoStrandedWork`: open work has a message, an enqueue or an operation that will close it; `ActiveIsDriven`: an active task has something that will end it; `QuietEnd`: no handler runs for a task that ended; `CompletedSucceeded`; `TasksEnd`: active tasks end; `ImplementsTaskLife` |
| `deletion` | both authentication modes, 2 tasks, one not cancellable, 2 cleanup tasks, registration of the same name again, a restart, fairness | `DelTypeOK`; `QuietErasure`: erasure only with the fence and without handlers; `NothingLeft`: no accepted active task while data is erased, and, where identities have to be registered, none of an identity that is gone; `DeletionEnds` |
| `session` | 2 messages, 2 archives, 2 queue messages of each, failing writes and acknowledgements, resets, cancelled commits and tasks, 1 retry, 1 crash, fairness | `SessionTypeOK`; `ExtractsInTurn`: Phase 2 in archive order, and by one handler unless a crash left two messages; `OrphansHaveNoWork`: an archive on its way to the queue is not declared an orphan; `CommitsEnd` |
| `context` | 2 messages, 2 archives, the same faults, a reader | `NoMessageLost`; `ContextComplete`: a reader misses nothing that moves meanwhile; `ContextInOrder` |

The properties are stated and explained where they are defined. Each is also checked
against a mutated operator (named `..._late`, `...Once`, `..._alone` and so on, with a comment
saying what is wrong with it): replacing the original must violate the property.

**Bounds.** Two owners are what exclusion is about, and it is a statement about pairs (the theorems of section 4 are for any number). Two paths, one below the other, give every
relation a conflict can have (same, above, below); unrelated paths never interact.
Two leases suffice for a pair; three are used where a source and two adopters must exist
together. Two processes give two registries and two clocks. `TTL` 2 or 3 with `Validity` one
less, and `MaxTime` past the expiry, let a lease be confirmed, miss its deadline, be taken
over, and its former holder's late result arrive. `MaxHandoffs` bounds the references queued at the same time; a
reference is delivered any number of times. `Crashing` names the processes that may die,
`Outcome` whether calls may fail; they do not in `handoff`, where two paths and two processes leave no room for it (failing calls are
in the other runs of the locks, and the theorems have them for exclusion). Symmetry is over owners and leases, and over processes
where their clocks agree; the run with a liveness property uses none. Nothing in the models deadlocks: once
`MaxTime` is reached, releases, lookups and acknowledgements go on.

For the queues, two messages and two slots let a message be delivered again while its first
delivery, and one of another message, still run; two instances are the one that goes and the one that recovers. The runs
of the queue models may stop: when every instance is gone nothing happens, so they do
not check for deadlock. Symmetry is over message ids.

For tasks, two messages are the message of one work and either that of another or a replacement of the first, and the operation of the
task is a third agent; one restart cuts each of them off at every point. The deletion needs two tasks, since one may be awaited
while another is created, and two cleanup tasks for a fence that is replaced. A session needs two archives, as each looks
at its direct predecessor only, and two queue messages of one archive, the old one and its replacement, one of which is copied or lost at a crash; a reader needs a message in an archive and one
in another or the root. For longer chains of archives and any number of messages the safety properties are theorems. These models stop when their bounds are
used up and everything has ended, so they do not check for deadlock; what has to go on is stated as liveness.

**Fairness** (`FairSpec`, run `siblings`). Time passes; a storage call returns, with or without an error (providers
have timeouts, and an error is enough); what follows a returned call is executed; and the heartbeat gets the owner
mutex again and again, because tokio's mutex is a first-in first-out queue: strong fairness for `Forget`, which is enabled
whenever the mutex is free after the window. Nothing is assumed about callers or about storage succeeding.

`FairQSpec` (run `queue_recovery`): the server drops the keys of processes that are gone; an instance that is neither stopped
nor killed gets started; the recovery interval ticks, and a call that can be made again and again is
answered some time (strong fairness: other instances may take the lead and calls may fail in between).

`FairTaskSpec` (run `tasks`): as long as something of a request, an enqueue or a delivery is ready, something is executed, and handlers return;
nobody has to submit, cancel or restart. `FairDelSpec` (run `deletion`): a request that holds the lock and the cleanup consumer go on; the wait for
tasks has a deadline, so no fairness of the tasks is needed. `FairSessionSpec` (run `session`): a commit that has begun, each publication, the handler of each queue message and
the expiry of locks go on; the wait for a lock has a timeout after which the handler raises.

## 4. What is proved

TLAPS checks the following for every value of the constants that satisfies the assumptions below: any
processes, owners, leases, trees of paths and timings; any queues, messages and instances; any tasks, works and deletions; any
number of messages and archives of a session; any number of crashes and restarts.

| Theorem | Module | States |
|---|---|---|
| `TypeCorrect` | `PathLockStructureProofs` | `Spec => []TypeOK` |
| `StructureCorrect` | `PathLockStructureProofs` | `Spec => []Structure` |
| `ReferencesAreAdoptedOnce` | `PathLockStructureProofs` | `Spec => []AdoptedOnce` |
| `ClaimsCorrect` | `PathLockExclusionProofs` | `Spec => [](Grounded /\ Exclusive)` |
| `ExclusionCorrect` | `PathLockExclusionProofs` | `Spec => []MutualExclusion` |
| `HoldersBacked` | `PathLockExclusionProofs` | `Spec => []HolderBacked` |
| `AuthorityIsUndisputed` | `PathLockExclusionProofs` | `Spec => []Undisputed` |
| `RevocationCorrect` | `PathLockExclusionProofs` | `Spec => RevocationIsFinal` |
| `LeaseLockIsImplemented` | `PathLockExclusionProofs` | `Spec => ImplementsLeaseLock` |
| `LeftoversCorrect` | `PathLockHandoffProofs` | `Spec => []Leftovers` |
| `AcquisitionIsAllOrNothing` | `PathLockHandoffProofs` | `Spec => AllOrNothing` |
| `ReleasesLeaveNothing` | `PathLockHandoffProofs` | `Spec => NoHolderLeftBehind` |
| `StakesCorrect` | `PathLockFsProofs` | `FsSpec => [](StakesGrounded /\ StillToLook)`, with types and structure |
| `FsExclusionCorrect` | `PathLockFsProofs` | `FsSpec => []MutualExclusion` |
| `FsHoldersBacked` | `PathLockFsProofs` | `FsSpec => []HolderBacked` |
| `FsAcquisitionIsAllOrNothing` | `PathLockFsProofs` | `FsSpec => AllOrNothing` |
| `FsAdoptionsCorrect` | `PathLockFsProofs` | `FsSpec => []FsAdoptions` |
| `FsReferencesAreAdoptedOnce` | `PathLockFsProofs` | `FsSpec => []AdoptedOnce` |
| `RestorableCorrect` | `PathLockFsProofs` | `FsSpec => []Restorable` |
| `FsSourcesAreRestored` | `PathLockFsProofs` | `FsSpec => SourceRestored` |
| `QueueTypes` | `QueueProofs` | `QSpec => []QTypeOK` |
| `MessagesHaveOnePlace` | `QueueProofs` | `QSpec => []OnePlace` |
| `MessagesAreNotLost` | `QueueProofs` | `QSpec => []NothingLost` |
| `DeliveriesAreSingle` | `QueueProofs` | `QSpec => []SingleDelivery` |
| `DurableQueueIsImplemented` | `QueueProofs` | `QSpec => ImplementsDurableQueue` |
| `WaitCompletes` | `QueueProofs` | `CSpec =>` whenever `m` was sent before the call, it is in no queue once the call has returned |
| `FollowUpCompletes` | `QueueProofs` | `CSpec => []FollowUpDone` |
| `TaskTypes` | `TaskWorkProofs` | `TaskSpec => []TaskTypeOK` |
| `EndedTasksAreClosed` | `TaskWorkProofs` | `TaskSpec => []EndedIsClosed` |
| `WorkIsNeverStranded` | `TaskWorkProofs` | `TaskSpec => []NoStrandedWork` |
| `ActiveTasksAreDriven` | `TaskWorkProofs` | `TaskSpec => []ActiveIsDriven` |
| `TasksEndQuietly` | `TaskWorkProofs` | `TaskSpec => []QuietEnd` |
| `CompletedTasksSucceeded` | `TaskWorkProofs` | `TaskSpec => []CompletedSucceeded` |
| `TaskLifeIsImplemented` | `TaskWorkProofs` | `TaskSpec => ImplementsTaskLife` |
| `DeletionTypeCorrect` | `TaskDeletionProofs` | `DelSpec => []DelTypeOK` |
| `ErasureIsQuiet` | `TaskDeletionProofs` | `DelSpec => []QuietErasure` |
| `NothingIsLeft` | `TaskDeletionProofs` | `DelSpec => []NothingLeft` |
| `SessionInvariant` | `SessionProofs` | `SessionSpec => []SessionInv` |
| `SessionTypes` | `SessionProofs` | `SessionSpec => []SessionTypeOK` |
| `ArchivesExtractInTurn` | `SessionProofs` | `SessionSpec => []ExtractsInTurn` |
| `OrphansStayWithoutWork` | `SessionProofs` | `SessionSpec => []OrphansHaveNoWork` |
| `MessagesAreKept` | `SessionProofs` | `ContextSpec => []NoMessageLost` |
| `ContextsAreComplete` | `SessionProofs` | `ContextSpec => []ContextComplete` |
| `ContextsAreInOrder` | `SessionProofs` | `ContextSpec => []ContextInOrder` |

### Locks

**Assumptions.** `PathTree` and `RankOrder` (ancestors form a tree; the sort puts them first),
`Sentinels`, `TimeAssumption` (`0 < Validity < TTL`; in the code `Validity` is `0.8 * TTL`),
`RequestAssumption` (batches are not empty), and `SkewAssumption`: wall clocks of two processes differ by at
most `TTL - Validity`. The last one is a condition on deployments, not something the code enforces; it is
exactly what the argument below needs.

**Argument.** `MutualExclusion` is not inductive: exclusion is decided in the store and used in the registries, and a result on its
way from one to the other is in neither. A *claim* is what a process may act on without asking the
store again: a usable entry within its deadline, a refresh answer not yet applied, or a granted
batch not yet published, each with the time the confirmation counts from.

1. `TypeOK`.
2. `Structure`: an operation in flight and the registries agree (what is being acquired is
   not published, what is being refreshed or released is in its own process's registry, the
   source of a handoff authorizes nobody).
3. `Grounded`: behind each claim stands a holder in the store, no older than the claim. Each
   storage function keeps the live holders of other leases; and by `FreshIsLive`, a holder behind a claim is live for
   every process, since `now - c < Validity` and the skew is at most `TTL - Validity`.
4. `Exclusive`: claims of different owners do not meet. A new claim arises only from a
   transaction that saw no live foreign token at, above or below; by 3 every other claim has a
   live token, so it would have been seen.
5. `MutualExclusion` and `HolderBacked` follow, as an authorization is a claim; `RevocationIsFinal` follows step by
   step from 1 and 2: only `ApplyRefresh` moves a confirmation, and it checks the deadline first.
6. `Cleared`: where a claim reaches, every token in the store is the claimant's own, stale holders
   included, because a granted batch removes the stale tokens in its way before it writes. It is preserved because
   other owners write only where they see no live token (3), a refresh or an undo writes only into a token of
   its own owner, and a restored source is of the owner whose holder it replaces. `Undisputed` follows.
7. The refinement of `LeaseLock`: the grants are what authorizes now. By 4 the grants of different owners are
   compatible, so a step that adds grants is a grant of the abstract lock. The proof shows that only the
   publication of a lease adds any, and a release that removes the overdue path of a lease which nothing has invalidated
   yet (section 5); every other step, the passing of time included, only takes grants away.
8. `Adoptions`, for `AdoptedOnce`: an adoption that commits finds its source at every path of the reference and takes it
   out; only the undo of the same attempt puts it back, and until then no other attempt has that source (`OneAdoption`). Once the lease is published
   the source is gone from the store for good (`AdoptedForGood`), so a reference delivered again finds nothing. What a source covered is the same
   in every reference to it (`OneCoverage`), and it is absent wherever the attempt's own holder still stands in for it (`SourceWithheld`), so two attempts with one source cannot both commit.
9. `Leftovers`, for `AllOrNothing` and `NoHolderLeftBehind`: an attempt that has not committed has no holder (`NothingWrittenYet`), one that is being undone
   has holders only where the undo has still to come or failed (`AttemptHolders`), a lease that is not parked has them only at its coverage and in tokens of its owner (`HeldWhereCovered`),
   a parked one only at what its references name (`ReferenceCovers`), and a source whose adopter is published has none (`AdoptedIsGone`), so dropping it from the registry leaves nothing.

**What does not hold: a parked lease need not keep other owners out.** The attempt to prove it for any tree of paths failed, and TLC
confirmed the trace. An adoption of a Tree lease that hangs between taking its timestamp and committing writes a holder
that is already stale for others, while a live Exact lease of the same owner keeps the token alive at the same path. Another owner is
granted a path below. The adoption then finds its deadline past and rolls back, and the restored source, parked, covers what the other owner holds.
Exclusion does not suffer: the parked lease authorizes nobody, and a later adoption checks for conflicts again, which
is what `Cleared` needs. The property checked and proved is therefore `Undisputed`, about leases that authorize.

**What does not hold: a cleanup of a parked lease may leave a holder.** An earlier form of `NoHolderLeftBehind` exempted only crashes and the end of the cleanup window; its proof
failed at `ReleasePath` and TLC confirmed the trace. An adoption has the source out of the store, the producer's heartbeat cleans up the parked lease (which was invalidated), finds no holder and drops the lease, and the adoption
rolls back: the source is written back with no registry behind it, until it expires. In the same way an earlier form of `SourceRestored` was false of an attempt longer than the `TTL`: another owner takes the place of the expired
holder that stands in for the source. Both properties now say so, and no more.

### Locks on the filesystem provider

The assumptions are the same. There is no step that decides between two attempts: each reads, writes, and reads again before it publishes. A *stake* is a claim or a holder already written
by an attempt still verifying (`Pending`).

1. `StakesGrounded`: behind each stake stands its holder, as in `Grounded`.
2. `StillToLook`: of two stakes of different owners that meet, one has still to look at a path where the other's holder is. A new stake arises by a write, after which the writer has everything to look at again. A look takes one path from
   what is left, and if a stake was there it is grounded, hence live for the reader, hence the attempt gives up. So when both have looked everywhere, they do not meet.
3. A claim has nothing left to look at, so `MutualExclusion` is 2 for two claims; `HolderBacked` is 1.
4. `Undoable`, for `AllOrNothing`: the holders of an attempt are where it has written (`WrittenHolders`) and in its owner's tokens, and what it replaced is its source (`ReplacedAtSource`); a failed write, a conflict found at a later path and a back-off
   all lead to an undo of exactly these paths.
5. `FsAdoptions`, for `AdoptedOnce`: here two attempts may both have begun to adopt one source, path by path. Each takes the paths in the same order and gives them back in the reverse order, so the paths at which the source is withheld are always a
   prefix (`FsSourceWithheld`), and whoever has the first path has them all: the other fails its compare-and-swap there, before it wrote anything (`FsOneAdoption`).
6. `Restorable`, for `SourceRestored`: a failed adoption must put back the holder it took, while refreshes, releases, takeovers and other adoptions go on around it. What is put back is right because a holder, in the store or set
   aside by an attempt, always has the kind its lease has there and a time no earlier than the lease's confirmation (`Stamped`), and a reference says what the parked lease covers and whose it is (`ReferencesTrue`). It can be put back because the
   attempt's own holder is still there to be replaced: it stands wherever the source is withheld, as long as no clock calls it stale (`StandsIn`), and every path that was replaced is among those to undo (`ReplacedTracked`). It stays until the last
   path is undone (`GivenBack`): a valid lease has live holders, which no attempt sweeps; by 5 no other attempt adopts it meanwhile; and only an invalidated parked lease is released (`ReleaseParked`). TLC checked these on the instance
   of `fs_handoff` before they were proved.

### Queues

The only assumptions are `QueueAssumption` and `CreatedAssumption` (the backend is one of the two, the bounds are numbers and
sets of instances, the list of queues names each).

`QInv` is the conjunction of types, `StoreInv` (each id is pending once or claimed once, with its payload, in one queue, from its enqueue until it
is acknowledged or cleared) and `WorkerInv`, which `SingleDelivery` needs and does not imply: an open instance that never lost its heartbeat
has its key in the store, and each of its deliveries holds the claim on its message or the message is gone for good. So recovery returns no
claim of such an instance, and a message that is pending is at none. An acknowledgement names the message and not the claim; the
invariant holds all the same, since a late one only makes the message go. `DurableQueue` is implemented with the
ids pending or claimed as its content.

What `wait_complete` gives is proved for any order of the queues and any flow of work between them, the deployed one included. `WaitCompletes`: a message that was enqueued before the call is gone for good
when it has returned, since the pass that found no work read its queue empty and no step puts a message back (`SeenGone`). Follow-up work that handlers enqueue meanwhile is another matter: it is lost sight of if its queue was read before
it came, as run `completion_order` shows for embedding work. `FollowUpCompletes` says where this cannot happen: in every set `R` of queues that nothing outside it feeds and in which no queue feeds one that is read before it
(`InOrder`), hence in all queues that no queue read later feeds, directly or through others. `PassInv` says that a pass which has found no work so far has left nothing of
the awaited work in the queues of `R` it has read, and what is still to be read does not feed them; follow-up work of an unread queue therefore lands
where the pass has still to look. If `R` is all queues this is `CompletionIsReal`, as in run `completion`.

### Tasks

`TaskAssumption` says that works belong to tasks, that names do not collide and that the bounds are numbers. The properties lean on each other in `WorkInv`:
that ended tasks have no open work shows that what finishes a task strands none, and a restart, which rebuilds the work from the queue, keeps
it only because before the crash the open work of a task that is being cancelled had a message that will still be handled (`Carried`); inline work is open only while its operation runs (`InlineOpen`). `Enqueues` and
`Replacements` say where a message of an enqueue under way may be, so that undoing it takes away what nobody has seen; `Handled` is `QuietEnd` with the
record of the work of each running handler; `Driven` follows every request from the creation of its task to its first open work.

`TaskLife` is implemented step by step: an operation of the store changes the status of its task as the abstract specification allows, and
a task ends only when no handler with the only message of its work runs (`Handled`). This is what makes the theorems about deletions, which are about `TaskLife`, theorems about tasks as the tracker runs them.

### Deletion

The only assumption is `DeletionAssumption` (the bounds are numbers and cancellable tasks are
tasks). `QuietErasure` and `NothingLeft` follow from the invariant `DelInv`, which adds to them:

1. `Numbered`: tasks, messages, requests and the cleanup carry numbers that were drawn, so that a new
   fence meets nothing of an older cleanup.
2. `Fenced`: a fence is on a present identity; a request is about to replace only a fence whose task
   has ended, which no step undoes; so the cleanup, whose task has not ended (`DelTypeOK`), keeps the
   fence from `LookAtFence` to `FinishDeletion`.
3. `BusyIsActive`: handlers run only for accepted tasks that have not ended, and a task that is still being
   created has not begun.
4. `Drained`: from the purge on, an active task is one whose creation has not returned. `delete_tasks` saw no
   active task, and with the fence up the second look at the guard accepts none. Hence no handler runs during
   the erasure (3 and 4).
5. `Vacated`: where identities have to be registered, what is active when the identity has gone was `Drained` before, and the guard accepts
   no more until the name is registered again. Without that condition a creation that looked at the guard before the fence can be accepted after it.

### Sessions

The only assumption is that the bounds are numbers. `SessionInv` is about who may touch an archive: while Phase 1 writes it nobody else does (`Writing`);
archives are numbered without gaps and a commit works on the newest (`Contiguous`, `Newest`), so it never meets one with work; what has work is ready and has messages (`ready`); a ready archive between Phase 1 and its message
is under its publication lease (`leased`), so the probe of a later handler cannot take it for an orphan (`orphan_idle`); and an archive is extracted when
its predecessor has ended or is being retried (`in_turn`), however many messages of it are handled. Unless a crash left two messages (`twice`), at most one message of an archive is before its acknowledgement, because a replacement is sent
only by the handler that gives its own message up (`sole`). `ExtractsInTurn` and `OrphansHaveNoWork` are parts of the invariant and not inductive without the others.

`NoMessageLost` needs `RootSafe`: until the root is rewritten it still has whatever the archive and the new root will have, so a crash or a failing write
after any file leaves each message in one of them. It is proved of `ContextSpec`, commits with a reader beside them.

`ContextComplete` and `ContextInOrder` rest on `ReadInv`. Its parts are `Ordered` (root and archives have their messages in the order of acceptance, and what was accepted before a message of an archive is in that archive or an earlier one), `Seen` (what was
accepted when the reader began is in its snapshot of the live messages, in what it has read, or in an archive it has still to read or did not get to: messages move from the root into archives, and the snapshot was taken first) and `InTurn` (in what has been read so far, whatever was accepted before a
message stands ahead of it or is covered by the archive at which the reader stopped: archives are read from the oldest). That removing repetitions keeps every message and the order of first places is a fact about sequences of any length. It is proved from the least place of each message
(lemma `Least`), not by induction over the sequence, which is why `stable_deduplicate_messages` is stated by places.

### Only model-checked

- Liveness: `InvalidatedLeaves`, `ClaimsReturn`, `TasksEnd`, `DeletionEnds`, `CommitsEnd`. Fairness and `ENABLED` are outside the prover.

Every other invariant and action property of the passing runs is a theorem; `CompletionIsReal` is one in the general form of `FollowUpDone`.

## 5. Findings

- **The tie-break after the filesystem double-check does not exist** (seen while modelling, no run). The documentation
  says that on a conflict found after the write the later attempt backs off, by timestamp and
  id, "to prevent livelock"
  (`docs/en/concepts/09-transaction.md:323-324`, `349-350`). `try_acquire_batch_once` rolls back on
  any conflict without comparing. Exclusion does not suffer; two attempts may both back
  off, and only the jitter of their retries separates them.
- **A lease past a deadline can authorize again** (seen while modelling, no run). The documentation says that authorization
  lasts "only until" the deadline and that an invalidated lease cannot become valid again
  (`09-transaction.md:380`). `release_lease_paths_with` does not look at deadlines, so releasing the path
  whose token is overdue, before any other operation looks at the lease, leaves an entry that is not invalidated and authorizes its
  remaining paths. Exclusion does not suffer: those paths have their own confirmations
  (`RevocationIsFinal` is per path and proved).
- **`wait_complete` can return while work is pending** (run `completion_order`). `check_status` awaits the
  queues one by one, the embedding queue before the semantic queue that feeds it. Embedding work enqueued after the first
  read, by a semantic handler that is acknowledged before the second, is seen by neither, although the function promises
  to "wait for all queues to complete" (`queue_manager.py:582`). Semantic messages with a lock handoff wait for their embedding
  work before they are acknowledged and are not affected; the others are. Between queues that do not feed each other the answer is right (run `completion`), because the storage counts pending and
  processing of a queue in one step.

Seen while modelling, without a run of their own:

- **An archive directory without metadata blocks its session for ever.** Phase 1 writes the metadata and the messages of an archive at
  the same time (`session.py:1778-1806`). A crash between the two, or a failing write whose failure marker fails too, may leave
  `messages.jsonl` alone. `_can_run_archive` answers "not yet" for such a predecessor on every delivery (`session.py:3430-3432`), so the message of the next archive is
  requeued for ever; nothing repairs the directory. The authors guard against exactly this for context resets ("would
  block the next Phase 2 forever", `session.py:2001-2002`). Without the exemption of `unmarked` predecessors TLC reports `CommitsEnd` violated.
- **Two handlers may extract one archive.** A message that has to wait for its predecessor is replaced, and the replacement is enqueued before the old message is acknowledged (`session_commit_processor.py:79-88`). A crash
  or a failing acknowledgement followed by a restart leaves both in the queue; `start_work` admits running work again (`task_store.py:817-826`) and the queue has eight slots. Then two handlers extract from one archive, and one may still run after the other
  wrote `.done` and while the next archive is extracted, although "Background Phase 2 work is serialized by archive order" (`docs/en/api/05-sessions.md:1347`). `ExtractsInTurn` exempts such archives (`twice`) from its second part.
- **A cancelled commit can block its successors until a restart.** `commit_async` takes the publication lease under the session lock and releases it under `except Exception` (`session.py:1872`) or in the `finally` of the publication (`session.py:1956`). A caller that is cancelled between the two
  leaves the lease with the live process, which goes on refreshing it. The ready archive has no message, its successor finds the lease taken and is requeued for ever. Without the exemption of leaked leases TLC reports `CommitsEnd` violated.
- **Messages that a handler left** (its outcome could not be stored, its task not be registered) stay claimed in the queue and are delivered again only by a restart; `CommitsEnd` exempts them (`deserted`) and those that wait for them.
- **Trusted mode: a task may outlive its owner.** `TaskTracker.create` looks at the guard again after the insertion so that a task created while its owner is deleted is withdrawn (`openviking/service/task_tracker.py:341-347`). In trusted mode the guard is the fence alone (`deletion.py:89-91`).
  A creation that passed the first look before the fence, inserts after the cleanup removed the tasks, and looks again when `finish_deletion` has removed the fence is accepted for an identity that is gone. `NothingLeft` asks for no such task only where identities have to be registered.
- **Sessions, documentation.** `docs/en/api/05-sessions.md:1347` says that archive `N+1` waits until `N` writes `.done`; a `.failed.json` is
  enough. Line 1348 says that later commits fail with `FAILED_PRECONDITION` after a failed archive; they are accepted. A reader stops at a failed archive too,
  where line 693 promises the messages after the latest completed one (the docstring of `_collect_session_context_components` says so).
- **A live reader may see covered messages late.** A snapshot of the live messages taken before a commit, merged with archives listed after it, can
  put messages that an ended archive covers behind newer ones; `ContextInOrder` speaks of the others.
- **Work with two messages.** A handler that replaces its message enqueues before its own delivery is marked requeued (`task_queue_middleware.py:227`). If another slot admits the
  replacement first, the requeue sets the work pending again, and a cancellation then settles it and ends the task under the running handler. `QuietEnd` exempts this (`sole`), and equally work whose
  enqueue was cancelled after the write was committed.
- **Tasks nobody ends.** A crash between the creation of a task and its first message, or in an inline operation, leaves it active (`orphaned`). If its type cannot be cancelled, each deletion of its owner
  waits for it until the deadline and fails.
- **A deletion can fail on a task that is about to withdraw.** A task inserted after `_cancel_tasks` has listed, and not yet withdrawn when `delete_tasks` runs, makes the cleanup fail; a new request repeats it.
- **A completed task may have failed work.** Failures of work are forgotten by a restart (the store's docstring says so), so "only `completed` means processing succeeded" (`docs/en/api/17-tasks.md:5`) holds of the
  work this process knows; that is what `CompletedSucceeded` states.

## 6. Plan

Done: PathLock over transactional providers and over the filesystem provider, its abstract specification,
its theorems of exclusion, adoption, release and refinement, over both kinds of providers; QueueFS with its cache and SQLite backends, the workers and the completion report; tasks and their work with the queue
middleware, their abstract specification, deletion composed with it; session commits and the reader of the context; the safety of all of
these as theorems.

Next, in this order:

1. `PathLockRecovery`: adopt, reacquire or fail, with bounded retries, composed with
   `PathLock` and `QueueFs`: a queued message is processed under a lock it owns.
2. Coalescing of semantic work in its processor.
3. The Redis lock provider with server time.
4. Multi-backend catch-up and checkpoints.
5. Creation, removal and clearing of queues with their task tracking.

Not planned: numeric indexes, model calls, parsing, HTTP and client code, which have no
concurrent state that a model of this kind could say something about.
