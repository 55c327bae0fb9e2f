------------------------------ MODULE TaskWork ------------------------------
(***************************************************************************)
(* Background tasks and the work they are made of: TaskTracker, the        *)
(* PersistentTaskStore under it and TaskWorkQueueMiddleware, which binds   *)
(* queue deliveries to task work (openviking/service/task_*.py).           *)
(*                                                                         *)
(* Task records are durable; work is kept in memory and rebuilt from the   *)
(* unacknowledged queue messages when the process starts.  Every store     *)
(* operation holds the record lock of its task, writes the record and then *)
(* publishes it: one step.  Operations and handlers interleave with each   *)
(* other between any two of their calls.                                   *)
(*                                                                         *)
(* The queue is the durable queue of DurableQueue with at-least-once       *)
(* delivery.  The inline work of task t, which has no message, is t        *)
(* itself.  Stages, metadata, events, statistics and the resource that     *)
(* reject_if_active compares are left out, as are writes of task records   *)
(* that fail and NamedQueue.clear, which no service calls.                 *)
(***************************************************************************)
EXTENDS Naturals, FiniteSets

CONSTANTS
  Task,
  Work,            \* ids of queued work, drawn afresh for every first enqueue
  TaskOf,          \* work -> its task
  Cancellable,     \* tasks of a type in _CANCELLABLE_TASK_TYPES
  Reopenable,      \* add_skill tasks: a package rollback cancels them when ended
  MaxMessages,     \* bound on the messages ever sent
  MaxRestarts,
  NoAgent

\* <<w, k>> is the k-th message that carries the work w: the first, or a replacement.
Message == Work \X (1 .. MaxMessages)

ASSUME TaskAssumption ==
  /\ TaskOf \in [Work -> Task] /\ Task \cap Work = {}
  /\ Cancellable \subseteq Task /\ Reopenable \subseteq Cancellable
  /\ MaxMessages \in Nat /\ MaxRestarts \in Nat
  /\ Task \cap Message = {} /\ NoAgent \notin Task \cup Message

VARIABLES
  task,        \* task -> its durable record
  work,        \* work, queued or inline -> its record in memory
  queue,       \* message -> where it is
  op,          \* task -> where the request or operation that made it is
  run,         \* message -> where the delivery of it is
  by,          \* message -> who is enqueueing it
  send,        \* message -> where that enqueue is
  stopping,    \* the workers drain and fetch nothing
  restarts,
  orphaned,    \* tasks a crash left active with no message (history)
  revoked      \* work whose enqueue raised and was undone (history)

agents == <<op, run, by, send>>
audit == <<orphaned, revoked>>
taskvars == <<task, work, queue, op, run, by, send, stopping, restarts,
              orphaned, revoked>>

-----------------------------------------------------------------------------
Active == {"pending", "running", "cancelling"}
Ended == {"completed", "failed", "cancelled"}
Status == {"none"} \cup Active \cup Ended
WorkState == {"none", "pending", "running", "done", "failed", "cancelled"}
Outcome == {"success", "failed", "requeued", "cancelled"}

TaskRecord == [status : Status, result : BOOLEAN, error : BOOLEAN]
WorkRecord == [state : WorkState, error : BOOLEAN]

NoTask == [status |-> "none", result |-> FALSE, error |-> FALSE]
NoWork == [state |-> "none", error |-> FALSE]
NewWork == [state |-> "pending", error |-> FALSE]

Owned(t) == {t} \cup {w \in Work : TaskOf[w] = t}
owner(d) == TaskOf[d[1]]
is_open(r) == r.state \in {"pending", "running"}
open_work(W, t) == {x \in Owned(t) : is_open(W[x])}
unacked(m) == queue[m] \in {"pending", "claimed"}

is_cancellation_requested(t) == task[t].status \in {"cancelling", "cancelled"}
admits(t) == task[t].status \in {"pending", "running"}

\* cancel_active, again and again by _cancel_poll_loop, cancels the handlers that run
\* for a cancelled task; stop cancels those that do not drain in time.
interruptible(d) == stopping \/ is_cancellation_requested(owner(d))

\* Mutant: failed work does not fail its task.
first_work_error_none(W, t) == FALSE

first_work_error(W, t) == \E x \in Owned(t) : W[x].state = "failed" /\ W[x].error

\* Mutant: an unfinished cancellation is settled as any other task.
finalize_task_plain(r, W, t) ==
  IF r.status \notin Active \/ open_work(W, t) # {} THEN r
  ELSE IF r.error \/ first_work_error(W, t) \/ ~r.result
       THEN [r EXCEPT !.status = "failed", !.error = TRUE]
       ELSE [r EXCEPT !.status = "completed"]

\* An active task with no open work ends: cancelled, failed by its own error, by
\* that of a work or for want of a result, or completed.
finalize_task(r, W, t) ==
  IF r.status \notin Active \/ open_work(W, t) # {} THEN r
  ELSE IF r.status = "cancelling" THEN [r EXCEPT !.status = "cancelled"]
  ELSE IF r.error \/ first_work_error(W, t) \/ ~r.result
       THEN [r EXCEPT !.status = "failed", !.error = TRUE]
       ELSE [r EXCEPT !.status = "completed"]

TaskInit ==
  /\ task = [t \in Task |-> NoTask]
  /\ work = [x \in Work \cup Task |-> NoWork]
  /\ queue = [m \in Message |-> "unsent"]
  /\ op = [t \in Task |-> "idle"]
  /\ run = [m \in Message |-> "idle"]
  /\ by = [m \in Message |-> NoAgent] /\ send = [m \in Message |-> "idle"]
  /\ stopping = FALSE /\ restarts = 0
  /\ orphaned = {} /\ revoked = {}

-----------------------------------------------------------------------------
(* Operations of the store.  Those on the work of a deleted task, on closed    *)
(* work or on work that is not known change nothing.                           *)

\* Mutant: the task is not looked at when its work ends.
mutate_work_alone(t, x, r) == work' = [work EXCEPT ![x] = r] /\ UNCHANGED task

\* _mutate_work with try_finalize: the work record and what becomes of the task.
mutate_work(t, x, r) ==
  /\ work' = [work EXCEPT ![x] = r]
  /\ task' = [task EXCEPT ![t] = finalize_task(@, [work EXCEPT ![x] = r], t)]

ignored == UNCHANGED <<task, work>>

finish_work(t, x, state, error) ==
  IF task[t].status = "none" \/ ~is_open(work[x]) THEN ignored
  ELSE mutate_work(t, x, [state |-> IF task[t].status = "cancelling" THEN "cancelled" ELSE state,
                          error |-> work[x].error \/ error])

requeue_work(t, x) ==
  IF task[t].status = "none" \/ ~is_open(work[x]) THEN ignored
  ELSE mutate_work(t, x, [work[x] EXCEPT !.state =
                            IF task[t].status = "cancelling" THEN "cancelled" ELSE "pending"])

\* Mutant: the work of an enqueue that was cancelled stays registered.
discard_work_not(t, x) == ignored

discard_work(t, x) ==
  IF task[t].status = "none" \/ work[x].state = "none" THEN ignored
  ELSE mutate_work(t, x, NoWork)

settle_work(t, x) ==
  IF task[t].status = "none" \/ work[x].state = "none" THEN ignored
  ELSE mutate_work(t, x, [work[x] EXCEPT !.state =
                            IF ~is_open(work[x]) THEN @
                            ELSE IF work[x].error THEN "failed" ELSE "done"])

record_outcome(t, result, error) ==
  /\ task' = IF task[t].status \in Active
             THEN [task EXCEPT ![t] =
                     finalize_task([@ EXCEPT !.result = task[t].result \/ result,
                                             !.error = task[t].error \/ error], work, t)]
             ELSE task
  /\ UNCHANGED work

\* Mutant: running work is settled as well, without waiting for its handler.
cancel_pending_and_inline_work_all(t) ==
  [x \in DOMAIN work |-> IF x \in open_work(work, t)
                         THEN [work[x] EXCEPT !.state = "cancelled"] ELSE work[x]]

\* Pending work and inline work are cancelled at once; a running handler goes on.
cancel_pending_and_inline_work(t) ==
  [x \in DOMAIN work |->
     IF x \in open_work(work, t) /\ (work[x].state = "pending" \/ x = t)
     THEN [work[x] EXCEPT !.state = "cancelled"] ELSE work[x]]

request_cancellation(t) ==
  /\ work' = cancel_pending_and_inline_work(t)
  /\ task' = [task EXCEPT ![t] =
                finalize_task([@ EXCEPT !.status = "cancelling"],
                              cancel_pending_and_inline_work(t), t)]

-----------------------------------------------------------------------------
(* Enqueueing (TaskWorkQueueMiddleware.enqueue).  The work is registered, the   *)
(* message written, and a registration of this call undone if the write raised. *)

sends(a) == {m \in Message : by[m] = a}

\* Mutant: work is registered whatever the state of its task.
add_work_always(t, w) ==
  work' = IF work[w].state = "none" THEN [work EXCEPT ![w] = NewWork] ELSE work

\* A cancelled or ended task takes no work; work it has already is a duplicate.
add_work(t, w) ==
  /\ admits(t)
  /\ work' = IF work[w].state = "none" THEN [work EXCEPT ![w] = NewWork] ELSE work

unused(m) == queue[m] = "unsent" /\ by[m] = NoAgent

\* A first enqueue draws an id that was never used.
IsFirstOf(t, m) ==
  /\ unused(m) /\ owner(m) = t /\ m[2] = 1
  /\ m = CHOOSE n \in Message : unused(n) /\ owner(n) = t /\ n[2] = 1

start_send(a, m) ==
  /\ unused(m) /\ Cardinality({n \in Message : ~unused(n)}) < MaxMessages
  /\ add_work(owner(m), m[1])
  /\ by' = [by EXCEPT ![m] = a]
  /\ send' = [send EXCEPT ![m] = IF work[m[1]].state = "none" THEN "created" ELSE "existing"]

\* Mutant: the enqueue stays on the books of its caller.
end_send_kept(m, ok) ==
  /\ by' = by
  /\ send' = [send EXCEPT ![m] = "idle"]
  /\ op' = IF by[m] \in Task /\ op[by[m]] = "submitting"
           THEN [op EXCEPT ![by[m]] = "over"] ELSE op
  /\ run' = IF by[m] \in Message /\ by[m][1] = m[1] /\ ok
            THEN [run EXCEPT ![by[m]] = "requeued"] ELSE run

\* An enqueue returned: a submitted request is over, and a handler that has
\* replaced its message returns.
end_send(m, ok) ==
  /\ by' = [by EXCEPT ![m] = NoAgent]
  /\ send' = [send EXCEPT ![m] = "idle"]
  /\ op' = IF by[m] \in Task /\ op[by[m]] = "submitting"
           THEN [op EXCEPT ![by[m]] = "over"] ELSE op
  /\ run' = IF by[m] \in Message /\ by[m][1] = m[1] /\ ok
            THEN [run EXCEPT ![by[m]] = "requeued"] ELSE run

\* The write is committed and answered.
Commit(m) ==
  /\ send[m] \in {"created", "existing"}
  /\ queue' = [queue EXCEPT ![m] = "pending"]
  /\ end_send(m, TRUE)
  /\ UNCHANGED <<task, work, stopping, restarts, audit>>

\* The write raised, or its caller was cancelled, which is seen when the write has
\* settled; either way it may have been committed.  Only the queue knows.
WriteRaises(m, cancelled, written) ==
  /\ send[m] \in {"created", "existing"}
  /\ cancelled => by[m] \in Task \/ interruptible(m)
  /\ queue' = [queue EXCEPT ![m] = IF written THEN "pending" ELSE "gone"]
  /\ IF send[m] = "existing" THEN end_send(m, FALSE)
     ELSE /\ send' = [send EXCEPT ![m] = IF cancelled THEN "discarding" ELSE "failing"]
          /\ UNCHANGED <<op, run, by>>
  /\ UNCHANGED <<task, work, stopping, restarts, audit>>

\* The registration is undone: failed, or taken back from a cancelled caller.
UndoSend(m) ==
  /\ \/ send[m] = "failing" /\ finish_work(owner(m), m[1], "failed", TRUE)
     \/ send[m] = "discarding" /\ discard_work(owner(m), m[1])
  /\ end_send(m, FALSE)
  /\ revoked' = revoked \cup {m[1]}
  /\ UNCHANGED <<queue, stopping, restarts, orphaned>>

-----------------------------------------------------------------------------
(* Requests and operations *)

\* TaskTracker.create writes the record and then looks at the deletion guard again.
Create(t) ==
  /\ op[t] = "idle" /\ ~stopping
  /\ task' = [task EXCEPT ![t] = [NoTask EXCEPT !.status = "pending"]]
  /\ op' = [op EXCEPT ![t] = "inserted"]
  /\ UNCHANGED <<work, queue, run, by, send, stopping, restarts, audit>>

Confirm(t) ==
  /\ op[t] = "inserted"
  /\ op' = [op EXCEPT ![t] = "created"]
  /\ UNCHANGED <<task, work, queue, run, by, send, stopping, restarts, audit>>

\* A record that nobody has used goes again; otherwise a refused task is cancelled,
\* or failed if its type cannot be cancelled.
withdraw(t, refused) ==
  IF task[t] = [NoTask EXCEPT !.status = "pending"] /\ \A x \in Owned(t) : work[x] = NoWork
  THEN task' = [task EXCEPT ![t] = NoTask] /\ UNCHANGED work
  ELSE IF refused /\ t \in Cancellable /\ admits(t) THEN request_cancellation(t)
  ELSE IF refused /\ t \notin Cancellable THEN record_outcome(t, FALSE, TRUE)
  ELSE ignored

\* create raised after it wrote the record: its caller was cancelled, or the second
\* look at the deletion guard refused it.
Withdraw(t, refused) ==
  /\ op[t] = "inserted"
  /\ withdraw(t, refused)
  /\ op' = [op EXCEPT ![t] = "over"]
  /\ UNCHANGED <<queue, run, by, send, stopping, restarts, audit>>

\* A request hands its task to the queue and is done.
Submit(t, m) ==
  /\ op[t] = "created" /\ IsFirstOf(t, m)
  /\ start_send(t, m)
  /\ op' = [op EXCEPT ![t] = "submitting"]
  /\ UNCHANGED <<task, queue, run, stopping, restarts, audit>>

\* The task was cancelled before: the enqueue is rejected and the request fails.
SubmitRejected(t) ==
  /\ op[t] = "created" /\ ~admits(t)
  /\ record_outcome(t, FALSE, TRUE)
  /\ op' = [op EXCEPT ![t] = "over"]
  /\ UNCHANGED <<queue, run, by, send, stopping, restarts, orphaned, revoked>>

\* run_tracked_operation runs the operation in the caller instead.
StartTask(t) ==
  /\ op[t] = "created"
  /\ task' = IF admits(t) THEN [task EXCEPT ![t].status = "running"] ELSE task
  /\ op' = [op EXCEPT ![t] = "started"]
  /\ UNCHANGED <<work, queue, run, by, send, stopping, restarts, audit>>

\* register_running_task: the inline work is added, if the task still takes any ...
RegisterInline(t) ==
  /\ op[t] = "started"
  /\ IF admits(t) THEN add_work(t, t) ELSE UNCHANGED work
  /\ op' = [op EXCEPT ![t] = IF admits(t) THEN "registering" ELSE "over"]
  /\ UNCHANGED <<task, queue, run, by, send, stopping, restarts, audit>>

\* ... and started, or taken back if a cancellation came between.
StartInline(t) ==
  /\ op[t] = "registering"
  /\ IF admits(t) /\ is_open(work[t])
     THEN /\ work' = [work EXCEPT ![t].state = "running"]
          /\ task' = [task EXCEPT ![t].status = "running"]
          /\ op' = [op EXCEPT ![t] = "running"]
     ELSE /\ discard_work(t, t)
          /\ op' = [op EXCEPT ![t] = "over"]
  /\ UNCHANGED <<queue, run, by, send, stopping, restarts, orphaned, revoked>>

\* The operation returned or raised; a cancellation during complete records both.
Report(t, result, error) ==
  /\ op[t] = "running" /\ sends(t) = {} /\ (result \/ error)
  /\ record_outcome(t, result, error)
  /\ op' = [op EXCEPT ![t] = "reported"]
  /\ UNCHANGED <<queue, run, by, send, stopping, restarts, orphaned, revoked>>

\* unregister_running_task marks the inline work done.
Unregister(t) ==
  /\ op[t] = "reported"
  /\ finish_work(t, t, "done", FALSE)
  /\ op' = [op EXCEPT ![t] = "over"]
  /\ UNCHANGED <<queue, run, by, send, stopping, restarts, orphaned, revoked>>

\* An operation enqueues work of its task.
OperationSends(t, m) ==
  /\ op[t] = "running" /\ IsFirstOf(t, m)
  /\ start_send(t, m)
  /\ UNCHANGED <<task, queue, op, run, stopping, restarts, audit>>

\* TaskTracker.cancel, and cancel_skill_update_for_rollback of an ended task.
Cancel(t) ==
  /\ t \in Cancellable
  /\ \/ admits(t)
     \/ t \in Reopenable /\ task[t].status \in {"completed", "failed"}
  /\ request_cancellation(t)
  /\ UNCHANGED <<queue, agents, stopping, restarts, orphaned, revoked>>

\* delete_expired: the record of an ended task goes, with its work.
Expire(t) ==
  /\ task[t].status \in Ended /\ open_work(work, t) = {}
  /\ task' = [task EXCEPT ![t] = NoTask]
  /\ work' = [x \in DOMAIN work |-> IF x \in Owned(t) THEN NoWork ELSE work[x]]
  /\ UNCHANGED <<queue, agents, stopping, restarts, audit>>

-----------------------------------------------------------------------------
(* Deliveries (NamedQueue, TaskWorkQueueMiddleware.process) *)

Fetch(d) ==
  /\ queue[d] = "pending" /\ ~stopping
  /\ queue' = [queue EXCEPT ![d] = "claimed"]
  /\ run' = [run EXCEPT ![d] = "claimed"]
  /\ UNCHANGED <<task, work, op, by, send, stopping, restarts, audit>>

\* start_work admits a delivery of open work, also of work that is running, and of
\* work that is not known.
startable(d) ==
  admits(owner(d)) /\ (work[d[1]].state = "none" \/ is_open(work[d[1]]))

Admit(d) ==
  /\ run[d] = "claimed" /\ startable(d)
  /\ work' = [work EXCEPT ![d[1]].state = "running"]
  /\ task' = [task EXCEPT ![owner(d)].status = "running"]
  /\ run' = [run EXCEPT ![d] = "running"]
  /\ UNCHANGED <<queue, op, by, send, stopping, restarts, audit>>

\* Otherwise the handler does not run: the delivery of a cancelled or deleted task
\* is cancelled, that of an ended task settled, that of closed work dropped.
Refuse(d) ==
  /\ run[d] = "claimed" /\ ~startable(d)
  /\ run' = [run EXCEPT ![d] =
               IF task[owner(d)].status \in {"none", "cancelling", "cancelled"} THEN "dropping"
               ELSE IF task[owner(d)].status \in {"completed", "failed"} THEN "settling"
               ELSE IF work[d[1]].state = "cancelled" THEN "dropping" ELSE "settled"]
  /\ UNCHANGED <<task, work, queue, op, by, send, stopping, restarts, audit>>

\* on_cancelled, then the work is marked done or failed.
DropCancelled(d, state) ==
  /\ run[d] = "dropping"
  /\ finish_work(owner(d), d[1], state, state = "failed")
  /\ run' = [run EXCEPT ![d] = "settled"]
  /\ UNCHANGED <<queue, op, by, send, stopping, restarts, orphaned, revoked>>

Settle(d) ==
  /\ run[d] = "settling"
  /\ settle_work(owner(d), d[1])
  /\ run' = [run EXCEPT ![d] = "settled"]
  /\ UNCHANGED <<queue, op, by, send, stopping, restarts, orphaned, revoked>>

\* A handler enqueues other work of its task ...
HandlerSends(d, m) ==
  /\ run[d] = "running" /\ IsFirstOf(owner(d), m)
  /\ start_send(d, m)
  /\ UNCHANGED <<task, queue, op, run, stopping, restarts, audit>>

\* ... or its own work again, to return REQUEUED.
Replace(d, m) ==
  /\ run[d] = "running" /\ sends(d) = {} /\ m = <<d[1], d[2] + 1>>
  /\ start_send(d, m)
  /\ UNCHANGED <<task, queue, op, run, stopping, restarts, audit>>

\* A handler records the outcome of its task (TaskTracker.complete and fail).
HandlerReports(d, result) ==
  /\ run[d] = "running" /\ sends(d) = {}
  /\ record_outcome(owner(d), result, ~result)
  /\ UNCHANGED <<queue, agents, stopping, restarts, orphaned, revoked>>

Return(d, outcome) ==
  /\ run[d] = "running" /\ sends(d) = {}
  /\ run' = [run EXCEPT ![d] = outcome]
  /\ UNCHANGED <<task, work, queue, op, by, send, stopping, restarts, audit>>

\* An exception keeps the work open and the message unacknowledged.
Raise(d) ==
  /\ run[d] = "running" /\ sends(d) = {}
  /\ work' = IF work[d[1]].state = "none" \/ task[owner(d)].status = "none" THEN work
             ELSE [work EXCEPT ![d[1]].error = TRUE]
  /\ run' = [run EXCEPT ![d] = "left"]
  /\ UNCHANGED <<task, queue, op, by, send, stopping, restarts, audit>>

\* CancelledError: inside the handler it is the outcome of a cancelled task; if the
\* drain caused it, or it came before the handler, the work is released for the next
\* process and the message is left.
Interrupted(d, inside) ==
  /\ run[d] = "running" /\ sends(d) = {} /\ interruptible(d)
  /\ IF inside /\ is_cancellation_requested(owner(d))
     THEN run' = [run EXCEPT ![d] = "cancelled"] /\ ignored
     ELSE run' = [run EXCEPT ![d] = "left"] /\ requeue_work(owner(d), d[1])
  /\ UNCHANGED <<queue, op, by, send, stopping, restarts, audit>>

\* _persist_result, by the outcome of the handler.
persist_result(d) ==
  CASE run[d] = "failed" -> finish_work(owner(d), d[1], "failed", TRUE)
    [] run[d] = "requeued" -> requeue_work(owner(d), d[1])
    [] run[d] \in {"success", "cancelled"} -> finish_work(owner(d), d[1], "done", FALSE)

\* A cancellation that arrives now is seen when the result is stored, and keeps the
\* message from being acknowledged.
Persist(d, interrupted) ==
  /\ run[d] \in Outcome /\ (interrupted => interruptible(d))
  /\ persist_result(d)
  /\ run' = [run EXCEPT ![d] = IF interrupted THEN "left" ELSE "settled"]
  /\ UNCHANGED <<queue, op, by, send, stopping, restarts, orphaned, revoked>>

\* The acknowledgement may fail: the message stays claimed.
Ack(d, ok) ==
  /\ run[d] = "settled"
  /\ queue' = IF ok THEN [queue EXCEPT ![d] = "gone"] ELSE queue
  /\ run' = [run EXCEPT ![d] = IF ok THEN "idle" ELSE "left"]
  /\ UNCHANGED <<task, work, op, by, send, stopping, restarts, audit>>

-----------------------------------------------------------------------------
(* The process *)

\* QueueManager.stop: nothing is fetched any more.
Stop ==
  /\ ~stopping
  /\ stopping' = TRUE
  /\ UNCHANGED <<task, work, queue, agents, restarts, audit>>

\* Mutant: messages of a cancelling task are not reconciled.
reconcile_delivery_admitted(w) == task[TaskOf[w]].status \in {"pending", "running"}

\* reconcile_delivery gives a message of an active task its work.
reconcile_delivery(w) == task[TaskOf[w]].status \in Active

\* The process ends, crashed or stopped, and the next one starts: claims return to
\* the queue, and prepare_task_tracking rebuilds the work before the workers start.
Restart ==
  /\ restarts < MaxRestarts
  /\ restarts' = restarts + 1 /\ stopping' = FALSE
  /\ queue' = [m \in Message |-> IF unacked(m) THEN "pending"
                                 ELSE IF by[m] # NoAgent THEN "gone" ELSE queue[m]]
  /\ work' = [x \in Work \cup Task |->
                IF x \in Work /\ reconcile_delivery(x) /\ (\E m \in Message : m[1] = x /\ unacked(m))
                THEN NewWork ELSE NoWork]
  /\ op' = [t \in Task |-> IF op[t] \in {"idle", "cut"} THEN op[t]
                           ELSE IF op[t] = "inserted" THEN "cut" ELSE "over"]
  /\ run' = [m \in Message |-> "idle"]
  /\ by' = [m \in Message |-> NoAgent] /\ send' = [m \in Message |-> "idle"]
  /\ orphaned' = {t \in Task : task[t].status \in Active /\ ~\E m \in Message : owner(m) = t /\ unacked(m)}
  /\ UNCHANGED <<task, revoked>>

RequestStep(t) ==
  \/ SubmitRejected(t) \/ StartTask(t) \/ RegisterInline(t) \/ StartInline(t)
  \/ \E result, error \in BOOLEAN : Report(t, result, error)
  \/ Unregister(t)
  \/ \E m \in Message : Submit(t, m) \/ OperationSends(t, m)

SendStep(m) ==
  Commit(m) \/ UndoSend(m) \/ \E cancelled, written \in BOOLEAN : WriteRaises(m, cancelled, written)

HandlerStep(d) ==
  \/ HandlerReports(d, TRUE) \/ HandlerReports(d, FALSE)
  \/ \E m \in Message : HandlerSends(d, m) \/ Replace(d, m)

HandlerEnds(d) ==
  Return(d, "success") \/ Return(d, "failed") \/ Raise(d)
  \/ Interrupted(d, TRUE) \/ Interrupted(d, FALSE)

DeliveryStep(d) ==
  \/ Fetch(d) \/ Admit(d) \/ Refuse(d) \/ Settle(d)
  \/ Persist(d, TRUE) \/ Persist(d, FALSE)
  \/ DropCancelled(d, "done") \/ DropCancelled(d, "failed")
  \/ Ack(d, TRUE) \/ Ack(d, FALSE)

TaskNext ==
  \/ \E t \in Task : Create(t) \/ Confirm(t) \/ RequestStep(t) \/ Cancel(t) \/ Expire(t)
                     \/ Withdraw(t, TRUE) \/ Withdraw(t, FALSE)
  \/ \E m \in Message : SendStep(m) \/ DeliveryStep(m) \/ HandlerStep(m) \/ HandlerEnds(m)
  \/ Stop \/ Restart

TaskSpec == TaskInit /\ [][TaskNext]_taskvars

\* What event loops and workers do by themselves.
Progress ==
  \/ \E t \in Task : Confirm(t) \/ RequestStep(t)
  \/ \E m \in Message : SendStep(m) \/ DeliveryStep(m) \/ HandlerEnds(m)

\* Something that is ready runs, and handlers return; nobody has to submit, cancel or
\* restart anything.
TaskFairness == WF_taskvars(Progress)

FairTaskSpec == TaskSpec /\ TaskFairness

-----------------------------------------------------------------------------
(* Properties *)

\* The variables have their types; enqueues have a caller and deliveries a claim.
TaskTypeOK ==
  /\ task \in [Task -> TaskRecord]
  /\ work \in [Work \cup Task -> WorkRecord]
  /\ queue \in [Message -> {"unsent", "pending", "claimed", "gone"}]
  /\ op \in [Task -> {"idle", "inserted", "created", "submitting", "started", "registering",
                      "running", "reported", "over", "cut"}]
  /\ run \in [Message -> Outcome \cup {"idle", "claimed", "running", "dropping",
                                       "settling", "settled", "left"}]
  /\ by \in [Message -> Task \cup Message \cup {NoAgent}]
  /\ send \in [Message -> {"idle", "created", "existing", "failing", "discarding"}]
  /\ \A m \in Message : send[m] = "idle" <=> by[m] = NoAgent
  /\ \A d \in Message : run[d] # "idle" => queue[d] = "claimed"
  /\ stopping \in BOOLEAN /\ restarts \in 0 .. MaxRestarts
  /\ orphaned \subseteq Task /\ revoked \subseteq Work

\* A task that ended has no open work, and a task being cancelled has some to wait
\* for: no registration, delivery or late result reopens what has ended, and no
\* cancellation is left without an end.
EndedIsClosed ==
  \A t \in Task :
    /\ task[t].status \in Ended \cup {"none"} => open_work(work, t) = {}
    /\ task[t].status = "cancelling" => open_work(work, t) # {}

\* Open work has somebody who will close it: queued work an unacknowledged message
\* or an enqueue under way, inline work its operation.
NoStrandedWork ==
  /\ \A w \in Work : is_open(work[w]) =>
       \E m \in Message : m[1] = w /\ (unacked(m) \/ by[m] # NoAgent)
  /\ \A t \in Task : is_open(work[t]) => op[t] \in {"registering", "running", "reported"}

\* An active task has open work or a request on its way, unless a crash took the
\* request and the queue holds no message of the task.
ActiveIsDriven ==
  \A t \in Task : task[t].status \in Active /\ t \notin orphaned =>
    open_work(work, t) # {} \/ op[t] \notin {"idle", "over", "cut"}

\* Handlers that run for work with one message, which is still the work's.
sole(d) ==
  d[1] \notin revoked /\ \A m \in Message : m[1] = d[1] /\ m # d => queue[m] = "unsent"

\* A task ends only when its handlers have: none of them still runs, but for work
\* that has two messages, or whose enqueue was undone although it was committed.
QuietEnd ==
  \A d \in Message :
    run[d] = "running" /\ sole(d) => task[owner(d)].status \in {"running", "cancelling"}

\* What TaskLife sees of a task: its status, its creation and whether a handler runs
\* for it.
status == [t \in Task |-> task[t].status]

made == [t \in Task |-> IF op[t] = "idle" THEN "no"
                        ELSE IF op[t] \in {"inserted", "cut"} THEN op[t] ELSE "past"]

busy == {t \in Task : \E d \in Message : owner(d) = t /\ run[d] = "running" /\ sole(d)}

\* Creation, work, cancellation and end of tasks are those of TaskLife, in which a
\* task that ends is not busy.
Life == INSTANCE TaskLife WITH status <- status, made <- made, busy <- busy

ImplementsTaskLife == Life!LifeSpec

\* "Only `completed` means processing succeeded" (docs/en/api/17-tasks.md): a
\* completed task has a result and no error, and none of the work this process
\* knows of failed.
CompletedSucceeded ==
  \A t \in Task : task[t].status = "completed" =>
    /\ task[t].result /\ ~task[t].error
    /\ \A x \in Owned(t) : work[x].state # "failed"

\* An active task ends, unless it waits for a restart: the workers stop, a delivery
\* was left unacknowledged, or a crash orphaned the task.
TasksEnd ==
  \A t \in Task :
    task[t].status \in Active ~>
      (\/ task[t].status \notin Active \/ stopping \/ t \in orphaned
       \/ \E d \in Message : owner(d) = t /\ run[d] = "left")
=============================================================================
