--------------------------- MODULE TaskWorkProofs ---------------------------
(***************************************************************************)
(* What TaskWork guarantees for any tasks, works, messages and restarts.    *)
(* The properties lean on each other: that a task which has ended has no    *)
(* open work is needed to show that no work is stranded, and after a        *)
(* restart, when the work is rebuilt from the queue, it holds because no    *)
(* work of a task that is being cancelled was stranded before.              *)
(***************************************************************************)
EXTENDS TaskWork, TLAPS

\* A task that is not created yet, or whose creation has not returned.
Early == {"idle", "inserted", "cut"}

\* A message that will still make something of its work when it is handled: not one
\* whose outcome is stored, and not one that was replaced.
live(m) == unacked(m) /\ run[m] \notin {"settled", "requeued"}

\* The message of an enqueue under way is unsent until the write has settled; a message
\* is used only after the first of its work, and when the creation of its task is over.
Enqueues ==
  \A m \in Message :
    /\ send[m] \in {"created", "existing"} => queue[m] = "unsent"
    /\ send[m] \in {"failing", "discarding"} => queue[m] # "unsent"
    /\ ~unused(m) => ~unused(<<m[1], 1>>) /\ op[owner(m)] \notin Early

\* A handler that replaces its message runs until it has; work that was there before
\* its enqueue is that of such a handler.
Replacements ==
  \A m \in Message :
    /\ by[m] \in Message /\ by[m][1] = m[1] =>
         run[by[m]] = "running" /\ m = <<by[m][1], by[m][2] + 1>>
    /\ send[m] = "existing" => by[m] \in Message /\ by[m][1] = m[1]

\* Work is known only when one of its messages was used.
Known ==
  \A w \in Work : work[w].state # "none" => \E m \in Message : m[1] = w /\ ~unused(m)

\* Queued work that is open has a live message or an enqueue under way; work that runs
\* or outlives the cancellation of its task has a live message, which a restart keeps.
Carried ==
  \A w \in Work :
    /\ is_open(work[w]) => \E m \in Message : m[1] = w /\ (live(m) \/ by[m] # NoAgent)
    /\ \/ work[w].state = "running"
       \/ is_open(work[w]) /\ task[TaskOf[w]].status = "cancelling"
       => \E m \in Message : m[1] = w /\ live(m)

\* Inline work is registered by its operation, and open while that runs and nobody has
\* cancelled it.
inline_open(t) ==
  /\ is_open(work[t]) =>
       op[t] \in {"registering", "running", "reported"} /\ task[t].status # "cancelling"
  /\ op[t] \in {"created", "started"} => work[t].state = "none"

InlineOpen == \A t \in Task : inline_open(t)

\* Work that failed has an error.
FailedHasError ==
  \A x \in Work \cup Task : work[x].state = "failed" => work[x].error

\* The handler of a sole message keeps its work, and so its task, running.
Handled ==
  \A d \in Message : run[d] = "running" /\ sole(d) =>
    work[d[1]].state = "running" /\ task[owner(d)].status \in {"running", "cancelling"}

\* The record of a task whose creation has not returned is as it was written or ended.
pristine(t) ==
  op[t] \in Early =>
    /\ task[t].status \in Active => task[t] = [NoTask EXCEPT !.status = "pending"]
    /\ \A x \in Owned(t) : work[x] = NoWork

Pristine == \A t \in Task : pristine(t)

\* An active task without open work is one whose request goes on, or an orphan.
driven(t) ==
  task[t].status \in Active /\ t \notin orphaned =>
    open_work(work, t) # {} \/ op[t] \in {"inserted", "created", "started"}

Driven == \A t \in Task : driven(t)

WorkInv ==
  /\ TaskTypeOK /\ Enqueues /\ Replacements /\ Known
  /\ EndedIsClosed /\ Carried /\ InlineOpen
  /\ FailedHasError /\ CompletedSucceeded /\ Handled /\ Pristine /\ Driven

-----------------------------------------------------------------------------
(* The store *)

StoreInv ==
  /\ task \in [Task -> TaskRecord] /\ work \in [Work \cup Task -> WorkRecord]
  /\ EndedIsClosed /\ FailedHasError /\ CompletedSucceeded

\* A task keeps its status or ends as its work allows.
EndsOrKeeps(t) ==
  \/ task'[t].status = task[t].status
  \/ task[t].status = "cancelling" /\ task'[t].status = "cancelled"
  \/ task[t].status \in {"pending", "running"} /\ task'[t].status \in {"completed", "failed"}

\* Only the record of t and the works X change, and no work is opened.
Only(t, X) ==
  /\ \A u \in Task \ {t} : task'[u] = task[u]
  /\ \A y \in (Work \cup Task) \ X : work'[y] = work[y]
  /\ \A y \in X :
       /\ is_open(work'[y]) => is_open(work[y])
       /\ work'[y].state \in {"none", "done", "failed", "cancelled", "pending", work[y].state}
       /\ work[y].state = "none" => work'[y] = work[y]

\* What an operation on the store leaves behind: a task that is active has open work,
\* unless it had none before.
Stored(t, X) ==
  /\ StoreInv' /\ Only(t, X) /\ EndsOrKeeps(t)
  /\ task'[t].status \in Active =>
       \/ open_work(work', t) # {}
       \/ task'[t] = task[t] /\ open_work(work', t) = open_work(work, t)

\* What finalize_task makes of the record r: the record f.
Finalized(r, W, t, f) ==
  /\ f \in TaskRecord
  /\ r.status \notin Active \/ open_work(W, t) # {} => f = r
  /\ r.status \in Active /\ open_work(W, t) = {} =>
       /\ r.status = "cancelling" => f.status = "cancelled"
       /\ r.status # "cancelling" => f.status \in {"completed", "failed"}
  /\ f.status = "completed" /\ r.status # "completed" =>
       f.result /\ ~f.error /\ ~first_work_error(W, t)

\* An active task without open work ends.
LEMMA Finalize ==
  ASSUME NEW r \in TaskRecord, NEW W \in [Work \cup Task -> WorkRecord], NEW t \in Task
  PROVE  Finalized(r, W, t, finalize_task(r, W, t))
<1> USE DEF Finalized
<1> DEFINE f == finalize_task(r, W, t)
<1>1. CASE r.status \notin Active \/ open_work(W, t) # {}
  BY <1>1 DEF finalize_task
<1>2. CASE r.status \in Active /\ open_work(W, t) = {} /\ r.status = "cancelling"
  <2>1. f = [r EXCEPT !.status = "cancelled"]
    BY <1>2 DEF finalize_task
  <2> QED BY <1>2, <2>1 DEF TaskRecord, Status, Ended, Active
<1>3. CASE r.status \in Active /\ open_work(W, t) = {} /\ r.status # "cancelling"
  <2> DEFINE bad == r.error \/ first_work_error(W, t) \/ ~r.result
  <2>1. CASE bad
    <3>1. f = [r EXCEPT !.status = "failed", !.error = TRUE]
      BY <1>3, <2>1 DEF finalize_task
    <3> QED BY <1>3, <3>1 DEF TaskRecord, Status, Ended, Active
  <2>2. CASE ~bad
    <3>1. f = [r EXCEPT !.status = "completed"]
      BY <1>3, <2>2 DEF finalize_task
    <3> QED BY <1>3, <2>2, <3>1 DEF TaskRecord, Status, Ended, Active
  <2> QED BY <2>1, <2>2
<1> QED BY <1>1, <1>2, <1>3

\* Works belong to one task.
LEMMA OwnedApart ==
  /\ \A t, u \in Task : \A x \in Owned(t) \cap Owned(u) : t = u
  /\ \A t \in Task : Owned(t) \subseteq Work \cup Task /\ t \in Owned(t)
  /\ \A w \in Work : w \in Owned(TaskOf[w]) /\ TaskOf[w] \in Task
BY TaskAssumption DEF Owned

\* mutate_work keeps the store in order if the new record of the work is.
LEMMA MutateWork ==
  ASSUME StoreInv, NEW t \in Task, NEW x \in Owned(t), NEW r \in WorkRecord,
         mutate_work(t, x, r),
         r.state = "failed" => r.error,
         is_open(r) => task[t].status \in Active,
         task[t].status = "completed" => r.state # "failed"
  PROVE  /\ StoreInv' /\ EndsOrKeeps(t) /\ work'[x] = r
         /\ \A u \in Task \ {t} : task'[u] = task[u]
         /\ \A y \in (Work \cup Task) \ {x} : work'[y] = work[y]
         /\ task'[t].status \in Active => open_work(work', t) # {}
<1> DEFINE W == [work EXCEPT ![x] = r]
<1>0. x \in Work \cup Task /\ \A u \in Task \ {t} : x \notin Owned(u)
  BY OwnedApart
<1>1. /\ work' = W /\ W \in [Work \cup Task -> WorkRecord] /\ W[x] = r
      /\ \A y \in (Work \cup Task) \ {x} : W[y] = work[y]
  BY <1>0 DEF mutate_work, StoreInv
<1> DEFINE f == finalize_task(task[t], W, t)
<1>3. Finalized(task[t], W, t, f)
  BY <1>1, Finalize DEF StoreInv
<1>2. /\ task' \in [Task -> TaskRecord] /\ task'[t] = f
      /\ \A u \in Task \ {t} : task'[u] = task[u]
  BY <1>1, <1>3 DEF mutate_work, StoreInv, Finalized
<1> HIDE DEF f
<1>4. \A u \in Task \ {t} : open_work(W, u) = open_work(work, u)
  BY <1>0, <1>1, OwnedApart DEF open_work
<1>5. EndsOrKeeps(t) /\ (task'[t].status \in Active => open_work(work', t) # {})
  BY <1>1, <1>2, <1>3 DEF Finalized, EndsOrKeeps, Active, f, StoreInv, TaskRecord, Status, Ended
<1>6. EndedIsClosed'
  <2> SUFFICES ASSUME NEW u \in Task
               PROVE  /\ task'[u].status \in Ended \cup {"none"} => open_work(W, u) = {}
                      /\ task'[u].status = "cancelling" => open_work(W, u) # {}
    BY <1>1 DEF EndedIsClosed
  <2>1. CASE u # t
    BY <1>2, <1>4, <2>1 DEF StoreInv, EndedIsClosed
  <2>2. CASE u = t /\ task[t].status \in Active
    BY <1>1, <1>2, <1>3, <2>2 DEF f, Active, Ended, Finalized
  <2>3. CASE u = t /\ task[t].status \notin Active
    <3>1. task[t].status \in Ended \cup {"none"} /\ open_work(work, t) = {}
      BY <2>3 DEF StoreInv, EndedIsClosed, TaskRecord, Status
    <3>2. open_work(W, t) = {}
      BY <1>0, <1>1, <2>3, <3>1, OwnedApart DEF open_work
    <3> QED BY <1>2, <1>3, <2>3, <3>1, <3>2 DEF f, Ended, Finalized
  <2> QED BY <2>1, <2>2, <2>3
<1>7. FailedHasError'
  BY <1>1 DEF StoreInv, FailedHasError
<1>8. CompletedSucceeded'
  <2> SUFFICES ASSUME NEW u \in Task, task'[u].status = "completed"
               PROVE  /\ task'[u].result /\ ~task'[u].error
                      /\ \A y \in Owned(u) : W[y].state # "failed"
    BY <1>1 DEF CompletedSucceeded
  <2>1. CASE u # t
    BY <1>0, <1>1, <1>2, <2>1, OwnedApart DEF StoreInv, CompletedSucceeded
  <2>2. CASE u = t /\ task[t].status = "completed"
    BY <1>0, <1>1, <1>2, <1>3, <2>2, OwnedApart DEF StoreInv, CompletedSucceeded, f, Active, Finalized
  <2>3. CASE u = t /\ task[t].status # "completed"
    <3>1. f.result /\ ~f.error /\ ~first_work_error(W, t)
      BY <1>2, <1>3, <2>3 DEF f, Finalized
    <3>2. \A y \in Owned(t) : W[y].state = "failed" => W[y].error
      BY <1>1, <1>7, OwnedApart DEF FailedHasError
    <3> QED BY <1>2, <2>3, <3>1, <3>2 DEF f, first_work_error
  <2> QED BY <2>1, <2>2, <2>3
<1> QED BY <1>1, <1>2, <1>5, <1>6, <1>7, <1>8 DEF StoreInv

\* A change of one work that opens none is one of Stored.
LEMMA MutateStores ==
  ASSUME StoreInv, NEW t \in Task, NEW x \in Owned(t), NEW r \in WorkRecord,
         mutate_work(t, x, r), is_open(work[x]) \/ ~is_open(r), work[x].state # "none",
         r.state = "failed" => r.error,
         task[t].status = "completed" => r.state # "failed",
         r.state \in {"none", "done", "failed", "cancelled", "pending", work[x].state}
  PROVE  Stored(t, {x}) /\ work'[x] = r
<1>1. is_open(r) => task[t].status \in Active
  BY OwnedApart DEF StoreInv, EndedIsClosed, open_work, TaskRecord, Status
<1>2. /\ StoreInv' /\ EndsOrKeeps(t) /\ work'[x] = r
      /\ \A u \in Task \ {t} : task'[u] = task[u]
      /\ \A y \in (Work \cup Task) \ {x} : work'[y] = work[y]
      /\ task'[t].status \in Active => open_work(work', t) # {}
  BY <1>1, MutateWork
<1> QED BY <1>2 DEF Stored, Only

\* finish_work, requeue_work, discard_work and settle_work.
LEMMA NothingStored ==
  ASSUME StoreInv, ignored, NEW t \in Task, NEW X
  PROVE  Stored(t, X)
<1>1. UNCHANGED <<task, work>>
  BY DEF ignored
<1>2. StoreInv'
  BY <1>1 DEF StoreInv, EndedIsClosed, FailedHasError, CompletedSucceeded, open_work, is_open
<1> QED BY <1>1, <1>2 DEF Stored, Only, EndsOrKeeps

LEMMA FinishStores ==
  ASSUME StoreInv, NEW t \in Task, NEW x \in Owned(t), NEW state \in {"done", "failed"},
         NEW error \in BOOLEAN, state = "failed" => error, finish_work(t, x, state, error)
  PROVE  Stored(t, {x}) /\ ~is_open(work'[x])
<1>0. x \in Work \cup Task
  BY OwnedApart
<1>1. CASE task[t].status = "none" \/ ~is_open(work[x])
  <2>1. ignored
    BY <1>1 DEF finish_work
  <2>2. ~is_open(work[x])
    BY <1>1 DEF StoreInv, EndedIsClosed, open_work
  <2> QED BY <2>1, <2>2, NothingStored DEF ignored
<1>2. CASE ~(task[t].status = "none" \/ ~is_open(work[x]))
  <2> DEFINE r == [state |-> IF task[t].status = "cancelling" THEN "cancelled" ELSE state,
                   error |-> work[x].error \/ error]
  <2>1. mutate_work(t, x, r)
    BY <1>2 DEF finish_work
  <2>2. r \in WorkRecord /\ ~is_open(r) /\ r.state \in {"done", "failed", "cancelled"}
    BY <1>0 DEF StoreInv, WorkRecord, WorkState, is_open
  <2>3. r.state = "failed" => r.error
    OBVIOUS
  <2>4. task[t].status # "completed" /\ work[x].state # "none"
    BY <1>2 DEF StoreInv, EndedIsClosed, open_work, Ended, is_open
  <2> HIDE DEF r
  <2> QED BY <2>1, <2>2, <2>3, <2>4, MutateStores
<1> QED BY <1>1, <1>2

LEMMA RequeueStores ==
  ASSUME StoreInv, NEW t \in Task, NEW x \in Owned(t), requeue_work(t, x)
  PROVE  /\ Stored(t, {x})
         /\ work'[x].state # "running"
         /\ task[t].status = "cancelling" => ~is_open(work'[x])
<1>0. x \in Work \cup Task
  BY OwnedApart
<1>1. CASE task[t].status = "none" \/ ~is_open(work[x])
  <2>1. ignored
    BY <1>1 DEF requeue_work
  <2>2. ~is_open(work[x])
    BY <1>1 DEF StoreInv, EndedIsClosed, open_work
  <2> QED BY <2>1, <2>2, NothingStored DEF ignored, is_open
<1>2. CASE ~(task[t].status = "none" \/ ~is_open(work[x]))
  <2> DEFINE s == IF task[t].status = "cancelling" THEN "cancelled" ELSE "pending"
             r == [work[x] EXCEPT !.state = s]
  <2>1. mutate_work(t, x, r)
    BY <1>2 DEF requeue_work
  <2>2. /\ r \in WorkRecord /\ r.state \in {"cancelled", "pending"}
        /\ task[t].status = "cancelling" => ~is_open(r)
    BY <1>0 DEF StoreInv, WorkRecord, WorkState, is_open
  <2>4. work[x].state # "none"
    BY <1>2 DEF is_open
  <2> HIDE DEF r
  <2> QED BY <1>2, <2>1, <2>2, <2>4, MutateStores
<1> QED BY <1>1, <1>2

LEMMA DiscardStores ==
  ASSUME StoreInv, NEW t \in Task, NEW x \in Owned(t), discard_work(t, x)
  PROVE  Stored(t, {x}) /\ ~is_open(work'[x])
<1>1. CASE task[t].status = "none" \/ work[x].state = "none"
  <2>1. ignored
    BY <1>1 DEF discard_work
  <2>2. ~is_open(work[x])
    BY <1>1 DEF StoreInv, EndedIsClosed, open_work, is_open
  <2> QED BY <2>1, <2>2, NothingStored DEF ignored
<1>2. CASE ~(task[t].status = "none" \/ work[x].state = "none")
  <2>1. mutate_work(t, x, NoWork)
    BY <1>2 DEF discard_work
  <2>2. NoWork \in WorkRecord /\ ~is_open(NoWork) /\ NoWork.state = "none"
    BY DEF NoWork, WorkRecord, WorkState, is_open
  <2> QED BY <1>2, <2>1, <2>2, MutateStores
<1> QED BY <1>1, <1>2

LEMMA SettleStores ==
  ASSUME StoreInv, NEW t \in Task, NEW x \in Owned(t), settle_work(t, x)
  PROVE  Stored(t, {x}) /\ ~is_open(work'[x])
<1>0. x \in Work \cup Task
  BY OwnedApart
<1>1. CASE task[t].status = "none" \/ work[x].state = "none"
  <2>1. ignored
    BY <1>1 DEF settle_work
  <2>2. ~is_open(work[x])
    BY <1>1 DEF StoreInv, EndedIsClosed, open_work, is_open
  <2> QED BY <2>1, <2>2, NothingStored DEF ignored
<1>2. CASE ~(task[t].status = "none" \/ work[x].state = "none")
  <2> DEFINE s == IF ~is_open(work[x]) THEN work[x].state
                  ELSE IF work[x].error THEN "failed" ELSE "done"
             r == [work[x] EXCEPT !.state = s]
  <2>1. mutate_work(t, x, r)
    BY <1>2 DEF settle_work
  <2>2. work[x] \in WorkRecord
    BY <1>0 DEF StoreInv
  <2>3. r \in WorkRecord /\ ~is_open(r) /\ r.state \in {"done", "failed", work[x].state}
    BY <2>2 DEF WorkRecord, WorkState, is_open
  <2>4. r.state = "failed" => r.error
    BY <1>0, <2>2 DEF WorkRecord, StoreInv, FailedHasError
  <2>5. task[t].status = "completed" => r.state # "failed"
    BY <2>2 DEF StoreInv, EndedIsClosed, CompletedSucceeded, open_work, Ended, WorkRecord
  <2> HIDE DEF r
  <2> QED BY <1>2, <2>1, <2>3, <2>4, <2>5, MutateStores
<1> QED BY <1>1, <1>2

\* complete and fail.
LEMMA RecordStores ==
  ASSUME StoreInv, NEW t \in Task, NEW result \in BOOLEAN, NEW error \in BOOLEAN,
         record_outcome(t, result, error), NEW X
  PROVE  Stored(t, X) /\ UNCHANGED work
<1>1. CASE task[t].status \notin Active
  BY <1>1, NothingStored DEF record_outcome, ignored
<1>2. CASE task[t].status \in Active
  <2> DEFINE r == [task[t] EXCEPT !.result = task[t].result \/ result,
                                  !.error = task[t].error \/ error]
             f == finalize_task(r, work, t)
  <2>1. UNCHANGED work /\ task' = [task EXCEPT ![t] = f]
    BY <1>2 DEF record_outcome
  <2>2. r \in TaskRecord /\ r.status = task[t].status
    BY DEF StoreInv, TaskRecord
  <2> HIDE DEF r
  <2>3. Finalized(r, work, t, f)
    BY <2>2, Finalize DEF StoreInv
  <2> HIDE DEF f
  <2>4. /\ task' \in [Task -> TaskRecord] /\ task'[t] = f
        /\ \A u \in Task \ {t} : task'[u] = task[u]
    BY <2>1, <2>3 DEF StoreInv, Finalized
  <2>5. EndsOrKeeps(t) /\ (task'[t].status \in Active => open_work(work', t) # {})
    BY <1>2, <2>1, <2>2, <2>3, <2>4 DEF EndsOrKeeps, Active, Finalized
  <2>6. EndedIsClosed'
    <3> SUFFICES ASSUME NEW u \in Task
                 PROVE  /\ task'[u].status \in Ended \cup {"none"} => open_work(work, u) = {}
                        /\ task'[u].status = "cancelling" => open_work(work, u) # {}
      BY <2>1 DEF EndedIsClosed
    <3>1. CASE u # t
      BY <2>4, <3>1 DEF StoreInv, EndedIsClosed
    <3>2. CASE u = t
      BY <1>2, <2>2, <2>3, <2>4, <3>2 DEF Finalized, Active, Ended
    <3> QED BY <3>1, <3>2
  <2>7. FailedHasError'
    BY <2>1 DEF StoreInv, FailedHasError
  <2>8. CompletedSucceeded'
    <3> SUFFICES ASSUME NEW u \in Task, task'[u].status = "completed"
                 PROVE  /\ task'[u].result /\ ~task'[u].error
                        /\ \A y \in Owned(u) : work[y].state # "failed"
      BY <2>1 DEF CompletedSucceeded
    <3>1. CASE u # t
      BY <2>4, <3>1 DEF StoreInv, CompletedSucceeded
    <3>2. CASE u = t
      BY <1>2, <2>2, <2>3, <2>4, <3>2, OwnedApart
         DEF Finalized, Active, first_work_error, StoreInv, FailedHasError
    <3> QED BY <3>1, <3>2
  <2>9. StoreInv' /\ Only(t, X)
    BY <2>1, <2>4, <2>6, <2>7, <2>8 DEF StoreInv, Only
  <2> QED BY <2>1, <2>5, <2>9 DEF Stored
<1> QED BY <1>1, <1>2

\* What a cancellation leaves open runs in a handler; with nothing left it is over.
Cancels(t) ==
  /\ StoreInv' /\ Only(t, Owned(t))
  /\ \A y \in Owned(t) : is_open(work'[y]) => work'[y].state = "running" /\ y # t
  /\ \A w \in Work : work[w].state = "running" => work'[w] = work[w]
  /\ task'[t].status = IF open_work(work', t) = {} THEN "cancelled" ELSE "cancelling"

LEMMA CancellationStores ==
  ASSUME StoreInv, NEW t \in Task, request_cancellation(t)
  PROVE  Cancels(t)
<1> DEFINE W == cancel_pending_and_inline_work(t)
           r == [task[t] EXCEPT !.status = "cancelling"]
           f == finalize_task(r, W, t)
<1>0. /\ work' = W
      /\ W = [y \in Work \cup Task |->
                IF y \in open_work(work, t) /\ (work[y].state = "pending" \/ y = t)
                THEN [work[y] EXCEPT !.state = "cancelled"] ELSE work[y]]
  BY DEF request_cancellation, cancel_pending_and_inline_work, StoreInv
<1> HIDE DEF W
<1>1. /\ work' = W /\ W \in [Work \cup Task -> WorkRecord]
      /\ \A y \in (Work \cup Task) \ Owned(t) : W[y] = work[y]
      /\ \A y \in Work \cup Task :
           /\ W[y] = work[y] \/ W[y] = [work[y] EXCEPT !.state = "cancelled"]
           /\ y \in Owned(t) /\ is_open(W[y]) => W[y].state = "running" /\ y # t
           /\ y \in Work /\ work[y].state = "running" => W[y] = work[y]
           /\ ~is_open(work[y]) => W[y] = work[y]
  <2>1. ASSUME NEW y \in Work \cup Task
        PROVE  [work[y] EXCEPT !.state = "cancelled"] \in WorkRecord /\ work[y] \in WorkRecord
    BY DEF StoreInv, WorkRecord, WorkState
  <2>2. W \in [Work \cup Task -> WorkRecord]
    BY <1>0, <2>1
  <2>3. ASSUME NEW y \in Work \cup Task
        PROVE  /\ W[y] = work[y] \/ W[y] = [work[y] EXCEPT !.state = "cancelled"]
               /\ y \notin Owned(t) \/ ~is_open(work[y]) => W[y] = work[y]
               /\ y \in Owned(t) /\ is_open(W[y]) => W[y].state = "running" /\ y # t
               /\ y \in Work /\ work[y].state = "running" => W[y] = work[y]
    BY <1>0, <2>1, TaskAssumption DEF open_work, is_open, WorkRecord
  <2> QED BY <1>0, <2>2, <2>3
<1>2. r \in TaskRecord /\ r.status = "cancelling"
  BY DEF StoreInv, TaskRecord, Status, Active
<1>3. task' = [task EXCEPT ![t] = f]
  BY DEF request_cancellation, W
<1> HIDE DEF r
<1>4. Finalized(r, W, t, f)
  BY <1>1, <1>2, Finalize
<1> HIDE DEF f
<1>5. /\ task' \in [Task -> TaskRecord] /\ task'[t] = f
      /\ \A u \in Task \ {t} : task'[u] = task[u]
  BY <1>3, <1>4 DEF StoreInv, Finalized
<1>6. task'[t].status = IF open_work(work', t) = {} THEN "cancelled" ELSE "cancelling"
  BY <1>1, <1>2, <1>4, <1>5 DEF Finalized, Active
<1>7. \A u \in Task \ {t} : open_work(W, u) = open_work(work, u)
  BY <1>1, OwnedApart DEF open_work
<1>8. EndedIsClosed'
  BY <1>1, <1>5, <1>6, <1>7 DEF StoreInv, EndedIsClosed, Ended
<1>9. FailedHasError'
  BY <1>1 DEF StoreInv, FailedHasError, WorkRecord
<1>10. CompletedSucceeded'
  <2> SUFFICES ASSUME NEW u \in Task, task'[u].status = "completed"
               PROVE  /\ task'[u].result /\ ~task'[u].error
                      /\ \A y \in Owned(u) : W[y].state # "failed"
    BY <1>1 DEF CompletedSucceeded
  <2>1. u # t
    BY <1>6
  <2> QED BY <1>1, <1>5, <2>1, OwnedApart DEF StoreInv, CompletedSucceeded
<1>11. Only(t, Owned(t))
  <2>1. ASSUME NEW y \in Owned(t)
        PROVE  /\ is_open(W[y]) => is_open(work[y])
               /\ W[y].state \in {"none", "done", "failed", "cancelled", "pending", work[y].state}
               /\ work[y].state = "none" => W[y] = work[y]
    <3>1. y \in Work \cup Task /\ work[y] \in WorkRecord
      BY OwnedApart DEF StoreInv
    <3> QED BY <1>1, <3>1 DEF WorkRecord, is_open
  <2> QED BY <1>1, <1>5, <2>1 DEF Only
<1>12. \A y \in Owned(t) : is_open(work'[y]) => work'[y].state = "running" /\ y # t
  BY <1>1, OwnedApart
<1>13. \A w \in Work : work[w].state = "running" => work'[w] = work[w]
  BY <1>1
<1> QED BY <1>1, <1>5, <1>6, <1>8, <1>9, <1>10, <1>11, <1>12, <1>13 DEF Cancels, StoreInv

-----------------------------------------------------------------------------
(* Steps of requests and operations *)

OpState == {"idle", "inserted", "created", "submitting", "started", "registering",
            "running", "reported", "over", "cut"}

\* What messages are made of.
LEMMA Messages ==
  /\ \A m \in Message : /\ m[1] \in Work /\ m[2] \in 1 .. MaxMessages /\ m = <<m[1], m[2]>>
                        /\ <<m[1], 1>> \in Message
                        /\ owner(m) \in Task /\ m[1] \in Owned(owner(m))
  /\ Message \cap Task = {} /\ NoAgent \notin Task \cup Message
BY TaskAssumption DEF Message, owner, Owned

\* A step of the request of t: the messages stay, and of the queued work of t none is
\* opened, registered or stopped.
Requests(t) ==
  /\ UNCHANGED <<queue, run, by, send, stopping, restarts, orphaned, revoked>>
  /\ StoreInv' /\ op' \in [Task -> OpState]
  /\ \A u \in Task \ {t} : op'[u] = op[u] /\ task'[u] = task[u]
  /\ \A y \in (Work \cup Task) \ Owned(t) : work'[y] = work[y]
  /\ \A w \in Work \cap Owned(t) :
       /\ is_open(work'[w]) => is_open(work[w])
       /\ work'[w].state = "running" <=> work[w].state = "running"
       /\ work[w].state = "none" => work'[w].state = "none"
       /\ task'[t].status = "cancelling" /\ is_open(work'[w]) =>
            work'[w].state = "running" \/ task[t].status = "cancelling"
  /\ task'[t].status = "pending" => task[t].status = "pending" \/ op[t] = "idle"
  /\ op'[t] \in Early => op[t] \in Early

LEMMA RequestsKeep ==
  ASSUME WorkInv, NEW t \in Task, Requests(t), inline_open(t)', pristine(t)', driven(t)'
  PROVE  WorkInv'
<1>1. TaskTypeOK'
  BY DEF WorkInv, TaskTypeOK, Requests, StoreInv, OpState
<1>2. \A m \in Message : unused(m)' = unused(m) /\ live(m)' = live(m) /\ sole(m)' = sole(m)
  BY DEF Requests, unused, live, unacked, sole
<1>3. \A w \in Work : TaskOf[w] # t => work'[w] = work[w]
  BY TaskAssumption, OwnedApart DEF Requests
<1>4. \A w \in Work : TaskOf[w] = t => w \in Work \cap Owned(t)
  BY OwnedApart
<1>5. Enqueues' /\ Replacements'
  BY <1>2, Messages DEF WorkInv, Enqueues, Replacements, Requests, owner
<1>6. Known'
  BY <1>2, <1>3, <1>4 DEF WorkInv, Known, Requests
<1>7. Carried'
  BY <1>2, <1>3, <1>4, TaskAssumption DEF WorkInv, Carried, Requests
<1>8. Handled'
  <2> SUFFICES ASSUME NEW d \in Message, run[d] = "running", sole(d)
               PROVE  work'[d[1]].state = "running" /\ task'[owner(d)].status \in {"running", "cancelling"}
    BY <1>2 DEF Handled, Requests
  <2>1. work[d[1]].state = "running" /\ task[owner(d)].status \in {"running", "cancelling"}
    BY DEF WorkInv, Handled
  <2>2. CASE owner(d) # t
    BY <1>3, <2>1, <2>2, Messages DEF Requests, owner
  <2>3. CASE owner(d) = t
    <3>1. work'[d[1]].state = "running"
      BY <1>4, <2>1, <2>3, Messages DEF Requests, owner
    <3>2. op[t] # "idle"
      BY <2>3 DEF WorkInv, Enqueues, TaskTypeOK, unused, Early
    <3>3. task'[t].status \in Active
      BY <1>1, <2>3, <3>1, Messages
         DEF Requests, StoreInv, EndedIsClosed, open_work, is_open, TaskTypeOK, TaskRecord, Status
    <3> QED BY <2>1, <2>3, <3>1, <3>2, <3>3 DEF Requests, Active
  <2> QED BY <2>2, <2>3
<1>9. InlineOpen'
  BY OwnedApart, TaskAssumption DEF WorkInv, InlineOpen, inline_open, Requests, Owned
<1>10. Pristine'
  <2> SUFFICES ASSUME NEW u \in Task, u # t PROVE pristine(u)'
    BY DEF Pristine
  <2>1. \A x \in Owned(u) : work'[x] = work[x]
    BY OwnedApart DEF Requests
  <2> QED BY <2>1 DEF WorkInv, Pristine, pristine, Requests
<1>11. Driven'
  <2> SUFFICES ASSUME NEW u \in Task, u # t PROVE driven(u)'
    BY DEF Driven
  <2>1. \A x \in Owned(u) : work'[x] = work[x]
    BY OwnedApart DEF Requests
  <2> QED BY <2>1 DEF WorkInv, Driven, driven, Requests, open_work
<1> QED BY <1>1, <1>5, <1>6, <1>7, <1>8, <1>9, <1>10, <1>11 DEF WorkInv, Requests, StoreInv

\* An operation on the store for t and its inline work, while the request goes on or ends.
LEMMA StoredRequest ==
  ASSUME WorkInv, NEW t \in Task, Stored(t, {t}), NEW s \in OpState \ Early,
         op' = [op EXCEPT ![t] = s],
         UNCHANGED <<queue, run, by, send, stopping, restarts, orphaned, revoked>>
  PROVE  Requests(t) /\ pristine(t)'
<1>1. op' \in [Task -> OpState] /\ op'[t] = s /\ \A u \in Task \ {t} : op'[u] = op[u]
  BY DEF WorkInv, TaskTypeOK, OpState
<1>2. \A w \in Work \cap Owned(t) : work'[w] = work[w]
  BY TaskAssumption DEF Stored, Only
<1>3. \A y \in (Work \cup Task) \ Owned(t) : work'[y] = work[y]
  BY OwnedApart DEF Stored, Only
<1>4. /\ task'[t].status = "cancelling" => task[t].status = "cancelling"
      /\ task'[t].status = "pending" => task[t].status = "pending"
  BY DEF Stored, EndsOrKeeps
<1>5. Requests(t)
  BY <1>1, <1>2, <1>3, <1>4 DEF Requests, Stored, Only
<1> QED BY <1>1, <1>5 DEF pristine

\* What WorkInv says of the store and of one task.
LEMMA InvOf ==
  ASSUME WorkInv
  PROVE  /\ StoreInv
         /\ \A t \in Task : inline_open(t) /\ pristine(t) /\ driven(t)
BY DEF WorkInv, StoreInv, TaskTypeOK, InlineOpen, Pristine, Driven

LEMMA CreateKeeps ==
  ASSUME WorkInv, NEW t \in Task, Create(t)
  PROVE  WorkInv'
<1> DEFINE r == [NoTask EXCEPT !.status = "pending"]
<1>1. r \in TaskRecord /\ r.status = "pending"
  BY DEF NoTask, TaskRecord, Status, Active
<1>2. /\ task' \in [Task -> TaskRecord] /\ task'[t] = r /\ \A u \in Task \ {t} : task'[u] = task[u]
      /\ op' \in [Task -> OpState] /\ op'[t] = "inserted" /\ \A u \in Task \ {t} : op'[u] = op[u]
      /\ UNCHANGED <<work, queue, run, by, send, stopping, restarts, orphaned, revoked>>
  BY <1>1, InvOf DEF Create, StoreInv, audit, WorkInv, TaskTypeOK, OpState
<1>3. \A x \in Owned(t) : work[x] = NoWork
  BY InvOf DEF Create, pristine, Early
<1>4. StoreInv'
  BY <1>1, <1>2, InvOf DEF StoreInv, EndedIsClosed, FailedHasError, CompletedSucceeded, open_work, Ended
<1>5. ~is_open(work[t])
  BY <1>3, OwnedApart DEF NoWork, is_open
<1>6. Requests(t)
  BY <1>1, <1>2, <1>4 DEF Requests, Early, Create
<1>7. inline_open(t)' /\ pristine(t)' /\ driven(t)'
  BY <1>1, <1>2, <1>3, <1>5 DEF inline_open, pristine, driven, is_open
<1> QED BY <1>6, <1>7, RequestsKeep

LEMMA ConfirmKeeps ==
  ASSUME WorkInv, NEW t \in Task, Confirm(t)
  PROVE  WorkInv'
<1>1. UNCHANGED <<task, work, queue, run, by, send, stopping, restarts, orphaned, revoked>>
  BY DEF Confirm, audit
<1>2. op' = [op EXCEPT ![t] = "created"] /\ op'[t] = "created"
  BY DEF Confirm, WorkInv, TaskTypeOK
<1>3. Stored(t, {t})
  BY <1>1, InvOf, NothingStored DEF ignored
<1>4. Requests(t) /\ pristine(t)'
  BY <1>1, <1>2, <1>3, StoredRequest DEF OpState, Early
<1>5. work[t] = NoWork
  BY InvOf, OwnedApart DEF Confirm, pristine, Early
<1>6. inline_open(t)' /\ driven(t)'
  BY <1>1, <1>2, <1>5 DEF inline_open, driven, is_open, NoWork
<1> QED BY <1>4, <1>6, RequestsKeep

LEMMA WithdrawKeeps ==
  ASSUME WorkInv, NEW t \in Task, NEW refused \in BOOLEAN, Withdraw(t, refused)
  PROVE  /\ WorkInv'
         /\ task[t].status = "pending" => task'[t].status = "none"
         /\ task[t].status # "pending" => UNCHANGED task
         /\ \A u \in Task \ {t} : task'[u] = task[u]
<1>1. UNCHANGED <<queue, run, by, send, stopping, restarts, orphaned, revoked>>
  BY DEF Withdraw, audit
<1>2. op' = [op EXCEPT ![t] = "over"] /\ op'[t] = "over"
  BY DEF Withdraw, WorkInv, TaskTypeOK
<1>3. /\ task[t].status \in Active => task[t] = [NoTask EXCEPT !.status = "pending"]
      /\ \A x \in Owned(t) : work[x] = NoWork
  BY InvOf DEF Withdraw, pristine, Early
<1>4. ~is_open(work[t])
  BY <1>3, OwnedApart DEF NoWork, is_open
<1>5. CASE task[t].status \in Active
  <2>1. task' = [task EXCEPT ![t] = NoTask] /\ UNCHANGED work
    BY <1>3, <1>5 DEF Withdraw, withdraw
  <2>2. NoTask \in TaskRecord /\ NoTask.status = "none"
    BY DEF NoTask, TaskRecord, Status
  <2>3. /\ task' \in [Task -> TaskRecord] /\ task'[t] = NoTask
        /\ \A u \in Task \ {t} : task'[u] = task[u]
    BY <2>1, <2>2, InvOf DEF StoreInv
  <2>4. open_work(work, t) = {}
    BY <1>3 DEF open_work, NoWork, is_open
  <2>5. StoreInv'
    BY <2>1, <2>2, <2>3, <2>4, InvOf
       DEF StoreInv, EndedIsClosed, FailedHasError, CompletedSucceeded, open_work, Ended
  <2>6. op' \in [Task -> OpState] /\ \A u \in Task \ {t} : op'[u] = op[u]
    BY <1>2 DEF WorkInv, TaskTypeOK, OpState
  <2>7. Requests(t)
    BY <1>1, <1>2, <2>1, <2>2, <2>3, <2>5, <2>6 DEF Requests, Early
  <2>8. inline_open(t)' /\ pristine(t)' /\ driven(t)'
    BY <1>2, <1>4, <2>1, <2>2, <2>3 DEF inline_open, pristine, driven, is_open, Early, Active
  <2>9. task[t].status = "pending"
    BY <1>3, <1>5 DEF NoTask
  <2> QED BY <2>2, <2>3, <2>7, <2>8, <2>9, RequestsKeep
<1>6. CASE task[t].status \notin Active
  <2>1. UNCHANGED <<task, work>>
    BY <1>6 DEF Withdraw, withdraw, ignored, record_outcome, admits, Active, NoTask
  <2>2. Stored(t, {t})
    BY <2>1, InvOf, NothingStored DEF ignored
  <2>3. Requests(t) /\ pristine(t)'
    BY <1>1, <1>2, <2>2, StoredRequest DEF OpState, Early
  <2>4. inline_open(t)' /\ driven(t)'
    BY <1>2, <1>4, <1>6, <2>1 DEF inline_open, driven, is_open
  <2> QED BY <1>6, <2>1, <2>3, <2>4, RequestsKeep DEF Active
<1> QED BY <1>5, <1>6

LEMMA RejectedKeeps ==
  ASSUME WorkInv, NEW t \in Task, SubmitRejected(t)
  PROVE  WorkInv' /\ Stored(t, {t})
<1>1. UNCHANGED <<queue, run, by, send, stopping, restarts, orphaned, revoked>>
  BY DEF SubmitRejected
<1>2. op' = [op EXCEPT ![t] = "over"] /\ op'[t] = "over"
  BY DEF SubmitRejected, WorkInv, TaskTypeOK
<1>3. Stored(t, {t}) /\ UNCHANGED work
  BY InvOf, RecordStores DEF SubmitRejected
<1>4. Requests(t) /\ pristine(t)'
  BY <1>1, <1>2, <1>3, StoredRequest DEF OpState, Early
<1>5. inline_open(t)'
  BY <1>2, <1>3, InvOf DEF inline_open, SubmitRejected, is_open
<1>6. driven(t)'
  BY <1>1, <1>3, InvOf
     DEF driven, Stored, SubmitRejected, admits, Active, StoreInv, EndedIsClosed
<1> QED BY <1>3, <1>4, <1>5, <1>6, RequestsKeep

\* The status of a task that takes work becomes running.
LEMMA RunningStores ==
  ASSUME StoreInv, NEW t \in Task, admits(t), task' = [task EXCEPT ![t].status = "running"]
  PROVE  /\ task' \in [Task -> TaskRecord] /\ task'[t].status = "running"
         /\ \A u \in Task \ {t} : task'[u] = task[u]
         /\ task[t].status \in {"pending", "running"}
<1>1. [task[t] EXCEPT !.status = "running"] \in TaskRecord
  BY DEF StoreInv, TaskRecord, Status, Active
<1> QED BY <1>1 DEF StoreInv, TaskRecord, admits

LEMMA StartTaskKeeps ==
  ASSUME WorkInv, NEW t \in Task, StartTask(t)
  PROVE  WorkInv'
<1>1. UNCHANGED <<work, queue, run, by, send, stopping, restarts, orphaned, revoked>>
  BY DEF StartTask, audit
<1>2. op' = [op EXCEPT ![t] = "started"] /\ op'[t] = "started"
  BY DEF StartTask, WorkInv, TaskTypeOK
<1>3. inline_open(t)' /\ driven(t)' /\ pristine(t)'
  BY <1>1, <1>2, InvOf DEF inline_open, driven, pristine, Early, StartTask, is_open
<1>4. CASE admits(t)
  <2>1. task' = [task EXCEPT ![t].status = "running"]
    BY <1>4 DEF StartTask
  <2>2. /\ task' \in [Task -> TaskRecord] /\ task'[t].status = "running"
        /\ \A u \in Task \ {t} : task'[u] = task[u]
        /\ task[t].status \in {"pending", "running"}
    BY <1>4, <2>1, InvOf, RunningStores
  <2>3. StoreInv'
    BY <1>1, <2>2, InvOf
       DEF StoreInv, EndedIsClosed, FailedHasError, CompletedSucceeded, open_work, Ended
  <2>4. op' \in [Task -> OpState] /\ \A u \in Task \ {t} : op'[u] = op[u]
    BY <1>2 DEF WorkInv, TaskTypeOK, OpState
  <2>5. Requests(t)
    BY <1>1, <1>2, <2>2, <2>3, <2>4 DEF Requests, Early
  <2> QED BY <1>3, <2>5, RequestsKeep
<1>5. CASE ~admits(t)
  <2>1. Stored(t, {t})
    BY <1>1, <1>5, InvOf, NothingStored DEF ignored, StartTask
  <2>2. Requests(t)
    BY <1>1, <1>2, <2>1, StoredRequest DEF OpState, Early
  <2> QED BY <1>3, <2>2, RequestsKeep
<1> QED BY <1>4, <1>5

LEMMA RegisterInlineKeeps ==
  ASSUME WorkInv, NEW t \in Task, RegisterInline(t)
  PROVE  WorkInv'
<1>1. UNCHANGED <<task, queue, run, by, send, stopping, restarts, orphaned, revoked>>
  BY DEF RegisterInline, audit
<1>2. work[t].state = "none" /\ op[t] = "started" /\ t \in Work \cup Task
  BY InvOf DEF RegisterInline, inline_open
<1>3. CASE admits(t)
  <2>1. work' = [work EXCEPT ![t] = NewWork] /\ op' = [op EXCEPT ![t] = "registering"]
    BY <1>2, <1>3 DEF RegisterInline, add_work
  <2>2. NewWork \in WorkRecord /\ NewWork.state = "pending" /\ is_open(NewWork)
    BY DEF NewWork, WorkRecord, WorkState, is_open
  <2>3. /\ work' \in [Work \cup Task -> WorkRecord] /\ work'[t] = NewWork
        /\ \A y \in (Work \cup Task) \ {t} : work'[y] = work[y]
    BY <1>2, <2>1, <2>2, InvOf DEF StoreInv
  <2>4. /\ op' \in [Task -> OpState] /\ op'[t] = "registering"
        /\ \A u \in Task \ {t} : op'[u] = op[u]
    BY <2>1 DEF WorkInv, TaskTypeOK, OpState
  <2>5. StoreInv'
    <3>1. \A u \in Task \ {t} : \A y \in Owned(u) : work'[y] = work[y]
      BY <2>3, OwnedApart
    <3>2. task[t].status \in {"pending", "running"}
      BY <1>3 DEF admits
    <3> QED BY <1>1, <2>2, <2>3, <3>1, <3>2, InvOf
            DEF StoreInv, EndedIsClosed, FailedHasError, CompletedSucceeded, open_work, Ended
  <2>6. Requests(t)
    BY <1>1, <1>2, <2>3, <2>4, <2>5, OwnedApart, TaskAssumption DEF Requests, Early
  <2>7. inline_open(t)' /\ pristine(t)' /\ driven(t)'
    BY <1>1, <1>3, <2>2, <2>3, <2>4, OwnedApart
       DEF inline_open, pristine, driven, Early, admits, open_work
  <2> QED BY <2>6, <2>7, RequestsKeep
<1>4. CASE ~admits(t)
  <2>1. UNCHANGED <<task, work>> /\ op' = [op EXCEPT ![t] = "over"]
    BY <1>1, <1>4 DEF RegisterInline
  <2>2. op'[t] = "over"
    BY <2>1 DEF WorkInv, TaskTypeOK
  <2>3. Stored(t, {t})
    BY <2>1, InvOf, NothingStored DEF ignored
  <2>4. Requests(t) /\ pristine(t)'
    BY <1>1, <2>1, <2>3, StoredRequest DEF OpState, Early
  <2>5. inline_open(t)' /\ driven(t)'
    BY <1>1, <1>2, <1>4, <2>1, <2>2, InvOf
       DEF inline_open, driven, is_open, admits, Active, StoreInv, EndedIsClosed
  <2> QED BY <2>4, <2>5, RequestsKeep
<1> QED BY <1>3, <1>4

\* Work of a task that takes work begins to run.
LEMMA StartStores ==
  ASSUME StoreInv, NEW t \in Task, NEW x \in Owned(t), admits(t),
         work' = [work EXCEPT ![x].state = "running"],
         task' = [task EXCEPT ![t].status = "running"]
  PROVE  /\ StoreInv' /\ task'[t].status = "running" /\ work'[x].state = "running"
         /\ \A u \in Task \ {t} : task'[u] = task[u]
         /\ \A y \in (Work \cup Task) \ {x} : work'[y] = work[y]
         /\ task[t].status \in {"pending", "running"}
<1>0. x \in Work \cup Task /\ \A u \in Task \ {t} : x \notin Owned(u)
  BY OwnedApart
<1>1. /\ task' \in [Task -> TaskRecord] /\ task'[t].status = "running"
      /\ \A u \in Task \ {t} : task'[u] = task[u]
      /\ task[t].status \in {"pending", "running"}
  BY RunningStores
<1>2. /\ work' \in [Work \cup Task -> WorkRecord] /\ work'[x].state = "running"
      /\ \A y \in (Work \cup Task) \ {x} : work'[y] = work[y]
  <2>1. [work[x] EXCEPT !.state = "running"] \in WorkRecord
    BY <1>0 DEF StoreInv, WorkRecord, WorkState
  <2> QED BY <1>0, <2>1 DEF StoreInv, WorkRecord
<1>3. \A u \in Task \ {t} : \A y \in Owned(u) : work'[y] = work[y]
  BY <1>0, <1>2, OwnedApart
<1> QED BY <1>1, <1>2, <1>3
        DEF StoreInv, EndedIsClosed, FailedHasError, CompletedSucceeded, open_work, Ended

LEMMA StartInlineKeeps ==
  ASSUME WorkInv, NEW t \in Task, StartInline(t)
  PROVE  /\ WorkInv'
         /\ Stored(t, {t}) \/ (admits(t) /\ task' = [task EXCEPT ![t].status = "running"])
<1>1. UNCHANGED <<queue, run, by, send, stopping, restarts, orphaned, revoked>>
  BY DEF StartInline
<1>2. op[t] = "registering" /\ t \in Owned(t)
  BY OwnedApart DEF StartInline
<1>3. CASE admits(t) /\ is_open(work[t])
  <2>1. /\ work' = [work EXCEPT ![t].state = "running"]
        /\ task' = [task EXCEPT ![t].status = "running"] /\ op' = [op EXCEPT ![t] = "running"]
    BY <1>3 DEF StartInline
  <2>2. /\ StoreInv' /\ task'[t].status = "running" /\ work'[t].state = "running"
        /\ \A u \in Task \ {t} : task'[u] = task[u]
        /\ \A y \in (Work \cup Task) \ {t} : work'[y] = work[y]
    BY <1>2, <1>3, <2>1, InvOf, StartStores
  <2>3. /\ op' \in [Task -> OpState] /\ op'[t] = "running"
        /\ \A u \in Task \ {t} : op'[u] = op[u]
    BY <2>1 DEF WorkInv, TaskTypeOK, OpState
  <2>4. Requests(t)
    BY <1>1, <2>2, <2>3, OwnedApart, TaskAssumption DEF Requests, Early
  <2>5. inline_open(t)' /\ pristine(t)' /\ driven(t)'
    BY <1>2, <2>2, <2>3 DEF inline_open, pristine, driven, Early, open_work, is_open
  <2> QED BY <1>3, <2>1, <2>4, <2>5, RequestsKeep
<1>4. CASE ~(admits(t) /\ is_open(work[t]))
  <2>1. discard_work(t, t) /\ op' = [op EXCEPT ![t] = "over"]
    BY <1>4 DEF StartInline
  <2>2. op'[t] = "over"
    BY <2>1 DEF WorkInv, TaskTypeOK
  <2>3. Stored(t, {t}) /\ ~is_open(work'[t])
    BY <1>2, <2>1, InvOf, DiscardStores
  <2>4. Requests(t) /\ pristine(t)'
    BY <1>1, <2>1, <2>3, StoredRequest DEF OpState, Early
  <2>5. inline_open(t)' /\ driven(t)'
    BY <1>1, <1>2, <2>2, <2>3, InvOf DEF inline_open, driven, Stored
  <2> QED BY <2>3, <2>4, <2>5, RequestsKeep
<1> QED BY <1>3, <1>4

LEMMA ReportKeeps ==
  ASSUME WorkInv, NEW t \in Task, NEW result \in BOOLEAN, NEW error \in BOOLEAN,
         Report(t, result, error)
  PROVE  WorkInv' /\ Stored(t, {t})
<1>1. UNCHANGED <<queue, run, by, send, stopping, restarts, orphaned, revoked>>
  BY DEF Report
<1>2. op' = [op EXCEPT ![t] = "reported"] /\ op'[t] = "reported" /\ op[t] = "running"
  BY DEF Report, WorkInv, TaskTypeOK
<1>3. Stored(t, {t}) /\ UNCHANGED work
  BY InvOf, RecordStores DEF Report
<1>4. Requests(t) /\ pristine(t)'
  BY <1>1, <1>2, <1>3, StoredRequest DEF OpState, Early
<1>5. inline_open(t)' /\ driven(t)'
  BY <1>1, <1>2, <1>3, InvOf DEF inline_open, driven, Stored, EndsOrKeeps
<1> QED BY <1>3, <1>4, <1>5, RequestsKeep

LEMMA UnregisterKeeps ==
  ASSUME WorkInv, NEW t \in Task, Unregister(t)
  PROVE  WorkInv' /\ Stored(t, {t})
<1>1. UNCHANGED <<queue, run, by, send, stopping, restarts, orphaned, revoked>>
  BY DEF Unregister
<1>2. op' = [op EXCEPT ![t] = "over"] /\ op'[t] = "over" /\ op[t] = "reported"
  BY DEF Unregister, WorkInv, TaskTypeOK
<1>3. Stored(t, {t}) /\ ~is_open(work'[t])
  BY InvOf, OwnedApart, FinishStores DEF Unregister
<1>4. Requests(t) /\ pristine(t)'
  BY <1>1, <1>2, <1>3, StoredRequest DEF OpState, Early
<1>5. inline_open(t)' /\ driven(t)'
  BY <1>1, <1>2, <1>3, InvOf DEF inline_open, driven, Stored
<1> QED BY <1>3, <1>4, <1>5, RequestsKeep

LEMMA CancelKeeps ==
  ASSUME WorkInv, NEW t \in Task, Cancel(t)
  PROVE  WorkInv' /\ Cancels(t)
<1>1. UNCHANGED <<op, queue, run, by, send, stopping, restarts, orphaned, revoked>>
  BY DEF Cancel, agents
<1>2. Cancels(t)
  BY InvOf, CancellationStores DEF Cancel
<1>3. op' \in [Task -> OpState]
  BY <1>1 DEF WorkInv, TaskTypeOK, OpState
<1>4. Requests(t)
  BY <1>1, <1>2, <1>3, OwnedApart DEF Requests, Cancels, Only, is_open
<1>5. inline_open(t)'
  BY <1>1, <1>2, InvOf, OwnedApart DEF inline_open, Cancels, Only
<1>6. pristine(t)'
  <2> SUFFICES ASSUME op[t] \in Early
               PROVE  /\ task'[t].status \notin Active
                      /\ \A x \in Owned(t) : work'[x] = NoWork
    BY <1>1 DEF pristine
  <2>1. \A x \in Owned(t) : work'[x] = NoWork
    BY <1>2, InvOf DEF pristine, Cancels, Only, NoWork
  <2>2. open_work(work', t) = {}
    BY <2>1 DEF open_work, NoWork, is_open
  <2> QED BY <1>2, <2>1, <2>2 DEF Cancels, Active
<1>7. driven(t)'
  BY <1>2 DEF driven, Cancels, Active
<1> QED BY <1>2, <1>4, <1>5, <1>6, <1>7, RequestsKeep

LEMMA ExpireKeeps ==
  ASSUME WorkInv, NEW t \in Task, Expire(t)
  PROVE  WorkInv'
<1>1. UNCHANGED <<op, queue, run, by, send, stopping, restarts, orphaned, revoked>>
  BY DEF Expire, agents, audit
<1>2. /\ NoTask \in TaskRecord /\ NoTask.status = "none"
      /\ NoWork \in WorkRecord /\ NoWork.state = "none" /\ ~is_open(NoWork)
  BY DEF NoTask, TaskRecord, Status, NoWork, WorkRecord, WorkState, is_open
<1>3. /\ task' \in [Task -> TaskRecord] /\ task'[t] = NoTask
      /\ \A u \in Task \ {t} : task'[u] = task[u]
  BY <1>2, InvOf DEF Expire, StoreInv
<1>4. /\ work' \in [Work \cup Task -> WorkRecord] /\ \A x \in Owned(t) : work'[x] = NoWork
      /\ \A y \in (Work \cup Task) \ Owned(t) : work'[y] = work[y]
  BY <1>2, InvOf, OwnedApart DEF Expire, StoreInv
<1>5. StoreInv'
  <2>1. \A u \in Task \ {t} : \A y \in Owned(u) : work'[y] = work[y]
    BY <1>4, OwnedApart
  <2>2. FailedHasError'
    BY <1>2, <1>4, InvOf DEF StoreInv, FailedHasError
  <2>3. EndedIsClosed'
    BY <1>2, <1>3, <1>4, <2>1, InvOf DEF StoreInv, EndedIsClosed, open_work, Ended
  <2>4. CompletedSucceeded'
    BY <1>2, <1>3, <1>4, <2>1, InvOf DEF StoreInv, CompletedSucceeded
  <2> QED BY <1>3, <1>4, <2>2, <2>3, <2>4 DEF StoreInv
<1>6. \A w \in Work \cap Owned(t) : work[w].state # "running"
  BY DEF Expire, open_work, is_open
<1>7. op' \in [Task -> OpState]
  BY <1>1 DEF WorkInv, TaskTypeOK, OpState
<1>8. Requests(t)
  BY <1>1, <1>2, <1>3, <1>4, <1>5, <1>6, <1>7 DEF Requests
<1>9. inline_open(t)' /\ pristine(t)' /\ driven(t)'
  BY <1>1, <1>2, <1>3, <1>4, InvOf, OwnedApart DEF inline_open, pristine, driven, Active
<1> QED BY <1>8, <1>9, RequestsKeep

-----------------------------------------------------------------------------
(* Enqueues *)

\* An enqueue of m begins: the first of its work, by whoever runs for the task, or a
\* replacement by the handler a.
Begins(a, m) ==
  /\ start_send(a, m) /\ UNCHANGED <<task, queue, run, stopping, restarts, orphaned, revoked>>
  /\ op[owner(m)] \notin Early
  /\ \/ /\ m[2] = 1 /\ (a \in Message => a[1] # m[1])
        /\ \/ UNCHANGED op
           \/ op[owner(m)] = "created" /\ op' = [op EXCEPT ![owner(m)] = "submitting"]
     \/ a \in Message /\ run[a] = "running" /\ m = <<a[1], a[2] + 1>> /\ UNCHANGED op

LEMMA BeginsKeeps ==
  ASSUME WorkInv, NEW m \in Message, NEW a \in Task \cup Message, Begins(a, m)
  PROVE  WorkInv'
<1> DEFINE w == m[1]
           t == owner(m)
<1>0. /\ w \in Work /\ w \in Work \cup Task /\ w \notin Task /\ t \in Task /\ t = TaskOf[w] /\ w \in Owned(t)
      /\ a # NoAgent /\ admits(t) /\ unused(m)
  BY Messages, TaskAssumption DEF owner, Begins, start_send, add_work
<1>1. /\ UNCHANGED <<task, queue, run, stopping, restarts, orphaned, revoked>>
      /\ by' = [by EXCEPT ![m] = a]
      /\ send' = [send EXCEPT ![m] = IF work[w].state = "none" THEN "created" ELSE "existing"]
  BY DEF Begins, start_send
<1>2. /\ work' \in [Work \cup Task -> WorkRecord]
      /\ work[w].state = "none" => work'[w] = NewWork
      /\ work[w].state # "none" => work'[w] = work[w]
      /\ \A y \in (Work \cup Task) \ {w} : work'[y] = work[y]
  <2>1. NewWork \in WorkRecord
    BY DEF NewWork, WorkRecord, WorkState
  <2> QED BY <1>0, <2>1, InvOf DEF Begins, start_send, add_work, StoreInv
<1>3. NewWork.state = "pending" /\ is_open(NewWork)
  BY DEF NewWork, is_open
<1>4. /\ op' \in [Task -> OpState]
      /\ \A u \in Task : \/ op'[u] = op[u]
                         \/ op[u] = "created" /\ op'[u] = "submitting" /\ u = t /\ m[2] = 1
  BY <1>0 DEF Begins, WorkInv, TaskTypeOK, OpState
<1>5. /\ \A n \in Message \ {m} : by'[n] = by[n] /\ send'[n] = send[n]
      /\ by'[m] = a /\ send'[m] = IF work[w].state = "none" THEN "created" ELSE "existing"
  BY <1>1 DEF WorkInv, TaskTypeOK
<1>6. TaskTypeOK'
  BY <1>0, <1>1, <1>2, <1>4, <1>5 DEF WorkInv, TaskTypeOK, OpState
<1>7. /\ \A n \in Message \ {m} : unused(n)' = unused(n)
      /\ ~unused(m)' /\ \A n \in Message : ~unused(n) => ~unused(n)'
  BY <1>0, <1>1, <1>5 DEF unused
<1>8. \A n \in Message : live(n)' = live(n) /\ sole(n)' = sole(n)
  BY <1>1 DEF live, unacked, sole
<1>9. ~unused(<<w, 1>>)' /\ (m[2] = 1 => work[w].state = "none")
  <2>1. CASE m[2] = 1
    <3>1. m = <<w, 1>>
      BY <2>1, Messages
    <3>2. work[w].state = "none"
      BY <1>0, <3>1 DEF WorkInv, Known, Enqueues
    <3> QED BY <1>7, <3>1, <3>2
  <2>2. CASE m[2] # 1
    <3>1. a \in Message /\ run[a] = "running" /\ w = a[1]
      BY <2>2 DEF Begins
    <3>2. ~unused(a)
      BY <3>1 DEF WorkInv, TaskTypeOK, unused
    <3> QED BY <1>7, <2>2, <3>1, <3>2, Messages DEF WorkInv, Enqueues
  <2> QED BY <2>1, <2>2
<1>10. Enqueues'
  <2> SUFFICES ASSUME NEW n \in Message
               PROVE  /\ send'[n] \in {"created", "existing"} => queue'[n] = "unsent"
                      /\ send'[n] \in {"failing", "discarding"} => queue'[n] # "unsent"
                      /\ ~unused(n)' => ~unused(<<n[1], 1>>)' /\ op'[owner(n)] \notin Early
    BY DEF Enqueues
  <2>1. CASE n = m
    BY <1>0, <1>1, <1>4, <1>5, <1>9, <2>1 DEF unused, Early, Begins
  <2>2. CASE n # m
    BY <1>1, <1>4, <1>5, <1>7, <2>2, Messages DEF WorkInv, Enqueues, Early
  <2> QED BY <2>1, <2>2
<1>11. Replacements'
  <2> SUFFICES ASSUME NEW n \in Message
               PROVE  /\ by'[n] \in Message /\ by'[n][1] = n[1] =>
                           run'[by'[n]] = "running" /\ n = <<by'[n][1], by'[n][2] + 1>>
                      /\ send'[n] = "existing" => by'[n] \in Message /\ by'[n][1] = n[1]
    BY DEF Replacements
  <2>1. CASE n = m
    <3>1. m[2] = 1 \/ (a \in Message /\ run[a] = "running" /\ m = <<a[1], a[2] + 1>>)
      BY DEF Begins
    <3>2. m[2] = 1 => (a \in Message => a[1] # m[1]) \/ (a \in Message /\ run[a] = "running" /\ m = <<a[1], a[2] + 1>>)
      BY DEF Begins
    <3> QED BY <1>1, <1>5, <1>9, <2>1, <3>1, <3>2
  <2>2. CASE n # m
    BY <1>1, <1>5, <2>2 DEF WorkInv, Replacements
  <2> QED BY <2>1, <2>2
<1>12. Known'
  BY <1>2, <1>7 DEF WorkInv, Known
<1>13. Carried'
  BY <1>0, <1>1, <1>2, <1>3, <1>5, <1>8 DEF WorkInv, Carried, admits
<1>14. StoreInv'
  <2>1. \A u \in Task \ {t} : \A y \in Owned(u) : work'[y] = work[y]
    BY <1>0, <1>2, OwnedApart
  <2>2. task[t].status \in {"pending", "running"}
    BY <1>0 DEF admits
  <2>3. EndedIsClosed'
    BY <1>1, <2>1, <2>2, InvOf DEF StoreInv, EndedIsClosed, open_work, Ended
  <2>4. FailedHasError'
    BY <1>2, <1>3, InvOf DEF StoreInv, FailedHasError
  <2>5. CompletedSucceeded'
    BY <1>1, <2>1, <2>2, InvOf DEF StoreInv, CompletedSucceeded
  <2> QED BY <1>1, <1>2, <2>3, <2>4, <2>5, InvOf DEF StoreInv
<1>15. InlineOpen'
  BY <1>0, <1>1, <1>2, <1>4 DEF WorkInv, InlineOpen, inline_open
<1>16. Handled'
  BY <1>1, <1>2, <1>8, Messages DEF WorkInv, Handled
<1>17. Pristine'
  <2> SUFFICES ASSUME NEW u \in Task, op'[u] \in Early PROVE pristine(u)'
    BY DEF Pristine, pristine
  <2>1. op'[u] = op[u] /\ u # t
    BY <1>4 DEF Early, Begins
  <2>2. \A y \in Owned(u) : work'[y] = work[y]
    BY <1>0, <1>2, <2>1, OwnedApart
  <2> QED BY <1>1, <2>1, <2>2 DEF WorkInv, Pristine, pristine
<1>18. Driven'
  <2> SUFFICES ASSUME NEW u \in Task PROVE driven(u)'
    BY DEF Driven
  <2>1. \A y \in Owned(u) : is_open(work[y]) => is_open(work'[y])
    BY <1>2, <1>3, OwnedApart
  <2>2. open_work(work, u) # {} => open_work(work', u) # {}
    BY <2>1 DEF open_work
  <2>3. CASE op'[u] = op[u]
    BY <1>1, <2>2, <2>3 DEF WorkInv, Driven, driven
  <2>4. CASE op'[u] # op[u]
    <3>1. u = t /\ is_open(work'[w])
      BY <1>2, <1>3, <1>4, <1>9, <2>4
    <3> QED BY <1>0, <3>1 DEF driven, open_work
  <2> QED BY <2>3, <2>4
<1> QED BY <1>6, <1>10, <1>11, <1>12, <1>13, <1>14, <1>15, <1>16, <1>17, <1>18 DEF WorkInv, StoreInv

LEMMA SendsKeep ==
  ASSUME WorkInv, NEW m \in Message
  PROVE  /\ \A t \in Task : Submit(t, m) \/ OperationSends(t, m) => WorkInv'
         /\ \A d \in Message : HandlerSends(d, m) \/ Replace(d, m) => WorkInv'
<1>1. ASSUME NEW t \in Task, Submit(t, m) \/ OperationSends(t, m)
      PROVE  Begins(t, m)
  BY <1>1, Messages DEF Submit, OperationSends, IsFirstOf, Begins, Early, audit
<1>2. ASSUME NEW d \in Message, run[d] = "running"
      PROVE  ~unused(d) /\ ~unused(<<d[1], 1>>) /\ op[owner(d)] \notin Early
  BY <1>2 DEF WorkInv, TaskTypeOK, Enqueues, unused
<1>3. ASSUME NEW d \in Message, HandlerSends(d, m)
      PROVE  Begins(d, m)
  <2>1. m[2] = 1 /\ unused(m) /\ owner(m) = owner(d) /\ run[d] = "running"
    BY <1>3 DEF HandlerSends, IsFirstOf
  <2>2. d[1] # m[1]
    <3>1. m = <<m[1], 1>> /\ ~unused(<<d[1], 1>>)
      BY <1>2, <2>1, Messages
    <3>2. m = <<d[1], 1>> => unused(<<d[1], 1>>)
      BY <2>1
    <3> QED BY <3>1, <3>2
  <2> QED BY <1>2, <1>3, <2>1, <2>2 DEF HandlerSends, Begins, audit
<1>4. ASSUME NEW d \in Message, Replace(d, m)
      PROVE  Begins(d, m)
  <2>1. run[d] = "running" /\ m = <<d[1], d[2] + 1>> /\ owner(m) = owner(d)
    BY <1>4, Messages DEF Replace, owner
  <2> QED BY <1>2, <1>4, <2>1 DEF Replace, Begins, audit
<1> QED BY <1>1, <1>3, <1>4, BeginsKeeps

\* The write of m has settled, or the registration is undone; m stays used.
Settles(m) ==
  /\ UNCHANGED <<stopping, restarts, orphaned>>
  /\ queue' \in [Message -> {"unsent", "pending", "claimed", "gone"}] /\ queue'[m] # "unsent"
  /\ queue'[m] = "claimed" <=> queue[m] = "claimed"
  /\ op' \in [Task -> OpState]
  /\ \A u \in Task : op'[u] = op[u] \/ (op[u] = "submitting" /\ op'[u] = "over")
  /\ by' \in [Message -> Task \cup Message \cup {NoAgent}]
  /\ send' \in [Message -> {"idle", "created", "existing", "failing", "discarding"}]
  /\ \/ by'[m] = NoAgent /\ send'[m] = "idle"
     \/ by'[m] = by[m] /\ send[m] = "created" /\ send'[m] \in {"failing", "discarding"}
  /\ \A n \in Message \ {m} : queue'[n] = queue[n] /\ by'[n] = by[n] /\ send'[n] = send[n]

LEMMA SettlesKeeps ==
  ASSUME WorkInv, NEW m \in Message, Settles(m), send[m] # "idle"
  PROVE  /\ \A n \in Message : unused(n)' = unused(n)
         /\ \A n \in Message \ {m} : unacked(n)' = unacked(n)
         /\ Enqueues'
<1>1. ~unused(m) /\ ~unused(m)'
  BY DEF unused, Settles, WorkInv, TaskTypeOK
<1>2. \A n \in Message : unused(n)' = unused(n)
  BY <1>1 DEF unused, Settles
<1>3. \A n \in Message \ {m} : unacked(n)' = unacked(n)
  BY DEF unacked, Settles
<1>4. Enqueues'
  BY <1>2, Messages DEF WorkInv, Enqueues, Settles, Early
<1> QED BY <1>2, <1>3, <1>4

\* Whoever sends m gets the answer.
LEMMA EndSend ==
  ASSUME WorkInv, NEW m \in Message, NEW ok \in BOOLEAN, end_send(m, ok), send[m] # "idle"
  PROVE  /\ op' \in [Task -> OpState]
         /\ \A u \in Task : op'[u] = op[u] \/ (op[u] = "submitting" /\ op'[u] = "over")
         /\ by' \in [Message -> Task \cup Message \cup {NoAgent}]
         /\ send' \in [Message -> {"idle", "created", "existing", "failing", "discarding"}]
         /\ by'[m] = NoAgent /\ send'[m] = "idle"
         /\ \A n \in Message \ {m} : by'[n] = by[n] /\ send'[n] = send[n]
         /\ IF ok /\ by[m] \in Message /\ by[m][1] = m[1]
            THEN run' = [run EXCEPT ![by[m]] = "requeued"] ELSE UNCHANGED run
BY DEF end_send, WorkInv, TaskTypeOK, OpState

\* The parts of the invariant about requests and records, when the store is unchanged.
LEMMA SettledRequests ==
  ASSUME WorkInv, NEW m \in Message, Settles(m), UNCHANGED <<task, work>>
  PROVE  EndedIsClosed' /\ InlineOpen' /\ FailedHasError' /\ CompletedSucceeded' /\ Pristine' /\ Driven'
<1>1. EndedIsClosed' /\ FailedHasError' /\ CompletedSucceeded'
  BY InvOf DEF StoreInv, EndedIsClosed, FailedHasError, CompletedSucceeded, open_work
<1>2. InlineOpen'
  BY DEF WorkInv, InlineOpen, inline_open, Settles
<1>3. Pristine'
  BY DEF WorkInv, Pristine, pristine, Settles, Early
<1>4. Driven'
  BY DEF WorkInv, Driven, driven, Settles, open_work
<1> QED BY <1>1, <1>2, <1>3, <1>4

LEMMA CommitKeeps ==
  ASSUME WorkInv, NEW m \in Message, Commit(m)
  PROVE  WorkInv'
<1> DEFINE b == by[m]
           replaces == b \in Message /\ b[1] = m[1]
<1>1. /\ UNCHANGED <<task, work, stopping, restarts, orphaned, revoked>>
      /\ queue[m] = "unsent" /\ queue' = [queue EXCEPT ![m] = "pending"]
      /\ send[m] \in {"created", "existing"} /\ end_send(m, TRUE)
  BY DEF Commit, audit, WorkInv, Enqueues
<1>2. /\ op' \in [Task -> OpState]
      /\ \A u \in Task : op'[u] = op[u] \/ (op[u] = "submitting" /\ op'[u] = "over")
      /\ by' \in [Message -> Task \cup Message \cup {NoAgent}]
      /\ send' \in [Message -> {"idle", "created", "existing", "failing", "discarding"}]
      /\ by'[m] = NoAgent /\ send'[m] = "idle"
      /\ \A n \in Message \ {m} : by'[n] = by[n] /\ send'[n] = send[n]
      /\ IF replaces THEN run' = [run EXCEPT ![b] = "requeued"] ELSE UNCHANGED run
  BY <1>1, EndSend
<1>3. /\ queue' \in [Message -> {"unsent", "pending", "claimed", "gone"}] /\ queue'[m] = "pending"
      /\ \A n \in Message \ {m} : queue'[n] = queue[n]
  BY <1>1 DEF WorkInv, TaskTypeOK
<1>4. Settles(m)
  BY <1>1, <1>2, <1>3 DEF Settles
<1>5. replaces => b # m /\ run[b] = "running" /\ m = <<b[1], b[2] + 1>>
  BY <1>1 DEF WorkInv, Replacements, TaskTypeOK
<1>6. run[m] = "idle" /\ run'[m] = "idle"
  <2>1. run[m] = "idle"
    BY <1>1 DEF WorkInv, TaskTypeOK
  <2> QED BY <1>2, <1>5, <2>1 DEF WorkInv, TaskTypeOK
<1>7. /\ \A n \in Message : run'[n] = run[n] \/ (replaces /\ n = b /\ run'[n] = "requeued")
      /\ run' \in [Message -> Outcome \cup {"idle", "claimed", "running", "dropping", "settling", "settled", "left"}]
  BY <1>2 DEF WorkInv, TaskTypeOK, Outcome
<1>8. TaskTypeOK'
  <2>1. \A d \in Message : run'[d] # "idle" => queue'[d] = "claimed"
    BY <1>3, <1>5, <1>6, <1>7 DEF WorkInv, TaskTypeOK
  <2>2. \A n \in Message : send'[n] = "idle" <=> by'[n] = NoAgent
    BY <1>2 DEF WorkInv, TaskTypeOK
  <2> QED BY <1>1, <1>2, <1>3, <1>7, <2>1, <2>2 DEF WorkInv, TaskTypeOK, OpState
<1>9. /\ \A n \in Message : unused(n)' = unused(n)
      /\ \A n \in Message \ {m} : unacked(n)' = unacked(n)
      /\ Enqueues'
  BY <1>1, <1>4, SettlesKeeps
<1>10. live(m)'
  BY <1>3, <1>6 DEF live, unacked
<1>11. \A n \in Message : n[1] # m[1] => live(n)' = live(n)
  BY <1>7, <1>9 DEF live
<1>12. Replacements'
  <2> SUFFICES ASSUME NEW n \in Message
               PROVE  /\ by'[n] \in Message /\ by'[n][1] = n[1] =>
                           run'[by'[n]] = "running" /\ n = <<by'[n][1], by'[n][2] + 1>>
                      /\ send'[n] = "existing" => by'[n] \in Message /\ by'[n][1] = n[1]
    BY DEF Replacements
  <2>1. CASE n = m
    BY <1>2, <2>1, Messages
  <2>2. CASE n # m
    <3>1. by'[n] = by[n] /\ send'[n] = send[n]
      BY <1>2, <2>2
    <3>2. ASSUME by[n] \in Message, by[n][1] = n[1]
          PROVE  run'[by[n]] = "running" /\ n = <<by[n][1], by[n][2] + 1>>
      <4>1. run[by[n]] = "running" /\ n = <<by[n][1], by[n][2] + 1>>
        BY <3>2 DEF WorkInv, Replacements
      <4>2. replaces => by[n] # b
        BY <1>5, <2>2, <4>1
      <4> QED BY <1>7, <3>2, <4>1, <4>2
    <3> QED BY <3>1, <3>2 DEF WorkInv, Replacements
  <2> QED BY <2>1, <2>2
<1>13. Known'
  BY <1>1, <1>9 DEF WorkInv, Known
<1>14. Carried'
  <2> SUFFICES ASSUME NEW w \in Work
               PROVE  /\ is_open(work'[w]) => \E n \in Message : n[1] = w /\ (live(n)' \/ by'[n] # NoAgent)
                      /\ \/ work'[w].state = "running"
                         \/ is_open(work'[w]) /\ task'[TaskOf[w]].status = "cancelling"
                         => \E n \in Message : n[1] = w /\ live(n)'
    BY DEF Carried
  <2>1. CASE w = m[1]
    BY <1>10, <2>1
  <2>2. CASE w # m[1]
    BY <1>1, <1>2, <1>11, <2>2 DEF WorkInv, Carried
  <2> QED BY <2>1, <2>2
<1>15. Handled'
  BY <1>1, <1>3, <1>6, <1>7 DEF WorkInv, Handled, sole
<1> QED BY <1>1, <1>4, <1>8, <1>9, <1>12, <1>13, <1>14, <1>15, SettledRequests DEF WorkInv

LEMMA WriteRaisesKeeps ==
  ASSUME WorkInv, NEW m \in Message, NEW cancelled \in BOOLEAN, NEW written \in BOOLEAN,
         WriteRaises(m, cancelled, written)
  PROVE  WorkInv' /\ UNCHANGED run
<1>1. /\ UNCHANGED <<task, work, stopping, restarts, orphaned, revoked>>
      /\ queue[m] = "unsent" /\ queue' = [queue EXCEPT ![m] = IF written THEN "pending" ELSE "gone"]
      /\ send[m] \in {"created", "existing"}
  BY DEF WriteRaises, audit, WorkInv, Enqueues
<1>2. /\ queue' \in [Message -> {"unsent", "pending", "claimed", "gone"}]
      /\ queue'[m] \in {"pending", "gone"}
      /\ \A n \in Message \ {m} : queue'[n] = queue[n]
  BY <1>1 DEF WorkInv, TaskTypeOK
<1>3. Settles(m) /\ UNCHANGED run /\ (send[m] = "created" => UNCHANGED by)
  <2>1. CASE send[m] = "existing"
    <3>1. end_send(m, FALSE)
      BY <2>1 DEF WriteRaises
    <3> QED BY <1>1, <1>2, <2>1, <3>1, EndSend DEF Settles
  <2>2. CASE send[m] = "created"
    <3>1. UNCHANGED <<op, run, by>> /\ send' = [send EXCEPT ![m] = IF cancelled THEN "discarding" ELSE "failing"]
      BY <2>2 DEF WriteRaises
    <3> QED BY <1>1, <1>2, <2>2, <3>1 DEF Settles, WorkInv, TaskTypeOK, OpState
  <2> QED BY <1>1, <2>1, <2>2
<1>4. TaskTypeOK'
  BY <1>1, <1>2, <1>3 DEF Settles, WorkInv, TaskTypeOK, OpState
<1>5. /\ \A n \in Message : unused(n)' = unused(n)
      /\ \A n \in Message \ {m} : unacked(n)' = unacked(n)
      /\ Enqueues'
  BY <1>1, <1>3, SettlesKeeps
<1>6. ~live(m) /\ \A n \in Message \ {m} : live(n)' = live(n)
  BY <1>1, <1>3, <1>5 DEF live, unacked
<1>7. Replacements'
  <2> SUFFICES ASSUME NEW n \in Message
               PROVE  /\ by'[n] \in Message /\ by'[n][1] = n[1] =>
                           run'[by'[n]] = "running" /\ n = <<by'[n][1], by'[n][2] + 1>>
                      /\ send'[n] = "existing" => by'[n] \in Message /\ by'[n][1] = n[1]
    BY DEF Replacements
  <2>1. by'[n] = by[n] \/ by'[n] \notin Message
    BY <1>3, Messages DEF Settles
  <2>2. send'[n] = "existing" => send[n] = "existing" /\ by'[n] = by[n]
    BY <1>3 DEF Settles
  <2> QED BY <1>3, <2>1, <2>2 DEF WorkInv, Replacements
<1>8. Known'
  BY <1>1, <1>5 DEF WorkInv, Known
<1>9. Carried'
  <2> SUFFICES ASSUME NEW w \in Work
               PROVE  /\ is_open(work'[w]) => \E n \in Message : n[1] = w /\ (live(n)' \/ by'[n] # NoAgent)
                      /\ \/ work'[w].state = "running"
                         \/ is_open(work'[w]) /\ task'[TaskOf[w]].status = "cancelling"
                         => \E n \in Message : n[1] = w /\ live(n)'
    BY DEF Carried
  <2>1. ASSUME NEW n \in Message, live(n)
        PROVE  live(n)'
    BY <1>6, <2>1
  <2>2. CASE send[m] = "created"
    BY <1>1, <1>3, <2>1, <2>2 DEF WorkInv, Carried, TaskTypeOK
  <2>3. CASE send[m] = "existing"
    <3>1. PICK b \in Message : b[1] = m[1] /\ run[b] = "running"
      BY <2>3 DEF WorkInv, Replacements
    <3>2. live(b)
      BY <3>1 DEF WorkInv, TaskTypeOK, live, unacked
    <3>3. CASE w = m[1]
      BY <2>1, <3>1, <3>2, <3>3
    <3>4. CASE w # m[1]
      BY <1>1, <1>3, <2>1, <3>4 DEF WorkInv, Carried, Settles
    <3> QED BY <3>3, <3>4
  <2> QED BY <1>1, <2>2, <2>3
<1>10. Handled'
  BY <1>1, <1>2, <1>3 DEF WorkInv, Handled, sole, TaskTypeOK
<1> QED BY <1>1, <1>3, <1>4, <1>5, <1>7, <1>8, <1>9, <1>10, SettledRequests DEF WorkInv

\* An operation on the store for queued work leaves requests and records in order.
LEMMA StoredWork ==
  ASSUME WorkInv, NEW w \in Work, Stored(TaskOf[w], {w}), op[TaskOf[w]] \notin Early,
         \A u \in Task : op'[u] = op[u] \/ (op[u] = "submitting" /\ op'[u] = "over"),
         UNCHANGED orphaned
  PROVE  /\ task' \in [Task -> TaskRecord] /\ work' \in [Work \cup Task -> WorkRecord]
         /\ EndedIsClosed' /\ InlineOpen' /\ FailedHasError' /\ CompletedSucceeded' /\ Pristine' /\ Driven'
         /\ \A u \in Task : task'[u].status = "cancelling" => task[u].status = "cancelling"
         /\ \A u \in Task : open_work(work', u) # {} => task'[u].status = task[u].status
         /\ \A v \in Work : work[v].state = "none" => work'[v].state = "none"
         /\ \A v \in Work \ {w} : work'[v] = work[v]
<1> DEFINE t == TaskOf[w]
<1>0. t \in Task /\ w \in Owned(t) /\ w \notin Task
  BY TaskAssumption, OwnedApart
<1>1. StoreInv' /\ \A u \in Task \ {t} : task'[u] = task[u]
  BY DEF Stored, Only
<1>2. \A y \in (Work \cup Task) \ {w} : work'[y] = work[y]
  BY DEF Stored, Only
<1>3. \A u \in Task \ {t} : \A y \in Owned(u) : work'[y] = work[y]
  BY <1>0, <1>2, OwnedApart
<1>4. \A u \in Task : task'[u].status = "cancelling" => task[u].status = "cancelling"
  BY <1>1 DEF Stored, EndsOrKeeps
<1>5. \A u \in Task : open_work(work', u) # {} => task'[u].status = task[u].status
  <2>1. open_work(work', t) # {} => task'[t].status \notin Ended
    BY <1>0, <1>1 DEF StoreInv, EndedIsClosed
  <2> QED BY <1>1, <2>1 DEF Stored, EndsOrKeeps, Ended
<1>6. \A v \in Work : work[v].state = "none" => work'[v].state = "none"
  BY <1>2 DEF Stored, Only
<1>7. InlineOpen'
  BY <1>0, <1>2, <1>4 DEF WorkInv, InlineOpen, inline_open
<1>8. Pristine'
  BY <1>1, <1>3 DEF WorkInv, Pristine, pristine, Early
<1>9. Driven'
  <2> SUFFICES ASSUME NEW u \in Task PROVE driven(u)'
    BY DEF Driven
  <2>1. CASE u # t
    BY <1>1, <1>3, <2>1 DEF WorkInv, Driven, driven, open_work
  <2>2. CASE u = t
    BY <2>2 DEF WorkInv, Driven, driven, Stored
  <2> QED BY <2>1, <2>2
<1> QED BY <1>1, <1>2, <1>4, <1>5, <1>6, <1>7, <1>8, <1>9 DEF StoreInv

LEMMA UndoSendKeeps ==
  ASSUME WorkInv, NEW m \in Message, UndoSend(m)
  PROVE  WorkInv' /\ Stored(owner(m), {m[1]}) /\ UNCHANGED run
<1>0. m[1] \in Work /\ owner(m) = TaskOf[m[1]] /\ owner(m) \in Task /\ m[1] \in Owned(owner(m))
  BY Messages DEF owner
<1>1. /\ UNCHANGED <<queue, stopping, restarts, orphaned>> /\ revoked' = revoked \cup {m[1]}
      /\ send[m] \in {"failing", "discarding"} /\ queue[m] # "unsent" /\ end_send(m, FALSE)
  BY DEF UndoSend, WorkInv, Enqueues
<1>2. Stored(owner(m), {m[1]}) /\ ~is_open(work'[m[1]])
  BY <1>0, InvOf, FinishStores, DiscardStores DEF UndoSend
<1>3. Settles(m) /\ UNCHANGED run /\ by'[m] = NoAgent
  BY <1>1, EndSend DEF Settles, WorkInv, TaskTypeOK
<1>4. /\ \A n \in Message : unused(n)' = unused(n)
      /\ Enqueues'
  BY <1>1, <1>3, SettlesKeeps
<1>5. op[owner(m)] \notin Early
  BY <1>1 DEF WorkInv, Enqueues, unused
<1>6. \A u \in Task : op'[u] = op[u] \/ (op[u] = "submitting" /\ op'[u] = "over")
  BY <1>3 DEF Settles
<1>7. /\ task' \in [Task -> TaskRecord] /\ work' \in [Work \cup Task -> WorkRecord]
      /\ EndedIsClosed' /\ InlineOpen' /\ FailedHasError' /\ CompletedSucceeded' /\ Pristine' /\ Driven'
      /\ \A u \in Task : task'[u].status = "cancelling" => task[u].status = "cancelling"
      /\ \A u \in Task : open_work(work', u) # {} => task'[u].status = task[u].status
      /\ \A v \in Work : work[v].state = "none" => work'[v].state = "none"
      /\ \A v \in Work \ {m[1]} : work'[v] = work[v]
  BY <1>0, <1>1, <1>2, <1>5, <1>6, StoredWork
<1>8. TaskTypeOK'
  BY <1>0, <1>1, <1>3, <1>7 DEF Settles, WorkInv, TaskTypeOK, OpState
<1>9. Replacements'
  <2> SUFFICES ASSUME NEW n \in Message
               PROVE  /\ by'[n] \in Message /\ by'[n][1] = n[1] =>
                           run'[by'[n]] = "running" /\ n = <<by'[n][1], by'[n][2] + 1>>
                      /\ send'[n] = "existing" => by'[n] \in Message /\ by'[n][1] = n[1]
    BY DEF Replacements
  <2>1. by'[n] = by[n] \/ by'[n] \notin Message
    BY <1>3, Messages DEF Settles
  <2>2. send'[n] = "existing" => send[n] = "existing" /\ by'[n] = by[n]
    BY <1>3 DEF Settles
  <2> QED BY <1>3, <2>1, <2>2 DEF WorkInv, Replacements
<1>10. Known'
  BY <1>4, <1>7 DEF WorkInv, Known
<1>11. \A n \in Message : live(n)' = live(n)
  BY <1>1, <1>3 DEF live, unacked
<1>12. Carried'
  <2> SUFFICES ASSUME NEW w \in Work
               PROVE  /\ is_open(work'[w]) => \E n \in Message : n[1] = w /\ (live(n)' \/ by'[n] # NoAgent)
                      /\ \/ work'[w].state = "running"
                         \/ is_open(work'[w]) /\ task'[TaskOf[w]].status = "cancelling"
                         => \E n \in Message : n[1] = w /\ live(n)'
    BY DEF Carried
  <2>1. CASE w = m[1]
    BY <1>2, <2>1 DEF is_open
  <2>2. CASE w # m[1]
    <3>1. work'[w] = work[w] /\ (task'[TaskOf[w]].status = "cancelling" => task[TaskOf[w]].status = "cancelling")
      BY <1>7, <2>2, OwnedApart
    <3> QED BY <1>3, <1>11, <2>2, <3>1 DEF WorkInv, Carried, Settles
  <2> QED BY <2>1, <2>2
<1>13. Handled'
  <2> SUFFICES ASSUME NEW d \in Message, run[d] = "running", sole(d)'
               PROVE  work'[d[1]].state = "running" /\ task'[owner(d)].status \in {"running", "cancelling"}
    BY <1>3 DEF Handled
  <2>1. sole(d) /\ d[1] # m[1]
    BY <1>1 DEF sole
  <2>2. work[d[1]].state = "running" /\ task[owner(d)].status \in {"running", "cancelling"}
    BY <2>1 DEF WorkInv, Handled
  <2>3. work'[d[1]].state = "running" /\ open_work(work', owner(d)) # {}
    BY <1>7, <2>1, <2>2, Messages DEF open_work, is_open
  <2> QED BY <1>7, <2>2, <2>3, Messages
<1> QED BY <1>2, <1>3, <1>4, <1>7, <1>8, <1>9, <1>10, <1>12, <1>13 DEF WorkInv

-----------------------------------------------------------------------------
(* Deliveries *)

\* A step of the delivery d that starts no handler: what it stores, and that a handler
\* which stops running has nothing to send, and a message stays live for open work.
Delivers(d) ==
  /\ UNCHANGED <<op, by, send, stopping, restarts, orphaned, revoked>>
  /\ Stored(owner(d), {d[1]})
  /\ queue' \in [Message -> {"unsent", "pending", "claimed", "gone"}]
  /\ run' \in [Message -> Outcome \cup {"idle", "claimed", "running", "dropping", "settling", "settled", "left"}]
  /\ \A n \in Message \ {d} : queue'[n] = queue[n] /\ run'[n] = run[n]
  /\ queue[d] # "unsent" /\ queue'[d] # "unsent"
  /\ run'[d] # "idle" => queue'[d] = "claimed"
  /\ run'[d] = "running" => run[d] = "running" /\ UNCHANGED work
  /\ run[d] = "running" => run'[d] = "running" \/ sends(d) = {}
  /\ is_open(work'[d[1]]) /\ live(d) => live(d)'

LEMMA DeliversKeeps ==
  ASSUME WorkInv, NEW d \in Message, Delivers(d)
  PROVE  WorkInv'
<1>0. d[1] \in Work /\ owner(d) = TaskOf[d[1]] /\ owner(d) \in Task /\ d[1] \in Owned(owner(d))
  BY Messages DEF owner
<1>1. op[owner(d)] \notin Early
  BY DEF WorkInv, Enqueues, unused, Delivers
<1>2. /\ task' \in [Task -> TaskRecord] /\ work' \in [Work \cup Task -> WorkRecord]
      /\ EndedIsClosed' /\ InlineOpen' /\ FailedHasError' /\ CompletedSucceeded' /\ Pristine' /\ Driven'
      /\ \A u \in Task : task'[u].status = "cancelling" => task[u].status = "cancelling"
      /\ \A u \in Task : open_work(work', u) # {} => task'[u].status = task[u].status
      /\ \A v \in Work : work[v].state = "none" => work'[v].state = "none"
      /\ \A v \in Work \ {d[1]} : work'[v] = work[v]
  BY <1>0, <1>1, StoredWork DEF Delivers
<1>3. TaskTypeOK'
  BY <1>2 DEF Delivers, WorkInv, TaskTypeOK
<1>4. \A n \in Message : unused(n)' = unused(n)
  BY DEF Delivers, unused
<1>5. \A n \in Message \ {d} : live(n)' = live(n)
  BY DEF Delivers, live, unacked
<1>6. Enqueues'
  BY <1>4, Messages DEF Delivers, WorkInv, Enqueues, TaskTypeOK
<1>7. Replacements'
  <2> SUFFICES ASSUME NEW n \in Message
               PROVE  /\ by[n] \in Message /\ by[n][1] = n[1] =>
                           run'[by[n]] = "running" /\ n = <<by[n][1], by[n][2] + 1>>
                      /\ send[n] = "existing" => by[n] \in Message /\ by[n][1] = n[1]
    BY DEF Replacements, Delivers
  <2>1. by[n] = d => run'[d] = "running" \/ run[d] # "running"
    BY DEF Delivers, sends
  <2> QED BY <2>1 DEF WorkInv, Replacements, Delivers
<1>8. Known'
  BY <1>2, <1>4 DEF WorkInv, Known
<1>9. Carried'
  <2> SUFFICES ASSUME NEW w \in Work
               PROVE  /\ is_open(work'[w]) => \E n \in Message : n[1] = w /\ (live(n)' \/ by'[n] # NoAgent)
                      /\ \/ work'[w].state = "running"
                         \/ is_open(work'[w]) /\ task'[TaskOf[w]].status = "cancelling"
                         => \E n \in Message : n[1] = w /\ live(n)'
    BY DEF Carried
  <2>1. /\ task'[TaskOf[w]].status = "cancelling" => task[TaskOf[w]].status = "cancelling"
        /\ is_open(work'[w]) => is_open(work[w])
        /\ work'[w].state = "running" => work[w].state = "running"
    BY <1>2, OwnedApart DEF Delivers, Stored, Only
  <2>2. \A n \in Message : n[1] = w /\ live(n) /\ is_open(work'[w]) => live(n)'
    BY <1>5 DEF Delivers
  <2>3. UNCHANGED by
    BY DEF Delivers
  <2>4. work'[w].state = "running" => is_open(work'[w])
    BY DEF is_open
  <2>5. /\ is_open(work[w]) => \E n \in Message : n[1] = w /\ (live(n) \/ by[n] # NoAgent)
        /\ \/ work[w].state = "running"
           \/ is_open(work[w]) /\ task[TaskOf[w]].status = "cancelling"
           => \E n \in Message : n[1] = w /\ live(n)
    BY DEF WorkInv, Carried
  <2> QED BY <2>1, <2>2, <2>3, <2>4, <2>5
<1>10. Handled'
  <2> SUFFICES ASSUME NEW e \in Message, run'[e] = "running", sole(e)'
               PROVE  work'[e[1]].state = "running" /\ task'[owner(e)].status \in {"running", "cancelling"}
    BY DEF Handled
  <2>1. run[e] = "running" /\ sole(e)
    BY DEF Delivers, sole
  <2>2. work[e[1]].state = "running" /\ task[owner(e)].status \in {"running", "cancelling"}
    BY <2>1 DEF WorkInv, Handled
  <2>3. work'[e[1]] = work[e[1]]
    <3>1. CASE e = d
      BY <3>1 DEF Delivers
    <3>2. CASE e # d
      <4>1. e[1] # d[1]
        BY <2>1, <3>2 DEF sole, Delivers
      <4> QED BY <1>2, <4>1, Messages
    <3> QED BY <3>1, <3>2
  <2>4. open_work(work', owner(e)) # {}
    BY <2>2, <2>3, Messages DEF open_work, is_open
  <2> QED BY <1>2, <2>2, <2>3, <2>4, Messages
<1> QED BY <1>2, <1>3, <1>6, <1>7, <1>8, <1>9, <1>10 DEF WorkInv

RunState == Outcome \cup {"idle", "claimed", "running", "dropping", "settling", "settled", "left"}

\* A claimed delivery moves on, and its message stays where it is.
LEMMA MovesOn ==
  ASSUME WorkInv, NEW d \in Message, NEW s \in RunState \ {"idle", "running"},
         run[d] # "idle", run' = [run EXCEPT ![d] = s],
         UNCHANGED <<queue, op, by, send, stopping, restarts, orphaned, revoked>>,
         Stored(owner(d), {d[1]}),
         run[d] = "running" => sends(d) = {},
         is_open(work'[d[1]]) /\ s \in {"settled", "requeued"} => run[d] \in {"settled", "requeued"}
  PROVE  Delivers(d)
<1>1. queue[d] = "claimed" /\ run'[d] = s /\ run' \in [Message -> RunState]
  BY DEF WorkInv, TaskTypeOK, RunState
<1>2. \A n \in Message \ {d} : run'[n] = run[n]
  BY DEF WorkInv, TaskTypeOK
<1>3. is_open(work'[d[1]]) /\ live(d) => live(d)'
  BY <1>1 DEF live, unacked
<1> QED BY <1>1, <1>2, <1>3 DEF Delivers, RunState, WorkInv, TaskTypeOK

LEMMA FetchKeeps ==
  ASSUME WorkInv, NEW d \in Message, Fetch(d)
  PROVE  WorkInv' /\ Delivers(d)
<1>1. Stored(owner(d), {d[1]})
  BY InvOf, NothingStored, Messages DEF Fetch, ignored
<1>2. UNCHANGED <<op, by, send, stopping, restarts, orphaned, revoked>>
  BY DEF Fetch, audit
<1>3. /\ queue' \in [Message -> {"unsent", "pending", "claimed", "gone"}]
      /\ run' \in [Message -> RunState] /\ queue'[d] = "claimed" /\ run'[d] = "claimed"
      /\ \A n \in Message \ {d} : queue'[n] = queue[n] /\ run'[n] = run[n]
  BY DEF Fetch, WorkInv, TaskTypeOK, RunState
<1>4. queue[d] = "pending" /\ run[d] # "running"
  BY DEF Fetch, WorkInv, TaskTypeOK
<1>5. Delivers(d)
  BY <1>1, <1>2, <1>3, <1>4 DEF Delivers, live, unacked, RunState
<1> QED BY <1>5, DeliversKeeps

LEMMA RefuseKeeps ==
  ASSUME WorkInv, NEW d \in Message, Refuse(d)
  PROVE  WorkInv' /\ Delivers(d)
<1>0. d[1] \in Owned(owner(d)) /\ owner(d) \in Task
  BY Messages
<1>1. Stored(owner(d), {d[1]}) /\ UNCHANGED work
  BY <1>0, InvOf, NothingStored DEF Refuse, ignored
<1>2. UNCHANGED <<queue, op, by, send, stopping, restarts, orphaned, revoked>> /\ run[d] = "claimed"
  BY DEF Refuse, audit
<1>3. PICK s \in {"dropping", "settling", "settled"} :
        /\ run' = [run EXCEPT ![d] = s]
        /\ s = "settled" => task[owner(d)].status \notin {"none", "cancelling", "cancelled", "completed", "failed"}
  BY DEF Refuse
<1>4. s = "settled" => ~is_open(work[d[1]])
  BY <1>0, <1>3, InvOf DEF Refuse, startable, admits, StoreInv, TaskRecord, Status, Active, Ended
<1>5. Delivers(d)
  BY <1>1, <1>2, <1>3, <1>4, MovesOn DEF RunState
<1> QED BY <1>5, DeliversKeeps

LEMMA DropKeeps ==
  ASSUME WorkInv, NEW d \in Message, NEW state \in {"done", "failed"}, DropCancelled(d, state)
  PROVE  WorkInv' /\ Delivers(d)
<1>1. Stored(owner(d), {d[1]}) /\ ~is_open(work'[d[1]])
  BY InvOf, FinishStores, Messages DEF DropCancelled
<1>2. Delivers(d)
  BY <1>1, MovesOn DEF RunState, DropCancelled
<1> QED BY <1>2, DeliversKeeps

LEMMA SettleKeeps ==
  ASSUME WorkInv, NEW d \in Message, Settle(d)
  PROVE  WorkInv' /\ Delivers(d)
<1>1. Stored(owner(d), {d[1]}) /\ ~is_open(work'[d[1]])
  BY InvOf, SettleStores, Messages DEF Settle
<1>2. Delivers(d)
  BY <1>1, MovesOn DEF RunState, Settle
<1> QED BY <1>2, DeliversKeeps

LEMMA HandlerReportsKeeps ==
  ASSUME WorkInv, NEW d \in Message, NEW result \in BOOLEAN, HandlerReports(d, result)
  PROVE  WorkInv' /\ Delivers(d)
<1>1. Stored(owner(d), {d[1]}) /\ UNCHANGED work
  BY InvOf, RecordStores, Messages DEF HandlerReports
<1>2. /\ UNCHANGED <<queue, op, run, by, send, stopping, restarts, orphaned, revoked>>
      /\ run[d] = "running" /\ queue[d] = "claimed"
  BY DEF HandlerReports, agents, WorkInv, TaskTypeOK
<1>3. Delivers(d)
  BY <1>1, <1>2 DEF Delivers, WorkInv, TaskTypeOK, live, unacked
<1> QED BY <1>3, DeliversKeeps

LEMMA ReturnKeeps ==
  ASSUME WorkInv, NEW d \in Message, NEW outcome \in {"success", "failed"}, Return(d, outcome)
  PROVE  WorkInv' /\ Delivers(d)
<1>1. Stored(owner(d), {d[1]})
  BY InvOf, NothingStored, Messages DEF Return, ignored
<1>2. Delivers(d)
  BY <1>1, MovesOn DEF RunState, Outcome, Return, audit
<1> QED BY <1>2, DeliversKeeps

LEMMA RaiseKeeps ==
  ASSUME WorkInv, NEW d \in Message, Raise(d)
  PROVE  WorkInv' /\ Delivers(d)
<1>0. d[1] \in Owned(owner(d)) /\ owner(d) \in Task /\ d[1] \in Work \cup Task
  BY Messages
<1>1. Stored(owner(d), {d[1]})
  <2>1. CASE work[d[1]].state = "none" \/ task[owner(d)].status = "none"
    BY <1>0, <2>1, InvOf, NothingStored DEF Raise, ignored
  <2>2. CASE ~(work[d[1]].state = "none" \/ task[owner(d)].status = "none")
    <3>1. work' = [work EXCEPT ![d[1]].error = TRUE] /\ UNCHANGED task
      BY <2>2 DEF Raise
    <3>2. /\ work' \in [Work \cup Task -> WorkRecord]
          /\ \A y \in (Work \cup Task) \ {d[1]} : work'[y] = work[y]
          /\ work'[d[1]].state = work[d[1]].state /\ work'[d[1]].error = TRUE
      <4>1. /\ [work[d[1]] EXCEPT !.error = TRUE] \in WorkRecord
            /\ [work[d[1]] EXCEPT !.error = TRUE].state = work[d[1]].state
            /\ [work[d[1]] EXCEPT !.error = TRUE].error = TRUE
        BY <1>0, InvOf DEF StoreInv, WorkRecord
      <4> QED BY <1>0, <3>1, <4>1, InvOf DEF StoreInv
    <3>3. \A y \in Work \cup Task : work'[y].state = work[y].state
      BY <3>2
    <3>4. \A u \in Task : open_work(work', u) = open_work(work, u)
      BY <3>3, OwnedApart DEF open_work, is_open
    <3>5. StoreInv'
      <4>1. EndedIsClosed'
        BY <3>1, <3>4, InvOf DEF StoreInv, EndedIsClosed
      <4>2. FailedHasError'
        BY <3>2, <3>3, InvOf DEF StoreInv, FailedHasError
      <4>3. CompletedSucceeded'
        BY <3>1, <3>3, InvOf, OwnedApart DEF StoreInv, CompletedSucceeded
      <4> QED BY <3>1, <3>2, <4>1, <4>2, <4>3, InvOf DEF StoreInv
    <3> QED BY <1>0, <2>2, <3>1, <3>2, <3>3, <3>4, <3>5 DEF Stored, Only, EndsOrKeeps, is_open
  <2> QED BY <2>1, <2>2
<1>2. Delivers(d)
  BY <1>1, MovesOn DEF RunState, Raise, audit
<1> QED BY <1>2, DeliversKeeps

LEMMA InterruptedKeeps ==
  ASSUME WorkInv, NEW d \in Message, NEW inside \in BOOLEAN, Interrupted(d, inside)
  PROVE  WorkInv' /\ Delivers(d)
<1>0. d[1] \in Owned(owner(d)) /\ owner(d) \in Task
  BY Messages
<1>1. PICK s \in {"cancelled", "left"} : run' = [run EXCEPT ![d] = s]
  BY DEF Interrupted
<1>2. Stored(owner(d), {d[1]})
  BY <1>0, InvOf, NothingStored, RequeueStores DEF Interrupted
<1>3. Delivers(d)
  BY <1>1, <1>2, MovesOn DEF RunState, Outcome, Interrupted, audit
<1> QED BY <1>3, DeliversKeeps

LEMMA PersistKeeps ==
  ASSUME WorkInv, NEW d \in Message, NEW interrupted \in BOOLEAN, Persist(d, interrupted)
  PROVE  WorkInv' /\ Delivers(d)
<1>0. d[1] \in Owned(owner(d)) /\ owner(d) \in Task
  BY Messages
<1>1. PICK s \in {"settled", "left"} : run' = [run EXCEPT ![d] = s]
  BY DEF Persist
<1>2. /\ UNCHANGED <<queue, op, by, send, stopping, restarts, orphaned, revoked>>
      /\ run[d] \in Outcome
  BY DEF Persist
<1>3. Stored(owner(d), {d[1]}) /\ (is_open(work'[d[1]]) => run[d] = "requeued")
  <2>1. CASE run[d] = "failed"
    <3>1. finish_work(owner(d), d[1], "failed", TRUE)
      BY <2>1 DEF Persist, persist_result
    <3> QED BY <1>0, <3>1, InvOf, FinishStores
  <2>2. CASE run[d] = "requeued"
    <3>1. requeue_work(owner(d), d[1])
      BY <2>2 DEF Persist, persist_result
    <3> QED BY <1>0, <2>2, <3>1, InvOf, RequeueStores
  <2>3. CASE run[d] \in {"success", "cancelled"}
    <3>1. finish_work(owner(d), d[1], "done", FALSE)
      BY <2>3 DEF Persist, persist_result
    <3> QED BY <1>0, <3>1, InvOf, FinishStores
  <2> QED BY <1>2, <2>1, <2>2, <2>3 DEF Outcome
<1>4. Delivers(d)
  BY <1>1, <1>2, <1>3, MovesOn DEF RunState, Outcome
<1> QED BY <1>4, DeliversKeeps

LEMMA AckKeeps ==
  ASSUME WorkInv, NEW d \in Message, NEW ok \in BOOLEAN, Ack(d, ok)
  PROVE  WorkInv' /\ Delivers(d)
<1>1. Stored(owner(d), {d[1]})
  BY InvOf, NothingStored, Messages DEF Ack, ignored
<1>2. UNCHANGED <<op, by, send, stopping, restarts, orphaned, revoked>> /\ run[d] = "settled"
  BY DEF Ack, audit
<1>3. /\ queue' \in [Message -> {"unsent", "pending", "claimed", "gone"}]
      /\ run' \in [Message -> RunState] /\ run'[d] = (IF ok THEN "idle" ELSE "left")
      /\ queue'[d] = (IF ok THEN "gone" ELSE queue[d]) /\ queue[d] = "claimed"
      /\ \A n \in Message \ {d} : queue'[n] = queue[n] /\ run'[n] = run[n]
  BY <1>2 DEF Ack, WorkInv, TaskTypeOK, RunState
<1>4. Delivers(d)
  BY <1>1, <1>2, <1>3 DEF Delivers, live, unacked, RunState
<1> QED BY <1>4, DeliversKeeps

LEMMA AdmitKeeps ==
  ASSUME WorkInv, NEW d \in Message, Admit(d)
  PROVE  WorkInv'
<1> DEFINE w == d[1]
           t == owner(d)
<1>0. w \in Work /\ w \notin Task /\ t = TaskOf[w] /\ t \in Task /\ w \in Owned(t)
  BY Messages, TaskAssumption DEF owner
<1>1. /\ UNCHANGED <<queue, op, by, send, stopping, restarts, orphaned, revoked>>
      /\ run[d] = "claimed" /\ queue[d] = "claimed" /\ admits(t)
  BY DEF Admit, audit, startable, WorkInv, TaskTypeOK
<1>2. /\ StoreInv' /\ task'[t].status = "running" /\ work'[w].state = "running"
      /\ \A u \in Task \ {t} : task'[u] = task[u]
      /\ \A y \in (Work \cup Task) \ {w} : work'[y] = work[y]
      /\ task[t].status \in {"pending", "running"}
  BY <1>0, <1>1, InvOf, StartStores DEF Admit
<1>3. run' \in [Message -> RunState] /\ run'[d] = "running" /\ \A n \in Message \ {d} : run'[n] = run[n]
  BY DEF Admit, WorkInv, TaskTypeOK, RunState
<1>4. TaskTypeOK'
  BY <1>1, <1>2, <1>3 DEF WorkInv, TaskTypeOK, StoreInv, RunState
<1>5. /\ \A n \in Message : unused(n)' = unused(n) /\ live(n)' = live(n) /\ sole(n)' = sole(n)
      /\ ~unused(d) /\ live(d)
  BY <1>1, <1>3 DEF unused, live, unacked, sole
<1>6. Enqueues'
  BY <1>1, <1>5, Messages DEF WorkInv, Enqueues
<1>7. Replacements'
  BY <1>1, <1>3 DEF WorkInv, Replacements
<1>8. Known'
  BY <1>2, <1>5 DEF WorkInv, Known
<1>9. Carried'
  <2> SUFFICES ASSUME NEW v \in Work
               PROVE  /\ is_open(work'[v]) => \E n \in Message : n[1] = v /\ (live(n)' \/ by'[n] # NoAgent)
                      /\ \/ work'[v].state = "running"
                         \/ is_open(work'[v]) /\ task'[TaskOf[v]].status = "cancelling"
                         => \E n \in Message : n[1] = v /\ live(n)'
    BY DEF Carried
  <2>1. CASE v = w
    BY <1>5, <2>1
  <2>2. CASE v # w
    <3>1. work'[v] = work[v] /\ (task'[TaskOf[v]].status = "cancelling" => task[TaskOf[v]].status = "cancelling")
      BY <1>2, <2>2, OwnedApart
    <3> QED BY <1>1, <1>5, <3>1 DEF WorkInv, Carried
  <2> QED BY <2>1, <2>2
<1>10. InlineOpen'
  BY <1>0, <1>1, <1>2 DEF WorkInv, InlineOpen, inline_open
<1>11. Handled'
  <2> SUFFICES ASSUME NEW e \in Message, run'[e] = "running", sole(e)
               PROVE  work'[e[1]].state = "running" /\ task'[owner(e)].status \in {"running", "cancelling"}
    BY <1>5 DEF Handled
  <2>1. CASE e = d
    BY <1>2, <2>1
  <2>2. CASE e # d
    BY <1>2, <1>3, <2>2, Messages DEF WorkInv, Handled
  <2> QED BY <2>1, <2>2
<1>12. Pristine'
  <2> SUFFICES ASSUME NEW u \in Task, op[u] \in Early PROVE pristine(u)'
    BY <1>1 DEF Pristine, pristine
  <2>1. u # t
    BY <1>5 DEF WorkInv, Enqueues
  <2>2. \A y \in Owned(u) : work'[y] = work[y]
    BY <1>0, <1>2, <2>1, OwnedApart
  <2> QED BY <1>1, <1>2, <2>1, <2>2 DEF WorkInv, Pristine, pristine
<1>13. Driven'
  <2> SUFFICES ASSUME NEW u \in Task PROVE driven(u)'
    BY DEF Driven
  <2>1. CASE u = t
    BY <1>0, <1>2, <2>1 DEF driven, open_work, is_open
  <2>2. CASE u # t
    <3>1. \A y \in Owned(u) : work'[y] = work[y]
      BY <1>0, <1>2, <2>2, OwnedApart
    <3> QED BY <1>1, <1>2, <2>2, <3>1 DEF WorkInv, Driven, driven, open_work
  <2> QED BY <2>1, <2>2
<1> QED BY <1>2, <1>4, <1>6, <1>7, <1>8, <1>9, <1>10, <1>11, <1>12, <1>13 DEF WorkInv, StoreInv

-----------------------------------------------------------------------------
(* The process *)

\* A restart keeps every task that is being cancelled something to wait for: the work it
\* has left had a message that is still in the queue.
LEMMA RestartKeeps ==
  ASSUME WorkInv, Restart
  PROVE  WorkInv'
<1>1. /\ UNCHANGED <<task, revoked>> /\ restarts' = restarts + 1 /\ stopping' = FALSE
      /\ restarts < MaxRestarts /\ orphaned' \subseteq Task
      /\ by' = [m \in Message |-> NoAgent] /\ send' = [m \in Message |-> "idle"]
      /\ run' = [m \in Message |-> "idle"]
  BY DEF Restart
<1>2. /\ queue' \in [Message -> {"unsent", "pending", "claimed", "gone"}]
      /\ \A m \in Message : /\ unacked(m) => queue'[m] = "pending"
                            /\ queue'[m] = "unsent" <=> queue[m] = "unsent" /\ by[m] = NoAgent
  BY DEF Restart, unacked, WorkInv, TaskTypeOK
<1>3. /\ op' \in [Task -> OpState]
      /\ \A t \in Task : /\ op'[t] \in Early <=> op[t] \in Early
                         /\ op'[t] \notin {"created", "started"}
  BY DEF Restart, WorkInv, TaskTypeOK, OpState, Early
<1>4. /\ NewWork \in WorkRecord /\ is_open(NewWork) /\ NewWork.state = "pending"
      /\ NoWork \in WorkRecord /\ ~is_open(NoWork) /\ NoWork.state = "none"
  BY DEF NewWork, NoWork, WorkRecord, WorkState, is_open
<1> DEFINE rebuilt(w) == /\ task[TaskOf[w]].status \in Active
                         /\ \E m \in Message : m[1] = w /\ unacked(m)
<1>5. /\ work' = [x \in Work \cup Task |-> IF x \in Work /\ rebuilt(x) THEN NewWork ELSE NoWork]
      /\ work' \in [Work \cup Task -> WorkRecord]
      /\ \A w \in Work : work'[w] = IF rebuilt(w) THEN NewWork ELSE NoWork
      /\ \A t \in Task : work'[t] = NoWork
  <2>1. work' = [x \in Work \cup Task |-> IF x \in Work /\ rebuilt(x) THEN NewWork ELSE NoWork]
    BY DEF Restart, reconcile_delivery
  <2> QED BY <1>4, <2>1, TaskAssumption
<1> HIDE DEF rebuilt
<1>6. TaskTypeOK'
  <2>1. restarts' \in 0 .. MaxRestarts
    BY <1>1, TaskAssumption DEF WorkInv, TaskTypeOK
  <2>2. stopping' \in BOOLEAN
    BY <1>1
  <2>3. /\ by' \in [Message -> Task \cup Message \cup {NoAgent}]
        /\ send' \in [Message -> {"idle", "created", "existing", "failing", "discarding"}]
        /\ run' \in [Message -> RunState]
        /\ \A m \in Message : send'[m] = "idle" <=> by'[m] = NoAgent
        /\ \A d \in Message : run'[d] # "idle" => queue'[d] = "claimed"
    BY <1>1 DEF RunState
  <2>4. task' \in [Task -> TaskRecord] /\ revoked' \subseteq Work
    BY <1>1 DEF WorkInv, TaskTypeOK
  <2> QED BY <1>1, <1>2, <1>3, <1>5, <2>1, <2>2, <2>3, <2>4 DEF TaskTypeOK, OpState, RunState
<1>7. \A m \in Message : unused(m)' = unused(m) /\ (unacked(m) => live(m)' /\ ~unused(m))
  BY <1>1, <1>2 DEF unused, live, unacked
<1>8. Enqueues' /\ Replacements'
  BY <1>1, <1>3, <1>7, Messages DEF WorkInv, Enqueues, Replacements
<1>9. Known'
  BY <1>4, <1>5, <1>7 DEF Known, rebuilt
<1>10. Carried'
  <2> SUFFICES ASSUME NEW w \in Work, is_open(work'[w]) \/ work'[w].state = "running"
               PROVE  \E m \in Message : m[1] = w /\ live(m)'
    BY DEF Carried
  <2>1. rebuilt(w)
    BY <1>4, <1>5
  <2> QED BY <1>7, <2>1 DEF rebuilt
<1>11. EndedIsClosed'
  <2> SUFFICES ASSUME NEW t \in Task
               PROVE  /\ task[t].status \in Ended \cup {"none"} => open_work(work', t) = {}
                      /\ task[t].status = "cancelling" => open_work(work', t) # {}
    BY <1>1 DEF EndedIsClosed
  <2>1. ASSUME task[t].status \in Ended \cup {"none"}
        PROVE  open_work(work', t) = {}
    <3>1. \A w \in Work : TaskOf[w] = t => work'[w] = NoWork
      BY <1>5, <2>1 DEF rebuilt, Active, Ended
    <3> QED BY <1>4, <1>5, <3>1 DEF open_work, Owned
  <2>2. ASSUME task[t].status = "cancelling"
        PROVE  open_work(work', t) # {}
    <3>1. PICK x \in Owned(t) : is_open(work[x])
      BY <2>2 DEF WorkInv, EndedIsClosed, open_work
    <3>2. x \in Work /\ TaskOf[x] = t
      BY <2>2, <3>1, InvOf DEF inline_open, Owned
    <3>3. PICK m \in Message : m[1] = x /\ live(m)
      BY <2>2, <3>1, <3>2 DEF WorkInv, Carried
    <3>4. rebuilt(x)
      BY <2>2, <3>2, <3>3 DEF rebuilt, live, Active
    <3> QED BY <1>4, <1>5, <3>2, <3>4 DEF open_work
  <2> QED BY <2>1, <2>2
<1>12. InlineOpen'
  BY <1>3, <1>4, <1>5 DEF InlineOpen, inline_open
<1>13. FailedHasError' /\ CompletedSucceeded'
  <2>1. \A x \in Work \cup Task : work'[x].state # "failed"
    BY <1>4, <1>5
  <2> QED BY <1>1, <2>1, OwnedApart DEF WorkInv, FailedHasError, CompletedSucceeded
<1>14. Handled'
  BY <1>1 DEF Handled
<1>15. Pristine'
  <2> SUFFICES ASSUME NEW t \in Task, op[t] \in Early PROVE pristine(t)'
    BY <1>3 DEF Pristine, pristine
  <2>1. ASSUME NEW w \in Work, TaskOf[w] = t
        PROVE  ~rebuilt(w)
    BY <1>7, <2>1 DEF WorkInv, Enqueues, rebuilt, owner
  <2>2. \A x \in Owned(t) : work'[x] = NoWork
    BY <1>5, <2>1 DEF Owned
  <2> QED BY <1>1, <2>2 DEF WorkInv, Pristine, pristine
<1>16. Driven'
  <2> SUFFICES ASSUME NEW t \in Task, task[t].status \in Active, t \notin orphaned'
               PROVE  open_work(work', t) # {}
    BY <1>1 DEF Driven, driven
  <2>1. PICK m \in Message : owner(m) = t /\ unacked(m)
    BY DEF Restart
  <2>2. m[1] \in Work /\ m[1] \in Owned(t) /\ rebuilt(m[1])
    BY <2>1, Messages DEF rebuilt, owner
  <2> QED BY <1>4, <1>5, <2>2 DEF open_work
<1> QED BY <1>6, <1>8, <1>9, <1>10, <1>11, <1>12, <1>13, <1>14, <1>15, <1>16 DEF WorkInv

LEMMA UnchangedKeeps ==
  ASSUME WorkInv, UNCHANGED <<task, work, queue, op, run, by, send, orphaned, revoked>>,
         restarts' = restarts, stopping' \in BOOLEAN
  PROVE  WorkInv'
<1>1. TaskTypeOK'
  BY DEF WorkInv, TaskTypeOK
<1>2. \A m \in Message : unused(m)' = unused(m) /\ live(m)' = live(m) /\ sole(m)' = sole(m)
  BY DEF unused, live, unacked, sole
<1>3. Enqueues' /\ Replacements' /\ Known' /\ Carried' /\ Handled'
  BY <1>2, Messages DEF WorkInv, Enqueues, Replacements, Known, Carried, Handled
<1>4. EndedIsClosed' /\ InlineOpen' /\ FailedHasError' /\ CompletedSucceeded' /\ Pristine' /\ Driven'
  BY DEF WorkInv, EndedIsClosed, InlineOpen, inline_open, FailedHasError, CompletedSucceeded,
         Pristine, pristine, Driven, driven, open_work
<1> QED BY <1>1, <1>3, <1>4 DEF WorkInv

LEMMA WorkInitHolds == TaskInit => WorkInv
<1> SUFFICES ASSUME TaskInit PROVE WorkInv
  OBVIOUS
<1> USE DEF TaskInit
<1>1. /\ NoTask \in TaskRecord /\ NoTask.status = "none"
      /\ NoWork \in WorkRecord /\ NoWork.state = "none" /\ ~is_open(NoWork)
  BY DEF NoTask, TaskRecord, Status, NoWork, WorkRecord, WorkState, is_open
<1>2. TaskTypeOK
  <2>1. stopping \in BOOLEAN
    OBVIOUS
  <2> QED BY <1>1, <2>1, TaskAssumption DEF TaskTypeOK
<1>3. \A m \in Message : unused(m)
  BY DEF unused
<1>4. \A t \in Task : \A x \in Owned(t) : work[x] = NoWork
  BY OwnedApart
<1>5. Enqueues /\ Replacements /\ Known /\ Carried /\ Handled
  BY <1>1, <1>3, Messages DEF Enqueues, Replacements, Known, Carried, Handled
<1>6. \A t \in Task : open_work(work, t) = {}
  BY <1>1, <1>4 DEF open_work
<1>7. EndedIsClosed /\ InlineOpen /\ FailedHasError /\ CompletedSucceeded
  BY <1>1, <1>6 DEF EndedIsClosed, InlineOpen, inline_open, FailedHasError, CompletedSucceeded
<1>8. Pristine /\ Driven
  BY <1>1, <1>4 DEF Pristine, pristine, Driven, driven, Active
<1> QED BY <1>2, <1>5, <1>7, <1>8 DEF WorkInv

LEMMA WorkStepHolds ==
  ASSUME WorkInv, [TaskNext]_taskvars
  PROVE  WorkInv'
<1>1. ASSUME NEW t \in Task,
             Create(t) \/ Confirm(t) \/ Cancel(t) \/ Expire(t) \/ Withdraw(t, TRUE) \/ Withdraw(t, FALSE)
      PROVE  WorkInv'
  BY <1>1, CreateKeeps, ConfirmKeeps, CancelKeeps, ExpireKeeps, WithdrawKeeps
<1>2. ASSUME NEW t \in Task, RequestStep(t)
      PROVE  WorkInv'
  BY <1>2, RejectedKeeps, StartTaskKeeps, RegisterInlineKeeps, StartInlineKeeps, ReportKeeps,
     UnregisterKeeps, SendsKeep DEF RequestStep
<1>3. ASSUME NEW m \in Message, SendStep(m)
      PROVE  WorkInv'
  BY <1>3, CommitKeeps, UndoSendKeeps, WriteRaisesKeeps DEF SendStep
<1>4. ASSUME NEW d \in Message, DeliveryStep(d)
      PROVE  WorkInv'
  BY <1>4, FetchKeeps, AdmitKeeps, RefuseKeeps, SettleKeeps, PersistKeeps, DropKeeps, AckKeeps
     DEF DeliveryStep
<1>5. ASSUME NEW d \in Message, HandlerStep(d)
      PROVE  WorkInv'
  BY <1>5, HandlerReportsKeeps, SendsKeep DEF HandlerStep
<1>6. ASSUME NEW d \in Message, HandlerEnds(d)
      PROVE  WorkInv'
  BY <1>6, ReturnKeeps, RaiseKeeps, InterruptedKeeps DEF HandlerEnds
<1>7. CASE Stop
  <2>1. stopping' \in BOOLEAN
    BY <1>7 DEF Stop
  <2> QED BY <1>7, <2>1, UnchangedKeeps DEF Stop, agents, audit
<1>8. CASE UNCHANGED taskvars
  <2>1. stopping' \in BOOLEAN
    BY <1>8 DEF taskvars, WorkInv, TaskTypeOK
  <2> QED BY <1>8, <2>1, UnchangedKeeps DEF taskvars
<1>9. CASE Restart
  BY <1>9, RestartKeeps
<1> QED BY <1>1, <1>2, <1>3, <1>4, <1>5, <1>6, <1>7, <1>8, <1>9 DEF TaskNext

-----------------------------------------------------------------------------
(* The theorems *)

\* Every state that TaskWork reaches satisfies the inductive invariant.
THEOREM WorkInvariant == TaskSpec => []WorkInv
BY WorkInitHolds, WorkStepHolds, PTL DEF TaskSpec

\* Records, work, messages and agents have their types; an enqueue under way has a
\* caller, and a delivery that goes on holds the claim on its message.
THEOREM TaskTypes == TaskSpec => []TaskTypeOK
<1>1. WorkInv => TaskTypeOK
  BY DEF WorkInv
<1> QED BY <1>1, WorkInvariant, PTL

\* The store never keeps open work for a task that has ended or is deleted, and a task
\* that is being cancelled always has work to wait for, through every interleaving of
\* registrations, late results, cancellations and restarts.
THEOREM EndedTasksAreClosed == TaskSpec => []EndedIsClosed
<1>1. WorkInv => EndedIsClosed
  BY DEF WorkInv
<1> QED BY <1>1, WorkInvariant, PTL

\* Work is never left open without a message in the queue, an enqueue under way or the
\* operation that closes it: raised and cancelled writes, refused deliveries, failed
\* acknowledgements and restarts strand nothing.
THEOREM WorkIsNeverStranded == TaskSpec => []NoStrandedWork
<1>1. WorkInv => NoStrandedWork
  BY DEF WorkInv, Carried, InlineOpen, inline_open, NoStrandedWork, live
<1> QED BY <1>1, WorkInvariant, PTL

\* A task stays active only while it has open work or a request that goes on, or a crash
\* has orphaned it.
THEOREM ActiveTasksAreDriven == TaskSpec => []ActiveIsDriven
<1>1. WorkInv => ActiveIsDriven
  BY DEF WorkInv, Driven, driven, ActiveIsDriven
<1> QED BY <1>1, WorkInvariant, PTL

\* No task ends while the handler of one of its works runs, unless the work has two
\* messages or its enqueue was undone.
THEOREM TasksEndQuietly == TaskSpec => []QuietEnd
<1>1. WorkInv => QuietEnd
  BY DEF WorkInv, Handled, QuietEnd
<1> QED BY <1>1, WorkInvariant, PTL

\* A completed task has a result, no error and no failed work.
THEOREM CompletedTasksSucceeded == TaskSpec => []CompletedSucceeded
<1>1. WorkInv => CompletedSucceeded
  BY DEF WorkInv
<1> QED BY <1>1, WorkInvariant, PTL

-----------------------------------------------------------------------------
(* TaskWork implements TaskLife: whatever requests, deliveries, enqueues and   *)
(* restarts do, from outside a task is created, worked on, cancelled and ended *)
(* as TaskLife says, and never ends while a handler works for it.              *)

\* A queue handler runs for d, which is its work's only message.
handles(d) == run[d] = "running" /\ sole(d)

\* Handlers may stop for t, and start or stop for no other task.
Shrinks(t) ==
  \A n \in Message : handles(n)' = handles(n) \/ (owner(n) = t /\ (handles(n)' => handles(n)))

\* Where the creation of tasks is stays the same.
SameMade == \A u \in Task : op'[u] = op[u] \/ (op[u] \notin Early /\ op'[u] \notin Early)

LEMMA Seen ==
  /\ \A t \in Task : status[t] = task[t].status /\ (made[t] = "past" <=> op[t] \notin Early)
  /\ \A t \in Task : op[t] \notin {"idle", "cut"} => (made[t] = "inserted" <=> op[t] = "inserted")
  /\ \A t \in Task : t \in busy <=> \E d \in Message : owner(d) = t /\ handles(d)
BY DEF status, made, busy, handles, Early

LEMMA StatusChange ==
  ASSUME NEW t \in Task, \A u \in Task \ {t} : task'[u].status = task[u].status
  PROVE  /\ status' = [status EXCEPT ![t] = task'[t].status]
         /\ task'[t].status = task[t].status => UNCHANGED status
BY DEF status

LEMMA MadeUnchanged == SameMade => UNCHANGED made
BY DEF SameMade, made, Early

LEMMA BusyShrinks ==
  ASSUME NEW t \in Task, Shrinks(t)
  PROVE  busy' = busy \/ (busy' = busy \ {t} /\ t \notin busy')
<1>1. \A u \in Task \ {t} : u \in busy' <=> u \in busy
  BY DEF Shrinks, busy, handles
<1>2. t \in busy' => t \in busy
  BY DEF Shrinks, busy, handles
<1>3. busy \subseteq Task /\ busy' \subseteq Task
  BY DEF busy
<1>4. CASE t \in busy'
  BY <1>1, <1>2, <1>3, <1>4
<1>5. CASE t \notin busy'
  BY <1>1, <1>3, <1>5
<1> QED BY <1>4, <1>5

\* A task that has ended is not busy.
LEMMA EndedIsIdle ==
  ASSUME WorkInv
  PROVE  \A t \in Task : task[t].status \in Ended => t \notin busy
BY DEF WorkInv, Handled, busy, Ended

\* A step of the work of t: the task ends or keeps its status, and its handlers may stop.
LEMMA WorkStepIsLife ==
  ASSUME WorkInv, WorkInv', NEW t \in Task, SameMade, Shrinks(t), EndsOrKeeps(t),
         \A u \in Task \ {t} : task'[u] = task[u],
         op[t] \notin Early \/ task'[t].status = task[t].status
  PROVE  [Life!LifeNext]_(Life!lifevars)
<1>1. UNCHANGED made
  BY MadeUnchanged
<1>2. busy' = busy \/ (busy' = busy \ {t} /\ t \notin busy')
  BY BusyShrinks
<1>3. /\ status' = [status EXCEPT ![t] = task'[t].status]
      /\ task'[t].status = task[t].status => UNCHANGED status
  BY StatusChange
<1>4. CASE task'[t].status = task[t].status
  BY <1>1, <1>2, <1>3, <1>4 DEF Life!LifeNext, Life!LifeStep, Life!Rest, Life!lifevars
<1>5. CASE task'[t].status # task[t].status
  <2>1. task'[t].status \in Ended
    BY <1>5 DEF EndsOrKeeps, Ended
  <2>2. t \notin busy'
    BY <2>1, EndedIsIdle DEF WorkInv, Handled, busy, Ended
  <2>3. busy' = busy \ {t}
    BY <1>2, <2>2
  <2>4. made[t] = "past" /\ status[t] = task[t].status
    BY <1>5, Seen
  <2>5. Life!End(t)
    BY <1>1, <1>3, <1>5, <2>3, <2>4 DEF Life!End, Life!Active, EndsOrKeeps
  <2> QED BY <2>5 DEF Life!LifeNext, Life!LifeStep
<1> QED BY <1>4, <1>5

-----------------------------------------------------------------------------
(* Steps of requests and operations *)

\* Handlers start or stop only when a delivery, a message or an undone enqueue changes.
LEMMA SameHandlers ==
  ASSUME UNCHANGED <<run, queue, revoked>>
  PROVE  UNCHANGED busy /\ \A t \in Task : Shrinks(t)
BY DEF busy, Shrinks, handles, sole

\* The request of t moves on after its creation.
LEMMA MovesPast ==
  ASSUME WorkInv, NEW t \in Task, NEW s, op[t] \notin Early, s \notin Early,
         op' = [op EXCEPT ![t] = s]
  PROVE  SameMade
BY DEF SameMade, WorkInv, TaskTypeOK

LEMMA CreationIsLife ==
  ASSUME WorkInv, NEW t \in Task
  PROVE  /\ Create(t) => Life!Insert(t)
         /\ Confirm(t) => Life!Accept(t)
         /\ \A refused \in BOOLEAN : Withdraw(t, refused) => Life!Retract(t)
<1>1. ASSUME NEW s \in OpState, op' = [op EXCEPT ![t] = s]
      PROVE  made' = [made EXCEPT ![t] = IF s = "idle" THEN "no"
                                         ELSE IF s \in {"inserted", "cut"} THEN s ELSE "past"]
  BY <1>1 DEF made, WorkInv, TaskTypeOK
<1>2. ASSUME Create(t) PROVE Life!Insert(t)
  <2>1. made' = [made EXCEPT ![t] = "inserted"] /\ made[t] = "no"
    BY <1>1, <1>2 DEF Create, OpState, made
  <2>2. task'[t].status = "pending" /\ \A u \in Task \ {t} : task'[u].status = task[u].status
    BY <1>2 DEF Create, NoTask, WorkInv, TaskTypeOK
  <2>3. status' = [status EXCEPT ![t] = "pending"]
    BY <2>2, StatusChange
  <2>4. UNCHANGED busy
    BY <1>2, SameHandlers DEF Create, audit
  <2> QED BY <2>1, <2>3, <2>4 DEF Life!Insert
<1>3. ASSUME Confirm(t) PROVE Life!Accept(t)
  <2>1. made' = [made EXCEPT ![t] = "past"] /\ made[t] = "inserted"
    BY <1>1, <1>3 DEF Confirm, OpState, made
  <2>2. UNCHANGED <<status, busy>>
    BY <1>3, SameHandlers DEF Confirm, audit, status
  <2> QED BY <2>1, <2>2 DEF Life!Accept
<1>4. ASSUME NEW refused \in BOOLEAN, Withdraw(t, refused) PROVE Life!Retract(t)
  <2>1. made' = [made EXCEPT ![t] = "past"] /\ made[t] = "inserted"
    BY <1>1, <1>4 DEF Withdraw, OpState, made
  <2>2. /\ task[t].status = "pending" => task'[t].status = "none"
        /\ task[t].status # "pending" => UNCHANGED task
        /\ \A u \in Task \ {t} : task'[u] = task[u]
    BY <1>4, WithdrawKeeps
  <2>3. /\ status' = [status EXCEPT ![t] = task'[t].status] /\ status[t] = task[t].status
        /\ task'[t].status = task[t].status => UNCHANGED status
    BY <2>2, StatusChange, Seen
  <2>4. UNCHANGED busy
    BY <1>4, SameHandlers DEF Withdraw, audit
  <2> QED BY <2>1, <2>2, <2>3, <2>4 DEF Life!Retract
<1> QED BY <1>2, <1>3, <1>4

\* A task that takes work runs.
LEMMA RunIsLife ==
  ASSUME WorkInv, NEW t \in Task, admits(t), task' = [task EXCEPT ![t].status = "running"],
         op[t] \notin Early, SameMade, busy' \in {busy, busy \cup {t}}
  PROVE  Life!LifeNext
<1>1. task'[t].status = "running" /\ \A u \in Task \ {t} : task'[u].status = task[u].status
  BY InvOf, RunningStores
<1>2. status' = [status EXCEPT ![t] = "running"] /\ status[t] = task[t].status /\ made[t] = "past"
  BY <1>1, StatusChange, Seen
<1>3. Life!Run(t)
  BY <1>2, MadeUnchanged DEF Life!Run, admits
<1> QED BY <1>3 DEF Life!LifeNext, Life!LifeStep

LEMMA RequestIsLife ==
  ASSUME WorkInv, WorkInv', NEW t \in Task, RequestStep(t)
  PROVE  [Life!LifeNext]_(Life!lifevars)
<1>1. UNCHANGED <<run, queue, revoked>>
  BY DEF RequestStep, SubmitRejected, StartTask, RegisterInline, StartInline, Report, Unregister,
         Submit, OperationSends, audit
<1>2. op[t] \notin Early /\ SameMade
  <2>1. op[t] \notin Early
    BY DEF RequestStep, SubmitRejected, StartTask, RegisterInline, StartInline, Report, Unregister,
           Submit, OperationSends, Early
  <2>2. UNCHANGED op \/ \E s \in OpState \ Early : op' = [op EXCEPT ![t] = s]
    BY DEF RequestStep, SubmitRejected, StartTask, RegisterInline, StartInline, Report, Unregister,
           Submit, OperationSends, OpState, Early
  <2> QED BY <2>1, <2>2, MovesPast DEF SameMade
<1>3. UNCHANGED busy /\ Shrinks(t)
  BY <1>1, SameHandlers
<1>4. ASSUME UNCHANGED task PROVE [Life!LifeNext]_(Life!lifevars)
  BY <1>2, <1>3, <1>4, WorkStepIsLife DEF EndsOrKeeps
<1>5. ASSUME Stored(t, {t}) PROVE [Life!LifeNext]_(Life!lifevars)
  BY <1>2, <1>3, <1>5, WorkStepIsLife DEF Stored, Only
<1>6. CASE SubmitRejected(t)
  BY <1>5, <1>6, RejectedKeeps
<1>7. CASE StartTask(t)
  BY <1>2, <1>3, <1>4, <1>7, RunIsLife DEF StartTask
<1>8. CASE StartInline(t)
  BY <1>2, <1>3, <1>5, <1>8, RunIsLife, StartInlineKeeps
<1>9. CASE \E result, error \in BOOLEAN : Report(t, result, error)
  BY <1>5, <1>9, ReportKeeps
<1>10. CASE Unregister(t)
  BY <1>5, <1>10, UnregisterKeeps
<1>11. CASE RegisterInline(t) \/ \E m \in Message : Submit(t, m) \/ OperationSends(t, m)
  BY <1>4, <1>11 DEF RegisterInline, Submit, OperationSends
<1> QED BY <1>6, <1>7, <1>8, <1>9, <1>10, <1>11 DEF RequestStep

LEMMA CancelIsLife ==
  ASSUME WorkInv, WorkInv', NEW t \in Task, Cancel(t)
  PROVE  Life!LifeNext
<1>1. Cancels(t)
  BY CancelKeeps
<1>2. UNCHANGED <<made, busy>>
  BY SameHandlers DEF Cancel, agents, made
<1>3. \A u \in Task \ {t} : task'[u] = task[u]
  BY <1>1 DEF Cancels, Only
<1>4. status' = [status EXCEPT ![t] = task'[t].status] /\ status[t] = task[t].status
  BY <1>3, StatusChange, Seen
<1>5. CASE open_work(work', t) = {}
  <2>1. task'[t].status = "cancelled"
    BY <1>1, <1>5 DEF Cancels
  <2>2. t \notin busy'
    BY <2>1 DEF WorkInv, Handled, busy
  <2>3. Life!Cancel(t)
    BY <1>2, <1>4, <2>1, <2>2 DEF Life!Cancel, Cancel, admits
  <2> QED BY <2>3 DEF Life!LifeNext, Life!LifeStep
<1>6. CASE open_work(work', t) # {}
  <2>1. task'[t].status = "cancelling"
    BY <1>1, <1>6 DEF Cancels
  <2>2. PICK x \in Owned(t) : is_open(work[x])
    BY <1>1, <1>6 DEF Cancels, Only, open_work
  <2>3. op[t] \notin Early
    BY <2>2, InvOf DEF pristine, NoWork, is_open
  <2>4. task[t].status \notin Ended
    BY <2>2, InvOf DEF StoreInv, EndedIsClosed, open_work
  <2>5. status[t] \in {"pending", "running"} /\ made[t] = "past" /\ t \in Cancellable
    BY <1>4, <2>3, <2>4, Seen DEF Cancel, admits, Ended
  <2>6. Life!Cancel(t)
    BY <1>2, <1>4, <2>1, <2>5 DEF Life!Cancel
  <2> QED BY <2>6 DEF Life!LifeNext, Life!LifeStep
<1> QED BY <1>5, <1>6

LEMMA ExpireIsLife ==
  ASSUME WorkInv, NEW t \in Task, Expire(t)
  PROVE  Life!LifeNext
<1>1. UNCHANGED <<made, busy>>
  BY SameHandlers DEF Expire, agents, audit, made
<1>2. task'[t].status = "none" /\ \A u \in Task \ {t} : task'[u].status = task[u].status
  BY DEF Expire, NoTask, WorkInv, TaskTypeOK
<1>3. status' = [status EXCEPT ![t] = "none"] /\ status[t] \in Ended
  BY <1>2, StatusChange, Seen DEF Expire
<1>4. Life!Forget(t)
  BY <1>1, <1>3 DEF Life!Forget, Life!Ended, Ended
<1> QED BY <1>4 DEF Life!LifeNext, Life!LifeStep

-----------------------------------------------------------------------------
(* Steps of enqueues and deliveries *)

LEMMA SendIsLife ==
  ASSUME WorkInv, WorkInv', NEW m \in Message, SendStep(m)
  PROVE  [Life!LifeNext]_(Life!lifevars)
<1> DEFINE t == owner(m)
<1>0. t \in Task
  BY Messages
<1>1. send[m] # "idle"
  BY DEF SendStep, Commit, UndoSend, WriteRaises
<1>2. SameMade
  <2>1. UNCHANGED op \/ end_send(m, TRUE) \/ end_send(m, FALSE)
    BY DEF SendStep, Commit, UndoSend, WriteRaises
  <2> QED BY <1>1, <2>1, EndSend DEF SameMade, Early
<1>3. op[t] \notin Early
  BY <1>1 DEF WorkInv, TaskTypeOK, Enqueues, unused
<1>4. Shrinks(t)
  <2> SUFFICES ASSUME NEW n \in Message, handles(n)' # handles(n)
               PROVE  owner(n) = t /\ (handles(n)' => handles(n))
    BY DEF Shrinks
  <2>1. \A k \in Message \ {m} : queue'[k] = queue[k]
    <3>1. UNCHANGED queue \/ \E s \in {"pending", "gone"} : queue' = [queue EXCEPT ![m] = s]
      BY DEF SendStep, Commit, UndoSend, WriteRaises
    <3> QED BY <3>1 DEF WorkInv, TaskTypeOK
  <2>2. queue'[m] = "unsent" => queue[m] = "unsent"
    BY DEF SendStep, Commit, UndoSend, WriteRaises, WorkInv, TaskTypeOK
  <2>3. revoked' = revoked \/ revoked' = revoked \cup {m[1]}
    BY DEF SendStep, Commit, UndoSend, WriteRaises, audit
  <2>4. /\ run'[n] = run[n] \/ (run'[n] = "requeued" /\ n[1] = m[1])
    <3>1. CASE Commit(m)
      <4>1. end_send(m, TRUE)
        BY <3>1 DEF Commit
      <4>2. IF by[m] \in Message /\ by[m][1] = m[1]
            THEN run' = [run EXCEPT ![by[m]] = "requeued"] ELSE UNCHANGED run
        BY <4>1 DEF end_send
      <4> QED BY <4>2 DEF WorkInv, TaskTypeOK
    <3>2. CASE ~Commit(m)
      BY <3>2, UndoSendKeeps, WriteRaisesKeeps DEF SendStep
    <3> QED BY <3>1, <3>2
  <2>5. sole(n)' => sole(n)
    BY <2>1, <2>2, <2>3 DEF sole
  <2>6. n[1] # m[1] => (sole(n)' <=> sole(n))
    BY <2>1, <2>3 DEF sole
  <2>7. handles(n)' => handles(n)
    BY <2>4, <2>5 DEF handles
  <2>8. n[1] = m[1]
    BY <2>4, <2>6 DEF handles
  <2> QED BY <2>7, <2>8 DEF owner
<1>5. EndsOrKeeps(t) /\ \A u \in Task \ {t} : task'[u] = task[u]
  <2>1. CASE UndoSend(m)
    BY <2>1, UndoSendKeeps DEF Stored, Only
  <2>2. CASE ~UndoSend(m)
    BY <2>2 DEF SendStep, Commit, WriteRaises, EndsOrKeeps
  <2> QED BY <2>1, <2>2
<1> QED BY <1>0, <1>2, <1>3, <1>4, <1>5, WorkStepIsLife

LEMMA DeliversIsLife ==
  ASSUME WorkInv, WorkInv', NEW d \in Message, Delivers(d)
  PROVE  [Life!LifeNext]_(Life!lifevars)
<1> DEFINE t == owner(d)
<1>0. t \in Task
  BY Messages
<1>1. SameMade
  BY DEF SameMade, Delivers
<1>2. op[t] \notin Early
  BY DEF WorkInv, Enqueues, unused, Delivers
<1>3. \A n \in Message : sole(n)' = sole(n)
  BY DEF Delivers, sole
<1>4. Shrinks(t)
  BY <1>3 DEF Shrinks, handles, Delivers
<1>5. EndsOrKeeps(t) /\ \A u \in Task \ {t} : task'[u] = task[u]
  BY DEF Delivers, Stored, Only
<1> QED BY <1>0, <1>1, <1>2, <1>4, <1>5, WorkStepIsLife

LEMMA AdmitIsLife ==
  ASSUME WorkInv, NEW d \in Message, Admit(d)
  PROVE  Life!LifeNext
<1> DEFINE t == owner(d)
<1>0. t \in Task
  BY Messages
<1>1. /\ UNCHANGED <<queue, op, revoked>> /\ admits(t)
      /\ task' = [task EXCEPT ![t].status = "running"]
  BY DEF Admit, audit, startable
<1>2. op[t] \notin Early /\ SameMade
  BY <1>1 DEF Admit, WorkInv, TaskTypeOK, Enqueues, unused, SameMade
<1>3. \A n \in Message : sole(n)' = sole(n)
  BY <1>1 DEF sole
<1>4. \A n \in Message : n # d => handles(n)' = handles(n)
  BY <1>3 DEF handles, Admit, WorkInv, TaskTypeOK
<1>5. ~handles(d)
  BY DEF handles, Admit
<1>6. \A u \in Task \ {t} : u \in busy' <=> u \in busy
  BY <1>4 DEF busy, handles
<1>7. t \in busy => t \in busy'
  BY <1>4, <1>5 DEF busy, handles
<1>8. busy \subseteq Task /\ busy' \subseteq Task
  BY DEF busy
<1>9. busy' \in {busy, busy \cup {t}}
  <2>1. CASE t \in busy'
    BY <1>0, <1>6, <1>8, <2>1
  <2>2. CASE t \notin busy'
    BY <1>6, <1>7, <1>8, <2>2
  <2> QED BY <2>1, <2>2
<1> QED BY <1>0, <1>1, <1>2, <1>9, RunIsLife

-----------------------------------------------------------------------------
(* The process, and the theorem *)

LEMMA RestartIsLife ==
  ASSUME WorkInv, Restart
  PROVE  Life!LifeNext
<1>1. UNCHANGED status
  BY DEF Restart, status
<1>2. busy' = {}
  BY DEF Restart, busy
<1>3. made' = [t \in Task |-> IF made[t] = "inserted" THEN "cut" ELSE made[t]]
  <2>1. /\ op' = [t \in Task |-> IF op[t] \in {"idle", "cut"} THEN op[t]
                                 ELSE IF op[t] = "inserted" THEN "cut" ELSE "over"]
    BY DEF Restart
  <2> QED BY <2>1 DEF made, WorkInv, TaskTypeOK
<1> QED BY <1>1, <1>2, <1>3 DEF Life!LifeNext, Life!Renew

LEMMA UnchangedIsLife ==
  ASSUME UNCHANGED <<task, queue, op, run, revoked>>
  PROVE  UNCHANGED Life!lifevars
BY SameHandlers DEF Life!lifevars, status, made

LEMMA StepIsLife ==
  ASSUME WorkInv, WorkInv', [TaskNext]_taskvars
  PROVE  [Life!LifeNext]_(Life!lifevars)
<1>1. ASSUME NEW t \in Task, Create(t) \/ Confirm(t) \/ Withdraw(t, TRUE) \/ Withdraw(t, FALSE)
      PROVE  Life!LifeNext
  BY <1>1, CreationIsLife DEF Life!LifeNext
<1>2. ASSUME NEW t \in Task, Cancel(t) \/ Expire(t)
      PROVE  Life!LifeNext
  BY <1>2, CancelIsLife, ExpireIsLife
<1>3. ASSUME NEW t \in Task, RequestStep(t)
      PROVE  [Life!LifeNext]_(Life!lifevars)
  BY <1>3, RequestIsLife
<1>4. ASSUME NEW m \in Message, SendStep(m)
      PROVE  [Life!LifeNext]_(Life!lifevars)
  BY <1>4, SendIsLife
<1>5. ASSUME NEW d \in Message, DeliveryStep(d) \/ HandlerEnds(d) \/ HandlerReports(d, TRUE) \/ HandlerReports(d, FALSE)
      PROVE  [Life!LifeNext]_(Life!lifevars)
  <2>1. Admit(d) \/ Delivers(d)
    BY <1>5, FetchKeeps, RefuseKeeps, SettleKeeps, PersistKeeps, DropKeeps, AckKeeps,
       ReturnKeeps, RaiseKeeps, InterruptedKeeps, HandlerReportsKeeps DEF DeliveryStep, HandlerEnds
  <2> QED BY <2>1, AdmitIsLife, DeliversIsLife
<1>6. ASSUME NEW d \in Message, NEW m \in Message, HandlerSends(d, m) \/ Replace(d, m)
      PROVE  UNCHANGED Life!lifevars
  BY <1>6, UnchangedIsLife DEF HandlerSends, Replace, audit
<1>7. CASE Stop \/ UNCHANGED taskvars
  BY <1>7, UnchangedIsLife DEF Stop, taskvars, agents, audit
<1>8. CASE Restart
  BY <1>8, RestartIsLife
<1> QED BY <1>1, <1>2, <1>3, <1>4, <1>5, <1>6, <1>7, <1>8 DEF TaskNext, HandlerStep

LEMMA InitIsLife == TaskInit => Life!LifeInit
BY DEF TaskInit, Life!LifeInit, status, made, busy, NoTask

\* TaskTracker, its store and the queue middleware implement TaskLife: every step is one
\* of the abstract ones or changes nothing of what is seen of a task.  A task runs only
\* after its creation was accepted, ends only when no handler works for it, and stays
\* ended, but that some tasks may still be cancelled.
THEOREM TaskLifeIsImplemented == TaskSpec => ImplementsTaskLife
<1>1. WorkInv /\ WorkInv' /\ [TaskNext]_taskvars => [Life!LifeNext]_(Life!lifevars)
  BY StepIsLife
<1> QED BY <1>1, InitIsLife, WorkInvariant, PTL DEF TaskSpec, ImplementsTaskLife, Life!LifeSpec
=============================================================================
