---------------------------- MODULE TaskDeletion ----------------------------
(***************************************************************************)
(* Deletion of an account or a user (openviking/service/deletion.py) beside *)
(* the tasks of that identity (TaskLife).  A fence in the account store     *)
(* revokes the identity and names the task that owns the cleanup; a durable *)
(* message of the single cleanup consumer carries it out.  Creations of     *)
(* tasks look at the fence before and after they insert their record.       *)
(*                                                                         *)
(* All tasks belong to the one identity and do what TaskLife allows.        *)
(* Cleanup tasks belong to the system: of their own delivery only what the  *)
(* cleanup can observe is kept.  The data that is erased, from vectors to   *)
(* files, is one step that may fail.  delete_now, which runs the cleanup in *)
(* its caller, is left out.                                                 *)
(***************************************************************************)
EXTENDS Naturals, TaskLife

CONSTANTS
  MaxDeletions,     \* bound on the cleanup tasks ever drawn
  MaxRestarts       \* bound on the restarts of the service

ASSUME DeletionAssumption ==
  MaxDeletions \in Nat /\ MaxRestarts \in Nat /\ Cancellable \subseteq Task

VARIABLES
  registered,  \* require_registered_identity: whether the auth mode is api_key
  identity,    \* "present" in the account store or "gone"
  fence,       \* the cleanup task its deletion record names, 0 without one
  drawn,       \* cleanup tasks drawn so far
  dtask,       \* cleanup task -> status; "erred" is running with an error stored
  dmsg,        \* cleanup task -> its message
  submit,      \* where the request that holds _request_lock is, and its task
  clean,       \* where the cleanup consumer is, its task, and tasks to cancel, await, drop
  stopping,    \* the workers drain and fetch nothing
  restarts,
  checked      \* creations that looked at the guard and have not inserted yet

fencevars == <<identity, fence, drawn>>
process == <<stopping, restarts, registered>>
delvars == <<fencevars, dtask, dmsg, submit, clean, checked, process>>
vars == <<lifevars, delvars>>

Deletion == 1 .. MaxDeletions
Closed == {"completed", "failed"}
Idle == [at |-> "idle", d |-> 0, list |-> {}]
NoSubmit == [at |-> "idle", d |-> 0]
queued(d) == dmsg[d] \in {"pending", "claimed"}

DelInit ==
  /\ LifeInit /\ stopping = FALSE /\ restarts = 0 /\ registered \in BOOLEAN
  /\ identity = "present" /\ fence = 0 /\ drawn = 0
  /\ dtask = [d \in Deletion |-> "none"] /\ dmsg = [d \in Deletion |-> "none"]
  /\ submit = NoSubmit /\ clean = Idle /\ checked = {}

-----------------------------------------------------------------------------
(* Creation of tasks under the guard *)

\* Mutant: an identity that is gone is not being deleted.
is_creation_blocked_fence == fence # 0

\* The guard that initialize installs: the fence and, if identities have to be registered,
\* also a missing one.
is_creation_blocked == fence # 0 \/ (registered /\ identity = "gone")

CheckGuard(t) ==
  /\ made[t] = "no" /\ t \notin checked /\ ~stopping /\ ~is_creation_blocked
  /\ checked' = checked \cup {t}
  /\ UNCHANGED <<lifevars, fencevars, dtask, dmsg, submit, clean, process>>

CreateGuarded(t) ==
  /\ t \in checked /\ Insert(t)
  /\ checked' = checked \ {t}
  /\ UNCHANGED <<fencevars, dtask, dmsg, submit, clean, process>>

ConfirmGuarded(t) ==
  /\ IF is_creation_blocked THEN Retract(t) ELSE Accept(t)
  /\ UNCHANGED delvars

-----------------------------------------------------------------------------
(* The request (_submit), which holds _request_lock and is not cancelled *)

draw_fence ==
  /\ drawn < MaxDeletions
  /\ drawn' = drawn + 1 /\ fence' = drawn + 1
  /\ submit' = [at |-> "fenced", d |-> drawn + 1]

\* begin_deletion: a new fence, or the one there is.
BeginDeletion ==
  /\ submit.at = "idle" /\ identity = "present" /\ ~stopping
  /\ \/ fence = 0 /\ draw_fence
     \/ fence # 0 /\ submit' = [at |-> "found", d |-> fence] /\ UNCHANGED <<fence, drawn>>
  /\ UNCHANGED <<lifevars, identity, dtask, dmsg, clean, checked, process>>

\* Mutant: the fence of a cleanup that is under way is replaced.
LookUpDeletionAlways ==
  /\ submit.at = "found"
  /\ submit' = [submit EXCEPT !.at = "replace"]
  /\ UNCHANGED <<lifevars, fencevars, dtask, dmsg, clean, checked, process>>

\* The task of that fence is looked up, and then replaced if it has ended.
LookUpDeletion ==
  /\ submit.at = "found"
  /\ submit' = [submit EXCEPT !.at = IF dtask[submit.d] \in Closed THEN "replace" ELSE "fenced"]
  /\ UNCHANGED <<lifevars, fencevars, dtask, dmsg, clean, checked, process>>

\* replace_deletion_task: only if the fence still names the task that was found.
ReplaceDeletion ==
  /\ submit.at = "replace"
  /\ IF identity = "present" /\ fence = submit.d THEN draw_fence
     ELSE /\ submit' = IF identity = "present" /\ fence # 0
                       THEN [at |-> "fenced", d |-> fence] ELSE NoSubmit
          /\ UNCHANGED <<fence, drawn>>
  /\ UNCHANGED <<lifevars, identity, dtask, dmsg, clean, checked, process>>

CreateDeletion ==
  /\ submit.at = "fenced"
  /\ dtask' = [dtask EXCEPT ![submit.d] = IF @ = "none" THEN "pending" ELSE @]
  /\ submit' = [submit EXCEPT !.at = "created"]
  /\ UNCHANGED <<lifevars, fencevars, dmsg, clean, checked, process>>

\* _enqueue_if_missing; a failing enqueue fails the task, an ended task takes no work.
EnqueueDeletion(ok) ==
  /\ submit.at = "created"
  /\ LET d == submit.d
         wanted == ~queued(d) /\ dtask[d] \notin Closed
     IN /\ dmsg' = IF wanted /\ ok THEN [dmsg EXCEPT ![d] = "pending"] ELSE dmsg
        /\ dtask' = IF wanted /\ ~ok THEN [dtask EXCEPT ![d] = "failed"] ELSE dtask
  /\ submit' = NoSubmit
  /\ UNCHANGED <<lifevars, fencevars, clean, checked, process>>

\* An identity of the same name is registered again.
RegisterAgain ==
  /\ identity = "gone" /\ identity' = "present"
  /\ UNCHANGED <<lifevars, fence, drawn, dtask, dmsg, submit, clean, checked, process>>

-----------------------------------------------------------------------------
(* The cleanup (_process) *)

goto(at) == clean' = [clean EXCEPT !.at = at]
idle_data == UNCHANGED <<fencevars, submit, checked, process>>

\* Mutant: the delivery of an ended task is handled.
TakeCleanupAlways(d) ==
  /\ clean.at = "idle" /\ ~stopping /\ dmsg[d] = "pending"
  /\ dmsg' = [dmsg EXCEPT ![d] = "claimed"]
  /\ clean' = [at |-> "look", d |-> d, list |-> {}]
  /\ UNCHANGED <<lifevars, dtask>> /\ idle_data

\* The consumer takes a message; the delivery of an ended task has no handler.
TakeCleanup(d) ==
  /\ clean.at = "idle" /\ ~stopping /\ dmsg[d] = "pending"
  /\ dmsg' = [dmsg EXCEPT ![d] = "claimed"]
  /\ clean' = [at |-> IF dtask[d] \in Closed \cup {"none"} THEN "done" ELSE "look",
               d |-> d, list |-> {}]
  /\ UNCHANGED <<lifevars, dtask>> /\ idle_data

\* A cleanup that does not own the fence is stale and completes at once.
LookAtFence ==
  /\ clean.at = "look"
  /\ IF fence = clean.d
     THEN goto("list") /\ dtask' = [dtask EXCEPT ![clean.d] = IF @ = "pending" THEN "running" ELSE @]
     ELSE goto("succeed") /\ UNCHANGED dtask
  /\ UNCHANGED <<lifevars, dmsg>> /\ idle_data

listed == {t \in Task : status[t] \in Active}

ListTasks ==
  /\ clean.at = "list"
  /\ clean' = [clean EXCEPT !.at = "cancel", !.list = listed]
  /\ UNCHANGED <<lifevars, dtask, dmsg>> /\ idle_data

\* Each listed task is asked to stop, if its type can be ...
CancelListed(t) ==
  /\ clean.at = "cancel" /\ t \in clean.list
  /\ status[t] \in {"pending", "running"} /\ Cancel(t)
  /\ UNCHANGED <<dtask, dmsg, clean>> /\ idle_data

asked_all == \A t \in clean.list \cap Cancellable : status[t] \notin {"pending", "running"}

\* ... and awaited.
AwaitTasks ==
  /\ clean.at = "cancel" /\ asked_all /\ \A t \in clean.list : status[t] \notin Active
  /\ clean' = [clean EXCEPT !.at = "purge", !.list = {}]
  /\ UNCHANGED <<lifevars, dtask, dmsg>> /\ idle_data

\* delete_tasks: all records or, if one of them is active, an error ...
PurgeTasks ==
  /\ clean.at = "purge"
  /\ IF \E t \in Task : status[t] \in Active THEN goto("fail")
     ELSE clean' = [clean EXCEPT !.at = "drop", !.list = {t \in Task : status[t] # "none"}]
  /\ UNCHANGED <<lifevars, dtask, dmsg>> /\ idle_data

\* ... each under its own lock, where it is looked at again.
DropTask(t) ==
  /\ clean.at = "drop" /\ t \in clean.list
  /\ IF status[t] \in Active THEN goto("fail") /\ UNCHANGED lifevars
     ELSE /\ status' = [status EXCEPT ![t] = "none"] /\ UNCHANGED <<made, busy>>
          /\ clean' = [clean EXCEPT !.list = @ \ {t}]
  /\ UNCHANGED <<dtask, dmsg>> /\ idle_data

StartErasing ==
  /\ clean.at = "drop" /\ clean.list = {}
  /\ goto("erase")
  /\ UNCHANGED <<lifevars, dtask, dmsg>> /\ idle_data

owns_fence == identity = "present" /\ fence = clean.d

\* finish_deletion removes the identity and its fence, if this task still owns it.
FinishDeletion ==
  /\ clean.at = "erase"
  /\ IF owns_fence THEN identity' = "gone" /\ fence' = 0 /\ goto("succeed")
     ELSE goto("fail") /\ UNCHANGED <<identity, fence>>
  /\ UNCHANGED <<lifevars, drawn, dtask, dmsg, submit, checked, process>>

\* A step raised, or the tasks did not end in time.
CleanupRaises ==
  /\ clean.at \in {"cancel", "purge", "drop", "erase"}
  /\ goto("fail")
  /\ UNCHANGED <<lifevars, dtask, dmsg>> /\ idle_data

\* tracker.fail stores the error; an error that is stored stays.
FailCleanup ==
  /\ clean.at = "fail"
  /\ dtask' = [dtask EXCEPT ![clean.d] = "erred"]
  /\ goto("succeed")
  /\ UNCHANGED <<lifevars, dmsg>> /\ idle_data

\* tracker.complete, and the middleware closes the work: the task ends.
CloseCleanup ==
  /\ clean.at = "succeed"
  /\ dtask' = [dtask EXCEPT ![clean.d] = IF @ = "erred" THEN "failed" ELSE "completed"]
  /\ goto("done")
  /\ UNCHANGED <<lifevars, dmsg>> /\ idle_data

AckCleanup(ok) ==
  /\ clean.at = "done"
  /\ dmsg' = IF ok THEN [dmsg EXCEPT ![clean.d] = "gone"] ELSE dmsg
  /\ clean' = Idle
  /\ UNCHANGED <<lifevars, dtask>> /\ idle_data

\* The drain cancels the cleanup between two of its steps; its message stays.
InterruptCleanup ==
  /\ stopping /\ clean.at # "idle"
  /\ clean' = Idle
  /\ UNCHANGED <<lifevars, dtask, dmsg>> /\ idle_data

-----------------------------------------------------------------------------
\* Mutant: the fences are not looked at when the service starts.
initialize_not == UNCHANGED dtask /\ dmsg' = [d \in Deletion |-> IF queued(d) THEN "pending" ELSE dmsg[d]]

\* initialize gives a fence its task and the task its message.
initialize ==
  /\ dtask' = [d \in Deletion |-> IF d = fence /\ dtask[d] = "none" THEN "pending" ELSE dtask[d]]
  /\ dmsg' = [d \in Deletion |->
                IF queued(d) \/ (d = fence /\ dtask[d] \notin Closed) THEN "pending" ELSE dmsg[d]]

StopDeletion ==
  /\ ~stopping /\ stopping' = TRUE
  /\ UNCHANGED <<lifevars, fencevars, dtask, dmsg, submit, clean, checked, restarts, registered>>

\* The process ends, crashed or stopped, and the next one starts.
RestartDeletion ==
  /\ restarts < MaxRestarts /\ restarts' = restarts + 1 /\ stopping' = FALSE
  /\ Renew /\ initialize
  /\ submit' = NoSubmit /\ clean' = Idle /\ checked' = {}
  /\ UNCHANGED <<identity, fence, drawn, registered>>

SubmitStep ==
  \/ LookUpDeletion \/ ReplaceDeletion \/ CreateDeletion
  \/ EnqueueDeletion(TRUE) \/ EnqueueDeletion(FALSE)

CleanStep ==
  \/ \E d \in Deletion : TakeCleanup(d)
  \/ LookAtFence \/ ListTasks \/ AwaitTasks \/ PurgeTasks \/ StartErasing \/ FinishDeletion
  \/ \E t \in Task : CancelListed(t) \/ DropTask(t)
  \/ CleanupRaises \/ FailCleanup \/ CloseCleanup \/ AckCleanup(TRUE) \/ AckCleanup(FALSE)
  \/ InterruptCleanup

TaskSteps == (\E t \in Task : Retract(t) \/ LifeStep(t)) /\ UNCHANGED delvars

DelNext ==
  \/ \E t \in Task : CheckGuard(t) \/ CreateGuarded(t) \/ ConfirmGuarded(t)
  \/ BeginDeletion \/ SubmitStep \/ RegisterAgain \/ CleanStep
  \/ StopDeletion \/ RestartDeletion \/ TaskSteps

DelSpec == DelInit /\ [][DelNext]_vars

\* A request that has begun and the consumer go on; a wait for tasks that do not end
\* runs into its deadline.
DelFairness == WF_vars(SubmitStep) /\ WF_vars(CleanStep)

FairDelSpec == DelSpec /\ DelFairness

-----------------------------------------------------------------------------
(* Properties *)

\* The variables have their types; a cleanup that works is claimed and not ended.
DelTypeOK ==
  /\ status \in [Task -> {"none"} \cup Active \cup Ended]
  /\ made \in [Task -> {"no", "inserted", "past", "cut"}] /\ busy \subseteq Task
  /\ stopping \in BOOLEAN /\ registered \in BOOLEAN /\ restarts \in 0 .. MaxRestarts
  /\ identity \in {"present", "gone"} /\ drawn \in 0 .. MaxDeletions /\ fence \in 0 .. drawn
  /\ dtask \in [Deletion -> {"none", "pending", "running", "erred"} \cup Closed]
  /\ dmsg \in [Deletion -> {"none", "pending", "claimed", "gone"}]
  /\ submit \in [at : {"idle", "found", "replace", "fenced", "created"}, d : 0 .. drawn]
  /\ clean \in [at : {"idle", "look", "list", "cancel", "purge", "drop", "erase", "fail",
                      "succeed", "done"}, d : 0 .. drawn, list : SUBSET Task]
  /\ checked \subseteq Task
  /\ clean.at \notin {"idle", "done"} =>
       dmsg[clean.d] = "claimed" /\ dtask[clean.d] \in {"pending", "running", "erred"}

\* "Wait for its owner to finish instead of deleting the data underneath it": while
\* data is erased the cleanup owns the fence and no handler runs for the identity.
QuietErasure ==
  clean.at = "erase" => identity = "present" /\ fence = clean.d /\ busy = {}

\* "A Task inserted concurrently with a deletion is either listed by cleanup or
\* withdrawn/cancelled here" (TaskTracker.set_deletion_guard): while data is erased no
\* task is active but for one whose creation has not returned.  Where identities have to
\* be registered this goes on when the identity is gone, and a creation may be cut off.
NothingLeft ==
  /\ clean.at = "erase" => \A t \in Task : status[t] \in Active => made[t] = "inserted"
  /\ registered /\ identity = "gone" =>
       \A t \in Task : status[t] \in Active => made[t] \in {"inserted", "cut"}

\* A fence leads to the end of the deletion or to a failed cleanup task, which a new
\* request replaces, unless a restart is needed to go on.
DeletionEnds ==
  fence # 0 ~>
    (\/ fence = 0 \/ dtask[fence] = "failed" \/ stopping
     \/ clean.d # fence /\ dmsg[fence] = "claimed")
=============================================================================
