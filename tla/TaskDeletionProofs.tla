------------------------- MODULE TaskDeletionProofs -------------------------
(***************************************************************************)
(* What the deletion of an identity guarantees, for any number of tasks,    *)
(* deletions and restarts.  QuietErasure and NothingLeft are not inductive: *)
(* they hold because the fence names the cleanup from its first look to the *)
(* end of the erasure, because a fence is replaced only when its cleanup    *)
(* has ended, and because once the records were purged a task can only be   *)
(* one whose creation will see the fence or, when identities have to be     *)
(* registered, that there is none any more.                                 *)
(***************************************************************************)
EXTENDS TaskDeletion, TLAPS

\* Tasks and messages are those of drawn numbers, and so are the ones worked on.
Numbered ==
  /\ \A d \in Deletion : d > drawn => dtask[d] = "none" /\ dmsg[d] = "none"
  /\ submit.at # "idle" => submit.d > 0
  /\ clean.at # "idle" => clean.d > 0

Cleaning == {"list", "cancel", "purge", "drop", "erase"}

\* A fence is on a present identity, names the cleanup that works, and is replaced
\* only when its task has ended.
Fenced ==
  /\ fence # 0 => identity = "present"
  /\ submit.at = "replace" => dtask[submit.d] \in Closed
  /\ clean.at \in Cleaning => fence = clean.d

\* A handler runs only for a task that was accepted and has not ended, and a task
\* that is still being created has not begun.
BusyIsActive ==
  /\ \A t \in busy : status[t] \in {"running", "cancelling"} /\ made[t] = "past"
  /\ \A t \in Task : made[t] = "inserted" => status[t] \notin {"running", "cancelling"}

\* After the purge the only active tasks are being created.
Drained ==
  clean.at \in {"drop", "erase"} =>
    \A t \in Task : status[t] \in Active => made[t] = "inserted"

\* Where identities have to be registered, one that is gone has no active task but for
\* one whose creation has not returned or was cut off.
Vacated ==
  registered /\ identity = "gone" =>
    \A t \in Task : status[t] \in Active => made[t] \in {"inserted", "cut"}

DelInv ==
  DelTypeOK /\ Numbered /\ Fenced /\ BusyIsActive /\ Drained /\ Vacated

-----------------------------------------------------------------------------
\* Nothing is deleted at first.
LEMMA InitHolds == DelInit => DelInv
<1> SUFFICES ASSUME DelInit PROVE DelInv
  OBVIOUS
<1>1. DelTypeOK
  <2>1. /\ status \in [Task -> {"none"} \cup Active \cup Ended]
        /\ made \in [Task -> {"no", "inserted", "past", "cut"}]
    BY DEF DelInit, LifeInit
  <2>2. /\ dtask \in [Deletion -> {"none", "pending", "running", "erred"} \cup Closed]
        /\ dmsg \in [Deletion -> {"none", "pending", "claimed", "gone"}]
    BY DEF DelInit
  <2>0. stopping \in BOOLEAN /\ registered \in BOOLEAN
    BY Zenon DEF DelInit
  <2>3. /\ restarts \in 0 .. MaxRestarts
        /\ identity \in {"present", "gone"} /\ drawn \in 0 .. MaxDeletions /\ fence \in 0 .. drawn
    <3>1. restarts = 0 /\ identity = "present" /\ drawn = 0 /\ fence = 0
      BY DEF DelInit
    <3> QED BY <3>1, DeletionAssumption
  <2>4. /\ submit = [at |-> "idle", d |-> 0] /\ clean = [at |-> "idle", d |-> 0, list |-> {}]
        /\ busy = {} /\ checked = {}
    BY DEF DelInit, LifeInit, NoSubmit, Idle
  <2> QED BY <2>0, <2>1, <2>2, <2>3, <2>4 DEF DelTypeOK
<1>2. Numbered
  BY DEF DelInit, NoSubmit, Idle, Numbered, Deletion
<1>3. Fenced /\ Drained
  BY DEF DelInit, NoSubmit, Idle, Fenced, Drained, Cleaning
<1>4. BusyIsActive /\ Vacated
  BY DEF DelInit, LifeInit, BusyIsActive, Vacated, Active
<1> QED BY <1>1, <1>2, <1>3, <1>4 DEF DelInv

\* Requests: a fence is drawn only where there is none, or for a cleanup that has ended.
LEMMA SubmitKeeps ==
  ASSUME DelInv, BeginDeletion \/ SubmitStep \/ RegisterAgain
  PROVE  DelInv'
<1>1. CASE BeginDeletion
  <2>1. DelTypeOK'
    BY <1>1, DeletionAssumption DEF BeginDeletion, draw_fence, lifevars, fencevars, process,
       DelInv, DelTypeOK, Numbered, Active, Ended, Closed, Deletion
  <2>2. Numbered' /\ Fenced'
    BY <1>1, DeletionAssumption DEF BeginDeletion, draw_fence, lifevars, fencevars, process,
       DelInv, DelTypeOK, Numbered, Fenced, Cleaning, Closed, Deletion
  <2>3. BusyIsActive' /\ Drained' /\ Vacated'
    BY <1>1 DEF BeginDeletion, draw_fence, lifevars, fencevars, process,
       DelInv, DelTypeOK, Fenced, Cleaning, BusyIsActive, Drained, Vacated, Active, Ended
  <2> QED BY <2>1, <2>2, <2>3 DEF DelInv
<1>2. CASE LookUpDeletion
  <2>1. DelTypeOK'
    BY <1>2, DeletionAssumption DEF LookUpDeletion, lifevars, fencevars, process,
       DelInv, DelTypeOK, Numbered, Active, Ended, Closed, Deletion
  <2>2. Numbered' /\ Fenced'
    BY <1>2, DeletionAssumption DEF LookUpDeletion, lifevars, fencevars, process,
       DelInv, DelTypeOK, Numbered, Fenced, Cleaning, Closed, Deletion
  <2>3. BusyIsActive' /\ Drained' /\ Vacated'
    BY <1>2 DEF LookUpDeletion, lifevars, fencevars, process,
       DelInv, DelTypeOK, Fenced, Cleaning, BusyIsActive, Drained, Vacated, Active, Ended
  <2> QED BY <2>1, <2>2, <2>3 DEF DelInv
<1>3. CASE ReplaceDeletion
  <2>1. DelTypeOK'
    BY <1>3, DeletionAssumption DEF ReplaceDeletion, draw_fence, NoSubmit, lifevars, fencevars, process,
       DelInv, DelTypeOK, Numbered, Active, Ended, Closed, Deletion
  <2>2. Numbered' /\ Fenced'
    BY <1>3, DeletionAssumption DEF ReplaceDeletion, draw_fence, NoSubmit, lifevars, fencevars, process,
       DelInv, DelTypeOK, Numbered, Fenced, Cleaning, Closed, Deletion
  <2>3. BusyIsActive' /\ Drained' /\ Vacated'
    BY <1>3 DEF ReplaceDeletion, draw_fence, NoSubmit, lifevars, fencevars, process,
       DelInv, DelTypeOK, Fenced, Cleaning, BusyIsActive, Drained, Vacated, Active, Ended
  <2> QED BY <2>1, <2>2, <2>3 DEF DelInv
<1>4. CASE CreateDeletion
  <2>1. DelTypeOK'
    BY <1>4, DeletionAssumption DEF CreateDeletion, lifevars, fencevars, process,
       DelInv, DelTypeOK, Numbered, Active, Ended, Closed, Deletion
  <2>2. Numbered' /\ Fenced'
    BY <1>4, DeletionAssumption DEF CreateDeletion, lifevars, fencevars, process,
       DelInv, DelTypeOK, Numbered, Fenced, Cleaning, Closed, Deletion
  <2>3. BusyIsActive' /\ Drained' /\ Vacated'
    BY <1>4 DEF CreateDeletion, lifevars, fencevars, process,
       DelInv, DelTypeOK, Fenced, Cleaning, BusyIsActive, Drained, Vacated, Active, Ended
  <2> QED BY <2>1, <2>2, <2>3 DEF DelInv
<1>5. CASE EnqueueDeletion(TRUE)
  <2>1. DelTypeOK'
    BY <1>5, DeletionAssumption DEF EnqueueDeletion, NoSubmit, queued, lifevars, fencevars, process,
       DelInv, DelTypeOK, Numbered, Active, Ended, Closed, Deletion
  <2>2. Numbered' /\ Fenced'
    BY <1>5, DeletionAssumption DEF EnqueueDeletion, NoSubmit, queued, lifevars, fencevars, process,
       DelInv, DelTypeOK, Numbered, Fenced, Cleaning, Closed, Deletion
  <2>3. BusyIsActive' /\ Drained' /\ Vacated'
    BY <1>5 DEF EnqueueDeletion, NoSubmit, queued, lifevars, fencevars, process,
       DelInv, DelTypeOK, Fenced, Cleaning, BusyIsActive, Drained, Vacated, Active, Ended
  <2> QED BY <2>1, <2>2, <2>3 DEF DelInv
<1>6. CASE EnqueueDeletion(FALSE)
  <2>1. DelTypeOK'
    BY <1>6, DeletionAssumption DEF EnqueueDeletion, NoSubmit, queued, lifevars, fencevars, process,
       DelInv, DelTypeOK, Numbered, Active, Ended, Closed, Deletion
  <2>2. Numbered' /\ Fenced'
    BY <1>6, DeletionAssumption DEF EnqueueDeletion, NoSubmit, queued, lifevars, fencevars, process,
       DelInv, DelTypeOK, Numbered, Fenced, Cleaning, Closed, Deletion
  <2>3. BusyIsActive' /\ Drained' /\ Vacated'
    BY <1>6 DEF EnqueueDeletion, NoSubmit, queued, lifevars, fencevars, process,
       DelInv, DelTypeOK, Fenced, Cleaning, BusyIsActive, Drained, Vacated, Active, Ended
  <2> QED BY <2>1, <2>2, <2>3 DEF DelInv
<1>7. CASE RegisterAgain
  <2>1. DelTypeOK'
    BY <1>7, DeletionAssumption DEF RegisterAgain, lifevars, fencevars, process,
       DelInv, DelTypeOK, Numbered, Active, Ended, Closed, Deletion
  <2>2. Numbered' /\ Fenced'
    BY <1>7, DeletionAssumption DEF RegisterAgain, lifevars, fencevars, process,
       DelInv, DelTypeOK, Numbered, Fenced, Cleaning, Closed, Deletion
  <2>3. BusyIsActive' /\ Drained' /\ Vacated'
    BY <1>7 DEF RegisterAgain, lifevars, fencevars, process,
       DelInv, DelTypeOK, Fenced, Cleaning, BusyIsActive, Drained, Vacated, Active, Ended
  <2> QED BY <2>1, <2>2, <2>3 DEF DelInv
<1> QED BY <1>1, <1>2, <1>3, <1>4, <1>5, <1>6, <1>7 DEF SubmitStep

\* The cleanup: it looks at the fence first and goes on only while it owns it.
LEMMA CleanKeeps ==
  ASSUME DelInv, CleanStep
  PROVE  DelInv'
<1>1. CASE \E d \in Deletion : TakeCleanup(d)
  <2> PICK d \in Deletion : TakeCleanup(d)
    BY <1>1
  <2>0. TakeCleanup(d)
    OBVIOUS
  <2>1. DelTypeOK'
    BY <2>0, DeletionAssumption DEF TakeCleanup, idle_data, lifevars, fencevars, process,
       DelInv, DelTypeOK, Numbered, Active, Ended, Closed, Deletion
  <2>2. Numbered' /\ Fenced'
    BY <2>0, DeletionAssumption DEF TakeCleanup, idle_data, lifevars, fencevars, process,
       DelInv, DelTypeOK, Numbered, Fenced, Cleaning, Closed, Deletion
  <2>3. BusyIsActive' /\ Drained' /\ Vacated'
    BY <2>0 DEF TakeCleanup, idle_data, lifevars, fencevars, process,
       DelInv, DelTypeOK, Fenced, Cleaning, BusyIsActive, Drained, Vacated, Active, Ended
  <2> QED BY <2>1, <2>2, <2>3 DEF DelInv
<1>2. CASE LookAtFence
  <2>1. DelTypeOK'
    <3>0. /\ UNCHANGED <<lifevars, fencevars, dmsg, submit, checked, process>>
          /\ clean.at = "look" /\ clean.d \in Deletion /\ clean.d # 0
      BY <1>2, DeletionAssumption DEF LookAtFence, idle_data, DelInv, DelTypeOK, Numbered, Deletion
    <3>1. \E at \in {"list", "succeed"} : clean' = [clean EXCEPT !.at = at]
      BY <1>2 DEF LookAtFence, goto
    <3>2. \/ dtask' = dtask
          \/ dtask' = [dtask EXCEPT ![clean.d] = IF @ = "pending" THEN "running" ELSE @]
      BY <1>2 DEF LookAtFence
    <3>3. /\ dtask' \in [Deletion -> {"none", "pending", "running", "erred"} \cup Closed]
          /\ dtask'[clean.d] \in {"pending", "running", "erred"}
      BY <3>0, <3>2 DEF DelInv, DelTypeOK
    <3>4. /\ clean' \in [at : {"idle", "look", "list", "cancel", "purge", "drop", "erase", "fail",
                              "succeed", "done"}, d : 0 .. drawn, list : SUBSET Task]
          /\ clean'.d = clean.d
      BY <3>1 DEF DelInv, DelTypeOK
    <3> QED BY <3>0, <3>3, <3>4 DEF DelInv, DelTypeOK, lifevars, fencevars, process
  <2>2. Numbered'
    BY <1>2, DeletionAssumption DEF LookAtFence, goto, idle_data, lifevars, fencevars, process,
       DelInv, DelTypeOK, Numbered, Deletion
  <2>3. Fenced'
    BY <1>2, DeletionAssumption DEF LookAtFence, goto, idle_data, lifevars, fencevars, process,
       DelInv, DelTypeOK, Fenced, Cleaning, Closed, Numbered, Deletion
  <2>4. BusyIsActive'
    BY <1>2 DEF LookAtFence, goto, idle_data, lifevars, fencevars, process,
       DelInv, DelTypeOK, BusyIsActive, Active, Ended
  <2>5. Drained'
    BY <1>2 DEF LookAtFence, goto, idle_data, lifevars, fencevars, process,
       DelInv, DelTypeOK, Drained, Fenced, Cleaning, Numbered, BusyIsActive, Active, Ended
  <2>6. Vacated'
    BY <1>2 DEF LookAtFence, goto, idle_data, lifevars, fencevars, process,
       DelInv, DelTypeOK, Vacated, Drained, Fenced, BusyIsActive, Numbered, Active, Ended
  <2> QED BY <2>1, <2>2, <2>3, <2>4, <2>5, <2>6 DEF DelInv
<1>3. CASE ListTasks
  <2>1. DelTypeOK'
    BY <1>3, DeletionAssumption DEF ListTasks, listed, idle_data, lifevars, fencevars, process,
       DelInv, DelTypeOK, Numbered, Active, Ended, Closed, Deletion
  <2>2. Numbered'
    BY <1>3, DeletionAssumption DEF ListTasks, listed, idle_data, lifevars, fencevars, process,
       DelInv, DelTypeOK, Numbered, Deletion
  <2>3. Fenced'
    BY <1>3, DeletionAssumption DEF ListTasks, listed, idle_data, lifevars, fencevars, process,
       DelInv, DelTypeOK, Fenced, Cleaning, Closed, Numbered, Deletion
  <2>4. BusyIsActive'
    BY <1>3 DEF ListTasks, listed, idle_data, lifevars, fencevars, process,
       DelInv, DelTypeOK, BusyIsActive, Active, Ended
  <2>5. Drained'
    BY <1>3 DEF ListTasks, listed, idle_data, lifevars, fencevars, process,
       DelInv, DelTypeOK, Drained, Fenced, Cleaning, Numbered, BusyIsActive, Active, Ended
  <2>6. Vacated'
    BY <1>3 DEF ListTasks, listed, idle_data, lifevars, fencevars, process,
       DelInv, DelTypeOK, Vacated, Drained, Fenced, BusyIsActive, Numbered, Active, Ended
  <2> QED BY <2>1, <2>2, <2>3, <2>4, <2>5, <2>6 DEF DelInv
<1>4. CASE AwaitTasks
  <2>1. DelTypeOK'
    BY <1>4, DeletionAssumption DEF AwaitTasks, idle_data, lifevars, fencevars, process,
       DelInv, DelTypeOK, Numbered, Active, Ended, Closed, Deletion
  <2>2. Numbered'
    BY <1>4, DeletionAssumption DEF AwaitTasks, idle_data, lifevars, fencevars, process,
       DelInv, DelTypeOK, Numbered, Deletion
  <2>3. Fenced'
    BY <1>4, DeletionAssumption DEF AwaitTasks, idle_data, lifevars, fencevars, process,
       DelInv, DelTypeOK, Fenced, Cleaning, Closed, Numbered, Deletion
  <2>4. BusyIsActive'
    BY <1>4 DEF AwaitTasks, idle_data, lifevars, fencevars, process,
       DelInv, DelTypeOK, BusyIsActive, Active, Ended
  <2>5. Drained'
    BY <1>4 DEF AwaitTasks, idle_data, lifevars, fencevars, process,
       DelInv, DelTypeOK, Drained, Fenced, Cleaning, Numbered, BusyIsActive, Active, Ended
  <2>6. Vacated'
    BY <1>4 DEF AwaitTasks, idle_data, lifevars, fencevars, process,
       DelInv, DelTypeOK, Vacated, Drained, Fenced, BusyIsActive, Numbered, Active, Ended
  <2> QED BY <2>1, <2>2, <2>3, <2>4, <2>5, <2>6 DEF DelInv
<1>5. CASE PurgeTasks
  <2>1. DelTypeOK'
    <3>1. clean' \in [at : {"idle", "look", "list", "cancel", "purge", "drop", "erase", "fail",
                           "succeed", "done"}, d : 0 .. drawn, list : SUBSET Task]
      <4>1. CASE \E t \in Task : status[t] \in Active
        BY <1>5, <4>1 DEF PurgeTasks, goto, DelInv, DelTypeOK
      <4>2. CASE ~ \E t \in Task : status[t] \in Active
        <5>1. {t \in Task : status[t] # "none"} \in SUBSET Task
          OBVIOUS
        <5>2. clean' = [clean EXCEPT !.at = "drop", !.list = {t \in Task : status[t] # "none"}]
          BY <1>5, <4>2 DEF PurgeTasks
        <5> HIDE DEF Active
        <5> QED BY <5>1, <5>2 DEF DelInv, DelTypeOK
      <4> QED BY <4>1, <4>2
    <3>2. clean'.at \in {"fail", "drop"} /\ clean'.d = clean.d
      BY <1>5, DeletionAssumption DEF PurgeTasks, goto, idle_data, DelInv, DelTypeOK
    <3> QED BY <1>5, <3>1, <3>2, DeletionAssumption DEF PurgeTasks, goto, idle_data, lifevars,
       fencevars, process,
         DelInv, DelTypeOK, Numbered, Closed
  <2>2. Numbered'
    BY <1>5, DeletionAssumption DEF PurgeTasks, goto, idle_data, lifevars, fencevars, process,
       DelInv, DelTypeOK, Numbered, Deletion
  <2>3. Fenced'
    BY <1>5, DeletionAssumption DEF PurgeTasks, goto, idle_data, lifevars, fencevars, process,
       DelInv, DelTypeOK, Fenced, Cleaning, Closed, Numbered, Deletion
  <2>4. BusyIsActive'
    BY <1>5 DEF PurgeTasks, goto, idle_data, lifevars, fencevars, process,
       DelInv, DelTypeOK, BusyIsActive, Active, Ended
  <2>5. Drained'
    BY <1>5 DEF PurgeTasks, goto, idle_data, lifevars, fencevars, process,
       DelInv, DelTypeOK, Drained, Fenced, Cleaning, Numbered, BusyIsActive, Active, Ended
  <2>6. Vacated'
    BY <1>5 DEF PurgeTasks, goto, idle_data, lifevars, fencevars, process,
       DelInv, DelTypeOK, Vacated, Drained, Fenced, BusyIsActive, Numbered, Active, Ended
  <2> QED BY <2>1, <2>2, <2>3, <2>4, <2>5, <2>6 DEF DelInv
<1>6. CASE StartErasing
  <2>1. DelTypeOK'
    BY <1>6, DeletionAssumption DEF StartErasing, goto, idle_data, lifevars, fencevars,
       process,
       DelInv, DelTypeOK, Numbered, Active, Ended, Closed, Deletion
  <2>2. Numbered'
    BY <1>6, DeletionAssumption DEF StartErasing, goto, idle_data, lifevars, fencevars,
       process,
       DelInv, DelTypeOK, Numbered, Deletion
  <2>3. Fenced'
    BY <1>6, DeletionAssumption DEF StartErasing, goto, idle_data, lifevars, fencevars, process,
       DelInv, DelTypeOK, Fenced, Cleaning, Closed, Numbered, Deletion
  <2>4. BusyIsActive'
    BY <1>6 DEF StartErasing, goto, idle_data, lifevars, fencevars, process,
       DelInv, DelTypeOK, BusyIsActive, Active, Ended
  <2>5. Drained'
    BY <1>6 DEF StartErasing, goto, idle_data, lifevars, fencevars, process,
       DelInv, DelTypeOK, Drained, Fenced, Cleaning, Numbered, BusyIsActive, Active, Ended
  <2>6. Vacated'
    BY <1>6 DEF StartErasing, goto, idle_data, lifevars, fencevars, process,
       DelInv, DelTypeOK, Vacated, Drained, Fenced, BusyIsActive, Numbered, Active, Ended
  <2> QED BY <2>1, <2>2, <2>3, <2>4, <2>5, <2>6 DEF DelInv
<1>7. CASE FinishDeletion
  <2>1. DelTypeOK'
    BY <1>7, DeletionAssumption DEF FinishDeletion, owns_fence, goto, lifevars, fencevars,
       process,
       DelInv, DelTypeOK, Numbered, Active, Ended, Closed, Deletion
  <2>2. Numbered'
    BY <1>7, DeletionAssumption DEF FinishDeletion, owns_fence, goto, lifevars, fencevars,
       process,
       DelInv, DelTypeOK, Numbered, Deletion
  <2>3. Fenced'
    BY <1>7, DeletionAssumption DEF FinishDeletion, owns_fence, goto, lifevars, fencevars, process,
       DelInv, DelTypeOK, Fenced, Cleaning, Closed, Numbered, Deletion
  <2>4. BusyIsActive'
    BY <1>7 DEF FinishDeletion, owns_fence, goto, lifevars, fencevars, process,
       DelInv, DelTypeOK, BusyIsActive, Active, Ended
  <2>5. Drained'
    BY <1>7 DEF FinishDeletion, owns_fence, goto, lifevars, fencevars, process,
       DelInv, DelTypeOK, Drained, Fenced, Cleaning, Numbered, BusyIsActive, Active, Ended
  <2>6. Vacated'
    BY <1>7 DEF FinishDeletion, owns_fence, goto, lifevars, fencevars, process,
       DelInv, DelTypeOK, Vacated, Drained, Fenced, BusyIsActive, Numbered, Active, Ended
  <2> QED BY <2>1, <2>2, <2>3, <2>4, <2>5, <2>6 DEF DelInv
<1>8. CASE \E t \in Task : CancelListed(t)
  <2> PICK t \in Task : CancelListed(t)
    BY <1>8
  <2>0. CancelListed(t)
    OBVIOUS
  <2>1. DelTypeOK'
    BY <2>0, DeletionAssumption DEF CancelListed, Cancel, idle_data, lifevars, fencevars,
       process,
       DelInv, DelTypeOK, Numbered, Active, Ended, Closed, Deletion
  <2>2. Numbered'
    BY <2>0, DeletionAssumption DEF CancelListed, Cancel, idle_data, lifevars, fencevars,
       process,
       DelInv, DelTypeOK, Numbered, Deletion
  <2>3. Fenced'
    BY <2>0, DeletionAssumption DEF CancelListed, Cancel, idle_data, lifevars, fencevars, process,
       DelInv, DelTypeOK, Fenced, Cleaning, Closed, Numbered, Deletion
  <2>4. BusyIsActive'
    BY <2>0 DEF CancelListed, Cancel, idle_data, lifevars, fencevars, process,
       DelInv, DelTypeOK, BusyIsActive, Active, Ended
  <2>5. Drained'
    BY <2>0 DEF CancelListed, Cancel, idle_data, lifevars, fencevars, process,
       DelInv, DelTypeOK, Drained, Fenced, Cleaning, Numbered, BusyIsActive, Active, Ended
  <2>6. Vacated'
    BY <2>0 DEF CancelListed, Cancel, idle_data, lifevars, fencevars, process,
       DelInv, DelTypeOK, Vacated, Drained, Fenced, BusyIsActive, Numbered, Active, Ended
  <2> QED BY <2>1, <2>2, <2>3, <2>4, <2>5, <2>6 DEF DelInv
<1>9. CASE \E t \in Task : DropTask(t)
  <2> PICK t \in Task : DropTask(t)
    BY <1>9
  <2>0. DropTask(t)
    OBVIOUS
  <2>1. DelTypeOK'
    <3>1. clean' \in [at : {"idle", "look", "list", "cancel", "purge", "drop", "erase", "fail",
                           "succeed", "done"}, d : 0 .. drawn, list : SUBSET Task]
      BY <2>0, DeletionAssumption DEF DropTask, goto, idle_data, DelInv, DelTypeOK
    <3>2. clean'.at \in {"fail", "drop"} /\ clean'.d = clean.d
      BY <2>0, DeletionAssumption DEF DropTask, goto, idle_data, DelInv, DelTypeOK
    <3>3. status' \in [Task -> {"none"} \cup Active \cup Ended]
      BY <2>0, DeletionAssumption DEF DropTask, goto, idle_data, DelInv, DelTypeOK, lifevars
    <3> QED BY <2>0, <3>1, <3>2, <3>3, DeletionAssumption DEF DropTask, goto, idle_data,
       lifevars, fencevars, process,
         DelInv, DelTypeOK, Numbered, Closed
  <2>2. Numbered'
    BY <2>0, DeletionAssumption DEF DropTask, goto, idle_data, lifevars, fencevars, process,
       DelInv, DelTypeOK, Numbered, Deletion
  <2>3. Fenced'
    BY <2>0, DeletionAssumption DEF DropTask, goto, idle_data, lifevars, fencevars, process,
       DelInv, DelTypeOK, Fenced, Cleaning, Closed, Numbered, Deletion
  <2>4. BusyIsActive'
    BY <2>0 DEF DropTask, goto, idle_data, lifevars, fencevars, process,
       DelInv, DelTypeOK, BusyIsActive, Active, Ended
  <2>5. Drained'
    BY <2>0 DEF DropTask, goto, idle_data, lifevars, fencevars, process,
       DelInv, DelTypeOK, Drained, Fenced, Cleaning, Numbered, BusyIsActive, Active, Ended
  <2>6. Vacated'
    BY <2>0 DEF DropTask, goto, idle_data, lifevars, fencevars, process,
       DelInv, DelTypeOK, Vacated, Drained, Fenced, BusyIsActive, Numbered, Active, Ended
  <2> QED BY <2>1, <2>2, <2>3, <2>4, <2>5, <2>6 DEF DelInv
<1>10. CASE CleanupRaises
  <2>1. DelTypeOK'
    BY <1>10, DeletionAssumption DEF CleanupRaises, goto, idle_data, lifevars, fencevars,
       process,
       DelInv, DelTypeOK, Numbered, Active, Ended, Closed, Deletion
  <2>2. Numbered'
    BY <1>10, DeletionAssumption DEF CleanupRaises, goto, idle_data, lifevars, fencevars,
       process,
       DelInv, DelTypeOK, Numbered, Deletion
  <2>3. Fenced'
    BY <1>10, DeletionAssumption DEF CleanupRaises, goto, idle_data, lifevars, fencevars, process,
       DelInv, DelTypeOK, Fenced, Cleaning, Closed, Numbered, Deletion
  <2>4. BusyIsActive'
    BY <1>10 DEF CleanupRaises, goto, idle_data, lifevars, fencevars, process,
       DelInv, DelTypeOK, BusyIsActive, Active, Ended
  <2>5. Drained'
    BY <1>10 DEF CleanupRaises, goto, idle_data, lifevars, fencevars, process,
       DelInv, DelTypeOK, Drained, Fenced, Cleaning, Numbered, BusyIsActive, Active, Ended
  <2>6. Vacated'
    BY <1>10 DEF CleanupRaises, goto, idle_data, lifevars, fencevars, process,
       DelInv, DelTypeOK, Vacated, Drained, Fenced, BusyIsActive, Numbered, Active, Ended
  <2> QED BY <2>1, <2>2, <2>3, <2>4, <2>5, <2>6 DEF DelInv
<1>11. CASE FailCleanup
  <2>1. DelTypeOK'
    <3>1. clean' \in [at : {"idle", "look", "list", "cancel", "purge", "drop", "erase", "fail",
                           "succeed", "done"}, d : 0 .. drawn, list : SUBSET Task]
      BY <1>11, DeletionAssumption DEF FailCleanup, goto, idle_data, DelInv, DelTypeOK
    <3>2. clean'.at = "succeed" /\ clean'.d = clean.d
      BY <1>11, DeletionAssumption DEF FailCleanup, goto, idle_data, DelInv, DelTypeOK
    <3>3. dtask' \in [Deletion -> {"none", "pending", "running", "erred"} \cup Closed]
      BY <1>11, DeletionAssumption DEF FailCleanup, goto, idle_data, DelInv, DelTypeOK
    <3>4. clean.d \in Deletion
      BY <1>11, DeletionAssumption DEF FailCleanup, goto, idle_data, DelInv, DelTypeOK,
         Numbered, Deletion
    <3>5. dtask'[clean.d] = "erred"
      BY <1>11, <3>1, <3>2, <3>3, <3>4, DeletionAssumption DEF FailCleanup, goto, idle_data,
         DelInv, DelTypeOK
    <3> QED BY <1>11, <3>1, <3>2, <3>3, <3>4, <3>5, DeletionAssumption DEF FailCleanup, goto,
       idle_data, lifevars, fencevars, process,
         DelInv, DelTypeOK, Numbered, Closed
  <2>2. Numbered'
    BY <1>11, DeletionAssumption DEF FailCleanup, goto, idle_data, lifevars, fencevars,
       process,
       DelInv, DelTypeOK, Numbered, Deletion
  <2>3. Fenced'
    BY <1>11, DeletionAssumption DEF FailCleanup, goto, idle_data, lifevars, fencevars, process,
       DelInv, DelTypeOK, Fenced, Cleaning, Closed, Numbered, Deletion
  <2>4. BusyIsActive'
    BY <1>11 DEF FailCleanup, goto, idle_data, lifevars, fencevars, process,
       DelInv, DelTypeOK, BusyIsActive, Active, Ended
  <2>5. Drained'
    BY <1>11 DEF FailCleanup, goto, idle_data, lifevars, fencevars, process,
       DelInv, DelTypeOK, Drained, Fenced, Cleaning, Numbered, BusyIsActive, Active, Ended
  <2>6. Vacated'
    BY <1>11 DEF FailCleanup, goto, idle_data, lifevars, fencevars, process,
       DelInv, DelTypeOK, Vacated, Drained, Fenced, BusyIsActive, Numbered, Active, Ended
  <2> QED BY <2>1, <2>2, <2>3, <2>4, <2>5, <2>6 DEF DelInv
<1>12. CASE CloseCleanup
  <2>1. DelTypeOK'
    BY <1>12, DeletionAssumption DEF CloseCleanup, goto, idle_data, lifevars, fencevars,
       process,
       DelInv, DelTypeOK, Numbered, Active, Ended, Closed, Deletion
  <2>2. Numbered'
    BY <1>12, DeletionAssumption DEF CloseCleanup, goto, idle_data, lifevars, fencevars,
       process,
       DelInv, DelTypeOK, Numbered, Deletion
  <2>3. Fenced'
    BY <1>12, DeletionAssumption DEF CloseCleanup, goto, idle_data, lifevars, fencevars, process,
       DelInv, DelTypeOK, Fenced, Cleaning, Closed, Numbered, Deletion
  <2>4. BusyIsActive'
    BY <1>12 DEF CloseCleanup, goto, idle_data, lifevars, fencevars, process,
       DelInv, DelTypeOK, BusyIsActive, Active, Ended
  <2>5. Drained'
    BY <1>12 DEF CloseCleanup, goto, idle_data, lifevars, fencevars, process,
       DelInv, DelTypeOK, Drained, Fenced, Cleaning, Numbered, BusyIsActive, Active, Ended
  <2>6. Vacated'
    BY <1>12 DEF CloseCleanup, goto, idle_data, lifevars, fencevars, process,
       DelInv, DelTypeOK, Vacated, Drained, Fenced, BusyIsActive, Numbered, Active, Ended
  <2> QED BY <2>1, <2>2, <2>3, <2>4, <2>5, <2>6 DEF DelInv
<1>13. CASE AckCleanup(TRUE)
  <2>1. DelTypeOK'
    BY <1>13, DeletionAssumption DEF AckCleanup, Idle, idle_data, lifevars, fencevars, process,
       DelInv, DelTypeOK, Numbered, Active, Ended, Closed, Deletion
  <2>2. Numbered' /\ Fenced'
    BY <1>13, DeletionAssumption DEF AckCleanup, Idle, idle_data, lifevars, fencevars, process,
       DelInv, DelTypeOK, Numbered, Fenced, Cleaning, Closed, Deletion
  <2>3. BusyIsActive' /\ Drained' /\ Vacated'
    BY <1>13 DEF AckCleanup, Idle, idle_data, lifevars, fencevars, process,
       DelInv, DelTypeOK, Fenced, Cleaning, BusyIsActive, Drained, Vacated, Active, Ended
  <2> QED BY <2>1, <2>2, <2>3 DEF DelInv
<1>14. CASE AckCleanup(FALSE)
  <2>1. DelTypeOK'
    BY <1>14, DeletionAssumption DEF AckCleanup, Idle, idle_data, lifevars, fencevars, process,
       DelInv, DelTypeOK, Numbered, Active, Ended, Closed, Deletion
  <2>2. Numbered' /\ Fenced'
    BY <1>14, DeletionAssumption DEF AckCleanup, Idle, idle_data, lifevars, fencevars, process,
       DelInv, DelTypeOK, Numbered, Fenced, Cleaning, Closed, Deletion
  <2>3. BusyIsActive' /\ Drained' /\ Vacated'
    BY <1>14 DEF AckCleanup, Idle, idle_data, lifevars, fencevars, process,
       DelInv, DelTypeOK, Fenced, Cleaning, BusyIsActive, Drained, Vacated, Active, Ended
  <2> QED BY <2>1, <2>2, <2>3 DEF DelInv
<1>15. CASE InterruptCleanup
  <2>1. DelTypeOK'
    BY <1>15, DeletionAssumption DEF InterruptCleanup, Idle, idle_data, lifevars, fencevars, process,
       DelInv, DelTypeOK, Numbered, Active, Ended, Closed, Deletion
  <2>2. Numbered' /\ Fenced'
    BY <1>15, DeletionAssumption DEF InterruptCleanup, Idle, idle_data, lifevars, fencevars, process,
       DelInv, DelTypeOK, Numbered, Fenced, Cleaning, Closed, Deletion
  <2>3. BusyIsActive' /\ Drained' /\ Vacated'
    BY <1>15 DEF InterruptCleanup, Idle, idle_data, lifevars, fencevars, process,
       DelInv, DelTypeOK, Fenced, Cleaning, BusyIsActive, Drained, Vacated, Active, Ended
  <2> QED BY <2>1, <2>2, <2>3 DEF DelInv
<1> QED BY <1>1, <1>2, <1>3, <1>4, <1>5, <1>6, <1>7, <1>8, <1>9, <1>10, <1>11, <1>12, <1>13,
   <1>14, <1>15 DEF CleanStep

\* Tasks: what one may do while its owner is deleted.
LEMMA TasksKeep ==
  ASSUME DelInv, (\E t \in Task : CheckGuard(t) \/ CreateGuarded(t) \/ ConfirmGuarded(t)) \/ TaskSteps
  PROVE  DelInv'
<1>1. CASE \E t \in Task : CheckGuard(t)
  <2> PICK t \in Task : CheckGuard(t)
    BY <1>1
  <2>0. CheckGuard(t)
    OBVIOUS
  <2>1. DelTypeOK'
    BY <2>0, DeletionAssumption DEF CheckGuard, is_creation_blocked, lifevars, fencevars, process,
       DelInv, DelTypeOK, Numbered, Active, Ended, Closed, Deletion
  <2>2. Numbered' /\ Fenced'
    BY <2>0, DeletionAssumption DEF CheckGuard, is_creation_blocked, lifevars, fencevars, process,
       DelInv, DelTypeOK, Numbered, Fenced, Cleaning, Closed, Deletion
  <2>3. BusyIsActive' /\ Drained' /\ Vacated'
    BY <2>0 DEF CheckGuard, is_creation_blocked, lifevars, fencevars, process,
       DelInv, DelTypeOK, Fenced, Cleaning, BusyIsActive, Drained, Vacated, Active, Ended
  <2> QED BY <2>1, <2>2, <2>3 DEF DelInv
<1>2. CASE \E t \in Task : CreateGuarded(t)
  <2> PICK t \in Task : CreateGuarded(t)
    BY <1>2
  <2>0. CreateGuarded(t)
    OBVIOUS
  <2>1. DelTypeOK'
    BY <2>0, DeletionAssumption DEF CreateGuarded, Insert, lifevars, fencevars, process,
       DelInv, DelTypeOK, Numbered, Active, Ended, Closed, Deletion
  <2>2. Numbered' /\ Fenced'
    BY <2>0, DeletionAssumption DEF CreateGuarded, Insert, lifevars, fencevars, process,
       DelInv, DelTypeOK, Numbered, Fenced, Cleaning, Closed, Deletion
  <2>3. BusyIsActive' /\ Drained' /\ Vacated'
    BY <2>0 DEF CreateGuarded, Insert, lifevars, fencevars, process,
       DelInv, DelTypeOK, Fenced, Cleaning, BusyIsActive, Drained, Vacated, Active, Ended
  <2> QED BY <2>1, <2>2, <2>3 DEF DelInv
<1>3. CASE \E t \in Task : ConfirmGuarded(t)
  <2> PICK t \in Task : ConfirmGuarded(t)
    BY <1>3
  <2>0. ConfirmGuarded(t)
    OBVIOUS
  <2>1. DelTypeOK'
    BY <2>0, DeletionAssumption DEF ConfirmGuarded, is_creation_blocked, Retract, Accept,
       delvars, lifevars, fencevars, process,
       DelInv, DelTypeOK, Numbered, Active, Ended, Closed, Deletion
  <2>2. Numbered'
    BY <2>0, DeletionAssumption DEF ConfirmGuarded, is_creation_blocked, Retract, Accept,
       delvars, lifevars, fencevars, process,
       DelInv, DelTypeOK, Numbered, Deletion
  <2>3. Fenced'
    BY <2>0, DeletionAssumption DEF ConfirmGuarded, is_creation_blocked, Retract, Accept, delvars, lifevars,
       fencevars, process,
       DelInv, DelTypeOK, Fenced, Cleaning, Closed, Numbered, Deletion
  <2>4. BusyIsActive'
    BY <2>0 DEF ConfirmGuarded, is_creation_blocked, Retract, Accept, delvars, lifevars,
       fencevars, process,
       DelInv, DelTypeOK, BusyIsActive, Active, Ended
  <2>5. Drained'
    BY <2>0 DEF ConfirmGuarded, is_creation_blocked, Retract, Accept, delvars, lifevars,
       fencevars, process,
       DelInv, DelTypeOK, Drained, Fenced, Cleaning, Numbered, BusyIsActive, Active, Ended
  <2>6. Vacated'
    BY <2>0 DEF ConfirmGuarded, is_creation_blocked, Retract, Accept, delvars, lifevars,
       fencevars, process,
       DelInv, DelTypeOK, Vacated, Drained, Fenced, BusyIsActive, Numbered, Active, Ended
  <2> QED BY <2>1, <2>2, <2>3, <2>4, <2>5, <2>6 DEF DelInv
<1>4. CASE TaskSteps
  <2>0. UNCHANGED delvars
    BY <1>4 DEF TaskSteps
  <2> PICK t \in Task : Retract(t) \/ LifeStep(t)
    BY <1>4 DEF TaskSteps
  <2>1. CASE Retract(t)
    <3>1. DelTypeOK'
      BY <2>0, <2>1, DeletionAssumption DEF Retract, delvars, lifevars, fencevars, process,
         DelInv, DelTypeOK, Numbered, Active, Ended, Closed, Deletion
    <3>2. Numbered'
      BY <2>0, <2>1, DeletionAssumption DEF Retract, delvars, lifevars, fencevars, process,
         DelInv, DelTypeOK, Numbered, Deletion
    <3>3. Fenced'
      BY <2>0, <2>1, DeletionAssumption DEF Retract, delvars, lifevars, fencevars, process,
         DelInv, DelTypeOK, Fenced, Cleaning, Closed, Numbered, Deletion
    <3>4. BusyIsActive'
      BY <2>0, <2>1 DEF Retract, delvars, lifevars, fencevars, process,
         DelInv, DelTypeOK, BusyIsActive, Active, Ended
    <3>5. Drained'
      BY <2>0, <2>1 DEF Retract, delvars, lifevars, fencevars, process,
         DelInv, DelTypeOK, Drained, Fenced, Cleaning, Numbered, BusyIsActive, Active, Ended
    <3>6. Vacated'
      BY <2>0, <2>1 DEF Retract, delvars, lifevars, fencevars, process,
         DelInv, DelTypeOK, Vacated, Drained, Fenced, BusyIsActive, Numbered, Active, Ended
    <3> QED BY <3>1, <3>2, <3>3, <3>4, <3>5, <3>6 DEF DelInv
  <2>2. CASE Run(t)
    <3>1. DelTypeOK'
      BY <2>0, <2>2, DeletionAssumption DEF Run, delvars, lifevars, fencevars, process,
         DelInv, DelTypeOK, Numbered, Active, Ended, Closed, Deletion
    <3>2. Numbered'
      BY <2>0, <2>2, DeletionAssumption DEF Run, delvars, lifevars, fencevars, process,
         DelInv, DelTypeOK, Numbered, Deletion
    <3>3. Fenced'
      BY <2>0, <2>2, DeletionAssumption DEF Run, delvars, lifevars, fencevars, process,
         DelInv, DelTypeOK, Fenced, Cleaning, Closed, Numbered, Deletion
    <3>4. BusyIsActive'
      BY <2>0, <2>2 DEF Run, delvars, lifevars, fencevars, process,
         DelInv, DelTypeOK, BusyIsActive, Active, Ended
    <3>5. Drained'
      BY <2>0, <2>2 DEF Run, delvars, lifevars, fencevars, process,
         DelInv, DelTypeOK, Drained, Fenced, Cleaning, Numbered, BusyIsActive, Active, Ended
    <3>6. Vacated'
      BY <2>0, <2>2 DEF Run, delvars, lifevars, fencevars, process,
         DelInv, DelTypeOK, Vacated, Drained, Fenced, BusyIsActive, Numbered, Active, Ended
    <3> QED BY <3>1, <3>2, <3>3, <3>4, <3>5, <3>6 DEF DelInv
  <2>3. CASE Rest(t)
    <3>1. DelTypeOK'
      BY <2>0, <2>3, DeletionAssumption DEF Rest, delvars, lifevars, fencevars, process,
         DelInv, DelTypeOK, Numbered, Active, Ended, Closed, Deletion
    <3>2. Numbered'
      BY <2>0, <2>3, DeletionAssumption DEF Rest, delvars, lifevars, fencevars, process,
         DelInv, DelTypeOK, Numbered, Deletion
    <3>3. Fenced'
      BY <2>0, <2>3, DeletionAssumption DEF Rest, delvars, lifevars, fencevars, process,
         DelInv, DelTypeOK, Fenced, Cleaning, Closed, Numbered, Deletion
    <3>4. BusyIsActive'
      BY <2>0, <2>3 DEF Rest, delvars, lifevars, fencevars, process,
         DelInv, DelTypeOK, BusyIsActive, Active, Ended
    <3>5. Drained'
      BY <2>0, <2>3 DEF Rest, delvars, lifevars, fencevars, process,
         DelInv, DelTypeOK, Drained, Fenced, Cleaning, Numbered, BusyIsActive, Active, Ended
    <3>6. Vacated'
      BY <2>0, <2>3 DEF Rest, delvars, lifevars, fencevars, process,
         DelInv, DelTypeOK, Vacated, Drained, Fenced, BusyIsActive, Numbered, Active, Ended
    <3> QED BY <3>1, <3>2, <3>3, <3>4, <3>5, <3>6 DEF DelInv
  <2>4. CASE Cancel(t)
    <3>1. DelTypeOK'
      BY <2>0, <2>4, DeletionAssumption DEF Cancel, delvars, lifevars, fencevars, process,
         DelInv, DelTypeOK, Numbered, Active, Ended, Closed, Deletion
    <3>2. Numbered'
      BY <2>0, <2>4, DeletionAssumption DEF Cancel, delvars, lifevars, fencevars, process,
         DelInv, DelTypeOK, Numbered, Deletion
    <3>3. Fenced'
      BY <2>0, <2>4, DeletionAssumption DEF Cancel, delvars, lifevars, fencevars, process,
         DelInv, DelTypeOK, Fenced, Cleaning, Closed, Numbered, Deletion
    <3>4. BusyIsActive'
      BY <2>0, <2>4 DEF Cancel, delvars, lifevars, fencevars, process,
         DelInv, DelTypeOK, BusyIsActive, Active, Ended
    <3>5. Drained'
      BY <2>0, <2>4 DEF Cancel, delvars, lifevars, fencevars, process,
         DelInv, DelTypeOK, Drained, Fenced, Cleaning, Numbered, BusyIsActive, Active, Ended
    <3>6. Vacated'
      BY <2>0, <2>4 DEF Cancel, delvars, lifevars, fencevars, process,
         DelInv, DelTypeOK, Vacated, Drained, Fenced, BusyIsActive, Numbered, Active, Ended
    <3> QED BY <3>1, <3>2, <3>3, <3>4, <3>5, <3>6 DEF DelInv
  <2>5. CASE End(t)
    <3>1. DelTypeOK'
      BY <2>0, <2>5, DeletionAssumption DEF End, delvars, lifevars, fencevars, process,
         DelInv, DelTypeOK, Numbered, Active, Ended, Closed, Deletion
    <3>2. Numbered'
      BY <2>0, <2>5, DeletionAssumption DEF End, delvars, lifevars, fencevars, process,
         DelInv, DelTypeOK, Numbered, Deletion
    <3>3. Fenced'
      BY <2>0, <2>5, DeletionAssumption DEF End, delvars, lifevars, fencevars, process,
         DelInv, DelTypeOK, Fenced, Cleaning, Closed, Numbered, Deletion
    <3>4. BusyIsActive'
      BY <2>0, <2>5 DEF End, delvars, lifevars, fencevars, process,
         DelInv, DelTypeOK, BusyIsActive, Active, Ended
    <3>5. Drained'
      BY <2>0, <2>5 DEF End, delvars, lifevars, fencevars, process,
         DelInv, DelTypeOK, Drained, Fenced, Cleaning, Numbered, BusyIsActive, Active, Ended
    <3>6. Vacated'
      BY <2>0, <2>5 DEF End, delvars, lifevars, fencevars, process,
         DelInv, DelTypeOK, Vacated, Drained, Fenced, BusyIsActive, Numbered, Active, Ended
    <3> QED BY <3>1, <3>2, <3>3, <3>4, <3>5, <3>6 DEF DelInv
  <2>6. CASE Forget(t)
    <3>1. DelTypeOK'
      BY <2>0, <2>6, DeletionAssumption DEF Forget, delvars, lifevars, fencevars, process,
         DelInv, DelTypeOK, Numbered, Active, Ended, Closed, Deletion
    <3>2. Numbered'
      BY <2>0, <2>6, DeletionAssumption DEF Forget, delvars, lifevars, fencevars, process,
         DelInv, DelTypeOK, Numbered, Deletion
    <3>3. Fenced'
      BY <2>0, <2>6, DeletionAssumption DEF Forget, delvars, lifevars, fencevars, process,
         DelInv, DelTypeOK, Fenced, Cleaning, Closed, Numbered, Deletion
    <3>4. BusyIsActive'
      BY <2>0, <2>6 DEF Forget, delvars, lifevars, fencevars, process,
         DelInv, DelTypeOK, BusyIsActive, Active, Ended
    <3>5. Drained'
      BY <2>0, <2>6 DEF Forget, delvars, lifevars, fencevars, process,
         DelInv, DelTypeOK, Drained, Fenced, Cleaning, Numbered, BusyIsActive, Active, Ended
    <3>6. Vacated'
      BY <2>0, <2>6 DEF Forget, delvars, lifevars, fencevars, process,
         DelInv, DelTypeOK, Vacated, Drained, Fenced, BusyIsActive, Numbered, Active, Ended
    <3> QED BY <3>1, <3>2, <3>3, <3>4, <3>5, <3>6 DEF DelInv
  <2> QED BY <2>1, <2>2, <2>3, <2>4, <2>5, <2>6 DEF LifeStep
<1> QED BY <1>1, <1>2, <1>3, <1>4

\* The process stops, or a new one starts.
LEMMA ProcessKeeps ==
  ASSUME DelInv, StopDeletion \/ RestartDeletion
  PROVE  DelInv'
<1>1. CASE StopDeletion
  <2>1. DelTypeOK'
    BY <1>1, DeletionAssumption DEF StopDeletion, lifevars, fencevars, process,
       DelInv, DelTypeOK, Numbered, Active, Ended, Closed, Deletion
  <2>2. Numbered' /\ Fenced'
    BY <1>1, DeletionAssumption DEF StopDeletion, lifevars, fencevars, process,
       DelInv, DelTypeOK, Numbered, Fenced, Cleaning, Closed, Deletion
  <2>3. BusyIsActive' /\ Drained' /\ Vacated'
    BY <1>1 DEF StopDeletion, lifevars, fencevars, process,
       DelInv, DelTypeOK, Fenced, Cleaning, BusyIsActive, Drained, Vacated, Active, Ended
  <2> QED BY <2>1, <2>2, <2>3 DEF DelInv
<1>2. CASE RestartDeletion
  <2>1. DelTypeOK'
    <3>1. /\ dtask' \in [Deletion -> {"none", "pending", "running", "erred"} \cup Closed]
          /\ dmsg' \in [Deletion -> {"none", "pending", "claimed", "gone"}]
      BY <1>2, DeletionAssumption DEF RestartDeletion, Renew, initialize, queued, NoSubmit,
         Idle, DelInv, DelTypeOK
    <3>2. made' \in [Task -> {"no", "inserted", "past", "cut"}]
      BY <1>2, DeletionAssumption DEF RestartDeletion, Renew, initialize, queued, NoSubmit,
         Idle, DelInv, DelTypeOK
    <3>3. /\ clean' \in [at : {"idle", "look", "list", "cancel", "purge", "drop", "erase", "fail",
                              "succeed", "done"}, d : 0 .. drawn, list : SUBSET Task]
          /\ submit' = [at |-> "idle", d |-> 0] /\ clean'.at = "idle"
      BY <1>2, DeletionAssumption DEF RestartDeletion, Renew, initialize, queued, NoSubmit,
         Idle, DelInv, DelTypeOK
    <3>4. /\ restarts' \in 0 .. MaxRestarts /\ busy' = {} /\ checked' = {}
          /\ UNCHANGED <<status, identity, fence, drawn>>
      BY <1>2, DeletionAssumption DEF RestartDeletion, Renew, DelInv, DelTypeOK
    <3>5. stopping' \in BOOLEAN
      BY <1>2, Zenon DEF RestartDeletion
    <3>6. registered' \in BOOLEAN
      BY <1>2, Zenon DEF RestartDeletion, DelInv, DelTypeOK
    <3> QED BY <3>1, <3>2, <3>3, <3>4, <3>5, <3>6 DEF DelInv, DelTypeOK
  <2>2. Numbered'
    BY <1>2, DeletionAssumption DEF RestartDeletion, Renew, initialize, queued, NoSubmit,
       Idle, lifevars, fencevars, process,
       DelInv, DelTypeOK, Numbered, Deletion
  <2>3. Fenced'
    BY <1>2, DeletionAssumption DEF RestartDeletion, Renew, initialize, queued, NoSubmit, Idle, lifevars,
       fencevars, process,
       DelInv, DelTypeOK, Fenced, Cleaning, Closed, Numbered, Deletion
  <2>4. BusyIsActive'
    BY <1>2 DEF RestartDeletion, Renew, initialize, queued, NoSubmit, Idle, lifevars,
       fencevars, process,
       DelInv, DelTypeOK, BusyIsActive, Active, Ended
  <2>5. Drained'
    BY <1>2 DEF RestartDeletion, Renew, initialize, queued, NoSubmit, Idle, lifevars,
       fencevars, process,
       DelInv, DelTypeOK, Drained, Fenced, Cleaning, Numbered, BusyIsActive, Active, Ended
  <2>6. Vacated'
    BY <1>2 DEF RestartDeletion, Renew, initialize, queued, NoSubmit, Idle, lifevars,
       fencevars, process,
       DelInv, DelTypeOK, Vacated, Drained, Fenced, BusyIsActive, Numbered, Active, Ended
  <2> QED BY <2>1, <2>2, <2>3, <2>4, <2>5, <2>6 DEF DelInv
<1> QED BY <1>1, <1>2

-----------------------------------------------------------------------------
LEMMA StepHolds == DelInv /\ [DelNext]_vars => DelInv'
<1> SUFFICES ASSUME DelInv, [DelNext]_vars PROVE DelInv'
  OBVIOUS
<1>1. CASE UNCHANGED vars
  BY <1>1 DEF vars, delvars, lifevars, fencevars, process, DelInv, DelTypeOK, Numbered, Fenced,
     BusyIsActive, Drained, Vacated
<1>2. CASE DelNext
  BY <1>2, SubmitKeeps, CleanKeeps, TasksKeep, ProcessKeeps DEF DelNext
<1> QED BY <1>1, <1>2

\* The strengthened invariant of the deletion.
LEMMA InvariantHolds == DelSpec => []DelInv
<1>1. DelInit => DelInv
  BY InitHolds
<1>2. DelInv /\ [DelNext]_vars => DelInv'
  BY StepHolds
<1> QED BY <1>1, <1>2, PTL DEF DelSpec

\* The state of the deletion keeps its type, and a cleanup that works is claimed by
\* its consumer and has not ended.
THEOREM DeletionTypeCorrect == DelSpec => []DelTypeOK
<1>1. DelInv => DelTypeOK
  BY DEF DelInv
<1> QED BY <1>1, InvariantHolds, PTL

\* _process erases nothing underneath a running handler, nor without the fence.
THEOREM ErasureIsQuiet == DelSpec => []QuietErasure
<1>1. DelInv => QuietErasure
  <2> SUFFICES ASSUME DelInv, clean.at = "erase"
               PROVE  identity = "present" /\ fence = clean.d /\ busy = {}
    BY DEF QuietErasure
  <2>1. fence = clean.d /\ identity = "present"
    BY DEF DelInv, Fenced, Numbered, Cleaning, DelTypeOK
  <2>2. busy = {}
    BY DEF DelInv, DelTypeOK, BusyIsActive, Drained, Active
  <2> QED BY <2>1, <2>2
<1> QED BY <1>1, InvariantHolds, PTL

\* delete_tasks and the second look at the guard leave no accepted task while the cleanup
\* erases; where identities have to be registered, none is left or accepted after
\* finish_deletion either.
THEOREM NothingIsLeft == DelSpec => []NothingLeft
<1>1. DelInv => NothingLeft
  BY DEF DelInv, Drained, Vacated, NothingLeft
<1> QED BY <1>1, InvariantHolds, PTL
=============================================================================
