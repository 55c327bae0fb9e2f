------------------------------ MODULE TaskLife ------------------------------
(***************************************************************************)
(* What the task tracker promises those who look at tasks from outside: how *)
(* a task is created, worked on and ended, whatever queues, deliveries,     *)
(* cancellations and restarts lie behind it.  A task is busy while a queue  *)
(* handler runs for it; it ends only when it is not.                        *)
(***************************************************************************)
CONSTANTS Task, Cancellable, Reopenable

VARIABLES
  status,    \* task -> status of its record, "none" without one
  made,      \* task -> where its creation is
  busy       \* tasks a queue handler runs for

lifevars == <<status, made, busy>>

Active == {"pending", "running", "cancelling"}
Ended == {"completed", "failed", "cancelled"}

LifeInit ==
  /\ status = [t \in Task |-> "none"]
  /\ made = [t \in Task |-> "no"]
  /\ busy = {}

\* A record is inserted, and the creation accepted or taken back.
Insert(t) ==
  /\ made[t] = "no"
  /\ made' = [made EXCEPT ![t] = "inserted"] /\ status' = [status EXCEPT ![t] = "pending"]
  /\ UNCHANGED busy

Accept(t) ==
  /\ made[t] = "inserted"
  /\ made' = [made EXCEPT ![t] = "past"] /\ UNCHANGED <<status, busy>>

Retract(t) ==
  /\ made[t] = "inserted"
  /\ made' = [made EXCEPT ![t] = "past"]
  /\ status' = IF status[t] = "pending" THEN [status EXCEPT ![t] = "none"] ELSE status
  /\ UNCHANGED busy

\* Work on an accepted task, in a queue handler or without one.
Run(t) ==
  /\ made[t] = "past" /\ status[t] \in {"pending", "running"}
  /\ status' = [status EXCEPT ![t] = "running"]
  /\ busy' \in {busy, busy \cup {t}} /\ UNCHANGED made

Rest(t) == busy' = busy \ {t} /\ UNCHANGED <<status, made>>

\* A cancellation waits for the handlers and the other work of the task, if it has
\* any; some tasks are cancelled although they have ended.
Cancel(t) ==
  /\ t \in Cancellable
  /\ \/ /\ status[t] \in {"pending", "running"} /\ made[t] = "past"
        /\ status' = [status EXCEPT ![t] = "cancelling"]
     \/ /\ status[t] \in {"pending", "running"} \/ (t \in Reopenable /\ status[t] \in {"completed", "failed"})
        /\ t \notin busy
        /\ status' = [status EXCEPT ![t] = "cancelled"]
  /\ UNCHANGED <<made, busy>>

\* The task ends, at the latest with its last handler.
End(t) ==
  /\ made[t] = "past" /\ status[t] \in Active
  /\ \E s \in IF status[t] = "cancelling" THEN {"cancelled"} ELSE {"completed", "failed"} :
       status' = [status EXCEPT ![t] = s]
  /\ busy' = busy \ {t} /\ UNCHANGED made

Forget(t) ==
  /\ status[t] \in Ended
  /\ status' = [status EXCEPT ![t] = "none"] /\ UNCHANGED <<made, busy>>

\* A new process: handlers are gone, and a creation may have been cut off.
Renew ==
  /\ busy' = {}
  /\ made' = [t \in Task |-> IF made[t] = "inserted" THEN "cut" ELSE made[t]]
  /\ UNCHANGED status

LifeStep(t) == Run(t) \/ Rest(t) \/ Cancel(t) \/ End(t) \/ Forget(t)

LifeNext == Renew \/ \E t \in Task : Insert(t) \/ Accept(t) \/ Retract(t) \/ LifeStep(t)

LifeSpec == LifeInit /\ [][LifeNext]_lifevars
=============================================================================
