-------------------------- MODULE QueueCompletion ---------------------------
(***************************************************************************)
(* Waiting until the queues are drained: QueueManager.wait_complete beside *)
(* the storage and the workers of QueueFs.  A pass reads the status of one *)
(* queue after the other, in the order the queues were created, and passes *)
(* are repeated until one finds every queue empty.                         *)
(***************************************************************************)
EXTENDS QueueFs

CONSTANT Created   \* the queues in the order of their creation

ASSUME CreatedAssumption == Created \in Seq(Queue) /\ Range(Created) = Queue

VARIABLES
  wait,     \* where the waiting call is
  unread,   \* queues the pass has still to read
  busy,     \* whether the pass found work
  covered   \* ids that were there at the call, and the follow-up of their handlers (history)

watch == <<wait, unread, busy>>
cvars == <<qvars, wait, unread, busy, covered>>

CInit == QInit /\ wait = "before" /\ unread = << >> /\ busy = FALSE /\ covered = {}

\* Mutant: a queue counts as complete when nothing is pending.
pending_only(q) == pending[q] = << >>

\* QueueStatus.is_complete of what one status call returns.
is_complete(q) == unacked(q) = {}

\* wait_complete is called.
Call ==
  /\ wait = "before"
  /\ wait' = "waiting" /\ unread' = Created /\ busy' = FALSE
  /\ covered' = Range(sent)
  /\ UNCHANGED qvars

\* check_status awaits the status of the next queue.
ReadStatus ==
  /\ wait = "waiting" /\ unread # << >>
  /\ unread' = Tail(unread)
  /\ busy' = (busy \/ ~is_complete(Head(unread)))
  /\ UNCHANGED <<qvars, wait, covered>>

\* is_all_complete: another pass, or the call returns.
EndPass ==
  /\ wait = "waiting" /\ unread = << >>
  /\ \/ busy /\ unread' = Created /\ UNCHANGED wait
     \/ ~busy /\ wait' = "complete" /\ UNCHANGED unread
  /\ busy' = FALSE
  /\ UNCHANGED <<qvars, covered>>

\* The follow-up work of a covered message is covered.
CoveredFollowUp ==
  /\ \E i \in Instance : \E d \in deliveries[i], r \in Queue, m \in Message :
       /\ FollowUp(i, d, r, m)
       /\ covered' = IF d.id \in covered THEN covered \cup {m} ELSE covered
  /\ UNCHANGED watch

Others ==
  /\ \/ Lifecycle
     \/ Recovery
     \/ Handling
     \/ \E q \in Queue, m \in Message : Enqueue(q, m)
     \/ \E q \in Queue : Clear(q)
  /\ UNCHANGED <<watch, covered>>

CNext == Call \/ ReadStatus \/ EndPass \/ CoveredFollowUp \/ Others

CSpec == CInit /\ [][CNext]_cvars

-----------------------------------------------------------------------------
(* Properties *)

\* When wait_complete has returned, what was in the queues when it was called
\* is done with, its follow-up included, and stays so: nothing of it is queued
\* again, unless a queue was cleared under a running handler or a paused
\* instance was taken for dead.
CompletionIsReal ==
  wait = "complete" /\ cleared = {} /\ lapsed = {} =>
    \A q \in Queue : unacked(q) \cap covered = {}
=============================================================================
