---------------------------- MODULE SessionCommit ----------------------------
(***************************************************************************)
(* Commits of a session (openviking/session/session.py).  Phase 1 moves     *)
(* messages from the root of the session into a numbered archive, file by   *)
(* file and under the session lock.  Then the archive is published: a       *)
(* durable queue message is sent for it, while a lease on the archive says  *)
(* that this is under way.  Phase 2 extracts memories from the archive in a *)
(* queue handler and ends with the file .done or .failed.json.  Archives    *)
(* are handled side by side, but each waits for its direct predecessor: its *)
(* message is replaced by a new one until then.  The new one is sent before *)
(* the old one is acknowledged, so that a crash may leave both.             *)
(*                                                                         *)
(* One process runs at a time, as the index of open work is its own.        *)
(* Messages are numbered in the order in which they were accepted.  A       *)
(* commit keeps some of the latest messages live; the turn based retention, *)
(* policies, counters and telemetry are left out.                           *)
(***************************************************************************)
EXTENDS Naturals, Sequences

CONSTANTS
  MaxMessages,     \* bound on the messages ever accepted
  MaxArchives,     \* bound on the archives of the session
  MaxCopies,       \* bound on the queue messages of one archive at a time
  MaxRetries,      \* bound on the calls of retry_archive
  MaxRestarts      \* bound on the crashes of the process

ASSUME SessionAssumption ==
  /\ MaxMessages \in Nat /\ MaxArchives \in Nat /\ MaxCopies \in Nat \ {0}
  /\ MaxRetries \in Nat /\ MaxRestarts \in Nat

VARIABLES
  accepted,     \* messages accepted so far
  root,         \* messages.jsonl of the session: the live messages
  count,        \* commit_count of .meta.json
  arch,         \* archive -> its files
  phase1,       \* the commit that holds the session lock
  pub,          \* archive -> where its publication is
  lease,        \* archive -> who holds the lease on it
  work,         \* archive -> the work of its task
  msg,          \* archive -> queue message -> where it, or the handler of it, is
  revived,      \* archive -> recovery recorded in its metadata
  twice,        \* archives with more than one message in the queue since a crash (history)
  retries, restarts

messagevars == <<accepted, root>>
deliveryvars == <<work, msg, revived, twice>>
queuevars == <<pub, deliveryvars>>
bounds == <<retries, restarts>>
vars == <<messagevars, count, arch, phase1, lease, queuevars, bounds>>

Archive == 1 .. MaxArchives
Copy == 1 .. MaxCopies
Empty == [mark |-> "none", messages |-> <<>>, done |-> "no", failed |-> "no"]
NoCommit == [at |-> "idle", n |-> 0, archived |-> <<>>, retained |-> <<>>,
             wrote |-> {}, reset |-> FALSE]

exists(n) == arch[n] # Empty
is_terminal(n) == arch[n].done # "no" \/ arch[n].failed # "no"
has_work(n) == work[n] \in {"open", "cancelling"}
unlocked == phase1.at = "idle"
tree_lockable == unlocked /\ \A n \in Archive : lease[n] = "free"

SessionInit ==
  /\ accepted = 0 /\ root = <<>> /\ count = 0
  /\ arch = [n \in Archive |-> Empty] /\ phase1 = NoCommit
  /\ pub = [n \in Archive |-> "no"] /\ lease = [n \in Archive |-> "free"]
  /\ work = [n \in Archive |-> "none"]
  /\ msg = [n \in Archive |-> [c \in Copy |-> "none"]]
  /\ revived = [n \in Archive |-> "no"] /\ twice = {}
  /\ retries = 0 /\ restarts = 0

-----------------------------------------------------------------------------
(* Messages and Phase 1, under the session lock *)

AppendMessage ==
  /\ unlocked /\ accepted < MaxMessages
  /\ accepted' = accepted + 1 /\ root' = Append(root, accepted + 1)
  /\ UNCHANGED <<count, arch, phase1, lease, queuevars, bounds>>

\* Mutant: the directories are not looked at.
is_next_index_counted(n) == n = count + 1

\* The first number after commit_count without a directory.
is_next_index(n) == n > count /\ ~exists(n) /\ \A i \in count + 1 .. n - 1 : exists(i)

\* All but the last k messages are to be archived.
BeginCommit(n, k, reset) ==
  /\ unlocked /\ k < Len(root) /\ is_next_index(n)
  /\ reset => k = 0 /\ n < MaxArchives
  /\ phase1' = [at |-> "persist", n |-> n, archived |-> SubSeq(root, 1, Len(root) - k),
                retained |-> SubSeq(root, Len(root) - k + 1, Len(root)),
                wrote |-> {}, reset |-> reset]
  /\ UNCHANGED <<messagevars, count, arch, lease, queuevars, bounds>>

\* Without messages only the boundary of a reset is written.
BeginReset(n) ==
  /\ unlocked /\ root = <<>> /\ is_next_index(n)
  /\ phase1' = [NoCommit EXCEPT !.at = "reset", !.n = n - 1, !.reset = TRUE]
  /\ UNCHANGED <<messagevars, count, arch, lease, queuevars, bounds>>

\* The intent and the archived messages are written at the same time.
WritePhase1Marker ==
  /\ phase1.at = "persist"
  /\ arch' = [arch EXCEPT ![phase1.n].mark = "preparing"]
  /\ phase1' = [phase1 EXCEPT !.wrote = @ \cup {"intent"}]
  /\ UNCHANGED <<messagevars, count, lease, queuevars, bounds>>

WriteArchive ==
  /\ phase1.at = "persist"
  /\ arch' = [arch EXCEPT ![phase1.n].messages = phase1.archived]
  /\ phase1' = [phase1 EXCEPT !.wrote = @ \cup {"messages"}]
  /\ UNCHANGED <<messagevars, count, lease, queuevars, bounds>>

\* Mutant: the root is rewritten although the archive may not be there.
RewriteRootEarly ==
  /\ phase1.at = "persist" /\ "intent" \in phase1.wrote
  /\ root' = phase1.retained /\ phase1' = [phase1 EXCEPT !.at = "meta", !.wrote = {}]
  /\ UNCHANGED <<accepted, count, arch, lease, queuevars, bounds>>

RewriteRoot ==
  /\ phase1.at = "persist" /\ phase1.wrote = {"intent", "messages"}
  /\ root' = phase1.retained /\ phase1' = [phase1 EXCEPT !.at = "meta", !.wrote = {}]
  /\ UNCHANGED <<accepted, count, arch, lease, queuevars, bounds>>

SaveMeta ==
  /\ phase1.at = "meta"
  /\ count' = phase1.n /\ phase1' = [phase1 EXCEPT !.at = "lease"]
  /\ UNCHANGED <<messagevars, arch, lease, queuevars, bounds>>

TakePublicationLease ==
  /\ phase1.at = "lease" /\ lease[phase1.n] = "free"
  /\ lease' = [lease EXCEPT ![phase1.n] = "publisher"]
  /\ phase1' = [phase1 EXCEPT !.at = "ready"]
  /\ UNCHANGED <<messagevars, count, arch, queuevars, bounds>>

\* The lock is released and the archive, if there is one, waits to be published.
finish_phase1 ==
  /\ phase1' = NoCommit
  /\ pub' = IF phase1.archived # <<>> THEN [pub EXCEPT ![phase1.n] = "publish"] ELSE pub

\* The archive is ready and, but for a reset, the lock is released.
WriteReadyMarker ==
  /\ phase1.at = "ready"
  /\ arch' = [arch EXCEPT ![phase1.n].mark = "ready"]
  /\ IF phase1.reset THEN phase1' = [phase1 EXCEPT !.at = "reset"] /\ UNCHANGED pub
     ELSE finish_phase1
  /\ UNCHANGED <<messagevars, count, lease, deliveryvars, bounds>>

is_context_reset_archive(n) == n \in Archive /\ arch[n].done = "reset"

\* The boundary is an archive of its own that is done, unless the newest one is such.
AppendContextReset ==
  /\ phase1.at = "reset"
  /\ IF is_context_reset_archive(phase1.n) THEN finish_phase1 /\ UNCHANGED arch
     ELSE /\ arch' = [arch EXCEPT ![phase1.n + 1].done = "reset"]
          /\ phase1' = [phase1 EXCEPT !.at = "boundary"] /\ UNCHANGED pub
  /\ UNCHANGED <<messagevars, count, lease, deliveryvars, bounds>>

SaveResetMeta ==
  /\ phase1.at = "boundary" /\ count' = phase1.n + 1 /\ finish_phase1
  /\ UNCHANGED <<messagevars, arch, lease, deliveryvars, bounds>>

\* The archive, and a boundary that could not be written.
broken ==
  {n \in Archive : \/ n = phase1.n /\ phase1.archived # <<>>
                   \/ n = phase1.n + 1 /\ phase1.at = "reset" /\ ~is_context_reset_archive(n - 1)}

\* A write failed, before or after it took effect: what is broken is marked, unless
\* this fails too, and the lease is released.
FailPhase1(marked) ==
  /\ ~unlocked /\ marked \subseteq broken
  /\ arch' = [n \in Archive |-> IF n \in marked THEN [arch[n] EXCEPT !.failed = "failed"] ELSE arch[n]]
  /\ lease' = [n \in Archive |-> IF n = phase1.n /\ lease[n] = "publisher" /\ pub[n] = "no"
                                 THEN "free" ELSE lease[n]]
  /\ phase1' = NoCommit
  /\ UNCHANGED <<messagevars, count, queuevars, bounds>>

\* The caller is cancelled: what was begun is written, then nothing is marked and the
\* lease is not released.  The process goes on refreshing it.
CancelPhase1 ==
  /\ ~unlocked
  /\ lease' = [n \in Archive |-> IF n = phase1.n /\ lease[n] = "publisher" /\ pub[n] = "no"
                                 THEN "leaked" ELSE lease[n]]
  /\ phase1' = NoCommit
  /\ UNCHANGED <<messagevars, count, arch, queuevars, bounds>>

\* The same after the last write, before the publication begins.
CancelUnpublished(n) ==
  /\ pub[n] = "publish"
  /\ pub' = [pub EXCEPT ![n] = "no"] /\ lease' = [lease EXCEPT ![n] = "leaked"]
  /\ UNCHANGED <<messagevars, count, arch, phase1, deliveryvars, bounds>>

-----------------------------------------------------------------------------
(* Publication, outside the session lock *)

\* The task is created and the message enqueued, or one of this fails or is cancelled.
Publish(n, ok) ==
  /\ pub[n] = "publish"
  /\ pub' = [pub EXCEPT ![n] = "release"]
  /\ work' = IF ok THEN [work EXCEPT ![n] = "open"] ELSE work
  /\ msg' = IF ok THEN [msg EXCEPT ![n][1] = "pending"] ELSE msg
  /\ UNCHANGED <<messagevars, count, arch, phase1, lease, revived, twice, bounds>>

ReleasePublication(n) ==
  /\ pub[n] = "release"
  /\ pub' = [pub EXCEPT ![n] = "no"] /\ lease' = [lease EXCEPT ![n] = "free"]
  /\ UNCHANGED <<messagevars, count, arch, phase1, deliveryvars, bounds>>

-----------------------------------------------------------------------------
(* The handler of a message (SessionCommitProcessor, resume_queued_commit).  A message *)
(* that was "left" is claimed in the queue and handled by nobody until a restart.      *)

Handled == {"look", "order", "probe", "judge", "requeue", "run", "settle"}

go(n, c, at) == msg' = [msg EXCEPT ![n][c] = at]
close(n) == work' = [work EXCEPT ![n] = IF @ = "cancelling" THEN "cancelled"
                                        ELSE IF @ = "open" THEN "closed" ELSE @]
fail_archive(n, stage) == arch' = [arch EXCEPT ![n].failed = stage]
quiet == UNCHANGED <<messagevars, count, phase1, pub, twice, bounds>>

\* Work that is open is admitted, also while another message of it is handled.
Deliver(n, c) ==
  /\ msg[n][c] = "pending" /\ work[n] = "open" /\ go(n, c, "look")
  /\ UNCHANGED <<arch, lease, work, revived>> /\ quiet

\* A message whose task is over is acknowledged, one that was cancelled marks its
\* archive before.
DeliverLate(n, c) ==
  /\ msg[n][c] = "pending" /\ work[n] # "open"
  /\ \/ work[n] = "closed" /\ UNCHANGED arch
     \/ work[n] \in {"cancelled", "cancelling"} /\ fail_archive(n, "failed")
  /\ close(n) /\ go(n, c, "ack")
  /\ UNCHANGED <<lease, revived>> /\ quiet

\* _activate_archive_recovery, under a lock on the tree of the session.
ActivateRecovery(n, c) ==
  /\ msg[n][c] = "look" /\ revived[n] = "asked" /\ tree_lockable
  /\ arch' = [arch EXCEPT ![n].failed = "no"] /\ revived' = [revived EXCEPT ![n] = "active"]
  /\ UNCHANGED <<lease, work, msg>> /\ quiet

Resume(n, c) ==
  /\ msg[n][c] = "look" /\ revived[n] # "asked"
  /\ go(n, c, IF is_terminal(n) THEN "settle" ELSE "order")
  /\ UNCHANGED <<arch, lease, work, revived>> /\ quiet

\* Mutant: a predecessor that is ready is not waited for.
predecessor_over_early(n) ==
  n > 1 /\ exists(n - 1) => is_terminal(n - 1) \/ arch[n - 1].mark = "ready"

predecessor_over(n) == n > 1 /\ exists(n - 1) => is_terminal(n - 1)

\* _can_run_archive: the predecessor is over, or not known, or has work, or may have
\* been left behind.
CanRunArchive(n, c) ==
  /\ msg[n][c] = "order"
  /\ \/ predecessor_over(n) /\ go(n, c, "run")
     \/ /\ ~predecessor_over(n)
        /\ \/ arch[n - 1].mark = "none" /\ go(n, c, "requeue")
           \/ arch[n - 1].mark = "ready" /\ has_work(n - 1) /\ go(n, c, "requeue")
           \/ arch[n - 1].mark = "ready" /\ ~has_work(n - 1) /\ go(n, c, "probe")
  /\ UNCHANGED <<arch, lease, work, revived>> /\ quiet

\* Mutant: a predecessor that is not ready is waited for.
FailUnreadyNot(n, c) ==
  /\ msg[n][c] = "order" /\ ~predecessor_over(n) /\ arch[n - 1].mark = "preparing"
  /\ go(n, c, "requeue")
  /\ UNCHANGED <<arch, lease, work, revived>> /\ quiet

\* _ensure_phase1_ready for a predecessor that was left in the middle of Phase 1.  Its
\* message would only have been sent when it was ready.
FailUnready(n, c) ==
  /\ msg[n][c] = "order" /\ unlocked /\ ~predecessor_over(n) /\ arch[n - 1].mark = "preparing"
  /\ fail_archive(n - 1, "failed") /\ go(n, c, "run")
  /\ UNCHANGED <<lease, work, revived>> /\ quiet

\* Is somebody about to publish the predecessor?
Probe(n, c) ==
  /\ msg[n][c] = "probe"
  /\ IF lease[n - 1] = "free"
     THEN lease' = [lease EXCEPT ![n - 1] = "judge"] /\ go(n, c, "judge")
     ELSE go(n, c, "requeue") /\ UNCHANGED lease
  /\ UNCHANGED <<arch, work, revived>> /\ quiet

\* Mutant: the work is not looked for again.
JudgeAtOnce(n, c) ==
  /\ msg[n][c] = "judge"
  /\ fail_archive(n - 1, "missing") /\ go(n, c, "run")
  /\ lease' = [lease EXCEPT ![n - 1] = "free"]
  /\ UNCHANGED <<work, revived>> /\ quiet

\* An archive that is ready, has no work and is not being published is an orphan.
Judge(n, c) ==
  /\ msg[n][c] = "judge"
  /\ IF has_work(n - 1) THEN go(n, c, "requeue") /\ UNCHANGED arch
     ELSE fail_archive(n - 1, "missing") /\ go(n, c, "run")
  /\ lease' = [lease EXCEPT ![n - 1] = "free"]
  /\ UNCHANGED <<work, revived>> /\ quiet

\* A new message for the same work is enqueued; this one is acknowledged later, or at
\* once when there is no room for both.  Work that is over accepts no message.
Requeue(n, c) ==
  /\ msg[n][c] = "requeue" /\ work[n] = "open"
  /\ \/ \E d \in Copy : /\ msg[n][d] = "none"
                        /\ msg' = [msg EXCEPT ![n][d] = "pending", ![n][c] = "ack"]
     \/ (\A d \in Copy : msg[n][d] # "none") /\ go(n, c, "pending")
  /\ UNCHANGED <<arch, lease, work, revived>> /\ quiet

\* Memories are extracted and .done is written last; an error leaves .failed.json.
Extract(n, c, ok) ==
  /\ msg[n][c] = "run"
  /\ IF ok THEN arch' = [arch EXCEPT ![n].done = "done"] ELSE fail_archive(n, "failed")
  /\ go(n, c, "settle")
  /\ UNCHANGED <<lease, work, revived>> /\ quiet

Settle(n, c) ==
  /\ msg[n][c] = "settle" /\ close(n) /\ go(n, c, "ack")
  /\ UNCHANGED <<arch, lease, revived>> /\ quiet

\* The message is deleted, or this fails and is only logged.
Ack(n, c, ok) ==
  /\ msg[n][c] = "ack" /\ go(n, c, IF ok THEN "none" ELSE "left")
  /\ UNCHANGED <<arch, lease, work, revived>> /\ quiet

dropped_probe(n, judging) == [i \in Archive |-> IF judging /\ i = n - 1 THEN "free" ELSE lease[i]]

\* Anything else raises: the work has failed, whatever the archive looks like.
HandlerRaises(n, c) ==
  /\ msg[n][c] \in Handled /\ close(n) /\ go(n, c, "ack")
  /\ lease' = dropped_probe(n, msg[n][c] = "judge")
  /\ UNCHANGED <<arch, revived>> /\ quiet

\* The work could not be started, the task not be registered again, or the outcome not be
\* stored: the work stays as it is and the message in the queue.
HandlerLeaves(n, c) ==
  /\ msg[n][c] \in Handled \cup {"pending"} /\ go(n, c, "left")
  /\ lease' = dropped_probe(n, msg[n][c] = "judge")
  /\ UNCHANGED <<arch, work, revived>> /\ quiet

\* The task is cancelled and its handlers are interrupted, of which one that extracts
\* marks the archive; the messages in kept are not acknowledged.  Work that a handler
\* had left stays open until its message is delivered again.
CancelTask(n, kept) ==
  LET handled == {c \in Copy : msg[n][c] \in Handled}
      left == {c \in Copy : msg[n][c] = "left"}
  IN /\ work[n] = "open" /\ kept \subseteq handled
     /\ msg' = [msg EXCEPT ![n] = [c \in Copy |-> IF c \in kept THEN "left"
                                                  ELSE IF c \in handled THEN "none" ELSE @[c]]]
     /\ \/ work' = [work EXCEPT ![n] = "cancelled"]
        \/ handled = {} /\ left # {} /\ work' = [work EXCEPT ![n] = "cancelling"]
     /\ IF \E c \in handled : msg[n][c] = "run" THEN fail_archive(n, "failed") ELSE UNCHANGED arch
     /\ lease' = dropped_probe(n, \E c \in handled : msg[n][c] = "judge")
     /\ UNCHANGED revived /\ quiet

-----------------------------------------------------------------------------
\* retry_archive: an archive that failed, or is ready without an owner, is sent again
\* when the queue has no message of the session and no task of it has work.
RetryArchive(n) ==
  /\ retries < MaxRetries /\ retries' = retries + 1
  /\ tree_lockable /\ arch[n].done = "no" /\ arch[n].mark = "ready"
  /\ \A i \in Archive : ~has_work(i) /\ \A c \in Copy : msg[i][c] = "none"
  /\ work' = [work EXCEPT ![n] = "open"] /\ msg' = [msg EXCEPT ![n][1] = "pending"]
  /\ revived' = [revived EXCEPT ![n] = IF is_terminal(n) THEN "asked" ELSE "active"]
  /\ twice' = twice \ {n}
  /\ UNCHANGED <<messagevars, count, arch, phase1, pub, lease, restarts>>

\* The process dies: its messages are delivered again, its leases have to expire.
Crash ==
  /\ restarts < MaxRestarts /\ restarts' = restarts + 1
  /\ phase1' = NoCommit /\ pub' = [n \in Archive |-> "no"]
  /\ msg' = [n \in Archive |-> [c \in Copy |-> IF msg[n][c] = "none" THEN "none" ELSE "pending"]]
  /\ twice' = twice \cup {n \in Archive : \E c, d \in Copy : c # d /\ msg[n][c] # "none" /\ msg[n][d] # "none"}
  /\ lease' = [n \in Archive |-> IF lease[n] = "free" THEN "free" ELSE "stale"]
  /\ UNCHANGED <<messagevars, count, arch, work, revived, retries>>

LeaseExpires(n) ==
  /\ lease[n] = "stale" /\ lease' = [lease EXCEPT ![n] = "free"]
  /\ UNCHANGED <<messagevars, count, arch, phase1, queuevars, bounds>>

CommitStep ==
  \/ WritePhase1Marker \/ WriteArchive \/ RewriteRoot \/ SaveMeta
  \/ TakePublicationLease \/ WriteReadyMarker \/ AppendContextReset \/ SaveResetMeta
  \/ CancelPhase1 \/ \E marked \in SUBSET Archive : FailPhase1(marked)

PublishStep(n) ==
  CancelUnpublished(n) \/ Publish(n, TRUE) \/ Publish(n, FALSE) \/ ReleasePublication(n)

HandlerStep(n, c) ==
  \/ Deliver(n, c) \/ DeliverLate(n, c) \/ ActivateRecovery(n, c) \/ Resume(n, c)
  \/ CanRunArchive(n, c) \/ FailUnready(n, c) \/ Probe(n, c) \/ Judge(n, c) \/ Requeue(n, c)
  \/ Extract(n, c, TRUE) \/ Extract(n, c, FALSE) \/ Settle(n, c)
  \/ Ack(n, c, TRUE) \/ Ack(n, c, FALSE) \/ HandlerRaises(n, c) \/ HandlerLeaves(n, c)

SessionNext ==
  \/ AppendMessage \/ CommitStep \/ Crash
  \/ \E n \in Archive :
       \/ BeginReset(n)
       \/ \E k \in 0 .. MaxMessages, reset \in BOOLEAN : BeginCommit(n, k, reset)
       \/ PublishStep(n) \/ RetryArchive(n) \/ LeaseExpires(n)
       \/ \E c \in Copy : HandlerStep(n, c)
       \/ \E kept \in SUBSET Copy : CancelTask(n, kept)

SessionSpec == SessionInit /\ [][SessionNext]_vars

\* A commit that has begun, publications, deliveries and the handlers go on.  A handler
\* waits for a lock only for some time and raises then.
SessionFairness ==
  /\ WF_vars(CommitStep)
  /\ \A n \in Archive : WF_vars(PublishStep(n)) /\ WF_vars(LeaseExpires(n))
  /\ \A n \in Archive, c \in Copy : WF_vars(HandlerStep(n, c))

FairSessionSpec == SessionSpec /\ SessionFairness

-----------------------------------------------------------------------------
(* Properties *)

\* The variables have their types; work is queued only for an archive that is ready
\* and has messages.
SessionTypeOK ==
  /\ accepted \in 0 .. MaxMessages /\ root \in Seq(1 .. accepted)
  /\ count \in 0 .. MaxArchives /\ retries \in 0 .. MaxRetries /\ restarts \in 0 .. MaxRestarts
  /\ DOMAIN arch = Archive
  /\ \A n \in Archive :
       /\ arch[n].mark \in {"none", "preparing", "ready"} /\ arch[n].messages \in Seq(1 .. accepted)
       /\ arch[n].done \in {"no", "done", "reset"} /\ arch[n].failed \in {"no", "failed", "missing"}
       /\ pub[n] \in {"no", "publish", "release"} /\ revived[n] \in {"no", "asked", "active"}
       /\ lease[n] \in {"free", "publisher", "judge", "leaked", "stale"}
       /\ work[n] \in {"none", "open", "cancelling", "cancelled", "closed"}
       /\ \A c \in Copy : msg[n][c] \in Handled \cup {"none", "pending", "ack", "left"}
       /\ has_work(n) => \E c \in Copy : msg[n][c] # "none"
       /\ work[n] # "none" => arch[n].mark = "ready" /\ arch[n].messages # <<>>
  /\ phase1.at \in {"idle", "persist", "meta", "lease", "ready", "reset", "boundary"}
  /\ twice \subseteq Archive

\* "Background Phase 2 work is serialized by archive order": memories are extracted
\* from an archive while its predecessor has ended, or is retried; and, as long as no
\* crash left its message in the queue twice, by one handler and from an archive that
\* has not ended itself.
ExtractsInTurn ==
  \A n \in Archive, c \in Copy :
    msg[n][c] = "run" =>
      /\ n > 1 => ~exists(n - 1) \/ is_terminal(n - 1) \/ revived[n - 1] # "no"
      /\ n \notin twice => ~is_terminal(n) /\ \A d \in Copy : msg[n][d] = "run" => d = c

\* "A later archive must not interpret this intentional registration window as an
\* orphan": an archive declared an orphan has no message and gets none, unless it is
\* retried.
OrphansHaveNoWork ==
  \A n \in Archive :
    arch[n].failed = "missing" => pub[n] # "publish" /\ (has_work(n) => revived[n] = "asked")

\* A directory that a commit left before it wrote any marker.
unmarked(n) == exists(n) /\ arch[n].mark = "none" /\ ~is_terminal(n)

\* Work whose messages were all left by their handlers.
deserted(n) == has_work(n) /\ \A c \in Copy : msg[n][c] \in {"none", "left"}

\* Work that was queued for an archive comes to an end, whatever became of its
\* predecessors, unless one of them was left without a marker or with a lease that its
\* cancelled commit did not release, or messages were left that only a restart returns.
CommitsEnd ==
  \A n \in Archive :
    has_work(n) ~> \/ ~has_work(n)
                   \/ \E i \in 1 .. n - 1 : unmarked(i) \/ lease[i] = "leaked"
                   \/ \E i \in 1 .. n : deserted(i)
=============================================================================
