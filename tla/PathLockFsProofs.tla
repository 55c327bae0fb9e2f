-------------------------- MODULE PathLockFsProofs --------------------------
(***************************************************************************)
(* Over the filesystem provider, which grants a batch in many steps:       *)
(* owners exclude each other, a failed attempt takes back all it wrote, a  *)
(* source is adopted once, and one that was not goes back.  The invariants *)
(* are in PathLockFsInductive; all is for any number of processes, owners, *)
(* leases and paths.                                                       *)
(***************************************************************************)
EXTENDS PathLockFsInductive, PathLockHandoffProofs

-----------------------------------------------------------------------------
(* The steps *)

\* What PathLock does besides the storage call of an acquisition, but for crashes.
Around ==
  \/ \E pr \in Proc, o \in Owner : Acquiring(pr, o) \/ Holding(pr, o)
  \/ \E pr \in Proc, l \in Lease : Unpark(pr, l)
  \/ \E m \in handoffs : AckHandoff(m)
  \/ Tick

\* The steps that are steps of PathLock, an attempt in flight left alone.
Outside ==
  /\ [Next]_vars
  /\ \/ (Around \/ UNCHANGED vars) /\ scan' = scan
     \/ \E pr \in Crashing : FsCrash(pr)

\* A step belongs to one attempt or leaves every attempt alone.
LEMMA FsSteps ==
  ASSUME [FsNext]_fsvars
  PROVE  Outside \/ \E pr \in Proc, o \in Owner : FsAttempt(pr, o)
<1>1. CASE FsNext
  <2>1. Around => Next
    BY DEF Around, Next, Environment
  <2>2. \A pr \in Crashing : FsCrash(pr) => Next
    BY DEF FsCrash, Next, Environment
  <2>3. \/ Around /\ scan' = scan
        \/ \E pr \in Crashing : FsCrash(pr)
        \/ \E pr \in Proc, o \in Owner : FsAttempt(pr, o)
    BY <1>1 DEF FsNext, Around
  <2> QED BY <2>1, <2>2, <2>3 DEF Outside
<1>2. CASE UNCHANGED fsvars
  BY <1>2 DEF fsvars, Outside, vars
<1> QED BY <1>1, <1>2

\* Nothing but its own steps and a crash touches an operation that waits for the
\* store to grant its batch.
LEMMA AroundTask ==
  ASSUME TypeOK, Around, NEW pr \in Proc, NEW o \in Owner, task[pr][o].op = "acquire"
  PROVE  task'[pr][o] = task[pr][o]
<1>1. ASSUME NEW qr \in Proc, NEW w \in Owner, NEW u, task[qr][w].op # "acquire",
             task' = [task EXCEPT ![qr][w] = u]
      PROVE  task'[pr][o] = task[pr][o]
  <2>1. qr # pr \/ w # o
    BY <1>1
  <2>2. task \in [Proc -> [Owner -> Task]]
    BY DEF TypeOK
  <2> QED BY <1>1, <2>1, <2>2, TaskSet
<1>2. ASSUME NEW qr \in Proc, NEW w \in Owner, Acquiring(qr, w)
      PROVE  task[qr][w].op # "acquire" /\ \E u : task' = [task EXCEPT ![qr][w] = u]
  <2>1. ASSUME NEW l, NEW r, NEW s, NEW cap, start_acquire(qr, w, l, r, s, cap)
        PROVE  task[qr][w].op # "acquire" /\ \E u : task' = [task EXCEPT ![qr][w] = u]
    BY <2>1 DEF start_acquire
  <2>2. ASSUME PublishLease(qr, w) \/ RollbackLease(qr, w)
        PROVE  task[qr][w].op # "acquire" /\ \E u : task' = [task EXCEPT ![qr][w] = u]
    BY <2>2 DEF PublishLease, RollbackLease
  <2>3. ASSUME NEW ok, UndoPath(qr, w, ok)
        PROVE  task[qr][w].op # "acquire" /\ \E u : task' = [task EXCEPT ![qr][w] = u]
    BY <2>3 DEF UndoPath
  <2> QED BY <1>2, <2>1, <2>2, <2>3
          DEF Acquiring, AcquireBatch, AcquireReentrant, ReacquireBatch, Adopt
<1>3. ASSUME NEW qr \in Proc, NEW w \in Owner, Holding(qr, w)
      PROVE  task' = task \/ (task[qr][w].op # "acquire" /\ \E u : task' = [task EXCEPT ![qr][w] = u])
  <2>1. ASSUME NEW l, StartRefresh(qr, w, l)
        PROVE  task' = task \/ (task[qr][w].op # "acquire" /\ \E u : task' = [task EXCEPT ![qr][w] = u])
    BY <2>1 DEF StartRefresh
  <2>2. ASSUME NEW ok, RefreshPath(qr, w, ok) \/ ReleasePath(qr, w, ok)
        PROVE  task[qr][w].op # "acquire" /\ \E u : task' = [task EXCEPT ![qr][w] = u]
    BY <2>2 DEF RefreshPath, ReleasePath
  <2>3. ASSUME NEW l, NEW S, task[qr][w].op = "idle", start_release(qr, w, l, S)
        PROVE  task[qr][w].op # "acquire" /\ \E u : task' = [task EXCEPT ![qr][w] = u]
    BY <2>3 DEF start_release
  <2>4. ASSUME ApplyRefresh(qr, w)
        PROVE  task[qr][w].op # "acquire" /\ \E u : task' = [task EXCEPT ![qr][w] = u]
    BY <2>4 DEF ApplyRefresh
  <2> QED BY <1>3, <2>1, <2>2, <2>3, <2>4 DEF Holding, Release, Cleanup, Forget, Handoff, Lookup
<1>4. ASSUME NEW qr \in Proc, NEW l, Unpark(qr, l) PROVE task' = task
  BY <1>4 DEF Unpark
<1>5. ASSUME (\E m \in handoffs : AckHandoff(m)) \/ Tick PROVE task' = task
  BY <1>5 DEF AckHandoff, Tick
<1> QED BY <1>1, <1>2, <1>3, <1>4, <1>5 DEF Around

\* Each attempt is left alone with its scan, or is not there any more.
LeftAlone ==
  \A pr \in Proc, o \in Owner :
    \/ scan'[pr][o] = NoScan
    \/ /\ scan'[pr][o] = scan[pr][o] /\ task'[pr][o] = task[pr][o]
       /\ task[pr][o].op = "acquire"

\* The steps around the attempts grant nothing and leave every scan as it is or end it.
LEMMA OutsideLeaves ==
  ASSUME TypeOK, ScanOK, Outside
  PROVE  /\ LeftAlone /\ now <= now' /\ scan' \in [Proc -> [Owner -> Scan]]
         /\ \A pr \in Proc, o \in Owner : ~CommitAcquire(pr, o)
         /\ \A pr \in Proc, o \in Owner : RejectAcquire(pr, o) => tokens' = tokens
<1>n. now \in Nat /\ task \in [Proc -> [Owner -> Task]]
  BY DEF TypeOK
<1>s. NoScan \in Scan /\ scan \in [Proc -> [Owner -> Scan]]
  BY DEF NoScan, Scan, ScanOK
<1>c. ASSUME NEW pr \in Proc, NEW o \in Owner, CommitAcquire(pr, o)
      PROVE  task[pr][o].op = "acquire" /\ task'[pr][o].op = "publish"
  <2>1. PICK R : /\ task[pr][o].op = "acquire"
                 /\ task' = [task EXCEPT ![pr][o] = [task[pr][o] EXCEPT !.op = "publish", !.replaced = R]]
    BY <1>c DEF CommitAcquire
  <2>2. task[pr][o] \in TaskRecord
    BY TaskLease
  <2>3. PICK u : u = [task[pr][o] EXCEPT !.op = "publish", !.replaced = R]
    OBVIOUS
  <2>4. u.op = "publish"
    BY <2>2, <2>3 DEF TaskRecord
  <2>5. task'[pr][o] = u
    BY <1>n, <2>1, <2>3, TaskSet
  <2> QED BY <2>1, <2>4, <2>5
<1>r. ASSUME NEW pr \in Proc, NEW o \in Owner, RejectAcquire(pr, o)
      PROVE  task[pr][o].op = "acquire" /\ task'[pr][o].op # "acquire"
  <2>1. task[pr][o].op = "acquire" /\ task' = [task EXCEPT ![pr][o] = Idle]
    BY <1>r DEF RejectAcquire
  <2> QED BY <1>n, <2>1, TaskSet DEF Idle
<1>1. ASSUME Around \/ UNCHANGED vars, scan' = scan
      PROVE  /\ LeftAlone /\ now <= now'
             /\ \A pr \in Proc, o \in Owner : ~CommitAcquire(pr, o) /\ ~RejectAcquire(pr, o)
  <2>1. ASSUME NEW pr \in Proc, NEW o \in Owner, task[pr][o].op = "acquire" PROVE task'[pr][o] = task[pr][o]
    BY <1>1, <2>1, AroundTask DEF vars
  <2>2. ASSUME NEW pr \in Proc, NEW o \in Owner, task[pr][o].op # "acquire" PROVE scan[pr][o] = NoScan
    BY <2>2 DEF ScanOK
  <2>3. LeftAlone
    BY <1>1, <2>1, <2>2 DEF LeftAlone
  <2>4. now' = now \/ now' = now + 1
    <3>1. ASSUME NEW pr \in Proc, NEW o \in Owner, Acquiring(pr, o) PROVE now' = now
      BY <3>1 DEF Acquiring, AcquireBatch, AcquireReentrant, ReacquireBatch, Adopt, start_acquire,
                  PublishLease, RollbackLease, UndoPath
    <3>2. ASSUME NEW pr \in Proc, NEW o \in Owner, Holding(pr, o) PROVE now' = now
      BY <3>2 DEF Holding, StartRefresh, RefreshPath, ApplyRefresh, Release, Cleanup, start_release,
                  Forget, ReleasePath, Handoff, Lookup
    <3>3. ASSUME \E pr \in Proc, l \in Lease : Unpark(pr, l) PROVE now' = now
      BY <3>3 DEF Unpark
    <3>4. ASSUME (\E m \in handoffs : AckHandoff(m)) \/ UNCHANGED vars PROVE now' = now
      BY <3>4 DEF AckHandoff, vars
    <3> QED BY <1>1, <3>1, <3>2, <3>3, <3>4 DEF Around, Tick
  <2>5. now <= now'
    BY <1>n, <2>4
  <2> QED BY <1>c, <1>r, <2>1, <2>3, <2>5
<1>2. ASSUME NEW xr \in Crashing, FsCrash(xr)
      PROVE  /\ LeftAlone /\ now <= now' /\ scan' \in [Proc -> [Owner -> Scan]]
             /\ tokens' = tokens /\ \A pr \in Proc, o \in Owner : ~CommitAcquire(pr, o)
  <2>1. xr \in Proc
    BY RequestAssumption
  <2>2. \A pr \in Proc, o \in Owner : task'[pr][o] = IF pr = xr THEN Idle ELSE task[pr][o]
    BY <1>2, <1>n, <2>1 DEF FsCrash, Crash
  <2>3. \A pr \in Proc, o \in Owner : scan'[pr][o] = IF pr = xr THEN NoScan ELSE scan[pr][o]
    BY <1>2, <1>s, <2>1 DEF FsCrash
  <2>4. scan' \in [Proc -> [Owner -> Scan]]
    BY <1>2, <1>s, <2>1 DEF FsCrash
  <2>5. Idle.op = "idle"
    BY DEF Idle
  <2>6. \A pr \in Proc, o \in Owner : task[pr][o].op # "acquire" => scan[pr][o] = NoScan
    BY DEF ScanOK
  <2>7. LeftAlone
    BY <2>2, <2>3, <2>6 DEF LeftAlone
  <2>8. now' = now /\ tokens' = tokens
    BY <1>2 DEF FsCrash, Crash
  <2> QED BY <1>c, <1>n, <2>2, <2>4, <2>5, <2>7, <2>8
<1> QED BY <1>s, <1>1, <1>2 DEF Outside

\* Outside the attempts the scan of an operation that still waits for its batch stays.
LEMMA OutsideScan ==
  ASSUME TypeOK, ScanOK, Outside, NEW pr \in Proc, NEW o \in Owner, task[pr][o].op = "acquire",
         task'[pr][o].op = "acquire" \/ ~Crash(pr)
  PROVE  scan'[pr][o] = scan[pr][o] /\ task'[pr][o] = task[pr][o]
<1>1. CASE (Around \/ UNCHANGED vars) /\ scan' = scan
  BY <1>1, AroundTask DEF vars
<1>2. ASSUME NEW xr \in Crashing, FsCrash(xr)
      PROVE  scan'[pr][o] = scan[pr][o] /\ task'[pr][o] = task[pr][o]
  <2>1. xr \in Proc
    BY RequestAssumption
  <2>2. task'[pr][o] = IF pr = xr THEN Idle ELSE task[pr][o]
    BY <1>2, <2>1 DEF FsCrash, Crash, TypeOK
  <2>3. pr # xr
    BY <1>2, <2>2 DEF Idle, FsCrash
  <2> QED BY <1>2, <2>1, <2>2, <2>3 DEF FsCrash, ScanOK
<1> QED BY <1>1, <1>2 DEF Outside

-----------------------------------------------------------------------------
(* A step of an attempt *)

\* The attempt goes on about the same batch, or fails.
AttemptMoves(pr, o, u, v) ==
  LET t == task[pr][o] IN
  /\ task' = [task EXCEPT ![pr][o] = u] /\ scan' = [scan EXCEPT ![pr][o] = v]
  /\ u \in Task /\ v \in Scan
  /\ \/ u = Idle
     \/ /\ u.op \in {"acquire", "publish", "undo"} /\ u.lease = t.lease /\ u.req = t.req
        /\ u.source = t.source /\ u.started = t.started
  /\ v.phase # "none" => /\ u.op = "acquire" /\ t.started <= v.clock /\ v.clock <= now
                         /\ v.todo \subseteq lock_paths(t.req)
  /\ v.phase = "none" => v = NoScan
  /\ v.phase = "source" => v.reads = {}

\* The phases an attempt enters are scans.
LEMMA PhaseType ==
  ASSUME TypeOK, NEW r, NEW S \in SUBSET Path, NEW phase \in {"source", "check", "verify"}
  PROVE  LET v == phase_for(phase, r, S) IN
         /\ v \in Scan /\ v.phase = phase /\ v.todo = S /\ v.clock = now
         /\ phase = "source" => v.reads = {}
         /\ phase # "source" => v.reads = reads_for(r, S)
<1>1. reads_for(r, S) \in SUBSET Path
  <2>1. \A p \in S : ancestor_paths[p] \subseteq Path /\ below(p) \subseteq Path /\ p \in Path
    BY PathTree DEF below
  <2> QED BY <2>1 DEF reads_for
<1>2. now \in Nat
  BY DEF TypeOK
<1> DEFINE R == IF phase = "source" THEN {} ELSE reads_for(r, S)
<1>3. R \in SUBSET Path
  BY <1>1
<1>4. phase_for(phase, r, S) = [phase |-> phase, todo |-> S, reads |-> R, clock |-> now]
  BY DEF phase_for
<1>5. R = IF phase = "source" THEN {} ELSE reads_for(r, S)
  OBVIOUS
<1> HIDE DEF R
<1> QED BY <1>2, <1>3, <1>4, <1>5 DEF Scan

\* An attempt that gives up undoes what it wrote, or ends.
LEMMA GiveUpMoves ==
  ASSUME TypeOK, ScanOK, NEW pr \in Proc, NEW o \in Owner, task[pr][o].op = "acquire", give_up(pr, o)
  PROVE  /\ tokens' = tokens
         /\ \E u : /\ AttemptMoves(pr, o, u, NoScan)
                  /\ \/ u = Idle /\ written(pr, o) = {}
                     \/ /\ u.op = "undo" /\ u.result = todo_for(written(pr, o))
                        /\ u.replaced = task[pr][o].replaced
<1>1. PICK t : t = task[pr][o] /\ t \in TaskRecord /\ t.lease \in Lease
  BY TaskLease
<1>2. PICK W : W = written(pr, o)
  OBVIOUS
<1>3. PICK u : u = IF W = {} THEN Idle ELSE [t EXCEPT !.op = "undo", !.result = todo_for(W)]
  OBVIOUS
<1>4. /\ task' = [task EXCEPT ![pr][o] = u] /\ scan' = [scan EXCEPT ![pr][o] = NoScan]
      /\ tokens' = tokens
  BY <1>1, <1>2, <1>3 DEF give_up, written
<1>5. CASE W = {}
  <2>1. u = Idle /\ u \in Task
    BY <1>3, <1>5, IdleType
  <2>2. AttemptMoves(pr, o, u, NoScan)
    BY <1>4, <2>1 DEF AttemptMoves, NoScan, Scan
  <2> QED BY <1>2, <1>4, <1>5, <2>1, <2>2
<1>6. CASE W # {}
  <2>1. todo_for(W) \in [Path -> {"none", "todo", "ok", "lost", "err"}]
    BY DEF todo_for
  <2>2. /\ u \in TaskRecord /\ u.op = "undo" /\ u.lease = t.lease /\ u.req = t.req
        /\ u.source = t.source /\ u.started = t.started /\ u.result = todo_for(W)
        /\ u.replaced = t.replaced
    BY <1>1, <1>3, <1>6, <2>1 DEF TaskRecord
  <2>3. u \in Task
    BY <1>1, <2>2 DEF Task
  <2>4. AttemptMoves(pr, o, u, NoScan)
    BY <1>1, <1>4, <2>2, <2>3 DEF AttemptMoves, NoScan, Scan
  <2> QED BY <1>1, <1>2, <1>4, <2>2, <2>4
<1> QED BY <1>5, <1>6

\* The attempt writes one holder and goes on.
FsWriteAt(pr, o, p, stamp, u, v) ==
  LET t  == task[pr][o]
      s  == scan[pr][o]
      sb == stale_before_at(pr, stamp)
  IN  /\ s.phase = "check" /\ s.reads = {} /\ IsFirst(p, s.todo)
      /\ stamp \in Nat /\ s.clock <= stamp /\ stamp <= now
      /\ t.source # NoLease => validate_handoff_source(tokens[p], o, t.source, t.req[p], sb)
      /\ ~conflict_at(tokens, p, o, sb)
      /\ tokens' = [tokens EXCEPT ![p] =
                      with_holder(@, o, t.lease, t.req[p], stamp + Skew[pr], sb, t.source)]
      /\ AttemptMoves(pr, o, u, v) /\ u.op = "acquire"
      /\ u.replaced = [t.replaced EXCEPT ![p] = {h \in tokens[p].holders : h.id = t.source}]
      /\ v = IF s.todo = {p} THEN phase_for("verify", t.req, lock_paths(t.req))
             ELSE phase_for("check", t.req, s.todo \ {p})

\* FsWrite is such a write.
LEMMA WriteMoves ==
  ASSUME TypeOK, ScanOK, NEW pr \in Proc, NEW o \in Owner, FsWrite(pr, o)
  PROVE  \E p \in Path : \E stamp, u, v : FsWriteAt(pr, o, p, stamp, u, v)
<1> DEFINE t == task[pr][o]
           s == scan[pr][o]
<1>1. t = task[pr][o] /\ t \in TaskRecord /\ t.lease \in Lease /\ t.op = "acquire"
  BY TaskLease DEF FsWrite, InPhase
<1>2. s = scan[pr][o] /\ s \in Scan /\ s.phase = "check" /\ s.reads = {}
  BY DEF FsWrite, InPhase, ScanOK
<1>3. PICK p \in Path, stamp \in s.clock .. now :
        LET sb == stale_before_at(pr, stamp) IN
        /\ IsFirst(p, s.todo)
        /\ t.source # NoLease => validate_handoff_source(tokens[p], o, t.source, t.req[p], sb)
        /\ ~conflict_at(tokens, p, o, sb)
        /\ tokens' = [tokens EXCEPT ![p] =
                        with_holder(@, o, t.lease, t.req[p], stamp + Skew[pr], sb, t.source)]
        /\ task' = [task EXCEPT ![pr][o].replaced[p] = {h \in tokens[p].holders : h.id = t.source}]
        /\ scan' = [scan EXCEPT ![pr][o] =
                      IF s.todo = {p} THEN phase_for("verify", t.req, lock_paths(t.req))
                      ELSE phase_for("check", t.req, s.todo \ {p})]
  BY DEF FsWrite
<1> HIDE DEF t, s
<1>4. PICK H : H = {h \in tokens[p].holders : h.id = t.source} /\ H \in SUBSET Holder
  BY DEF TypeOK, Token
<1>5. PICK u : u = [t EXCEPT !.replaced[p] = H]
  OBVIOUS
<1>6. PICK v : v = IF s.todo = {p} THEN phase_for("verify", t.req, lock_paths(t.req))
                   ELSE phase_for("check", t.req, s.todo \ {p})
  OBVIOUS
<1>7. /\ u \in TaskRecord /\ u.op = "acquire" /\ u.lease = t.lease /\ u.req = t.req
      /\ u.source = t.source /\ u.started = t.started
      /\ u.replaced = [t.replaced EXCEPT ![p] = H]
  BY <1>1, <1>4, <1>5 DEF TaskRecord
<1>8. u \in Task
  BY <1>1, <1>7 DEF Task
<1>9. task' = [task EXCEPT ![pr][o] = u]
  BY <1>1, <1>3, <1>4, <1>5
<1>10. /\ lock_paths(t.req) \in SUBSET Path /\ s.todo \ {p} \in SUBSET Path
       /\ s.todo \subseteq lock_paths(t.req)
  BY <1>1, <1>2 DEF lock_paths, Scan, ScanOK
<1>11. /\ v \in Scan /\ v.phase \in {"check", "verify"} /\ v.clock = now
       /\ v.todo \subseteq lock_paths(t.req)
  BY <1>6, <1>10, PhaseType
<1>12. now \in Nat /\ t.started \in Nat /\ t.started <= s.clock /\ s.clock \in Nat /\ s.clock <= now
  BY <1>1, <1>2 DEF TypeOK, ScanOK, TaskRecord, Scan
<1>13. t.started <= v.clock /\ v.clock <= now
  BY <1>11, <1>12
<1>14. AttemptMoves(pr, o, u, v)
  <2>1. scan' = [scan EXCEPT ![pr][o] = v]
    BY <1>3, <1>6
  <2> QED BY <1>1, <1>7, <1>8, <1>9, <1>11, <1>13, <2>1 DEF AttemptMoves
<1>15. stamp \in Nat /\ s.clock <= stamp /\ stamp <= now
  BY <1>12
<1>16. FsWriteAt(pr, o, p, stamp, u, v)
  BY <1>1, <1>2, <1>3, <1>4, <1>6, <1>7, <1>14, <1>15 DEF FsWriteAt
<1> QED BY <1>16

\* The attempt has not begun to write: it starts, or looks at its source.
FsLooks(pr, o, v) ==
  LET t == task[pr][o] IN
  /\ t.op = "acquire" /\ tokens' = tokens /\ AttemptMoves(pr, o, t, v)
  /\ scan[pr][o].phase \in {"none", "source"}
  /\ v.phase = "source" \/ (v.phase = "check" /\ v.todo = lock_paths(t.req))

\* FsBegin and FsSource are such looks.
LEMMA LookMoves ==
  ASSUME TypeOK, ScanOK, Structure, NEW pr \in Proc, NEW o \in Owner, FsBegin(pr, o) \/ FsSource(pr, o)
  PROVE  \E v : FsLooks(pr, o, v)
<1> DEFINE t == task[pr][o]
           s == scan[pr][o]
<1>1. t \in Task /\ t \in TaskRecord /\ t.op = "acquire"
  BY TaskLease DEF TypeOK, FsBegin, FsSource, InPhase
<1>2. task' = task /\ tokens' = tokens
  BY DEF FsBegin, FsSource, vars
<1>3. /\ s.phase \in {"none", "source"}
      /\ \E S \in SUBSET lock_paths(t.req) :
           \/ scan' = [scan EXCEPT ![pr][o] = phase_for("check", t.req, lock_paths(t.req))]
           \/ scan' = [scan EXCEPT ![pr][o] = phase_for("source", t.req, S)]
  <2>1. lock_paths(t.req) \in SUBSET Path
    BY DEF lock_paths
  <2>3. CASE FsBegin(pr, o)
    BY <2>1, <2>3 DEF FsBegin, InPhase
  <2>4. CASE FsSource(pr, o)
    <3>1. s.phase = "source"
      BY <2>4 DEF FsSource, InPhase
    <3>2. PICK p \in Path :
            scan' = [scan EXCEPT ![pr][o] =
                       IF s.todo = {p} THEN phase_for("check", t.req, lock_paths(t.req))
                       ELSE phase_for("source", t.req, s.todo \ {p})]
      BY <2>4 DEF FsSource
    <3>3. s.todo \ {p} \in SUBSET lock_paths(t.req)
      BY <3>1 DEF ScanOK
    <3> HIDE DEF t, s
    <3> QED BY <2>1, <3>1, <3>2, <3>3
  <2> QED BY <2>3, <2>4
<1>4. PICK v : /\ scan' = [scan EXCEPT ![pr][o] = v]
               /\ \/ v = phase_for("check", t.req, lock_paths(t.req))
                  \/ \E S \in SUBSET lock_paths(t.req) : v = phase_for("source", t.req, S)
  BY <1>3
<1>5. lock_paths(t.req) \in SUBSET Path
  BY DEF lock_paths
<1>6. /\ v \in Scan /\ v.clock = now /\ (v.phase = "source" => v.reads = {})
      /\ v.todo \subseteq lock_paths(t.req)
      /\ v.phase = "source" \/ (v.phase = "check" /\ v.todo = lock_paths(t.req))
  BY <1>4, <1>5, PhaseType
<1>7. t.started \in Nat /\ t.started <= now /\ now \in Nat
  BY <1>1 DEF TypeOK, TaskRecord, Structure, PastConfirmations
<1>8. task' = [task EXCEPT ![pr][o] = t]
  BY <1>2 DEF TypeOK
<1>9. AttemptMoves(pr, o, t, v)
  <2>1. t = task[pr][o]
    OBVIOUS
  <2> HIDE DEF t
  <2> QED BY <1>1, <1>4, <1>6, <1>7, <1>8, <2>1 DEF AttemptMoves
<1> QED BY <1>1, <1>2, <1>3, <1>6, <1>9 DEF FsLooks

\* The attempt reads one token on behalf of one request.
FsReadAt(pr, o, p, q, u, v) ==
  LET t    == task[pr][o]
      s    == scan[pr][o]
      done == s.phase = "verify" /\ s.reads = {q} /\ s.todo = {p}
  IN  /\ t.op = "acquire" /\ s.phase \in {"check", "verify"}
      /\ IsFirst(p, s.todo) /\ q \in s.reads /\ ~stops(q, p, pr, o)
      /\ tokens' = tokens /\ AttemptMoves(pr, o, u, v)
      /\ u.op = IF done THEN "publish" ELSE "acquire"
      /\ u.replaced = t.replaced
      /\ v = IF s.phase = "check" \/ s.reads # {q} THEN [s EXCEPT !.reads = @ \ {q}, !.clock = now]
             ELSE IF s.todo = {p} THEN NoScan
             ELSE phase_for("verify", t.req, s.todo \ {p})

\* FsRead is such a read.
LEMMA ReadMoves ==
  ASSUME TypeOK, ScanOK, Structure, NEW pr \in Proc, NEW o \in Owner, FsRead(pr, o)
  PROVE  \E p \in Path, q \in Path : \E u, v : FsReadAt(pr, o, p, q, u, v)
<1> DEFINE t == task[pr][o]
           s == scan[pr][o]
<1>1. t = task[pr][o] /\ t \in TaskRecord /\ t.lease \in Lease /\ t.op = "acquire" /\ t \in Task
  BY TaskLease DEF FsRead, TypeOK
<1>2. s = scan[pr][o] /\ s \in Scan
  BY DEF ScanOK
<1>3. PICK p \in Path, q \in Path :
        /\ IsFirst(p, s.todo) /\ IsNextRead(q, p, s.reads)
        /\ ~stops(q, p, pr, o)
        /\ scan' = [scan EXCEPT ![pr][o] =
                      IF s.phase = "check" \/ s.reads # {q}
                      THEN [s EXCEPT !.reads = @ \ {q}, !.clock = now]
                      ELSE IF s.todo = {p} THEN NoScan
                      ELSE phase_for("verify", t.req, s.todo \ {p})]
        /\ task' = IF s.phase = "verify" /\ s.reads = {q} /\ s.todo = {p}
                   THEN [task EXCEPT ![pr][o].op = "publish"] ELSE task
  BY DEF FsRead
<1>4. q \in s.reads /\ tokens' = tokens
  BY <1>3 DEF IsNextRead, FsRead
<1>5. s.phase \in {"check", "verify"}
  <2>1. NoScan.reads = {}
    BY DEF NoScan
  <2> QED BY <1>2, <1>4, <2>1 DEF ScanOK, Scan
<1>6. now \in Nat /\ t.started \in Nat /\ t.started <= now
  BY <1>1 DEF TypeOK, Structure, PastConfirmations, TaskRecord
<1> HIDE DEF t, s
<1> DEFINE done == s.phase = "verify" /\ s.reads = {q} /\ s.todo = {p}
<1>7. PICK u : u = IF done THEN [t EXCEPT !.op = "publish"] ELSE t
  OBVIOUS
<1>8. PICK v : v = IF s.phase = "check" \/ s.reads # {q} THEN [s EXCEPT !.reads = @ \ {q}, !.clock = now]
                   ELSE IF s.todo = {p} THEN NoScan
                   ELSE phase_for("verify", t.req, s.todo \ {p})
  OBVIOUS
<1>9. /\ u \in TaskRecord /\ u.op = (IF done THEN "publish" ELSE "acquire") /\ u.lease = t.lease
      /\ u.req = t.req /\ u.source = t.source /\ u.started = t.started /\ u.replaced = t.replaced
  BY <1>1, <1>7 DEF TaskRecord
<1>10. u \in Task
  BY <1>1, <1>9 DEF Task
<1>11. task' = [task EXCEPT ![pr][o] = u]
  <2>1. task = [task EXCEPT ![pr][o] = task[pr][o]]
    BY DEF TypeOK
  <2> QED BY <1>1, <1>3, <1>7, <2>1
<1>12. scan' = [scan EXCEPT ![pr][o] = v]
  BY <1>3, <1>8
<1>13. /\ v \in Scan /\ (v.phase = "none" => v = NoScan) /\ v.phase # "source"
       /\ v.phase # "none" => v.clock = now /\ v.todo \subseteq lock_paths(t.req)
  <2>t. s.todo \subseteq lock_paths(t.req)
    BY <1>1, <1>2, <1>5 DEF ScanOK
  <2>1. CASE s.phase = "check" \/ s.reads # {q}
    BY <1>2, <1>5, <1>6, <1>8, <2>1, <2>t DEF Scan
  <2>2. CASE ~(s.phase = "check" \/ s.reads # {q}) /\ s.todo = {p}
    BY <1>8, <2>2 DEF NoScan, Scan
  <2>3. CASE ~(s.phase = "check" \/ s.reads # {q}) /\ s.todo # {p}
    <3>1. s.todo \ {p} \in SUBSET Path
      BY <1>2 DEF Scan
    <3>2. v = phase_for("verify", t.req, s.todo \ {p})
      BY <1>8, <2>3
    <3> QED BY <3>1, <3>2, <2>t, PhaseType
  <2> QED BY <2>1, <2>2, <2>3
<1>14. v.phase # "none" => u.op = "acquire"
  <2>1. CASE done
    <3>1. v = NoScan
      BY <1>8, <2>1
    <3> QED BY <3>1 DEF NoScan
  <2> QED BY <1>9, <2>1
<1>15. AttemptMoves(pr, o, u, v)
  BY <1>1, <1>6, <1>9, <1>10, <1>11, <1>12, <1>13, <1>14 DEF AttemptMoves
<1>16. FsReadAt(pr, o, p, q, u, v)
  BY <1>1, <1>2, <1>3, <1>4, <1>5, <1>8, <1>9, <1>15 DEF FsReadAt
<1> QED BY <1>16

\* The four things a step of an attempt can be.
LEMMA AttemptSteps ==
  ASSUME TypeOK, ScanOK, Structure, NEW pr \in Proc, NEW o \in Owner, FsAttempt(pr, o)
  PROVE  /\ task[pr][o].op = "acquire" /\ UNCHANGED <<now, entries, handoffs, unparking>>
         /\ \/ \E v : FsLooks(pr, o, v)
            \/ \E p \in Path, q \in Path : \E u, v : FsReadAt(pr, o, p, q, u, v)
            \/ \E p \in Path : \E stamp, u, v : FsWriteAt(pr, o, p, stamp, u, v)
            \/ give_up(pr, o)
<1>1. task[pr][o].op = "acquire"
  BY DEF FsAttempt, FsBegin, FsSource, FsRead, FsWrite, BackOff, FsFail, InPhase
<1>2. UNCHANGED <<now, entries, handoffs, unparking>>
  BY DEF FsAttempt, FsBegin, FsSource, FsRead, FsWrite, BackOff, FsFail, give_up, vars
<1>3. \/ FsBegin(pr, o) \/ FsSource(pr, o) \/ FsRead(pr, o) \/ FsWrite(pr, o)
      \/ give_up(pr, o)
  BY DEF FsAttempt, BackOff, FsFail
<1> QED BY <1>1, <1>2, <1>3, LookMoves, ReadMoves, WriteMoves

\* A step of an attempt changes the task and the scan of its owner only.
LEMMA AttemptIsMove ==
  ASSUME TypeOK, ScanOK, Structure, NEW pr \in Proc, NEW o \in Owner, FsAttempt(pr, o)
  PROVE  \E u, v : AttemptMoves(pr, o, u, v)
BY AttemptSteps, GiveUpMoves DEF FsLooks, FsReadAt, FsWriteAt

\* The rest of what an attempt leaves alone.
LEMMA MovesOne ==
  ASSUME TypeOK, ScanOK, NEW pr \in Proc, NEW o \in Owner, NEW u, NEW v, AttemptMoves(pr, o, u, v)
  PROVE  /\ task'[pr][o] = u /\ scan'[pr][o] = v
         /\ \A qr \in Proc, w \in Owner :
              qr # pr \/ w # o => task'[qr][w] = task[qr][w] /\ scan'[qr][w] = scan[qr][w]
         /\ scan' \in [Proc -> [Owner -> Scan]]
<1>1. /\ task' = [task EXCEPT ![pr][o] = u] /\ scan' = [scan EXCEPT ![pr][o] = v]
      /\ v \in Scan
  BY DEF AttemptMoves
<1>2. task \in [Proc -> [Owner -> Task]] /\ scan \in [Proc -> [Owner -> Scan]]
  BY DEF TypeOK, ScanOK
<1>3. /\ task'[pr][o] = u
      /\ \A qr \in Proc, w \in Owner : qr # pr \/ w # o => task'[qr][w] = task[qr][w]
  BY <1>1, <1>2, TaskSet
<1> QED BY <1>1, <1>2, <1>3

\* Every step keeps the types,
LEMMA FsTypeStep ==
  ASSUME TypeOK, ScanOK, Structure, [FsNext]_fsvars
  PROVE  TypeOK'
<1>1. CASE Outside
  BY <1>1, TypeStep DEF Outside
<1>2. ASSUME NEW pr \in Proc, NEW o \in Owner, FsAttempt(pr, o) PROVE TypeOK'
  <2>1. UNCHANGED <<now, entries, handoffs, unparking>>
    BY <1>2, AttemptSteps
  <2>2. task' \in [Proc -> [Owner -> Task]]
    <3>1. PICK u, v : AttemptMoves(pr, o, u, v)
      BY <1>2, AttemptIsMove
    <3>2. task' = [task EXCEPT ![pr][o] = u] /\ u \in Task
      BY <3>1 DEF AttemptMoves
    <3> QED BY <3>2 DEF TypeOK
  <2>3. tokens' \in [Path -> Token]
    <3>1. ASSUME NEW p \in Path, NEW stamp, NEW u, NEW v, FsWriteAt(pr, o, p, stamp, u, v)
          PROVE  tokens' \in [Path -> Token]
      <4>1. PICK t, n, sb :
              /\ t = task[pr][o] /\ n = stamp + Skew[pr] /\ sb = stale_before_at(pr, stamp)
              /\ tokens' = [tokens EXCEPT ![p] = with_holder(@, o, t.lease, t.req[p], n, sb, t.source)]
        BY <3>1 DEF FsWriteAt
      <4>2. t.lease \in Lease /\ t \in TaskRecord /\ n \in Int
        BY <1>2, <3>1, <4>1, AttemptSteps, TaskLease, SkewAssumption DEF FsWriteAt
      <4>3. t.req[p] \in Kind
        <5>1. p \in lock_paths(t.req)
          BY <3>1, <4>1 DEF FsWriteAt, IsFirst, ScanOK
        <5> QED BY <4>2, <5>1 DEF lock_paths, TaskRecord, Coverage
      <4>4. with_holder(tokens[p], o, t.lease, t.req[p], n, sb, t.source) \in Token
        <5>1. tokens[p] \in Token
          BY DEF TypeOK
        <5> QED BY <4>2, <4>3, <5>1, WithHolderType
      <4> QED BY <4>1, <4>4 DEF TypeOK
    <3> QED BY <1>2, <3>1, AttemptSteps DEF FsLooks, FsReadAt, give_up, TypeOK
  <2> QED BY <2>1, <2>2, <2>3 DEF TypeOK
<1> QED BY <1>1, <1>2, FsSteps

\* the relation of the operations in flight to the registries,
LEMMA FsStructureStep ==
  ASSUME TypeOK, TypeOK', ScanOK, Structure, [FsNext]_fsvars
  PROVE  Structure'
<1>1. CASE Outside
  BY <1>1, StructureStep DEF Outside
<1>2. ASSUME NEW pr \in Proc, NEW o \in Owner, FsAttempt(pr, o) PROVE Structure'
  <2>1. PICK u, v : AttemptMoves(pr, o, u, v)
    BY <1>2, AttemptIsMove
  <2>2. now' = now /\ entries' = entries /\ handoffs' = handoffs /\ task[pr][o].op = "acquire"
    BY <1>2, AttemptSteps
  <2>3. task[pr][o].started <= now /\ now \in Nat
    BY DEF Structure, PastConfirmations, TypeOK
  <2>4. Idle.op = "idle" /\ Idle.started = 0
    BY DEF Idle
  <2>5. /\ task' = [task EXCEPT ![pr][o] = u]
        /\ \/ u = Idle
           \/ /\ u.op \in {"acquire", "publish", "undo"} /\ u.lease = task[pr][o].lease
              /\ u.source = task[pr][o].source /\ u.started = task[pr][o].started
    BY <2>1 DEF AttemptMoves
  <2>6. u.op \notin {"refresh", "release"} /\ u.started <= now
    BY <2>3, <2>4, <2>5
  <2>7. EntriesKept
    BY <2>2 DEF EntriesKept
  <2>8. Winding
    BY <2>2, <2>4, <2>5, <2>6, <2>7, WindingOne
  <2> QED BY <2>8, StructureWinding
<1> QED BY <1>1, <1>2, FsSteps

\* and the place where each attempt is.
LEMMA ScanStep ==
  ASSUME TypeOK, TypeOK', ScanOK, Structure, [FsNext]_fsvars
  PROVE  ScanOK'
<1> USE DEF ScanOK
<1>n. NoScan.phase = "none" /\ now \in Nat /\ now' \in Nat
  BY DEF NoScan, TypeOK
<1>1. CASE Outside
  <2>1. LeftAlone /\ now <= now' /\ scan' \in [Proc -> [Owner -> Scan]]
    BY <1>1, OutsideLeaves
  <2>2. ASSUME NEW pr \in Proc, NEW o \in Owner, scan'[pr][o].phase # "none"
        PROVE  /\ scan'[pr][o] = scan[pr][o] /\ task'[pr][o] = task[pr][o]
               /\ scan[pr][o].clock <= now'
    <3>1. scan'[pr][o] = scan[pr][o] /\ task'[pr][o] = task[pr][o]
      BY <1>n, <2>1, <2>2 DEF LeftAlone
    <3>2. scan[pr][o].clock \in Nat /\ scan[pr][o].clock <= now
      BY <2>2, <3>1 DEF Scan
    <3> QED BY <1>n, <2>1, <3>1, <3>2
  <2>3. ASSUME NEW pr \in Proc, NEW o \in Owner, scan'[pr][o].phase = "none"
        PROVE  scan'[pr][o] = NoScan
    BY <2>1, <2>3 DEF LeftAlone
  <2> QED BY <2>1, <2>2, <2>3
<1>2. ASSUME NEW pr \in Proc, NEW o \in Owner, FsAttempt(pr, o) PROVE ScanOK'
  <2>1. PICK u, v : AttemptMoves(pr, o, u, v)
    BY <1>2, AttemptIsMove
  <2>2. now' = now
    BY <1>2, AttemptSteps
  <2>3. /\ task'[pr][o] = u /\ scan'[pr][o] = v
        /\ \A qr \in Proc, w \in Owner :
             qr # pr \/ w # o => task'[qr][w] = task[qr][w] /\ scan'[qr][w] = scan[qr][w]
        /\ scan' \in [Proc -> [Owner -> Scan]]
    BY <2>1, MovesOne
  <2>4. /\ v.phase # "none" =>
             /\ u.op = "acquire" /\ u.started <= v.clock /\ v.clock <= now
             /\ v.todo \subseteq lock_paths(u.req)
        /\ v.phase = "none" => v = NoScan
        /\ v.phase = "source" => v.reads = {}
    <3>1. Idle.op = "idle"
      BY DEF Idle
    <3> QED BY <2>1, <3>1 DEF AttemptMoves
  <2> QED BY <2>2, <2>3, <2>4
<1> QED BY <1>1, <1>2, FsSteps

-----------------------------------------------------------------------------
(* Stakes *)

\* A stake was confirmed in the past, and not long ago.
LEMMA StakeTime ==
  ASSUME TypeOK, Structure, NEW o \in Owner, NEW l \in Lease, NEW p \in Path, NEW k, NEW pr \in Proc,
         NEW c, Stake(o, l, p, k, pr, c)
  PROVE  c \in 0 .. now /\ c \in Nat /\ now \in Nat /\ now - c < Validity
<1>1. CASE Claim(o, l, p, k, pr, c)
  BY <1>1, ClaimTime
<1>2. CASE Pending(o, l, p, k, pr, c)
  BY <1>2, TaskLease DEF Pending, Structure, PastConfirmations, TypeOK
<1> QED BY <1>1, <1>2 DEF Stake

\* A stake that another process's clock looks at is live for it.
LEMMA StakeIsLive ==
  ASSUME TypeOK, Structure, NEW o \in Owner, NEW l \in Lease, NEW p \in Path, NEW k, NEW pr \in Proc,
         NEW c, Stake(o, l, p, k, pr, c), NEW qr \in Proc, NEW s \in Nat, s <= now
  PROVE  /\ c + Skew[pr] \in Int /\ 0 <= c + Skew[pr]
         /\ stale_before_at(qr, s) \in Int /\ stale_before_at(qr, s) <= c + Skew[pr]
BY StakeTime, FreshIsLive

\* The lease of a pending holder is in nobody's registry and is no source.
LEMMA PendingLease ==
  ASSUME TypeOK, Structure, NEW pr \in Proc, NEW o \in Owner, task[pr][o].op = "acquire",
         NEW qr \in Proc, NEW w \in Owner
  PROVE  /\ task[qr][w].op \in {"publish", "undo", "refresh", "release"} => task[qr][w].lease # task[pr][o].lease
         /\ IsAcquiring(qr, w) => task[qr][w].source # task[pr][o].lease
         /\ IsAcquiring(qr, w) /\ task[qr][w].lease = task[pr][o].lease => qr = pr /\ w = o
<1>1. IsAcquiring(pr, o) /\ task[pr][o].lease \in Lease /\ ~Published(task[pr][o].lease)
  BY TaskLease DEF IsAcquiring, Structure, UnpublishedWhileAcquiring
<1>2. IsAcquiring(qr, w) /\ task[qr][w].lease = task[pr][o].lease => qr = pr /\ w = o
  BY <1>1 DEF Structure, OneAcquisitionPerLease
<1>3. task[qr][w].op \in {"refresh", "release"} => task[qr][w].lease # task[pr][o].lease
  BY <1>1, RequestAssumption DEF Structure, HeldWhileInFlight, registry, Published
<1>4. IsAcquiring(qr, w) => task[qr][w].source # task[pr][o].lease
  BY <1>1 DEF Structure, SourcesTransferable, Transferable
<1> QED BY <1>2, <1>3, <1>4 DEF IsAcquiring

\* What the other operations do to the store they do to other holders.
LEMMA PendingHolders ==
  ASSUME TypeOK, Structure, NEW pr \in Proc, NEW o \in Owner, NEW p \in Path, NEW k, NEW c,
         Pending(o, task[pr][o].lease, p, k, pr, c),
         HolderIn(tokens[p], o, task[pr][o].lease, k, c + Skew[pr]),
         NEW qr \in Proc, NEW w \in Owner, NEW ok,
         RefreshPath(qr, w, ok) \/ UndoPath(qr, w, ok) \/ ReleasePath(qr, w, ok)
  PROVE  HolderIn(tokens'[p], o, task[pr][o].lease, k, c + Skew[pr])
<1>1. PICK l \in Lease : l = task[pr][o].lease /\ Stake(o, l, p, k, pr, c) /\ task[pr][o].op = "acquire"
  BY TaskLease DEF Pending, Stake
<1>2. PICK time : time = c + Skew[pr]
  OBVIOUS
<1>o. task[qr][w].op \in {"refresh", "undo", "release"}
  BY DEF RefreshPath, UndoPath, ReleasePath
<1>i. task[qr][w].lease # l
  BY <1>1, <1>o, PendingLease
<1>3. PICK t, i, n : t = task[qr][w] /\ i = t.lease /\ i # l /\ n = t.started + Skew[qr]
  BY <1>i
<1>4. tokens \in [Path -> Token] /\ tokens[p] \in Token /\ HolderIn(tokens[p], o, l, k, time)
  BY <1>1, <1>2 DEF TypeOK
<1>5. PICK a, b : a = stale_before_at(qr, t.started) /\ b = now_ns(qr) - TTL
  OBVIOUS
<1>6. time \in Int /\ 0 <= time /\ a \in Int /\ a <= time /\ b \in Int /\ b <= time
  <2>1. now \in Nat /\ now <= now /\ t.started \in Nat /\ t.started <= now
    BY <1>3, TaskLease DEF Structure, PastConfirmations, TypeOK
  <2>2. b = stale_before_at(qr, now)
    BY <1>5, <2>1, SkewAssumption, TimeAssumption DEF stale_before_at, now_ns
  <2>3. /\ c + Skew[pr] \in Int /\ 0 <= c + Skew[pr]
        /\ stale_before_at(qr, now) \in Int /\ stale_before_at(qr, now) <= c + Skew[pr]
    BY <1>1, <2>1, StakeIsLive
  <2>4. /\ stale_before_at(qr, t.started) \in Int /\ stale_before_at(qr, t.started) <= c + Skew[pr]
    BY <1>1, <2>1, StakeIsLive
  <2> QED BY <1>2, <1>5, <2>2, <2>3, <2>4
<1>7. \/ tokens'[p] = tokens[p]
      \/ tokens'[p] = mutate_holder_record(tokens[p], w, i, n, a, FALSE)
      \/ tokens'[p] = mutate_holder_record(tokens[p], w, i, now_ns(qr), 0, TRUE)
      \/ \E q \in Path : tokens'[p] = replace_holder(tokens[p], w, i, t.replaced[q], b)
  <2>1. CASE RefreshPath(qr, w, ok)
    <3>1. \/ tokens'[p] = tokens[p]
          \/ tokens'[p] = mutate_holder_record(tokens[p], w, task[qr][w].lease, task[qr][w].started + Skew[qr],
                                               stale_before_at(qr, task[qr][w].started), FALSE)
      BY <1>4, <2>1 DEF RefreshPath
    <3> QED BY <1>3, <1>5, <3>1
  <2>2. CASE ReleasePath(qr, w, ok)
    <3>1. \/ tokens'[p] = tokens[p]
          \/ tokens'[p] = mutate_holder_record(tokens[p], w, task[qr][w].lease, now_ns(qr), 0, TRUE)
      BY <1>4, <2>2 DEF ReleasePath
    <3> QED BY <1>3, <3>1
  <2>3. CASE UndoPath(qr, w, ok)
    <3>1. PICK q \in Path :
            tokens' = IF ~ok THEN tokens
                      ELSE [tokens EXCEPT ![q] =
                              IF task[qr][w].replaced[q] # {}
                              THEN replace_holder(@, w, task[qr][w].lease, task[qr][w].replaced[q], now_ns(qr) - TTL)
                              ELSE mutate_holder_record(@, w, task[qr][w].lease, now_ns(qr), 0, TRUE)]
      BY <2>3 DEF UndoPath
    <3>2. tokens' = IF ~ok THEN tokens
                    ELSE [tokens EXCEPT ![q] =
                            IF t.replaced[q] # {}
                            THEN replace_holder(@, w, i, t.replaced[q], b)
                            ELSE mutate_holder_record(@, w, i, now_ns(qr), 0, TRUE)]
      BY <1>3, <1>5, <3>1
    <3> QED BY <1>4, <3>2
  <2> QED BY <2>1, <2>2, <2>3
<1>8. HolderIn(mutate_holder_record(tokens[p], w, i, n, a, FALSE), o, l, k, time)
  BY <1>3, <1>4, <1>6, MutateKeeps
<1>9. HolderIn(mutate_holder_record(tokens[p], w, i, now_ns(qr), 0, TRUE), o, l, k, time)
  BY <1>3, <1>4, <1>6, DropKeeps
<1>10. \A q \in Path : HolderIn(replace_holder(tokens[p], w, i, t.replaced[q], b), o, l, k, time)
  BY <1>3, <1>4, <1>6, ReplaceKeeps
<1>11. HolderIn(tokens'[p], o, l, k, time)
  BY <1>4, <1>7, <1>8, <1>9, <1>10
<1> QED BY <1>1, <1>2, <1>11

-----------------------------------------------------------------------------
(* Where stakes come from *)

\* Outside the attempts no stake arises but a later claim of a refreshed lease.
LEMMA OutsideStakes ==
  ASSUME TypeOK, TypeOK', ScanOK, Structure, Outside,
         NEW o \in Owner, NEW l \in Lease, NEW p \in Path, NEW k \in Kind, NEW pr \in Proc, NEW c \in Nat
  PROVE  /\ Claim(o, l, p, k, pr, c)' => Claim(o, l, p, k, pr, c) \/ Refreshed(o, l, p, k, pr, c)
         /\ Pending(o, l, p, k, pr, c)' =>
              /\ Pending(o, l, p, k, pr, c)
              /\ task'[pr][o] = task[pr][o] /\ scan'[pr][o] = scan[pr][o]
<1>1. ASSUME Claim(o, l, p, k, pr, c)' PROVE Claim(o, l, p, k, pr, c) \/ Refreshed(o, l, p, k, pr, c)
  <2>1. OldClaims \/ \E qr \in Proc, w \in Owner, ok \in Outcome : RefreshPath(qr, w, ok)
    BY ClaimsStep, OutsideLeaves DEF Outside
  <2> QED BY <1>1, <2>1, RefreshClaims DEF OldClaims
<1>2. ASSUME Pending(o, l, p, k, pr, c)'
      PROVE  /\ Pending(o, l, p, k, pr, c)
             /\ task'[pr][o] = task[pr][o] /\ scan'[pr][o] = scan[pr][o]
  <2>1. scan'[pr][o] # NoScan
    BY <1>2 DEF Pending, written, NoScan
  <2>2. task'[pr][o] = task[pr][o] /\ scan'[pr][o] = scan[pr][o] /\ now <= now'
    BY <2>1, OutsideLeaves DEF LeftAlone
  <2>3. now - c < Validity
    <3>1. now \in Nat /\ now' \in Nat /\ Validity \in Nat /\ now' - c < Validity
      BY <1>2, TimeAssumption DEF TypeOK, Pending
    <3>2. \A a, b, d, v \in Nat : a <= b /\ b - d < v => a - d < v
      OBVIOUS
    <3> QED BY <2>2, <3>1, <3>2
  <2> QED BY <1>2, <2>2, <2>3 DEF Pending, written
<1> QED BY <1>1, <1>2

\* The holder that an attempt writes in this step.
Writes(pr, o, p) == \E stamp, u, v : FsWriteAt(pr, o, p, stamp, u, v)

\* A step of an attempt turns pending holders into claims, or writes one holder.
LEMMA AttemptStakes ==
  ASSUME TypeOK, TypeOK', ScanOK, Structure, NEW xr \in Proc, NEW x \in Owner, FsAttempt(xr, x),
         NEW o \in Owner, NEW l \in Lease, NEW p \in Path, NEW k \in Kind, NEW pr \in Proc, NEW c \in Nat
  PROVE  Stake(o, l, p, k, pr, c)' =>
           \/ Stake(o, l, p, k, pr, c)
           \/ /\ Writes(xr, x, p) /\ pr = xr /\ o = x /\ l = task[xr][x].lease
              /\ k = task[xr][x].req[p] /\ c = task[xr][x].started
<1>1. task[xr][x].op = "acquire" /\ now' = now /\ entries' = entries
  BY AttemptSteps
<1>2. PICK u, v : AttemptMoves(xr, x, u, v)
  BY AttemptIsMove
<1>3. /\ task'[xr][x] = u /\ scan'[xr][x] = v
      /\ \A qr \in Proc, w \in Owner :
           qr # xr \/ w # x => task'[qr][w] = task[qr][w] /\ scan'[qr][w] = scan[qr][w]
  BY <1>2, MovesOne
<1>4. u.op \notin {"refresh", "release"}
  BY <1>2 DEF AttemptMoves, Idle
<1>5. CASE pr # xr \/ o # x
  <2>1. task'[pr][o] = task[pr][o] /\ scan'[pr][o] = scan[pr][o]
    BY <1>3, <1>5
  <2>2. Claim(o, l, p, k, pr, c)' => Claim(o, l, p, k, pr, c)
    BY <1>1, <2>1 DEF Claim, EntryClaim, RefreshClaim, PublishClaim, Usable, Published
  <2>3. Pending(o, l, p, k, pr, c)' => Pending(o, l, p, k, pr, c)
    BY <1>1, <2>1 DEF Pending, written
  <2> QED BY <2>2, <2>3 DEF Stake
<1>6. CASE pr = xr /\ o = x
  <2>1. EntryClaim(o, l, p, k, pr, c)' => EntryClaim(o, l, p, k, pr, c)
    BY <1>1 DEF EntryClaim, Usable, Published
  <2>2. ~RefreshClaim(o, l, p, k, pr, c)'
    BY <1>3, <1>4, <1>6 DEF RefreshClaim
  <2>3. ASSUME now - c < Validity, u.op \in {"publish", "acquire"}, u.lease = l, u.req[p] = k, c = u.started,
               p \in lock_paths(u.req), u.op = "acquire" => p \in written(pr, o)'
        PROVE  \/ Pending(o, l, p, k, pr, c)
               \/ /\ Writes(xr, x, p) /\ l = task[xr][x].lease
                  /\ k = task[xr][x].req[p] /\ c = task[xr][x].started
    <3> DEFINE t == task[xr][x]
               s == scan[xr][x]
    <3>1. u.lease = t.lease /\ u.req = t.req /\ u.started = t.started
      BY <1>2, <2>3 DEF AttemptMoves, Idle
    <3>2. CASE p \in written(pr, o)
      BY <1>1, <1>6, <2>3, <3>1, <3>2 DEF Pending
    <3>3. ASSUME NEW z, FsLooks(xr, x, z) PROVE FALSE
      <4>1. v = z /\ u = t
        BY <1>3, <3>3, MovesOne DEF FsLooks
      <4>2. v.phase = "source" \/ (v.phase = "check" /\ v.todo = lock_paths(u.req))
        BY <3>3, <4>1 DEF FsLooks
      <4>3. p \in written(pr, o)'
        BY <1>1, <2>3, <4>1
      <4> QED BY <1>3, <1>6, <4>2, <4>3 DEF written
    <3>4. ASSUME NEW q \in Path, NEW r \in Path, NEW y, NEW z, FsReadAt(xr, x, q, r, y, z)
          PROVE  p \in written(pr, o)
      <4>1. v = z /\ u = y
        BY <1>3, <3>4, MovesOne DEF FsReadAt
      <4>2. CASE u.op = "publish"
        <5>1. s.phase = "verify"
          BY <3>4, <4>1, <4>2 DEF FsReadAt
        <5> QED BY <1>6, <2>3, <3>1, <5>1 DEF written
      <4>3. CASE u.op = "acquire"
        <5>1. p \in written(pr, o)' /\ s \in Scan
          BY <2>3, <4>3 DEF ScanOK
        <5>2. CASE s.phase = "verify"
          BY <1>6, <2>3, <3>1, <5>2 DEF written
        <5>3. CASE s.phase = "check"
          <6>1. v.phase = "check" /\ v.todo = s.todo
            BY <3>4, <4>1, <5>1, <5>3 DEF FsReadAt, Scan
          <6> QED BY <1>3, <1>6, <3>1, <5>1, <5>3, <6>1 DEF written
        <5> QED BY <3>4, <5>2, <5>3 DEF FsReadAt
      <4> QED BY <2>3, <4>2, <4>3
    <3>5. ASSUME NEW q \in Path, NEW stamp, NEW y, NEW z, FsWriteAt(xr, x, q, stamp, y, z)
          PROVE  p \in written(pr, o) \/ p = q
      <4>1. v = z /\ u = y
        BY <1>3, <3>5, MovesOne DEF FsWriteAt
      <4>2. s.phase = "check" /\ s.todo \subseteq Path /\ u.op = "acquire"
        BY <3>5, <4>1 DEF FsWriteAt, ScanOK, Scan
      <4>3. CASE s.todo = {q}
        BY <1>6, <2>3, <3>1, <4>2, <4>3 DEF written
      <4>4. CASE s.todo # {q}
        <5>1. v = phase_for("check", t.req, s.todo \ {q}) /\ s.todo \ {q} \in SUBSET Path
          BY <3>5, <4>1, <4>2, <4>4 DEF FsWriteAt
        <5>2. v.phase = "check" /\ v.todo = s.todo \ {q}
          BY <5>1, PhaseType
        <5>3. p \in written(pr, o)'
          BY <2>3, <4>2
        <5> QED BY <1>3, <1>6, <3>1, <4>2, <5>2, <5>3 DEF written
      <4> QED BY <4>3, <4>4
    <3>6. ~give_up(xr, x)
      <4>1. ASSUME give_up(xr, x) PROVE u = Idle \/ u.op = "undo"
        BY <1>1, <1>3, <4>1, GiveUpMoves, MovesOne
      <4> QED BY <2>3, <4>1 DEF Idle
    <3>7. \/ \E z : FsLooks(xr, x, z)
          \/ \E q \in Path, r \in Path : \E y, z : FsReadAt(xr, x, q, r, y, z)
          \/ \E q \in Path : \E stamp, y, z : FsWriteAt(xr, x, q, stamp, y, z)
      BY <3>6, AttemptSteps
    <3>8. CASE p \notin written(pr, o)
      <4>1. PICK q \in Path : \E stamp, y, z : FsWriteAt(xr, x, q, stamp, y, z)
        BY <3>3, <3>4, <3>7, <3>8
      <4>2. p = q
        BY <3>5, <3>8, <4>1
      <4> QED BY <2>3, <3>1, <4>1, <4>2 DEF Writes
    <3> QED BY <3>2, <3>8
  <2>4. ASSUME PublishClaim(o, l, p, k, pr, c)', now - c < Validity
        PROVE  \/ Pending(o, l, p, k, pr, c)
               \/ /\ Writes(xr, x, p) /\ l = task[xr][x].lease
                  /\ k = task[xr][x].req[p] /\ c = task[xr][x].started
    <3>1. /\ u.op = "publish" /\ u.lease = l /\ u.req[p] = k /\ c = u.started
          /\ p \in lock_paths(u.req)
      BY <1>3, <1>6, <2>4 DEF PublishClaim, lock_paths
    <3> QED BY <2>3, <2>4, <3>1
  <2>5. ASSUME Pending(o, l, p, k, pr, c)'
        PROVE  \/ Pending(o, l, p, k, pr, c)
               \/ /\ Writes(xr, x, p) /\ l = task[xr][x].lease
                  /\ k = task[xr][x].req[p] /\ c = task[xr][x].started
    <3>1. /\ u.op = "acquire" /\ u.lease = l /\ u.req[p] = k /\ c = u.started
          /\ p \in written(pr, o)' /\ now - c < Validity
      BY <1>1, <1>3, <1>6, <2>5 DEF Pending
    <3>2. p \in lock_paths(u.req)
      BY <1>3, <1>6, <3>1 DEF written
    <3> QED BY <2>3, <3>1, <3>2
  <2>6. Claim(o, l, p, k, pr, c)' => now - c < Validity
    BY <1>1 DEF Claim
  <2> QED BY <1>6, <2>1, <2>2, <2>4, <2>5, <2>6 DEF Stake, Claim
<1> QED BY <1>5, <1>6

-----------------------------------------------------------------------------
(* Every stake stays grounded *)

\* A write keeps the holders behind stakes, which are other holders.
LEMMA WriteHolders ==
  ASSUME TypeOK, ScanOK, Structure, NEW xr \in Proc, NEW x \in Owner, task[xr][x].op = "acquire",
         NEW q \in Path, NEW stamp, NEW u, NEW v, FsWriteAt(xr, x, q, stamp, u, v),
         NEW o \in Owner, NEW l \in Lease, NEW p \in Path, NEW k, NEW pr \in Proc, NEW c,
         Stake(o, l, p, k, pr, c), HolderIn(tokens[p], o, l, k, c + Skew[pr])
  PROVE  HolderIn(tokens'[p], o, l, k, c + Skew[pr])
<1>1. PICK t, sb, n, time :
        /\ t = task[xr][x] /\ sb = stale_before_at(xr, stamp) /\ n = stamp + Skew[xr]
        /\ time = c + Skew[pr]
        /\ tokens' = [tokens EXCEPT ![q] = with_holder(@, x, t.lease, t.req[q], n, sb, t.source)]
        /\ ~conflict_at(tokens, q, x, sb) /\ stamp \in Nat /\ stamp <= now
  BY DEF FsWriteAt
<1>2. time \in Int /\ sb \in Int /\ sb <= time
  BY <1>1, StakeIsLive
<1>3. tokens \in [Path -> Token] /\ tokens[p] \in Token /\ HolderIn(tokens[p], o, l, k, time)
  BY <1>1 DEF TypeOK
<1>4. CASE p # q
  BY <1>1, <1>3, <1>4
<1>5. CASE p = q
  <2>1. t.source # l
    <3>1. IsAcquiring(xr, x)
      BY DEF IsAcquiring
    <3>2. CASE Claim(o, l, p, k, pr, c)
      BY <1>1, <3>1, <3>2, ClaimedLease
    <3>3. CASE Pending(o, l, p, k, pr, c)
      BY <1>1, <3>1, <3>3, PendingLease DEF Pending
    <3> QED BY <3>2, <3>3 DEF Stake
  <2>2. live_kind(tokens[p], sb) # "None" /\ tokens[p].holders # {} /\ tokens[p].owner = o
    BY <1>2, <1>3, HolderIsLive DEF HolderIn
  <2>3. o = x
    BY <1>1, <1>5, <2>2 DEF conflict_at, foreign
  <2>4. HolderIn(with_holder(tokens[p], o, t.lease, t.req[q], n, sb, t.source), o, l, k, time)
    BY <1>2, <1>3, <2>1, WithHolderKeeps
  <2>5. tokens'[p] = with_holder(tokens[p], o, t.lease, t.req[q], n, sb, t.source)
    BY <1>1, <1>3, <1>5, <2>3
  <2> QED BY <1>1, <2>4, <2>5
<1> QED BY <1>4, <1>5

\* The holder an attempt writes is in the store, no older than the attempt.
LEMMA WriteAdds ==
  ASSUME TypeOK, ScanOK, NEW xr \in Proc, NEW x \in Owner, task[xr][x].op = "acquire",
         NEW q \in Path, Writes(xr, x, q)
  PROVE  LET t == task[xr][x] IN
         HolderIn(tokens'[q], x, t.lease, t.req[q], t.started + Skew[xr])
<1>1. PICK stamp, u, v : FsWriteAt(xr, x, q, stamp, u, v)
  BY DEF Writes
<1>2. PICK t, sb, n :
        /\ t = task[xr][x] /\ sb = stale_before_at(xr, stamp) /\ n = stamp + Skew[xr]
        /\ tokens' = [tokens EXCEPT ![q] = with_holder(@, x, t.lease, t.req[q], n, sb, t.source)]
        /\ stamp \in Nat /\ scan[xr][x].clock <= stamp /\ scan[xr][x].phase = "check"
  BY <1>1 DEF FsWriteAt
<1>3. t.started + Skew[xr] <= n
  <2>1. t.started \in Nat /\ scan[xr][x].clock \in Nat /\ t.started <= scan[xr][x].clock /\ Skew[xr] \in Nat
    BY <1>2, TaskLease, SkewAssumption DEF ScanOK, Scan
  <2> QED BY <1>2, <2>1
<1>4. tokens \in [Path -> Token] /\ tokens[q] \in Token
  BY DEF TypeOK
<1>5. PICK h, new : /\ h = [id |-> t.lease, kind |-> t.req[q], time |-> n]
                    /\ new = with_holder(tokens[q], x, t.lease, t.req[q], n, sb, t.source)
  OBVIOUS
<1>6. h \in new.holders /\ new.owner = x
  BY <1>4, <1>5 DEF with_holder, add_holder, held, Token
<1>7. HolderIn(new, x, t.lease, t.req[q], t.started + Skew[xr])
  BY <1>3, <1>5, <1>6 DEF HolderIn
<1>8. tokens'[q] = new
  BY <1>2, <1>4, <1>5
<1> QED BY <1>2, <1>7, <1>8

\* Every step leaves the holder behind a stake in the store.
LEMMA FsGroundedStep ==
  ASSUME TypeOK, TypeOK', ScanOK, Structure, Structure', StakesGrounded, [FsNext]_fsvars
  PROVE  StakesGrounded'
<1> SUFFICES ASSUME NEW o \in Owner, NEW l \in Lease, NEW p \in Path, NEW k \in Kind,
                    NEW pr \in Proc, NEW c \in Nat, Stake(o, l, p, k, pr, c)'
             PROVE  HolderIn(tokens'[p], o, l, k, c + Skew[pr])
  <2>1. \A c \in 0 .. now' : c \in Nat
    BY DEF TypeOK
  <2> QED BY <2>1 DEF StakesGrounded
<1>1. Stake(o, l, p, k, pr, c) => HolderIn(tokens[p], o, l, k, c + Skew[pr])
  BY StakeTime DEF StakesGrounded
<1>2. CASE Outside
  <2>1. Grounded
    BY DEF StakesGrounded, Stake, Grounded
  <2>2. Grounded'
    BY <1>2, <2>1, GroundedStep DEF Outside
  <2>3. CASE Claim(o, l, p, k, pr, c)'
    <3>1. c \in 0 .. now'
      <4>1. c = entries'[l].conf[p] \/ c = task'[pr][o].started
        BY <2>3 DEF Claim, EntryClaim, RefreshClaim, PublishClaim
      <4>2. entries'[l].conf[p] <= now' /\ task'[pr][o].started <= now' /\ now' \in Nat
        BY DEF Structure, PastConfirmations, TypeOK
      <4> QED BY <4>1, <4>2
    <3> QED BY <2>2, <2>3, <3>1 DEF Grounded
  <2>4. CASE Pending(o, l, p, k, pr, c)'
    <3>1. Pending(o, l, p, k, pr, c) /\ l = task[pr][o].lease
      BY <1>2, <2>4, OutsideStakes DEF Pending
    <3>2. HolderIn(tokens[p], o, l, k, c + Skew[pr])
      BY <1>1, <3>1 DEF Stake
    <3>3. \/ tokens' = tokens
          \/ \E qr \in Proc, w \in Owner, ok \in Outcome :
               RefreshPath(qr, w, ok) \/ UndoPath(qr, w, ok) \/ ReleasePath(qr, w, ok)
      BY <1>2, TokensStep, OutsideLeaves DEF Outside
    <3> QED BY <3>1, <3>2, <3>3, PendingHolders
  <2> QED BY <2>3, <2>4 DEF Stake
<1>3. ASSUME NEW xr \in Proc, NEW x \in Owner, FsAttempt(xr, x)
      PROVE  HolderIn(tokens'[p], o, l, k, c + Skew[pr])
  <2>1. task[xr][x].op = "acquire"
    BY <1>3, AttemptSteps
  <2>2. CASE Stake(o, l, p, k, pr, c)
    <3>1. \/ tokens' = tokens
          \/ \E q \in Path : \E stamp, u, v : FsWriteAt(xr, x, q, stamp, u, v)
      BY <1>3, AttemptSteps DEF FsLooks, FsReadAt, give_up
    <3> QED BY <1>1, <2>1, <2>2, <3>1, WriteHolders
  <2>3. CASE /\ Writes(xr, x, p) /\ pr = xr /\ o = x /\ l = task[xr][x].lease
             /\ k = task[xr][x].req[p] /\ c = task[xr][x].started
    BY <2>1, <2>3, WriteAdds
  <2> QED BY <1>3, <2>2, <2>3, AttemptStakes
<1> QED BY <1>2, <1>3, FsSteps

-----------------------------------------------------------------------------
(* Of two stakes that meet one has still to look *)

\* A claim has nothing left to look at.
LEMMA ClaimLooked ==
  ASSUME TypeOK, Structure, NEW o \in Owner, NEW l \in Lease, NEW p \in Path, NEW k, NEW pr \in Proc,
         NEW c, Claim(o, l, p, k, pr, c), NEW q
  PROVE  LookedAt(o, l, p, pr, q)
BY ClaimedLease DEF LookedAt, IsAcquiring

\* Where two stakes meet, each reads the path of the other.
LEMMA MeetingIsRead ==
  ASSUME NEW p \in Path, NEW q \in Path, NEW j, NEW S, NEW r, ~Apart(p, r[p], q, j), IsFirst(p, S)
  PROVE  q \in reads_for(r, S)
<1>1. q = p \/ q \in ancestor_paths[p] \/ (r[p] = "Tree" /\ q \in below(p))
  BY DEF Apart, below
<1>2. p \in {x \in S : IsFirst(x, S)}
  BY DEF IsFirst
<1> QED BY <1>1, <1>2 DEF reads_for

\* A token that does not stop the request hides no stake that meets it.
LEMMA StopsAtStake ==
  ASSUME TypeOK, Structure, StakesGrounded, NEW xr \in Proc, NEW x \in Owner,
         NEW p \in Path, NEW k, NEW q \in Path, ~stops(q, p, xr, x),
         NEW w \in Owner, NEW m \in Lease, NEW j \in Kind, NEW qr \in Proc, NEW d,
         Stake(w, m, q, j, qr, d), w # x
  PROVE  Apart(p, k, q, j)
<1>1. PICK sb : sb = now_ns(xr) - TTL
  OBVIOUS
<1>2. now \in Nat /\ now <= now
  BY DEF TypeOK
<1>3. sb = stale_before_at(xr, now)
  BY <1>1, <1>2, SkewAssumption, TimeAssumption DEF stale_before_at, now_ns
<1>4. d + Skew[qr] \in Int /\ sb \in Int /\ sb <= d + Skew[qr]
  BY <1>2, <1>3, StakeIsLive
<1>5. HolderIn(tokens[q], w, m, j, d + Skew[qr]) /\ tokens[q] \in Token
  BY StakeTime DEF StakesGrounded, TypeOK
<1>6. /\ live_kind(tokens[q], sb) # "None"
      /\ j = "Tree" => live_kind(tokens[q], sb) = "Tree"
  BY <1>4, <1>5, HolderIsLive
<1>7. foreign(tokens[q], x)
  BY <1>5 DEF HolderIn, foreign
<1>8. q \in ancestor_paths[p] /\ j # "Tree"
  BY <1>1, <1>6, <1>7 DEF stops
<1>9. p # q /\ ~(p \in ancestor_paths[q])
  BY <1>8, PathTree
<1> QED BY <1>8, <1>9 DEF Apart

\* Outside the attempts nothing is looked at and no new stake arises.
LEMMA OutsideLooks ==
  ASSUME TypeOK, TypeOK', ScanOK, Structure, Outside,
         NEW o \in Owner, NEW l \in Lease, NEW p \in Path, NEW k \in Kind, NEW pr \in Proc, NEW c \in Nat,
         NEW q, Stake(o, l, p, k, pr, c)', LookedAt(o, l, p, pr, q)'
  PROVE  (\E d : Stake(o, l, p, k, pr, d)) /\ LookedAt(o, l, p, pr, q)
<1>1. CASE Claim(o, l, p, k, pr, c)'
  <2>1. Claim(o, l, p, k, pr, c) \/ Refreshed(o, l, p, k, pr, c)
    BY <1>1, OutsideStakes
  <2>2. Refreshed(o, l, p, k, pr, c) => \E d : Claim(o, l, p, k, pr, d)
    BY Zenon DEF Refreshed
  <2>3. PICK d : Claim(o, l, p, k, pr, d)
    BY <2>1, <2>2
  <2> QED BY <2>3, ClaimLooked DEF Stake
<1>2. CASE Pending(o, l, p, k, pr, c)'
  <2>1. Pending(o, l, p, k, pr, c) /\ task'[pr][o] = task[pr][o] /\ scan'[pr][o] = scan[pr][o]
    BY <1>2, OutsideStakes
  <2> QED BY <2>1 DEF LookedAt, Stake
<1> QED BY <1>1, <1>2 DEF Stake

\* One read looks at one path on behalf of one request, and finds no stake that meets it.
LEMMA ReadLooks ==
  ASSUME TypeOK, ScanOK, Structure, StakesGrounded,
         NEW pr \in Proc, NEW o \in Owner, NEW a \in Path, NEW b \in Path, NEW u, NEW v,
         FsReadAt(pr, o, a, b, u, v),
         NEW p \in Path, NEW q \in Path, NEW w \in Owner, NEW m \in Lease, NEW j \in Kind,
         NEW qr \in Proc, NEW d, Stake(w, m, q, j, qr, d), o # w,
         ~Apart(p, task[pr][o].req[p], q, j), p \in lock_paths(task[pr][o].req),
         NEW l, l = task[pr][o].lease, LookedAt(o, l, p, pr, q)'
  PROVE  LookedAt(o, l, p, pr, q)
<1>1. PICK t, s : t = task[pr][o] /\ s = scan[pr][o] /\ s \in Scan /\ t.op = "acquire"
  BY DEF FsReadAt, ScanOK
<1>2. /\ s.phase \in {"check", "verify"} /\ IsFirst(a, s.todo) /\ b \in s.reads
      /\ u.op = IF s.phase = "verify" /\ s.reads = {b} /\ s.todo = {a} THEN "publish" ELSE "acquire"
      /\ v = IF s.phase = "check" \/ s.reads # {b} THEN [s EXCEPT !.reads = @ \ {b}, !.clock = now]
             ELSE IF s.todo = {a} THEN NoScan
             ELSE phase_for("verify", t.req, s.todo \ {a})
  BY <1>1 DEF FsReadAt
<1>3. u.op = "acquire" => u.lease = l
  BY <1>1 DEF FsReadAt, AttemptMoves, Idle
<1>4. task'[pr][o] = u /\ scan'[pr][o] = v
  BY MovesOne DEF FsReadAt
<1>5. ~(p = a /\ q = b)
  <2>1. ~stops(b, a, pr, o)
    BY DEF FsReadAt
  <2>2. ASSUME p = a, q = b PROVE FALSE
    <3>1. ~stops(q, p, pr, o)
      BY <2>1, <2>2
    <3> QED BY <3>1, StopsAtStake
  <2> QED BY <2>2
<1>6. SUFFICES s.phase = "verify" /\ (p \notin s.todo \/ (IsFirst(p, s.todo) /\ q \notin s.reads))
  BY <1>1 DEF LookedAt
<1>7. CASE u.op = "publish"
  BY <1>2, <1>5, <1>7
<1>8. CASE u.op = "acquire"
  <2>1. v.phase = "verify" /\ (p \notin v.todo \/ (IsFirst(p, v.todo) /\ q \notin v.reads))
    BY <1>1, <1>3, <1>4, <1>8 DEF LookedAt
  <2>2. s.phase = "verify"
    BY <1>1, <1>2, <2>1 DEF Scan
  <2>3. CASE s.reads # {b}
    <3>1. v.todo = s.todo /\ v.reads = s.reads \ {b}
      BY <1>1, <1>2, <2>3 DEF Scan
    <3>2. IsFirst(p, s.todo) => p = a
      <4>1. s.todo \subseteq Path
        BY <1>1 DEF Scan
      <4>2. IsFirst(p, s.todo) => Rank[p] <= Rank[a] /\ Rank[a] <= Rank[p]
        BY <1>2 DEF IsFirst
      <4>3. Rank[p] \in Nat /\ Rank[a] \in Nat
        BY RankOrder
      <4>4. IsFirst(p, s.todo) => Rank[p] = Rank[a]
        BY <4>2, <4>3
      <4> QED BY <4>4, RankOrder
    <3> QED BY <1>5, <2>1, <2>2, <3>1, <3>2
  <2>4. CASE s.reads = {b}
    <3>1. s.todo # {a} /\ v = phase_for("verify", t.req, s.todo \ {a})
      BY <1>2, <1>8, <2>2, <2>4
    <3>2. s.todo \ {a} \in SUBSET Path
      BY <1>1 DEF Scan
    <3>3. v.todo = s.todo \ {a} /\ v.reads = reads_for(t.req, s.todo \ {a})
      BY <3>1, <3>2, PhaseType
    <3>4. ~(IsFirst(p, v.todo) /\ q \notin v.reads)
      <4>1. ~Apart(p, t.req[p], q, j)
        BY <1>1
      <4> QED BY <3>3, <4>1, MeetingIsRead
    <3>5. p \notin s.todo \/ p = a
      BY <2>1, <3>3, <3>4
    <3> QED BY <1>2, <1>5, <2>2, <2>4, <3>5
  <2> QED BY <2>3, <2>4
<1> QED BY <1>2, <1>7, <1>8

\* An attempt that has just written has looked at nothing on behalf of its holders.
LEMMA WriteLooks ==
  ASSUME TypeOK, ScanOK, Structure, NEW pr \in Proc, NEW o \in Owner, NEW a \in Path, Writes(pr, o, a),
         NEW p \in Path, NEW q \in Path, NEW j, ~Apart(p, task[pr][o].req[p], q, j),
         p \in lock_paths(task[pr][o].req), NEW l, l = task[pr][o].lease
  PROVE  ~LookedAt(o, l, p, pr, q)'
<1>1. PICK stamp, u, v : FsWriteAt(pr, o, a, stamp, u, v)
  BY DEF Writes
<1>2. PICK t, s : t = task[pr][o] /\ s = scan[pr][o] /\ s \in Scan
  BY DEF ScanOK
<1>3. /\ u.op = "acquire"
      /\ v = IF s.todo = {a} THEN phase_for("verify", t.req, lock_paths(t.req))
             ELSE phase_for("check", t.req, s.todo \ {a})
  BY <1>1, <1>2 DEF FsWriteAt
<1>4. u.lease = l
  BY <1>1, <1>2, <1>3 DEF FsWriteAt, AttemptMoves, Idle
<1>5. task'[pr][o] = u /\ scan'[pr][o] = v
  BY <1>1, MovesOne DEF FsWriteAt
<1>6. lock_paths(t.req) \in SUBSET Path /\ s.todo \ {a} \in SUBSET Path
  BY <1>2 DEF lock_paths, Scan
<1>7. \/ v.phase = "check"
      \/ v.phase = "verify" /\ v.todo = lock_paths(t.req) /\ v.reads = reads_for(t.req, lock_paths(t.req))
  BY <1>3, <1>6, PhaseType
<1>8. ~(IsFirst(p, lock_paths(t.req)) /\ q \notin reads_for(t.req, lock_paths(t.req)))
  <2>1. ~Apart(p, t.req[p], q, j)
    BY <1>2
  <2> QED BY <2>1, MeetingIsRead
<1> QED BY <1>2, <1>3, <1>4, <1>5, <1>7, <1>8 DEF LookedAt

\* A step of an attempt adds no stake that has looked at one it meets.
LEMMA AttemptLooks ==
  ASSUME TypeOK, TypeOK', ScanOK, Structure, StakesGrounded,
         NEW xr \in Proc, NEW x \in Owner, FsAttempt(xr, x),
         NEW o \in Owner, NEW l \in Lease, NEW p \in Path, NEW k \in Kind, NEW pr \in Proc, NEW c \in Nat,
         NEW w \in Owner, NEW m \in Lease, NEW q \in Path, NEW j \in Kind, NEW qr \in Proc, NEW d \in Nat,
         Stake(o, l, p, k, pr, c)', Stake(w, m, q, j, qr, d)', o # w, ~Apart(p, k, q, j),
         LookedAt(o, l, p, pr, q)'
  PROVE  Stake(o, l, p, k, pr, c) /\ LookedAt(o, l, p, pr, q)
<1>k. k # "None"
  BY DEF Kind
<1>1. ~(/\ Writes(xr, x, p) /\ pr = xr /\ o = x /\ l = task[xr][x].lease /\ k = task[xr][x].req[p])
  <2>1. ASSUME Writes(xr, x, p), pr = xr, o = x, l = task[xr][x].lease, k = task[xr][x].req[p] PROVE FALSE
    <3>1. p \in lock_paths(task[pr][o].req)
      BY <1>k, <2>1 DEF lock_paths
    <3>2. Writes(pr, o, p) /\ ~Apart(p, task[pr][o].req[p], q, j)
      BY <2>1
    <3>3. l = task[pr][o].lease
      BY <2>1
    <3>4. ~LookedAt(o, l, p, pr, q)'
      BY <3>1, <3>2, <3>3, WriteLooks
    <3> QED BY <3>4
  <2> QED BY <2>1
<1>2. Stake(o, l, p, k, pr, c)
  BY <1>1, AttemptStakes
<1>3. CASE Claim(o, l, p, k, pr, c)
  BY <1>2, <1>3, ClaimLooked
<1>4. CASE Pending(o, l, p, k, pr, c) /\ ~Claim(o, l, p, k, pr, c) /\ (pr # xr \/ o # x)
  <2>1. task'[pr][o] = task[pr][o] /\ scan'[pr][o] = scan[pr][o]
    BY <1>4, AttemptIsMove, MovesOne
  <2> QED BY <1>2, <2>1 DEF LookedAt
<1>5. CASE Pending(o, l, p, k, pr, c) /\ ~Claim(o, l, p, k, pr, c) /\ pr = xr /\ o = x
  <2>1. /\ task[pr][o].op = "acquire" /\ task[pr][o].lease = l /\ task[pr][o].req[p] = k
        /\ p \in written(pr, o) /\ p \in lock_paths(task[pr][o].req)
    BY <1>5, <1>k DEF Pending, lock_paths
  <2>2. ~ \E v : FsLooks(xr, x, v)
    BY <1>5, <2>1 DEF FsLooks, written
  <2>3. ~give_up(xr, x)
    <3>1. ASSUME give_up(xr, x) PROVE FALSE
      <4>1. task'[pr][o] = Idle \/ task'[pr][o].op = "undo"
        BY <1>5, <2>1, <3>1, GiveUpMoves, MovesOne
      <4>2. task'[pr][o].op \in {"idle", "undo"}
        BY <4>1 DEF Idle
      <4>3. EntryClaim(o, l, p, k, pr, c)' /\ now' - c < Validity
        BY <4>2 DEF Stake, Claim, Pending, RefreshClaim, PublishClaim
      <4>4. now' = now /\ entries' = entries
        BY AttemptSteps
      <4>5. Claim(o, l, p, k, pr, c)
        BY <4>3, <4>4 DEF Claim, EntryClaim, Usable, Published
      <4> QED BY <1>5, <4>5
    <3> QED BY <3>1
  <2>4. ASSUME NEW a \in Path, Writes(xr, x, a) PROVE FALSE
    <3>1. Writes(pr, o, a) /\ ~Apart(p, task[pr][o].req[p], q, j)
      BY <1>5, <2>1, <2>4
    <3>2. ~LookedAt(o, l, p, pr, q)'
      BY <2>1, <3>1, WriteLooks
    <3> QED BY <3>2
  <2>5. PICK a \in Path, b \in Path : \E u, v : FsReadAt(pr, o, a, b, u, v)
    BY <1>5, <2>2, <2>3, <2>4, AttemptSteps DEF Writes
  <2>6. Stake(w, m, q, j, qr, d)
    BY <1>5, AttemptStakes
  <2>7. ~Apart(p, task[pr][o].req[p], q, j)
    BY <2>1
  <2>8. LookedAt(o, l, p, pr, q)
    BY <2>1, <2>5, <2>6, <2>7, ReadLooks
  <2> QED BY <1>2, <2>8
<1> QED BY <1>2, <1>3, <1>4, <1>5 DEF Stake

\* Of two stakes that meet one still has to look, in every step.
LEMMA StillToLookStep ==
  ASSUME TypeOK, TypeOK', ScanOK, Structure, StakesGrounded, StillToLook, [FsNext]_fsvars
  PROVE  StillToLook'
<1> SUFFICES ASSUME NEW o \in Owner, NEW w \in Owner, NEW l \in Lease, NEW m \in Lease,
                    NEW p \in Path, NEW q \in Path, NEW k \in Kind, NEW j \in Kind,
                    NEW pr \in Proc, NEW qr \in Proc, NEW c \in Nat, NEW d \in Nat,
                    Stake(o, l, p, k, pr, c)', Stake(w, m, q, j, qr, d)', o # w,
                    LookedAt(o, l, p, pr, q)', LookedAt(w, m, q, qr, p)', ~Apart(p, k, q, j)
             PROVE  FALSE
  <2>1. \A c \in 0 .. now' : c \in Nat
    BY DEF TypeOK
  <2> QED BY <2>1 DEF StillToLook, Apart
<1>1. ASSUME NEW a, NEW b, Stake(o, l, p, k, pr, a), Stake(w, m, q, j, qr, b),
             LookedAt(o, l, p, pr, q), LookedAt(w, m, q, qr, p)
      PROVE  FALSE
  <2>1. a \in 0 .. now /\ b \in 0 .. now
    BY <1>1, StakeTime
  <2> QED BY <1>1, <2>1 DEF StillToLook
<1>2. CASE Outside
  <2>1. (\E a : Stake(o, l, p, k, pr, a)) /\ LookedAt(o, l, p, pr, q)
    BY <1>2, OutsideLooks
  <2>2. (\E b : Stake(w, m, q, j, qr, b)) /\ LookedAt(w, m, q, qr, p)
    BY <1>2, OutsideLooks
  <2> QED BY <1>1, <2>1, <2>2
<1>3. ASSUME NEW xr \in Proc, NEW x \in Owner, FsAttempt(xr, x) PROVE FALSE
  <2>1. Stake(o, l, p, k, pr, c) /\ LookedAt(o, l, p, pr, q)
    BY <1>3, AttemptLooks
  <2>2. ~Apart(q, j, p, k)
    BY DEF Apart
  <2>3. Stake(w, m, q, j, qr, d) /\ LookedAt(w, m, q, qr, p)
    BY <1>3, <2>2, AttemptLooks
  <2> QED BY <1>1, <2>1, <2>3
<1> QED BY <1>2, <1>3, FsSteps

-----------------------------------------------------------------------------
(* What a failed attempt takes back *)

\* The attempt writes its next holder, in the order of the paths, in the place of its source.
WritesNext(pr, o, q) ==
  LET t == task[pr][o]
      u == task'[pr][o]
  IN  /\ q \in lock_paths(t.req) \ written(pr, o)
      /\ \A r \in lock_paths(t.req) : Rank[r] < Rank[q] => r \in written(pr, o)
      /\ written(pr, o)' = written(pr, o) \cup {q}
      /\ t.source # NoLease => ~Gone(t.source, q)
      /\ u.replaced = [t.replaced EXCEPT ![q] = {h \in tokens[q].holders : h.id = t.source}]
      /\ \E n, sb : tokens' = [tokens EXCEPT ![q] =
                                 with_holder(@, o, t.lease, t.req[q], n, sb, t.source)]

\* The attempt goes on, is granted, or has to undo what it wrote.
GoesOnUnwritten(pr, o) ==
  LET t == task[pr][o]
      u == task'[pr][o]
  IN  /\ AttemptGoesOn(pr, o) /\ tokens' = tokens /\ u.replaced = t.replaced
      /\ \/ u.op = "acquire" /\ written(pr, o)' = written(pr, o)
         \/ u.op = "publish" /\ written(pr, o) = lock_paths(t.req) /\ written(pr, o) # {}
         \/ u.op = "undo" /\ u.result = todo_for(written(pr, o)) /\ written(pr, o) # {}

\* What a step of an attempt does to what it has written.
LEMMA AttemptProgress ==
  ASSUME TypeOK, ScanOK, Structure, NEW pr \in Proc, NEW o \in Owner, FsAttempt(pr, o)
  PROVE  \/ tokens' = tokens /\ task'[pr][o] = Idle /\ written(pr, o) = {}
         \/ GoesOnUnwritten(pr, o)
         \/ /\ AttemptGoesOn(pr, o) /\ task'[pr][o].op = "acquire"
            /\ \E q \in Path : WritesNext(pr, o, q)
<1>1. PICK t, s : /\ t = task[pr][o] /\ s = scan[pr][o] /\ s \in Scan /\ t.op = "acquire"
                  /\ IsAcquiring(pr, o)
  BY AttemptSteps DEF ScanOK, IsAcquiring
<1>2. s.phase # "none" => s.todo \subseteq lock_paths(t.req)
  BY <1>1 DEF ScanOK
<1>3. written(pr, o) = CASE s.phase = "check" -> lock_paths(t.req) \ s.todo
                         [] s.phase = "verify" -> lock_paths(t.req)
                         [] OTHER -> {}
  BY <1>1 DEF written
<1>4. ASSUME NEW u, NEW v, AttemptMoves(pr, o, u, v)
      PROVE  /\ task'[pr][o] = u /\ scan'[pr][o] = v /\ (u # Idle => AttemptGoesOn(pr, o))
             /\ u # Idle => /\ v.phase = "check" => written(pr, o)' = lock_paths(t.req) \ v.todo
                            /\ v.phase = "verify" => written(pr, o)' = lock_paths(t.req)
                            /\ v.phase \in {"none", "source"} => written(pr, o)' = {}
  <2>1. task'[pr][o] = u /\ scan'[pr][o] = v
    BY <1>4, MovesOne
  <2>2. u # Idle => /\ u.op \in {"acquire", "publish", "undo"} /\ u.lease = t.lease /\ u.req = t.req
                    /\ u.source = t.source /\ u.started = t.started
    BY <1>1, <1>4 DEF AttemptMoves
  <2> QED BY <1>1, <2>1, <2>2 DEF AttemptGoesOn, written
<1>5. CASE give_up(pr, o)
  <2>1. PICK u : /\ AttemptMoves(pr, o, u, NoScan) /\ tokens' = tokens
                 /\ \/ u = Idle /\ written(pr, o) = {}
                    \/ /\ u.op = "undo" /\ u.result = todo_for(written(pr, o))
                       /\ u.replaced = t.replaced
    BY <1>1, <1>5, GiveUpMoves
  <2>2. CASE u = Idle /\ written(pr, o) = {}
    BY <1>4, <2>1, <2>2
  <2>3. CASE u.op = "undo" /\ written(pr, o) # {}
    <3>1. u # Idle /\ u.result = todo_for(written(pr, o)) /\ u.replaced = t.replaced
      BY <2>1, <2>3 DEF Idle
    <3> QED BY <1>1, <1>4, <2>1, <2>3, <3>1 DEF GoesOnUnwritten
  <2>4. CASE u.op = "undo" /\ written(pr, o) = {}
    <3>1. task'[pr][o] = Idle
      BY <1>1, <1>5, <2>4 DEF give_up, written, TypeOK
    <3> QED BY <2>1, <2>4, <3>1
  <2> QED BY <2>1, <2>2, <2>3, <2>4
<1>6. ASSUME NEW v, FsLooks(pr, o, v) PROVE GoesOnUnwritten(pr, o)
  <2>1. /\ AttemptMoves(pr, o, t, v) /\ tokens' = tokens /\ t # Idle
        /\ s.phase \in {"none", "source"}
        /\ v.phase = "source" \/ (v.phase = "check" /\ v.todo = lock_paths(t.req))
    BY <1>1, <1>6 DEF FsLooks, Idle
  <2>2. written(pr, o) = {} /\ written(pr, o)' = {}
    BY <1>3, <1>4, <2>1
  <2> QED BY <1>1, <1>4, <2>1, <2>2 DEF GoesOnUnwritten
<1>7. ASSUME NEW p \in Path, NEW q \in Path, NEW u, NEW v, FsReadAt(pr, o, p, q, u, v)
      PROVE  GoesOnUnwritten(pr, o)
  <2>1. /\ AttemptMoves(pr, o, u, v) /\ tokens' = tokens /\ u.replaced = t.replaced
        /\ s.phase \in {"check", "verify"} /\ IsFirst(p, s.todo)
        /\ u.op = IF s.phase = "verify" /\ s.reads = {q} /\ s.todo = {p} THEN "publish" ELSE "acquire"
        /\ v = IF s.phase = "check" \/ s.reads # {q} THEN [s EXCEPT !.reads = @ \ {q}, !.clock = now]
               ELSE IF s.todo = {p} THEN NoScan
               ELSE phase_for("verify", t.req, s.todo \ {p})
    BY <1>1, <1>7 DEF FsReadAt
  <2>2. u # Idle
    BY <2>1 DEF Idle
  <2>3. CASE u.op = "publish"
    <3>1. p \in lock_paths(t.req) /\ written(pr, o) = lock_paths(t.req)
      BY <1>2, <1>3, <2>1, <2>3 DEF IsFirst
    <3> QED BY <1>1, <1>4, <2>1, <2>2, <2>3, <3>1 DEF GoesOnUnwritten
  <2>4. CASE u.op = "acquire" /\ (s.phase = "check" \/ s.reads # {q})
    <3>1. v.phase = s.phase /\ v.todo = s.todo
      BY <1>1, <2>1, <2>4 DEF Scan
    <3>2. written(pr, o)' = written(pr, o)
      BY <1>3, <1>4, <2>1, <2>2, <3>1
    <3>3. task'[pr][o] = u /\ AttemptGoesOn(pr, o)
      BY <1>4, <2>1, <2>2
    <3> QED BY <1>1, <2>1, <2>4, <3>2, <3>3 DEF GoesOnUnwritten
  <2>5. CASE u.op = "acquire" /\ s.phase = "verify" /\ s.reads = {q}
    <3>1. s.todo # {p} /\ s.todo \ {p} \in SUBSET Path
      BY <1>1, <2>1, <2>5 DEF Scan
    <3>2. v.phase = "verify"
      BY <2>1, <2>5, <3>1, PhaseType
    <3> QED BY <1>1, <1>3, <1>4, <2>1, <2>2, <2>5, <3>2 DEF GoesOnUnwritten
  <2> QED BY <2>1, <2>3, <2>4, <2>5
<1>8. ASSUME NEW q \in Path, NEW stamp, NEW u, NEW v, FsWriteAt(pr, o, q, stamp, u, v)
      PROVE  AttemptGoesOn(pr, o) /\ task'[pr][o].op = "acquire" /\ WritesNext(pr, o, q)
  <2>1. PICK sb, n :
          /\ AttemptMoves(pr, o, u, v) /\ u.op = "acquire" /\ s.phase = "check" /\ IsFirst(q, s.todo)
          /\ t.source # NoLease => validate_handoff_source(tokens[q], o, t.source, t.req[q], sb)
          /\ tokens' = [tokens EXCEPT ![q] = with_holder(@, o, t.lease, t.req[q], n, sb, t.source)]
          /\ u.replaced = [t.replaced EXCEPT ![q] = {h \in tokens[q].holders : h.id = t.source}]
          /\ v = IF s.todo = {q} THEN phase_for("verify", t.req, lock_paths(t.req))
                 ELSE phase_for("check", t.req, s.todo \ {q})
    BY <1>1, <1>8 DEF FsWriteAt
  <2>2. u # Idle
    BY <2>1 DEF Idle
  <2>3. /\ lock_paths(t.req) \in SUBSET Path /\ s.todo \ {q} \in SUBSET Path
        /\ s.todo \subseteq lock_paths(t.req) /\ q \in s.todo
    BY <1>1, <1>2, <2>1 DEF lock_paths, Scan, IsFirst
  <2>4. written(pr, o)' = lock_paths(t.req) \ (s.todo \ {q})
    <3>1. CASE s.todo = {q}
      <4>1. v.phase = "verify"
        BY <2>1, <2>3, <3>1, PhaseType
      <4> QED BY <1>4, <2>1, <2>2, <3>1, <4>1
    <3>2. CASE s.todo # {q}
      <4>1. v.phase = "check" /\ v.todo = s.todo \ {q}
        BY <2>1, <2>3, <3>2, PhaseType
      <4> QED BY <1>4, <2>1, <2>2, <4>1
    <3> QED BY <3>1, <3>2
  <2>5. written(pr, o) = lock_paths(t.req) \ s.todo
    BY <1>3, <2>1
  <2>6. written(pr, o)' = written(pr, o) \cup {q} /\ q \in lock_paths(t.req) \ written(pr, o)
    BY <2>3, <2>4, <2>5
  <2>7. ASSUME NEW r \in lock_paths(t.req), Rank[r] < Rank[q] PROVE r \in written(pr, o)
    <3>1. Rank[r] \in Nat /\ Rank[q] \in Nat
      BY <2>3, RankOrder
    <3>2. r \notin s.todo
      BY <2>1, <2>7, <3>1 DEF IsFirst
    <3> QED BY <2>5, <3>2
  <2>8. t.source # NoLease => ~Gone(t.source, q)
    BY <2>1 DEF validate_handoff_source, Gone
  <2>9. task'[pr][o] = u /\ AttemptGoesOn(pr, o)
    BY <1>4, <2>1, <2>2
  <2> QED BY <1>1, <2>1, <2>6, <2>7, <2>8, <2>9 DEF WritesNext
<1> QED BY <1>5, <1>6, <1>7, <1>8, AttemptSteps

\* Writing a holder adds no other holder and leaves the rest of a token to its owner.
LEMMA WriteHoldersArise ==
  ASSUME TypeOK, NEW xr, NEW x, NEW q \in Path, WritesNext(xr, x, q), NEW p \in Path, NEW l,
         ~GoneNext(l, p)
  PROVE  \/ ~Gone(l, p) /\ tokens'[p].owner = tokens[p].owner
         \/ l = task[xr][x].lease /\ p = q /\ tokens'[p].owner = x
<1>1. PICK t, n, sb :
        /\ t = task[xr][x]
        /\ tokens' = [tokens EXCEPT ![q] = with_holder(@, x, t.lease, t.req[q], n, sb, t.source)]
  BY DEF WritesNext
<1>2. tokens \in [Path -> Token] /\ tokens[q] \in Token
  BY DEF TypeOK
<1>3. CASE p # q
  BY <1>1, <1>2, <1>3 DEF Gone, GoneNext
<1>4. CASE p = q
  <2>1. PICK new : new = with_holder(tokens[q], x, t.lease, t.req[q], n, sb, t.source)
    OBVIOUS
  <2>2. /\ new.owner = x
        /\ \A h \in new.holders : h.id = t.lease \/ (h \in tokens[q].holders /\ tokens[q].owner = x)
    BY <1>2, <2>1 DEF with_holder, add_holder, held, Token
  <2>3. tokens'[q] = new
    BY <1>1, <1>2, <2>1
  <2> QED BY <1>1, <1>4, <2>2, <2>3 DEF Gone, GoneNext
<1> QED BY <1>3, <1>4

\* Tokens change in a step of an attempt by its write only.
LEMMA AttemptHoldersArise ==
  ASSUME TypeOK, ScanOK, Structure, NEW xr \in Proc, NEW x \in Owner, FsAttempt(xr, x),
         NEW p \in Path, NEW l, ~GoneNext(l, p)
  PROVE  \/ ~Gone(l, p) /\ tokens'[p].owner = tokens[p].owner
         \/ l = task[xr][x].lease /\ tokens'[p].owner = x /\ WritesNext(xr, x, p)
<1>1. CASE tokens' = tokens
  BY <1>1 DEF Gone, GoneNext
<1>2. CASE \E q \in Path : WritesNext(xr, x, q)
  BY <1>2, WriteHoldersArise
<1> QED BY <1>1, <1>2, AttemptProgress DEF GoesOnUnwritten

\* A step of an attempt leaves the other attempts with what they wrote.
LEMMA AttemptOthers ==
  ASSUME TypeOK, ScanOK, Structure, NEW xr \in Proc, NEW x \in Owner, FsAttempt(xr, x),
         NEW pr \in Proc, NEW o \in Owner, pr # xr \/ o # x
  PROVE  task'[pr][o] = task[pr][o] /\ scan'[pr][o] = scan[pr][o] /\ written(pr, o)' = written(pr, o)
<1>1. task'[pr][o] = task[pr][o] /\ scan'[pr][o] = scan[pr][o]
  BY AttemptIsMove, MovesOne
<1> QED BY <1>1 DEF written

\* Attempts keep track of all they wrote and of all they replaced.
LEMMA UndoableStep ==
  ASSUME TypeOK, TypeOK', ScanOK, Structure, Undoable, [FsNext]_fsvars
  PROVE  Undoable'
<1>r. ReplacedIsSource
  BY DEF Undoable, ReplacedAtSource, ReplacedIsSource, IsAcquiring
<1> SUFFICES ASSUME NEW pr \in Proc, NEW o \in Owner, NEW p \in Path, IsAcquiring(pr, o)'
             PROVE  /\ \A h \in task'[pr][o].replaced[p] : h.id = task'[pr][o].source
                    /\ ~GoneNext(task'[pr][o].lease, p) =>
                         /\ tokens'[p].owner = o /\ task'[pr][o].req[p] # "None"
                         /\ task'[pr][o].op = "undo" => task'[pr][o].result[p] \in {"todo", "err"}
                         /\ task'[pr][o].op = "acquire" => p \in written(pr, o)'
  BY DEF Undoable, AttemptHolders, WrittenHolders, ReplacedAtSource, IsAcquiring, Gone, GoneNext
<1>1. CASE Outside
  <2>1. /\ [Next]_vars /\ ~CommitAcquire(pr, o) /\ LeftAlone
    BY <1>1, OutsideLeaves DEF Outside
  <2>2. ASSUME ~GoneNext(task'[pr][o].lease, p)
        PROVE  /\ tokens'[p].owner = o /\ task'[pr][o].req[p] # "None"
               /\ task'[pr][o].op = "undo" => task'[pr][o].result[p] \in {"todo", "err"}
               /\ task'[pr][o].op = "acquire" => p \in written(pr, o)'
    <3>1. /\ ~Gone(task[pr][o].lease, p)
          /\ tokens'[p].owner = o /\ task'[pr][o].req[p] # "None"
          /\ task'[pr][o].op = "undo" => task'[pr][o].result[p] \in {"todo", "err"}
          /\ task'[pr][o].op = "acquire" => task'[pr][o] = task[pr][o]
      BY <1>r, <2>1, <2>2, AttemptHoldersKept DEF Undoable
    <3>2. ASSUME task'[pr][o].op = "acquire" PROVE p \in written(pr, o)'
      <4>1. task'[pr][o] = task[pr][o] /\ p \in written(pr, o)
        BY <3>1, <3>2 DEF Undoable, WrittenHolders
      <4>2. scan[pr][o] # NoScan
        BY <4>1 DEF written, NoScan
      <4>3. scan'[pr][o] = scan[pr][o]
        BY <1>1, <3>2, <4>1, <4>2, OutsideScan
      <4> QED BY <4>1, <4>3 DEF written
    <3> QED BY <3>1, <3>2
  <2>3. \A h \in task'[pr][o].replaced[p] : h.id = task'[pr][o].source
    <3>1. CASE AttemptStarts(pr, o)
      BY <3>1 DEF AttemptStarts
    <3>2. CASE task'[pr][o] = task[pr][o]
      BY <3>2 DEF Undoable, ReplacedAtSource, IsAcquiring
    <3>3. CASE AttemptGoesOn(pr, o) /\ task'[pr][o].replaced = task[pr][o].replaced
      BY <3>3 DEF Undoable, ReplacedAtSource, AttemptGoesOn
    <3> QED BY <2>1, <3>1, <3>2, <3>3, AttemptsArise
  <2> QED BY <2>2, <2>3
<1>2. ASSUME NEW xr \in Proc, NEW x \in Owner, FsAttempt(xr, x)
      PROVE  /\ \A h \in task'[pr][o].replaced[p] : h.id = task'[pr][o].source
             /\ ~GoneNext(task'[pr][o].lease, p) =>
                  /\ tokens'[p].owner = o /\ task'[pr][o].req[p] # "None"
                  /\ task'[pr][o].op = "undo" => task'[pr][o].result[p] \in {"todo", "err"}
                  /\ task'[pr][o].op = "acquire" => p \in written(pr, o)'
  <2>1. IsAcquiring(xr, x)
    BY <1>2, AttemptSteps DEF IsAcquiring
  <2>2. CASE pr # xr \/ o # x
    <3>1. /\ task'[pr][o] = task[pr][o] /\ written(pr, o)' = written(pr, o) /\ IsAcquiring(pr, o)
      BY <1>2, <2>2, AttemptOthers DEF IsAcquiring
    <3>2. task[pr][o].lease # task[xr][x].lease
      BY <2>1, <2>2, <3>1 DEF Structure, OneAcquisitionPerLease
    <3>3. ~GoneNext(task[pr][o].lease, p) => ~Gone(task[pr][o].lease, p) /\ tokens'[p].owner = tokens[p].owner
      BY <1>2, <3>2, AttemptHoldersArise
    <3> QED BY <3>1, <3>3 DEF Undoable, ReplacedAtSource, AttemptHolders, WrittenHolders
  <2>3. CASE pr = xr /\ o = x
    <3>1. PICK t, u : t = task[pr][o] /\ u = task'[pr][o] /\ t \in TaskRecord /\ t.op = "acquire"
      BY <1>2, <2>3, TaskLease, AttemptSteps
    <3>2. u # Idle
      BY <3>1 DEF IsAcquiring, Idle
    <3>3. AttemptGoesOn(pr, o)
      BY <1>2, <2>3, <3>1, <3>2, AttemptProgress DEF GoesOnUnwritten
    <3>4. u.lease = t.lease /\ u.req = t.req /\ u.source = t.source
      BY <3>1, <3>3 DEF AttemptGoesOn
    <3>5. \A r \in Path : \A h \in t.replaced[r] : h.id = t.source
      BY <2>1, <2>3, <3>1 DEF Undoable, ReplacedAtSource
    <3>6. ~Gone(t.lease, p) => tokens[p].owner = o /\ t.req[p] # "None" /\ p \in written(pr, o)
      BY <2>1, <2>3, <3>1 DEF Undoable, AttemptHolders, WrittenHolders
    <3>7. CASE GoesOnUnwritten(pr, o)
      <4>1. /\ tokens' = tokens /\ u.replaced = t.replaced
            /\ \/ u.op = "acquire" /\ written(pr, o)' = written(pr, o)
               \/ u.op = "publish"
               \/ u.op = "undo" /\ u.result = todo_for(written(pr, o))
        BY <3>1, <3>7 DEF GoesOnUnwritten
      <4>2. ~GoneNext(t.lease, p) => ~Gone(t.lease, p)
        BY <4>1 DEF Gone, GoneNext
      <4> QED BY <3>1, <3>4, <3>5, <3>6, <4>1, <4>2 DEF todo_for
    <3>8. ASSUME u.op = "acquire", NEW q \in Path, WritesNext(pr, o, q)
          PROVE  /\ \A h \in u.replaced[p] : h.id = u.source
                 /\ ~GoneNext(u.lease, p) =>
                      /\ tokens'[p].owner = o /\ u.req[p] # "None" /\ p \in written(pr, o)'
      <4>1. /\ q \in lock_paths(t.req) /\ written(pr, o)' = written(pr, o) \cup {q}
            /\ u.replaced = [t.replaced EXCEPT ![q] = {h \in tokens[q].holders : h.id = t.source}]
        BY <3>1, <3>8 DEF WritesNext
      <4>2. u.replaced[p] = IF p = q THEN {h \in tokens[q].holders : h.id = t.source} ELSE t.replaced[p]
        BY <3>1, <4>1 DEF TaskRecord
      <4>3. ~GoneNext(t.lease, p) =>
              \/ ~Gone(t.lease, p) /\ tokens'[p].owner = tokens[p].owner
              \/ p = q /\ tokens'[p].owner = o
        BY <3>8, WriteHoldersArise
      <4> QED BY <3>4, <3>5, <3>6, <4>1, <4>2, <4>3 DEF lock_paths
    <3> QED BY <1>2, <2>3, <3>1, <3>2, <3>7, <3>8, AttemptProgress
  <2> QED BY <2>2, <2>3
<1> QED BY <1>1, <1>2, FsSteps

-----------------------------------------------------------------------------
(* Adoption path by path *)

\* Outside the attempts an adoption in flight goes on as it is, or gives its last path back.
LEMMA WithheldOutside ==
  ASSUME TypeOK, TypeOK', ScanOK, Structure, Undoable, Outside,
         NEW pr \in Proc, NEW o \in Owner, NEW s \in Lease, FsAdopting(pr, o, s)'
  PROVE  /\ FsAdopting(pr, o, s) /\ AttemptGoesOn(pr, o)
         /\ task'[pr][o].req = task[pr][o].req
         /\ \/ FsWithheld(pr, o)' = FsWithheld(pr, o)
            \/ \E q \in Path : /\ IsLast(q, Todo(task[pr][o])) /\ task[pr][o].op = "undo"
                               /\ FsWithheld(pr, o)' = FsWithheld(pr, o) \ {q}
         /\ \A ok \in Outcome, p \in Path :
              UndoPath(pr, o, ok) /\ IsLast(p, Todo(task[pr][o])) => p \notin FsWithheld(pr, o)'
<1>r. ReplacedIsSource
  BY DEF Undoable, ReplacedAtSource, ReplacedIsSource, IsAcquiring
<1>1. PICK t, u : /\ t = task[pr][o] /\ u = task'[pr][o] /\ t \in TaskRecord
                  /\ u.op \in {"acquire", "publish", "undo"} /\ u.source = s
                  /\ IsAcquiring(pr, o)' /\ FsWithheld(pr, o)' # {}
  BY TaskLease DEF FsAdopting, IsAcquiring
<1>2. [Next]_vars /\ ~CommitAcquire(pr, o) /\ LeftAlone
  BY OutsideLeaves DEF Outside
<1>3. ~AttemptStarts(pr, o)
  <2> SUFFICES ASSUME AttemptStarts(pr, o) PROVE FALSE
    OBVIOUS
  <2>1. u.op = "acquire" /\ FreshLease(u.lease)
    BY <1>1 DEF AttemptStarts
  <2>2. t.op # "acquire"
    <3>1. t.op = "acquire" => u = t
      BY <1>1, <2>1, OutsideScan
    <3> QED BY <1>1, <2>1, <3>1 DEF FreshLease
  <2>3. scan[pr][o] = NoScan
    BY <1>1, <2>2 DEF ScanOK
  <2>4. scan'[pr][o] = NoScan
    BY <1>2, <2>3 DEF LeftAlone
  <2>5. FsWithheld(pr, o)' = {}
    BY <1>1, <2>1, <2>4 DEF FsWithheld, written, NoScan
  <2> QED BY <1>1, <2>5
<1>4. ASSUME NEW ok \in Outcome, UndoPath(pr, o, ok)
      PROVE  \E q \in Path :
               /\ IsLast(q, Todo(t)) /\ t.op = "undo" /\ u.op = "undo"
               /\ FsWithheld(pr, o) = Todo(t) /\ FsWithheld(pr, o)' = Todo(t) \ {q}
  <2>0. t.op = "undo"
    BY <1>1, <1>4 DEF UndoPath
  <2>1. PICK q \in Path :
          /\ IsLast(q, Todo(task[pr][o]))
          /\ task'[pr][o] = IF Todo(task[pr][o]) = {q} THEN Idle
                            ELSE [task[pr][o] EXCEPT !.result[q] = IF ok THEN "ok" ELSE "err"]
    BY <1>4, <1>r, UndoDrops
  <2>2. IsLast(q, Todo(t)) /\ u = [t EXCEPT !.result[q] = IF ok THEN "ok" ELSE "err"]
    BY <1>1, <2>1 DEF Idle
  <2>3. u.op = "undo" /\ Todo(u) = Todo(t) \ {q}
    BY <1>1, <2>0, <2>2 DEF TaskRecord, Todo
  <2>4. FsWithheld(pr, o) = Todo(t) /\ FsWithheld(pr, o)' = Todo(u)
    BY <1>1, <2>0, <2>3 DEF FsWithheld, Withheld, Todo
  <2> QED BY <2>0, <2>2, <2>3, <2>4
<1>5. ASSUME NEW ok \in Outcome, UndoPath(pr, o, ok), NEW p \in Path, IsLast(p, Todo(t))
      PROVE  p \notin FsWithheld(pr, o)'
  <2>1. PICK q \in Path : IsLast(q, Todo(t)) /\ FsWithheld(pr, o)' = Todo(t) \ {q}
    BY <1>4, <1>5
  <2>2. Rank[p] \in Nat /\ Rank[q] \in Nat /\ Rank[p] <= Rank[q] /\ Rank[q] <= Rank[p]
    BY <1>5, <2>1, RankOrder DEF IsLast
  <2>3. p = q
    BY <2>2, RankOrder
  <2> QED BY <2>1, <2>3
<1>6. CASE u = t
  <2>1. IsAcquiring(pr, o)
    BY <1>1, <1>6 DEF IsAcquiring
  <2>2. FsWithheld(pr, o)' = FsWithheld(pr, o)
    <3>1. CASE t.op = "acquire"
      <4>1. scan'[pr][o] = scan[pr][o]
        BY <1>1, <1>6, <3>1, OutsideScan
      <4> QED BY <1>1, <1>6, <3>1, <4>1 DEF FsWithheld, written
    <3>2. CASE t.op # "acquire"
      BY <1>1, <1>6, <3>2 DEF FsWithheld, Withheld, Todo
    <3> QED BY <3>1, <3>2
  <2> QED BY <1>1, <1>5, <1>6, <2>1, <2>2 DEF FsAdopting, AttemptGoesOn
<1>7. CASE AttemptGoesOn(pr, o) /\ RollbackLease(pr, o) /\ u.op = "undo" /\ u.result = todo_for(lock_paths(t.req))
  <2>1. t.op = "publish" /\ IsAcquiring(pr, o) /\ u.req = t.req /\ t.source = s
    BY <1>1, <1>7 DEF AttemptGoesOn, RollbackLease
  <2>2. Todo(u) = lock_paths(t.req)
    BY <1>7 DEF Todo, todo_for, lock_paths
  <2>3. FsWithheld(pr, o) = lock_paths(t.req) /\ FsWithheld(pr, o)' = Todo(u)
    BY <1>1, <1>7, <2>1 DEF FsWithheld, Withheld, Todo
  <2> QED BY <1>1, <1>5, <1>7, <2>1, <2>2, <2>3 DEF FsAdopting
<1>8. ASSUME AttemptGoesOn(pr, o), NEW ok \in Outcome, UndoPath(pr, o, ok)
      PROVE  /\ FsAdopting(pr, o, s) /\ u.req = t.req
             /\ \E q \in Path : /\ IsLast(q, Todo(t)) /\ t.op = "undo"
                                /\ FsWithheld(pr, o)' = FsWithheld(pr, o) \ {q}
  <2>1. PICK q \in Path :
               /\ IsLast(q, Todo(t)) /\ t.op = "undo" /\ u.op = "undo"
               /\ FsWithheld(pr, o) = Todo(t) /\ FsWithheld(pr, o)' = Todo(t) \ {q}
    BY <1>4, <1>8
  <2>2. IsAcquiring(pr, o) /\ u.req = t.req /\ t.source = s
    BY <1>1, <1>8 DEF AttemptGoesOn
  <2>3. FsWithheld(pr, o) # {}
    BY <2>1 DEF IsLast
  <2> QED BY <1>1, <2>1, <2>2, <2>3 DEF FsAdopting
<1> QED BY <1>1, <1>2, <1>3, <1>5, <1>6, <1>7, <1>8, AttemptsArise

\* A step of an attempt leaves what it withholds as it is, or adds the next path.
LEMMA WithheldAttempt ==
  ASSUME TypeOK, ScanOK, Structure, NEW pr \in Proc, NEW o \in Owner, FsAttempt(pr, o),
         NEW s \in Lease, FsAdopting(pr, o, s)'
  PROVE  /\ IsAcquiring(pr, o) /\ task[pr][o].source = s /\ task'[pr][o].req = task[pr][o].req
         /\ \/ FsWithheld(pr, o)' = FsWithheld(pr, o)
            \/ \E q \in Path : /\ WritesNext(pr, o, q)
                               /\ FsWithheld(pr, o)' = FsWithheld(pr, o) \cup {q}
         /\ FsWithheld(pr, o) = written(pr, o)
<1>1. PICK t, u : /\ t = task[pr][o] /\ u = task'[pr][o] /\ t.op = "acquire"
                  /\ u.op \in {"acquire", "publish", "undo"} /\ u.source = s
  BY AttemptSteps DEF FsAdopting, IsAcquiring
<1>2. FsWithheld(pr, o) = written(pr, o)
  BY <1>1 DEF FsWithheld
<1>3. u # Idle
  BY <1>1 DEF Idle
<1>4. AttemptGoesOn(pr, o)
  BY <1>1, <1>3, AttemptProgress DEF GoesOnUnwritten
<1>5. IsAcquiring(pr, o) /\ t.source = s /\ u.req = t.req
  BY <1>1, <1>4 DEF AttemptGoesOn
<1>6. written(pr, o) \subseteq Path
  BY DEF written, lock_paths
<1>7. CASE u.op = "acquire"
  <2>1. FsWithheld(pr, o)' = written(pr, o)'
    BY <1>1, <1>7 DEF FsWithheld
  <2> QED BY <1>1, <1>2, <1>3, <1>5, <1>7, <2>1, AttemptProgress DEF GoesOnUnwritten, WritesNext
<1>8. CASE u.op # "acquire"
  <2>1. \/ u.op = "publish" /\ written(pr, o) = lock_paths(t.req)
        \/ u.op = "undo" /\ u.result = todo_for(written(pr, o))
    BY <1>1, <1>3, <1>8, AttemptProgress DEF GoesOnUnwritten
  <2>2. FsWithheld(pr, o)' = IF u.op = "publish" THEN lock_paths(u.req) ELSE Todo(u)
    BY <1>1, <1>8 DEF FsWithheld, Withheld, Todo, lock_paths
  <2>3. u.result = todo_for(written(pr, o)) => Todo(u) = written(pr, o)
    BY <1>6 DEF Todo, todo_for
  <2> QED BY <1>1, <1>2, <1>5, <2>1, <2>2, <2>3
<1> QED BY <1>7, <1>8

\* The holder that an adoption writes takes the place of its source.
LEMMA WriteDropsSource ==
  ASSUME TypeOK, NEW pr, NEW o, NEW q \in Path, WritesNext(pr, o, q), NEW s,
         s = task[pr][o].source, s # task[pr][o].lease
  PROVE  GoneNext(s, q)
<1>1. PICK t, n, sb :
        /\ t = task[pr][o]
        /\ tokens' = [tokens EXCEPT ![q] = with_holder(@, o, t.lease, t.req[q], n, sb, t.source)]
  BY DEF WritesNext
<1>2. tokens \in [Path -> Token] /\ tokens[q] \in Token
  BY DEF TypeOK
<1>3. PICK new : new = with_holder(tokens[q], o, t.lease, t.req[q], n, sb, t.source)
  OBVIOUS
<1>4. \A h \in new.holders : h.id = t.lease \/ h.id # t.source
  BY <1>2, <1>3 DEF with_holder, add_holder, held, Token
<1>5. tokens'[q] = new
  BY <1>1, <1>2, <1>3
<1> QED BY <1>1, <1>4, <1>5 DEF GoneNext


\* What is put back into the store was withheld by an adoption in flight.
LEMMA PutBackIsAdopting ==
  ASSUME TypeOK, NEW s \in Lease, NEW p \in Path, HolderPutBack(s, p)
  PROVE  \E qr \in Proc, w \in Owner, ok \in Outcome :
           FsAdopting(qr, w, s) /\ UndoPath(qr, w, ok) /\ IsLast(p, Todo(task[qr][w]))
<1>1. PICK qr \in Proc, w \in Owner, ok \in Outcome :
        UndoPath(qr, w, ok) /\ IsAdopting(qr, w, s) /\ IsLast(p, Todo(task[qr][w]))
  BY DEF HolderPutBack
<1>2. PICK t : t = task[qr][w] /\ t.op = "undo" /\ t.source = s /\ p \in Todo(t)
  BY <1>1 DEF UndoPath, IsAdopting, IsLast
<1>3. FsWithheld(qr, w) = Todo(t)
  BY <1>2 DEF FsWithheld, Withheld
<1>4. FsAdopting(qr, w, s)
  BY <1>2, <1>3 DEF FsAdopting, IsAcquiring
<1> QED BY <1>1, <1>4

\* A reference comes into being by the park of a lease that nobody could adopt before.
LEMMA ReferencesKept ==
  ASSUME TypeOK, Structure, [Next]_vars, NEW s \in Lease, NEW c, Referenced(s, c)', ~Referenced(s, c)
  PROVE  c = entries[s].cov /\ ~Transferable(s) /\ \A d : ~Referenced(s, d)
<1>1. PICK pr \in Proc, o \in Owner :
        c = entries[s].cov /\ s \in registry(entries, pr, o) /\ ~entries[s].pending_handoff
  BY FirstReference
<1>2. Published(s)
  BY <1>1, RequestAssumption DEF registry, Published
<1>3. ~Transferable(s)
  BY <1>1, <1>2 DEF Transferable
<1> QED BY <1>1, <1>3 DEF Structure, SourcesTransferable, Referenced

\* A step of an attempt makes no new reference.
LEMMA AttemptReferences ==
  ASSUME TypeOK, ScanOK, Structure, NEW xr \in Proc, NEW x \in Owner, FsAttempt(xr, x),
         NEW s, NEW c, Referenced(s, c)'
  PROVE  Referenced(s, c)
<1>1. handoffs' = handoffs
  BY AttemptSteps
<1>2. ASSUME NEW pr \in Proc, NEW o \in Owner, IsAcquiring(pr, o)', task'[pr][o].source = s,
             task'[pr][o].req = c
      PROVE  IsAcquiring(pr, o) /\ task[pr][o].source = s /\ task[pr][o].req = c
  <2>1. CASE pr # xr \/ o # x
    <3>1. task'[pr][o] = task[pr][o]
      BY <2>1, AttemptOthers
    <3> QED BY <1>2, <3>1 DEF IsAcquiring
  <2>2. CASE pr = xr /\ o = x
    <3>1. task'[pr][o] # Idle
      BY <1>2 DEF IsAcquiring, Idle
    <3>2. AttemptGoesOn(pr, o)
      BY <2>2, <3>1, AttemptProgress DEF GoesOnUnwritten
    <3> QED BY <1>2, <3>2 DEF AttemptGoesOn
  <2> QED BY <2>1, <2>2
<1>3. CASE \E m \in handoffs' : m.lease = s /\ m.cov = c
  BY <1>1, <1>3 DEF Referenced
<1>4. CASE \E pr \in Proc, o \in Owner :
             IsAcquiring(pr, o)' /\ task'[pr][o].source = s /\ task'[pr][o].req = c
  BY <1>2, <1>4 DEF Referenced
<1> QED BY <1>3, <1>4 DEF Referenced

\* The steps around the attempts keep the adoptions apart.
LEMMA AdoptionsOutside ==
  ASSUME TypeOK, TypeOK', ScanOK, Structure, Undoable, FsAdoptions, Outside
  PROVE  FsAdoptions'
<1>r. ReplacedIsSource
  BY DEF Undoable, ReplacedAtSource, ReplacedIsSource, IsAcquiring
<1>n. [Next]_vars /\ \A pr \in Proc, o \in Owner : ~CommitAcquire(pr, o)
  BY OutsideLeaves DEF Outside
<1>1. OneCoverage'
  <2> SUFFICES ASSUME NEW s \in Lease, NEW c \in Coverage, NEW d \in Coverage,
                      Referenced(s, c)', Referenced(s, d)'
               PROVE  c = d
    BY DEF OneCoverage
  <2>1. CASE Referenced(s, c) /\ Referenced(s, d)
    BY <2>1 DEF FsAdoptions, OneCoverage
  <2>2. CASE ~Referenced(s, c)
    <3>1. c = entries[s].cov /\ ~Referenced(s, d)
      BY <1>n, <2>2, ReferencesKept
    <3> QED BY <1>n, <3>1, ReferencesKept
  <2>3. CASE ~Referenced(s, d)
    <3>1. d = entries[s].cov /\ ~Referenced(s, c)
      BY <1>n, <2>3, ReferencesKept
    <3> QED BY <1>n, <3>1, ReferencesKept
  <2> QED BY <2>1, <2>2, <2>3
<1>2. PublishesAll'
  <2> SUFFICES ASSUME NEW pr \in Proc, NEW o \in Owner, task'[pr][o].op = "publish"
               PROVE  lock_paths(task'[pr][o].req) # {}
    BY DEF PublishesAll, lock_paths
  <2>1. IsAcquiring(pr, o)'
    BY DEF IsAcquiring
  <2>2. task'[pr][o] = task[pr][o]
    BY <1>n, <2>1, AttemptsArise DEF AttemptStarts
  <2> QED BY <2>2 DEF FsAdoptions, PublishesAll
<1>3. FsSourceWithheld'
  <2> SUFFICES ASSUME NEW pr \in Proc, NEW o \in Owner, NEW s \in Lease, FsAdopting(pr, o, s)'
               PROVE  /\ FsWithheld(pr, o)' \subseteq lock_paths(task'[pr][o].req)
                      /\ \A p \in FsWithheld(pr, o)' :
                           /\ GoneNext(s, p)
                           /\ \A q \in lock_paths(task'[pr][o].req) :
                                Rank[q] < Rank[p] => q \in FsWithheld(pr, o)'
    BY DEF FsSourceWithheld, Gone, GoneNext, lock_paths
  <2>1. /\ FsAdopting(pr, o, s) /\ task'[pr][o].req = task[pr][o].req
        /\ \/ FsWithheld(pr, o)' = FsWithheld(pr, o)
           \/ \E q \in Path : /\ IsLast(q, Todo(task[pr][o])) /\ task[pr][o].op = "undo"
                              /\ FsWithheld(pr, o)' = FsWithheld(pr, o) \ {q}
        /\ \A ok \in Outcome, p \in Path :
             UndoPath(pr, o, ok) /\ IsLast(p, Todo(task[pr][o])) => p \notin FsWithheld(pr, o)'
    BY WithheldOutside
  <2>2. PICK W, V, r : /\ W = FsWithheld(pr, o) /\ V = FsWithheld(pr, o)' /\ r = task[pr][o].req
                       /\ V \subseteq W
    BY <2>1
  <2>3. /\ W \subseteq lock_paths(r)
        /\ \A p \in W : Gone(s, p) /\ \A q \in lock_paths(r) : Rank[q] < Rank[p] => q \in W
    BY <2>1, <2>2 DEF FsAdoptions, FsSourceWithheld
  <2>4. Transferable(s)
    BY <2>1 DEF Structure, SourcesTransferable, FsAdopting
  <2>5. ASSUME NEW p \in V PROVE GoneNext(s, p)
    <3> SUFFICES ASSUME ~GoneNext(s, p) PROVE FALSE
      OBVIOUS
    <3>1. p \in Path /\ Gone(s, p)
      BY <2>2, <2>3, <2>5 DEF lock_paths
    <3>2. ~Gone(s, p)'
      BY DEF Gone, GoneNext
    <3>3. HolderPutBack(s, p)
      BY <1>n, <1>r, <2>4, <3>1, <3>2, TransferableHolders
    <3>4. PICK qr \in Proc, w \in Owner, ok \in Outcome :
            FsAdopting(qr, w, s) /\ UndoPath(qr, w, ok) /\ IsLast(p, Todo(task[qr][w]))
      BY <3>1, <3>3, PutBackIsAdopting
    <3>5. qr = pr /\ w = o
      BY <2>1, <3>4 DEF FsAdoptions, FsOneAdoption
    <3> QED BY <2>1, <2>2, <2>5, <3>1, <3>4, <3>5
  <2>6. ASSUME NEW p \in V, NEW q \in lock_paths(r), Rank[q] < Rank[p] PROVE q \in V
    <3>1. q \in W /\ p \in W
      BY <2>2, <2>3, <2>6
    <3>2. CASE V = W
      BY <3>1, <3>2
    <3>3. ASSUME NEW z \in Path, IsLast(z, Todo(task[pr][o])), task[pr][o].op = "undo", V = W \ {z}
          PROVE  q \in V
      <4>1. W = Todo(task[pr][o])
        BY <2>2, <3>3 DEF FsWithheld, Withheld
      <4>2. p \in Path /\ q \in Path
        BY <2>3, <2>6, <3>1 DEF lock_paths
      <4>3. Rank[p] \in Nat /\ Rank[q] \in Nat /\ Rank[z] \in Nat /\ Rank[p] <= Rank[z]
        BY <3>1, <3>3, <4>1, <4>2, RankOrder DEF IsLast
      <4>4. q # z
        BY <2>6, <4>3
      <4> QED BY <3>1, <3>3, <4>4
    <3> QED BY <2>1, <2>2, <3>2, <3>3
  <2> QED BY <2>1, <2>2, <2>3, <2>5, <2>6
<1>4. FsOneAdoption'
  <2> SUFFICES ASSUME NEW pr \in Proc, NEW qr \in Proc, NEW o \in Owner, NEW w \in Owner, NEW s \in Lease,
                      FsAdopting(pr, o, s)', FsAdopting(qr, w, s)'
               PROVE  pr = qr /\ o = w
    BY DEF FsOneAdoption
  <2>1. FsAdopting(pr, o, s) /\ FsAdopting(qr, w, s)
    BY WithheldOutside
  <2> QED BY <2>1 DEF FsAdoptions, FsOneAdoption
<1>5. ASSUME NEW k \in Lease, EntryPublished(k), entries'[k].source \in Lease
      PROVE  \E pr \in Proc, o \in Owner :
               /\ FsAdopting(pr, o, entries'[k].source) /\ k = task[pr][o].lease
               /\ FsWithheld(pr, o) = lock_paths(task[pr][o].req) /\ ~IsAcquiring(pr, o)'
               /\ tokens' = tokens
  <2>1. PICK pr \in Proc, o \in Owner :
          PublishLease(pr, o) /\ k = task[pr][o].lease /\ entries'[k].source = task[pr][o].source
    BY <1>5 DEF EntryPublished
  <2>2. task[pr][o].op = "publish" /\ tokens' = tokens /\ task'[pr][o] = Idle
    BY <2>1 DEF PublishLease, TypeOK
  <2>3. ~IsAcquiring(pr, o)'
    BY <2>2 DEF IsAcquiring, Idle
  <2>4. FsWithheld(pr, o) = lock_paths(task[pr][o].req) /\ lock_paths(task[pr][o].req) # {}
    BY <2>2 DEF FsWithheld, Withheld, FsAdoptions, PublishesAll
  <2> QED BY <2>1, <2>2, <2>3, <2>4 DEF FsAdopting, IsAcquiring
<1>6. FsAdoptedForGood'
  <2> SUFFICES ASSUME NEW k \in Lease, NEW s \in Lease, Published(k)', entries'[k].source = s
               PROVE  /\ Transferable(s)'
                      /\ \A pr \in Proc, o \in Owner : ~FsAdopting(pr, o, s)'
                      /\ \A c \in Coverage : Referenced(s, c)' => \A p \in lock_paths(c) : GoneNext(s, p)
    BY DEF FsAdoptedForGood, Gone, GoneNext
  <2>1. CASE EntryStays(k)
    <3>1. Published(k) /\ entries[k].source = s
      BY <2>1 DEF EntryStays
    <3>2. /\ Transferable(s) /\ \A pr \in Proc, o \in Owner : ~FsAdopting(pr, o, s)
          /\ \A c \in Coverage : Referenced(s, c) => \A p \in lock_paths(c) : Gone(s, p)
      BY <3>1 DEF FsAdoptions, FsAdoptedForGood
    <3>3. ~FreshLease(s)
      BY <3>1 DEF FreshLease
    <3>4. Transferable(s)'
      BY <1>n, <3>2, <3>3, TransferableStays
    <3>5. ASSUME NEW pr \in Proc, NEW o \in Owner PROVE ~FsAdopting(pr, o, s)'
      BY <3>2, WithheldOutside
    <3>6. ASSUME NEW c \in Coverage, Referenced(s, c)', NEW p \in lock_paths(c) PROVE GoneNext(s, p)
      <4>1. Referenced(s, c)
        BY <1>n, <3>2, <3>6, ReferencesKept
      <4>2. p \in Path /\ Gone(s, p)
        BY <3>2, <3>6, <4>1 DEF lock_paths
      <4>3. ~HolderPutBack(s, p)
        BY <3>2, <4>2, PutBackIsAdopting
      <4>4. Gone(s, p)'
        BY <1>n, <1>r, <3>2, <4>2, <4>3, TransferableHolders
      <4> QED BY <4>4 DEF Gone, GoneNext
    <3> QED BY <3>4, <3>5, <3>6
  <2>2. CASE EntryPublished(k)
    <3>1. PICK pr \in Proc, o \in Owner :
            /\ FsAdopting(pr, o, s) /\ k = task[pr][o].lease
            /\ FsWithheld(pr, o) = lock_paths(task[pr][o].req) /\ ~IsAcquiring(pr, o)'
            /\ tokens' = tokens
      BY <1>5, <2>2
    <3>2. Transferable(s) /\ ~FreshLease(s)
      BY <3>1 DEF Structure, SourcesTransferable, FsAdopting, FreshLease
    <3>3. Transferable(s)'
      BY <1>n, <3>2, TransferableStays
    <3>4. ASSUME NEW qr \in Proc, NEW w \in Owner PROVE ~FsAdopting(qr, w, s)'
      <4>1. FsAdopting(qr, w, s)' => FsAdopting(qr, w, s)
        BY WithheldOutside
      <4>2. FsAdopting(qr, w, s)' => qr = pr /\ w = o
        BY <3>1, <4>1 DEF FsAdoptions, FsOneAdoption
      <4> QED BY <3>1, <4>2 DEF FsAdopting
    <3>5. ASSUME NEW c \in Coverage, Referenced(s, c)', NEW p \in lock_paths(c) PROVE GoneNext(s, p)
      <4>1. Referenced(s, c)
        BY <1>n, <3>2, <3>5, ReferencesKept
      <4>2. task[pr][o].req \in Coverage
        BY TaskLease DEF TaskRecord
      <4>3. Referenced(s, task[pr][o].req)
        BY <3>1 DEF Referenced, FsAdopting
      <4>4. c = task[pr][o].req
        BY <4>1, <4>2, <4>3 DEF FsAdoptions, OneCoverage
      <4>5. Gone(s, p)
        BY <3>1, <3>5, <4>4 DEF FsAdoptions, FsSourceWithheld
      <4> QED BY <3>1, <4>5 DEF Gone, GoneNext
    <3> QED BY <3>3, <3>4, <3>5
  <2> QED BY <1>n, <2>1, <2>2, EntriesArise
<1>7. AdoptedOnce'
  <2> SUFFICES ASSUME NEW l \in Lease, NEW k \in Lease, Published(l)', Published(k)',
                      entries'[l].source # NoLease, entries'[l].source = entries'[k].source
               PROVE  l = k
    BY DEF AdoptedOnce
  <2>1. entries'[l].source \in Lease
    BY DEF TypeOK, Entry
  <2>2. CASE EntryStays(l) /\ EntryStays(k)
    BY <2>2 DEF EntryStays, FsAdoptions, AdoptedOnce
  <2>3. ~(EntryStays(l) /\ EntryPublished(k))
    BY <1>5, <2>1 DEF EntryStays, FsAdoptions, FsAdoptedForGood
  <2>4. ~(EntryStays(k) /\ EntryPublished(l))
    BY <1>5, <2>1 DEF EntryStays, FsAdoptions, FsAdoptedForGood
  <2>5. CASE EntryPublished(l) /\ EntryPublished(k)
    <3>1. PICK pr \in Proc, o \in Owner :
            FsAdopting(pr, o, entries'[l].source) /\ l = task[pr][o].lease
      BY <1>5, <2>1, <2>5
    <3>2. PICK qr \in Proc, w \in Owner :
            FsAdopting(qr, w, entries'[l].source) /\ k = task[qr][w].lease
      BY <1>5, <2>1, <2>5
    <3>3. pr = qr /\ o = w
      BY <2>1, <3>1, <3>2 DEF FsAdoptions, FsOneAdoption
    <3> QED BY <3>1, <3>2, <3>3
  <2> QED BY <1>n, <2>2, <2>3, <2>4, <2>5, EntriesArise
<1> QED BY <1>1, <1>2, <1>3, <1>4, <1>6, <1>7 DEF FsAdoptions

\* An attempt leaves the adoptions of others as they are.
LEMMA OthersAdopt ==
  ASSUME TypeOK, ScanOK, Structure, NEW xr \in Proc, NEW x \in Owner, FsAttempt(xr, x),
         NEW pr \in Proc, NEW o \in Owner, pr # xr \/ o # x, NEW s
  PROVE  /\ FsWithheld(pr, o)' = FsWithheld(pr, o) /\ task'[pr][o] = task[pr][o]
         /\ FsAdopting(pr, o, s)' => FsAdopting(pr, o, s)
<1>1. task'[pr][o] = task[pr][o] /\ written(pr, o)' = written(pr, o)
  BY AttemptOthers
<1>2. FsWithheld(pr, o)' = FsWithheld(pr, o)
  BY <1>1 DEF FsWithheld, Withheld, Todo, lock_paths
<1> QED BY <1>1, <1>2 DEF FsAdopting, IsAcquiring

\* An attempt that begins to adopt finds the source at its first path: nobody else adopts it.
LEMMA NewAdoption ==
  ASSUME TypeOK, ScanOK, Structure, FsAdoptions, NEW xr \in Proc, NEW x \in Owner, FsAttempt(xr, x),
         NEW s \in Lease, FsAdopting(xr, x, s)', ~FsAdopting(xr, x, s)
  PROVE  /\ Referenced(s, task[xr][x].req) /\ task[xr][x].req \in Coverage
         /\ \E q \in lock_paths(task[xr][x].req) : ~Gone(s, q)
         /\ \A qr \in Proc, w \in Owner : ~FsAdopting(qr, w, s)
<1>1. /\ IsAcquiring(xr, x) /\ task[xr][x].source = s
      /\ \/ FsWithheld(xr, x)' = FsWithheld(xr, x)
         \/ \E q \in Path : WritesNext(xr, x, q) /\ FsWithheld(xr, x)' = FsWithheld(xr, x) \cup {q}
      /\ FsWithheld(xr, x) = written(xr, x)
  BY WithheldAttempt
<1>2. PICK r : r = task[xr][x].req /\ r \in Coverage /\ Referenced(s, r)
  BY <1>1, TaskLease DEF TaskRecord, Referenced
<1>3. FsWithheld(xr, x) = {} /\ FsWithheld(xr, x)' # {}
  BY <1>1 DEF FsAdopting
<1>4. PICK q \in Path : WritesNext(xr, x, q)
  BY <1>1, <1>3
<1>5. /\ q \in lock_paths(r) /\ ~Gone(s, q)
      /\ \A z \in lock_paths(r) : ~(Rank[z] < Rank[q])
  BY <1>1, <1>2, <1>3, <1>4, Sentinels DEF WritesNext
<1>6. ASSUME NEW qr \in Proc, NEW w \in Owner, FsAdopting(qr, w, s) PROVE FALSE
  <2>1. task[qr][w].req \in Coverage /\ Referenced(s, task[qr][w].req)
    BY <1>6, TaskLease DEF TaskRecord, Referenced, FsAdopting
  <2>2. task[qr][w].req = r
    BY <1>2, <2>1 DEF FsAdoptions, OneCoverage
  <2>3. PICK W : /\ W = FsWithheld(qr, w) /\ W # {} /\ W \subseteq lock_paths(r)
                 /\ \A p \in W : /\ Gone(s, p)
                                 /\ \A z \in lock_paths(r) : Rank[z] < Rank[p] => z \in W
    BY <1>6, <2>2 DEF FsAdoptions, FsSourceWithheld, FsAdopting
  <2>4. PICK p \in W : p \in lock_paths(r) /\ p \in Path
    BY <2>3 DEF lock_paths
  <2>5. Rank[p] \in Nat /\ Rank[q] \in Nat /\ ~(Rank[p] < Rank[q])
    BY <1>5, <2>4, RankOrder
  <2>6. CASE Rank[p] = Rank[q]
    <3>1. p = q
      BY <2>4, <2>6, RankOrder
    <3> QED BY <1>5, <2>3, <2>4, <3>1
  <2>7. CASE Rank[q] < Rank[p]
    <3>1. q \in W
      BY <1>5, <2>3, <2>4, <2>7
    <3> QED BY <1>5, <2>3, <3>1
  <2> QED BY <2>5, <2>6, <2>7
<1> QED BY <1>2, <1>5, <1>6

\* The steps of an attempt keep the adoptions apart.
LEMMA AdoptionsAttempt ==
  ASSUME TypeOK, TypeOK', ScanOK, Structure, FsAdoptions,
         NEW xr \in Proc, NEW x \in Owner, FsAttempt(xr, x)
  PROVE  FsAdoptions'
<1>n. entries' = entries /\ handoffs' = handoffs /\ task[xr][x].op = "acquire" /\ IsAcquiring(xr, x)
  BY AttemptSteps DEF IsAcquiring
<1>1. OneCoverage'
  BY AttemptReferences DEF FsAdoptions, OneCoverage
<1>2. PublishesAll'
  <2> SUFFICES ASSUME NEW pr \in Proc, NEW o \in Owner, task'[pr][o].op = "publish"
               PROVE  lock_paths(task'[pr][o].req) # {}
    BY DEF PublishesAll, lock_paths
  <2>1. CASE pr # xr \/ o # x
    BY <2>1, AttemptOthers DEF FsAdoptions, PublishesAll
  <2>2. CASE pr = xr /\ o = x
    <3>1. task'[xr][x] # Idle /\ task'[xr][x].op # "acquire"
      BY <2>2 DEF Idle
    <3>2. GoesOnUnwritten(xr, x)
      BY <3>1, AttemptProgress
    <3>3. written(xr, x) = lock_paths(task[xr][x].req) /\ written(xr, x) # {}
      BY <2>2, <3>2 DEF GoesOnUnwritten
    <3>4. task'[xr][x].req = task[xr][x].req
      BY <3>2 DEF GoesOnUnwritten, AttemptGoesOn
    <3> QED BY <2>2, <3>3, <3>4
  <2> QED BY <2>1, <2>2
<1>3. ASSUME NEW s \in Lease, Transferable(s), NEW p \in Path, Gone(s, p) PROVE GoneNext(s, p)
  <2>1. s # task[xr][x].lease
    BY <1>3, <1>n DEF Transferable
  <2> QED BY <1>3, <2>1, AttemptHoldersArise
<1>4. FsSourceWithheld'
  <2> SUFFICES ASSUME NEW pr \in Proc, NEW o \in Owner, NEW s \in Lease, FsAdopting(pr, o, s)'
               PROVE  /\ FsWithheld(pr, o)' \subseteq lock_paths(task'[pr][o].req)
                      /\ \A p \in FsWithheld(pr, o)' :
                           /\ GoneNext(s, p)
                           /\ \A q \in lock_paths(task'[pr][o].req) :
                                Rank[q] < Rank[p] => q \in FsWithheld(pr, o)'
    BY DEF FsSourceWithheld, Gone, GoneNext, lock_paths
  <2>1. /\ IsAcquiring(pr, o) /\ task[pr][o].source = s /\ task'[pr][o].req = task[pr][o].req
        /\ \/ FsWithheld(pr, o)' = FsWithheld(pr, o)
           \/ /\ pr = xr /\ o = x /\ FsWithheld(pr, o) = written(pr, o)
              /\ \E q \in Path : WritesNext(pr, o, q) /\ FsWithheld(pr, o)' = FsWithheld(pr, o) \cup {q}
    <3>1. CASE pr # xr \/ o # x
      BY <3>1, OthersAdopt DEF FsAdopting
    <3>2. CASE pr = xr /\ o = x
      BY <3>2, WithheldAttempt
    <3> QED BY <3>1, <3>2
  <2>2. PICK W, V, r : /\ W = FsWithheld(pr, o) /\ V = FsWithheld(pr, o)' /\ r = task[pr][o].req
                       /\ V # {}
    BY DEF FsAdopting
  <2>3. Transferable(s) /\ s # task[pr][o].lease
    BY <2>1 DEF Structure, SourcesTransferable, Transferable
  <2>4. /\ W \subseteq lock_paths(r)
        /\ \A p \in W : Gone(s, p) /\ \A q \in lock_paths(r) : Rank[q] < Rank[p] => q \in W
    <3>1. CASE W = {}
      BY <3>1
    <3>2. CASE W # {}
      BY <2>1, <2>2, <3>2 DEF FsAdoptions, FsSourceWithheld, FsAdopting
    <3> QED BY <3>1, <3>2
  <2>5. \A p \in W : GoneNext(s, p)
    BY <1>3, <2>3, <2>4 DEF lock_paths
  <2>6. CASE V = W
    BY <2>1, <2>2, <2>4, <2>5, <2>6
  <2>7. ASSUME NEW z \in Path, WritesNext(pr, o, z), V = W \cup {z}, W = written(pr, o)
        PROVE  /\ V \subseteq lock_paths(r)
               /\ \A p \in V : /\ GoneNext(s, p)
                               /\ \A q \in lock_paths(r) : Rank[q] < Rank[p] => q \in V
    <3>1. z \in lock_paths(r) /\ \A q \in lock_paths(r) : Rank[q] < Rank[z] => q \in W
      BY <2>2, <2>7 DEF WritesNext
    <3>2. GoneNext(s, z)
      BY <2>1, <2>3, <2>7, WriteDropsSource
    <3> QED BY <2>4, <2>5, <2>7, <3>1, <3>2
  <2> QED BY <2>1, <2>2, <2>6, <2>7
<1>5. FsOneAdoption'
  <2> SUFFICES ASSUME NEW pr \in Proc, NEW qr \in Proc, NEW o \in Owner, NEW w \in Owner, NEW s \in Lease,
                      FsAdopting(pr, o, s)', FsAdopting(qr, w, s)'
               PROVE  pr = qr /\ o = w
    BY DEF FsOneAdoption
  <2>1. CASE FsAdopting(pr, o, s) /\ FsAdopting(qr, w, s)
    BY <2>1 DEF FsAdoptions, FsOneAdoption
  <2>2. FsAdopting(pr, o, s) \/ (pr = xr /\ o = x)
    BY OthersAdopt
  <2>3. FsAdopting(qr, w, s) \/ (qr = xr /\ w = x)
    BY OthersAdopt
  <2>4. CASE ~FsAdopting(xr, x, s) /\ FsAdopting(xr, x, s)'
    <3>1. ~FsAdopting(pr, o, s) /\ ~FsAdopting(qr, w, s)
      BY <2>4, NewAdoption
    <3> QED BY <2>2, <2>3, <3>1
  <2> QED BY <2>1, <2>2, <2>3, <2>4
<1>6. FsAdoptedForGood'
  <2> SUFFICES ASSUME NEW k \in Lease, NEW s \in Lease, Published(k)', entries'[k].source = s
               PROVE  /\ Transferable(s)'
                      /\ \A pr \in Proc, o \in Owner : ~FsAdopting(pr, o, s)'
                      /\ \A c \in Coverage : Referenced(s, c)' => \A p \in lock_paths(c) : GoneNext(s, p)
    BY DEF FsAdoptedForGood, Gone, GoneNext
  <2>1. Published(k) /\ entries[k].source = s
    BY <1>n DEF Published
  <2>2. /\ Transferable(s) /\ \A pr \in Proc, o \in Owner : ~FsAdopting(pr, o, s)
        /\ \A c \in Coverage : Referenced(s, c) => \A p \in lock_paths(c) : Gone(s, p)
    BY <2>1 DEF FsAdoptions, FsAdoptedForGood
  <2>3. ASSUME NEW pr \in Proc, NEW o \in Owner, IsAcquiring(pr, o)'
        PROVE  IsAcquiring(pr, o) /\ task'[pr][o].lease = task[pr][o].lease
    <3>1. CASE pr # xr \/ o # x
      <4>1. task'[pr][o] = task[pr][o]
        BY <3>1, AttemptOthers
      <4> QED BY <2>3, <4>1 DEF IsAcquiring
    <3>2. CASE pr = xr /\ o = x
      <4>1. task'[xr][x] # Idle
        BY <2>3, <3>2 DEF IsAcquiring, Idle
      <4>2. AttemptGoesOn(xr, x)
        BY <4>1, AttemptProgress DEF GoesOnUnwritten
      <4> QED BY <3>2, <4>2 DEF AttemptGoesOn
    <3> QED BY <3>1, <3>2
  <2>4. Transferable(s)'
    BY <1>n, <2>2, <2>3 DEF Transferable, Published
  <2>5. ASSUME NEW pr \in Proc, NEW o \in Owner, FsAdopting(pr, o, s)' PROVE FALSE
    <3>1. pr = xr /\ o = x
      BY <2>2, <2>5, OthersAdopt
    <3>2. /\ Referenced(s, task[xr][x].req) /\ task[xr][x].req \in Coverage
          /\ \E q \in lock_paths(task[xr][x].req) : ~Gone(s, q)
      BY <2>2, <2>5, <3>1, NewAdoption
    <3> QED BY <2>2, <3>2
  <2>6. ASSUME NEW c \in Coverage, Referenced(s, c)', NEW p \in lock_paths(c) PROVE GoneNext(s, p)
    <3>1. Referenced(s, c)
      BY <2>6, AttemptReferences
    <3> QED BY <1>3, <2>2, <2>6, <3>1 DEF lock_paths
  <2> QED BY <2>4, <2>5, <2>6
<1>7. AdoptedOnce'
  BY <1>n DEF FsAdoptions, AdoptedOnce, Published
<1> QED BY <1>1, <1>2, <1>4, <1>5, <1>6, <1>7 DEF FsAdoptions
-----------------------------------------------------------------------------
(* Leases that stay valid, and what is done with them *)

\* The refresh of l that ends here started where l is published.
RefreshApplied(l) ==
  \E pr \in Proc, o \in Owner :
    LET t == task[pr][o] IN
    /\ t.op = "refresh" /\ t.lease = l /\ entries[l].proc = pr /\ ~expired(entries[l])
    /\ \A p \in Path : entries'[l].conf[p] = IF t.result[p] = "ok" THEN t.started ELSE entries[l].conf[p]

ReleaseGoesOn(pr, o) ==
  LET t == task[pr][o]
      u == task'[pr][o]
  IN  t.op = "release" /\ u.op = "release" /\ u.lease = t.lease

\* A path of l is released.
PathReleased(l) ==
  \E pr \in Proc, o \in Owner : task[pr][o].op = "release" /\ task[pr][o].lease = l

\* A lease that stays valid: its confirmations stay, or move by a refresh before its
\* deadline, and its paths stay or are released.
ValidMoves(l) ==
  /\ Valid(l) /\ entries'[l].proc = entries[l].proc /\ entries'[l].owner = entries[l].owner
  /\ entries'[l].pending_handoff =>
       entries[l].pending_handoff \/ \E pr \in Proc, o \in Owner : Handoff(pr, o, l)
  /\ \/ entries'[l].cov = entries[l].cov /\ \A p \in Path : entries'[l].conf[p] = entries[l].conf[p]
     \/ entries'[l].cov = entries[l].cov /\ RefreshApplied(l)
     \/ /\ PathReleased(l)
        /\ \A p \in Path : entries'[l].cov[p] # "None" =>
             entries'[l].cov[p] = entries[l].cov[p] /\ entries'[l].conf[p] = entries[l].conf[p]

\* A lease that becomes valid: it is published with what its attempt counts from.
ValidArises(l) ==
  \E pr \in Proc, o \in Owner :
    LET t == task[pr][o] IN
    /\ t.op = "publish" /\ t.lease = l
    /\ entries'[l].proc = pr /\ entries'[l].owner = o /\ entries'[l].cov = t.req
    /\ \A p \in Path : t.req[p] # "None" => entries'[l].conf[p] = t.started

\* A valid lease was valid before the step or is published by it.
LEMMA ValidLeases ==
  ASSUME TypeOK, TypeOK', Structure, [Next]_vars, NEW l \in Lease, Valid(l)'
  PROVE  ValidMoves(l) \/ ValidArises(l)
<1>e. entries \in [Lease -> Entry] /\ entries[l] \in Entry /\ now \in Nat
  BY DEF TypeOK
<1>k. ASSUME EntriesKept PROVE ValidMoves(l)
  BY <1>k DEF EntriesKept, ValidMoves, Valid, Published
<1>s. ASSUME entries'[l] = entries[l] \/ entries'[l] = NoEntry PROVE ValidMoves(l)
  BY <1>s DEF ValidMoves, Valid, Published, NoEntry
<1>1. ASSUME NEW pr \in Proc, NEW o \in Owner, PublishLease(pr, o) PROVE ValidMoves(l) \/ ValidArises(l)
  <2>1. PICK t, E, conf : /\ t = task[pr][o] /\ t.op = "publish" /\ E = invalidate_expired(entries, pr, o)
                          /\ conf = [p \in Path |-> IF t.req[p] = "None" THEN 0 ELSE t.started]
                          /\ entries' = [E EXCEPT ![t.lease] =
                               [NoEntry EXCEPT !.proc = pr, !.owner = o, !.cov = t.req,
                                               !.conf = conf, !.source = t.source]]
    BY <1>1 DEF PublishLease
  <2>2. E \in [Lease -> Entry]
    BY <1>e, <2>1, InvalidateExpiredType
  <2>3. CASE l = t.lease
    <3>1. entries'[l] = [NoEntry EXCEPT !.proc = pr, !.owner = o, !.cov = t.req,
                                        !.conf = conf, !.source = t.source]
      BY <2>1, <2>2, <2>3
    <3>2. entries'[l].proc = pr /\ entries'[l].owner = o /\ entries'[l].cov = t.req /\ entries'[l].conf = conf
      BY <3>1 DEF NoEntry
    <3>3. \A p \in Path : t.req[p] # "None" => entries'[l].conf[p] = t.started
      BY <2>1, <3>2
    <3> QED BY <2>1, <2>3, <3>2, <3>3 DEF ValidArises
  <2>4. CASE l # t.lease
    <3>1. entries'[l] = E[l]
      BY <2>1, <2>2, <2>4
    <3>2. /\ E[l].proc = entries[l].proc /\ E[l].owner = entries[l].owner /\ E[l].cov = entries[l].cov
          /\ E[l].conf = entries[l].conf /\ E[l].pending_handoff = entries[l].pending_handoff
          /\ E[l].invalidation = "None" => entries[l].invalidation = "None"
      BY <1>e, <2>1, SweepKeeps
    <3> QED BY <3>1, <3>2 DEF ValidMoves, Valid, Published
  <2> QED BY <2>3, <2>4
<1>2. ASSUME NEW pr \in Proc, NEW o \in Owner, Acquiring(pr, o), ~PublishLease(pr, o)
      PROVE  ValidMoves(l)
  <2>1. entries' = entries \/ entries' = invalidate_expired(entries, pr, o)
    BY <1>2 DEF Acquiring, AcquireBatch, AcquireReentrant, ReacquireBatch, Adopt, start_acquire,
                RollbackLease, UndoPath
  <2> QED BY <1>k, <2>1, KeptBySweep
<1>3. ASSUME NEW pr \in Proc, NEW o \in Owner, CommitAcquire(pr, o) \/ RejectAcquire(pr, o)
      PROVE  ValidMoves(l)
  BY <1>3, <1>s DEF CommitAcquire, RejectAcquire
<1>4. ASSUME NEW pr \in Proc, NEW o \in Owner, ApplyRefresh(pr, o) PROVE ValidMoves(l)
  <2>1. PICK t : t = task[pr][o]
    OBVIOUS
  <2>2. /\ t.op = "refresh" /\ t.lease \in Lease /\ t.started \in Nat /\ t.lease \in registry(entries, pr, o)
        /\ entries' = apply_refresh_results(entries, pr, o, t.lease, t.result, t.started)
    BY <1>4, <2>1, TaskLease DEF ApplyRefresh, Structure, HeldWhileInFlight
  <2>3. /\ entries'[l].proc = entries[l].proc /\ entries'[l].owner = entries[l].owner
        /\ entries'[l].cov = entries[l].cov /\ entries'[l].pending_handoff = entries[l].pending_handoff
        /\ \A p \in Path : entries'[l].conf[p] =
             IF l = t.lease /\ t.result[p] = "ok" THEN t.started ELSE entries[l].conf[p]
        /\ entries'[l].invalidation = "None" =>
             entries[l].invalidation = "None" /\ (l = t.lease => ~expired(entries[t.lease]))
    BY <1>e, <2>2, ApplyKeeps
  <2>4. Valid(l)
    BY <2>3 DEF Valid, Published
  <2>5. CASE l # t.lease
    BY <2>3, <2>4, <2>5 DEF ValidMoves
  <2>6. CASE l = t.lease
    <3>1. ~expired(entries[l]) /\ entries[l].proc = pr
      BY <2>2, <2>3, <2>6 DEF Valid, registry
    <3>2. RefreshApplied(l)
      BY <2>1, <2>2, <2>3, <2>6, <3>1 DEF RefreshApplied
    <3> QED BY <2>3, <2>4, <3>2 DEF ValidMoves
  <2> QED BY <2>5, <2>6
<1>5. ASSUME NEW pr \in Proc, NEW o \in Owner, NEW k \in Lease, Handoff(pr, o, k) PROVE ValidMoves(l)
  <2>1. PICK E \in [Lease -> Entry] : E = invalidate_expired(entries, pr, o)
    BY InvalidateExpiredType DEF TypeOK
  <2>2. entries' = E \/ entries' = [E EXCEPT ![k].pending_handoff = TRUE]
    BY <1>5, <2>1 DEF Handoff
  <2>3. /\ E[l].proc = entries[l].proc /\ E[l].owner = entries[l].owner /\ E[l].cov = entries[l].cov
        /\ E[l].conf = entries[l].conf /\ E[l].pending_handoff = entries[l].pending_handoff
        /\ E[l].invalidation = "None" => entries[l].invalidation = "None"
    BY <1>e, <2>1, SweepKeeps
  <2>4. /\ entries'[l].proc = E[l].proc /\ entries'[l].owner = E[l].owner /\ entries'[l].cov = E[l].cov
        /\ entries'[l].conf = E[l].conf /\ entries'[l].invalidation = E[l].invalidation
        /\ l # k => entries'[l].pending_handoff = E[l].pending_handoff
    BY <2>1, <2>2 DEF Entry
  <2> QED BY <1>5, <2>3, <2>4 DEF ValidMoves, Valid, Published
<1>6. ASSUME NEW pr \in Proc, NEW o \in Owner, NEW ok \in Outcome, ReleasePath(pr, o, ok) PROVE ValidMoves(l)
  <2>1. PICK t, p : /\ t = task[pr][o] /\ t.op = "release" /\ p \in Path
                    /\ entries' = [entries EXCEPT ![t.lease] =
                                     IF ok THEN remove_path(@, p) ELSE invalidate(@, "ReleaseFailed")]
    BY <1>6 DEF ReleasePath
  <2>2. CASE l # t.lease
    <3>1. entries'[l] = entries[l]
      BY <1>e, <2>1, <2>2
    <3> QED BY <1>s, <3>1
  <2>3. CASE l = t.lease
    <3>0. entries'[l] \in {remove_path(entries[l], p), invalidate(entries[l], "ReleaseFailed")}
      BY <1>e, <2>1, <2>3
    <3>1. PICK e, f : e \in Entry /\ e = entries[l] /\ f = entries'[l]
      BY <1>e
    <3>r. PathReleased(l)
      BY <2>1, <2>3 DEF PathReleased
    <3>2. CASE f = invalidate(e, "ReleaseFailed")
      <4>1. f.invalidation # "None"
        BY <3>1, <3>2 DEF invalidate, Entry
      <4> QED BY <3>1, <4>1 DEF Valid
    <3>3. CASE f = remove_path(e, p)
      <4>1. f = [e EXCEPT !.cov[p] = "None", !.conf[p] = 0]
        BY <3>1, <3>3 DEF remove_path, NoEntry, Valid, Published
      <4>2. /\ f.proc = e.proc /\ f.owner = e.owner /\ f.pending_handoff = e.pending_handoff
            /\ f.invalidation = e.invalidation
        BY <4>1 DEF Entry
      <4>3. \A q \in Path : f.cov[q] # "None" => f.cov[q] = e.cov[q] /\ f.conf[q] = e.conf[q]
        <5>1. f.cov = [e.cov EXCEPT ![p] = "None"] /\ f.conf = [e.conf EXCEPT ![p] = 0]
          BY <4>1 DEF Entry
        <5>2. e.cov \in [Path -> Kind \cup {"None"}] /\ e.conf \in [Path -> Nat]
          BY <3>1 DEF Entry, Coverage
        <5> QED BY <5>1, <5>2
      <4> QED BY <3>1, <3>r, <4>2, <4>3 DEF ValidMoves, Valid, Published
    <3> QED BY <3>0, <3>1, <3>2, <3>3
  <2> QED BY <2>2, <2>3
<1>7. ASSUME NEW pr \in Proc, NEW o \in Owner, Holding(pr, o) PROVE ValidMoves(l)
  <2>1. ASSUME NEW k \in Lease, Forget(pr, o, k) PROVE ValidMoves(l)
    BY <1>e, <1>s, <2>1 DEF Forget
  <2>2. ASSUME NEW k \in Lease, StartRefresh(pr, o, k) PROVE ValidMoves(l)
    BY <1>k, <2>2, KeptBySweep DEF StartRefresh
  <2>3. ASSUME Lookup(pr, o) PROVE ValidMoves(l)
    BY <1>k, <2>3, KeptBySweep DEF Lookup
  <2>4. ASSUME NEW k \in Lease, NEW S, Release(pr, o, k, S) \/ Cleanup(pr, o, k) PROVE ValidMoves(l)
    BY <1>s, <2>4 DEF Release, Cleanup, start_release
  <2>5. ASSUME NEW ok \in Outcome, RefreshPath(pr, o, ok) PROVE ValidMoves(l)
    BY <1>s, <2>5 DEF RefreshPath
  <2> QED BY <1>4, <1>5, <1>6, <1>7, <2>1, <2>2, <2>3, <2>4, <2>5 DEF Holding
<1>8. ASSUME Environment \/ (\E pr \in Proc, k \in Lease : Unpark(pr, k)) \/ UNCHANGED vars
      PROVE  ValidMoves(l)
  <2>1. entries'[l] = entries[l] \/ entries'[l] = NoEntry
    BY <1>8, <1>e DEF Environment, AckHandoff, Tick, Crash, Unpark, vars
  <2> QED BY <1>s, <2>1
<1> QED BY <1>1, <1>2, <1>3, <1>7, <1>8 DEF Next

\* A refresh finds its holder at q and renews it.
ConfirmsAt(pr, o, q) ==
  LET t  == task[pr][o]
      sb == stale_before_at(pr, t.started)
  IN  /\ t.op = "refresh" /\ holder_found(tokens[q], o, t.lease, sb, FALSE)
      /\ tokens' = [tokens EXCEPT ![q] =
                      mutate_holder_record(@, o, t.lease, t.started + Skew[pr], sb, FALSE)]

RefreshGoesOn(pr, o) ==
  LET t == task[pr][o]
      u == task'[pr][o]
  IN  /\ t.op = "refresh" /\ u.op = "refresh" /\ u.lease = t.lease /\ u.started = t.started
      /\ \A p \in Path : u.result[p] = "ok" => t.result[p] = "ok" \/ ConfirmsAt(pr, o, p)

\* A refresh that starts has confirmed nothing; a release that starts is about a lease
\* that is not parked, or is no longer valid.
HoldingStarts(pr, o) ==
  LET u == task'[pr][o] IN
  \/ u.op = "refresh" /\ \A p \in Path : u.result[p] # "ok"
  \/ /\ u.op = "release" /\ entries' = entries
     /\ ~entries[u.lease].pending_handoff \/ entries[u.lease].invalidation # "None"

\* A refresh or a release starts, is left alone, or takes its next step.
LEMMA HoldingArises ==
  ASSUME TypeOK, [Next]_vars, NEW pr \in Proc, NEW o \in Owner,
         task'[pr][o].op \in {"refresh", "release"}
  PROVE  \/ task'[pr][o] = task[pr][o] \/ HoldingStarts(pr, o)
         \/ RefreshGoesOn(pr, o) \/ ReleaseGoesOn(pr, o)
<1>t. task \in [Proc -> [Owner -> Task]] /\ Idle.op = "idle"
  BY DEF TypeOK, Idle
<1>u. ASSUME NEW qr \in Proc, NEW w \in Owner, NEW u, task' = [task EXCEPT ![qr][w] = u]
      PROVE  task'[pr][o] = task[pr][o] \/ (qr = pr /\ w = o /\ task'[pr][o] = u)
  BY <1>t, <1>u, TaskSet
<1>n. ASSUME NEW qr \in Proc, NEW w \in Owner, NEW u, task' = [task EXCEPT ![qr][w] = u],
             u.op \notin {"refresh", "release"}
      PROVE  task'[pr][o] = task[pr][o]
  BY <1>n, <1>u
<1>1. ASSUME NEW qr \in Proc, NEW w \in Owner, Acquiring(qr, w) PROVE task'[pr][o] = task[pr][o]
  <2>1. ASSUME NEW l, NEW r, NEW s, NEW cap, start_acquire(qr, w, l, r, s, cap)
        PROVE  task'[pr][o] = task[pr][o]
    <3>1. PICK u : /\ u = [Idle EXCEPT !.op = "acquire", !.lease = l, !.req = r,
                                       !.source = s, !.cap = cap, !.started = now]
                   /\ task' = [task EXCEPT ![qr][w] = u]
      BY <2>1 DEF start_acquire
    <3>2. u.op = "acquire"
      BY <3>1 DEF Idle
    <3> QED BY <1>n, <3>1, <3>2
  <2>2. ASSUME PublishLease(qr, w) PROVE task'[pr][o] = task[pr][o]
    BY <1>n, <1>t, <2>2 DEF PublishLease
  <2>3. ASSUME RollbackLease(qr, w) PROVE task'[pr][o] = task[pr][o]
    <3>1. PICK t, u : /\ t = task[qr][w] /\ u = [t EXCEPT !.op = "undo", !.result = todo_for(lock_paths(t.req))]
                      /\ task' = [task EXCEPT ![qr][w] = u]
      BY <2>3 DEF RollbackLease
    <3>2. u.op = "undo"
      BY <3>1, TaskLease DEF TaskRecord
    <3> QED BY <1>n, <3>1, <3>2
  <2>4. ASSUME NEW ok \in Outcome, UndoPath(qr, w, ok) PROVE task'[pr][o] = task[pr][o]
    <3>0. PICK t : t = task[qr][w] /\ t.op = "undo"
      BY <2>4 DEF UndoPath
    <3>a. PICK p \in Path : task' = [task EXCEPT ![qr][w] =
                                 IF Todo(t) = {p} THEN Idle
                                 ELSE [t EXCEPT !.result[p] = IF ok THEN "ok" ELSE "err"]]
      BY <2>4, <3>0 DEF UndoPath
    <3>1. PICK x, u : /\ u = IF Todo(t) = {p} THEN Idle ELSE [t EXCEPT !.result[p] = x]
                      /\ task' = [task EXCEPT ![qr][w] = u]
      BY <3>a
    <3>2. u.op \in {"undo", "idle"}
      BY <1>t, <3>0, <3>1, TaskLease DEF TaskRecord
    <3> QED BY <1>n, <3>1, <3>2
  <2> QED BY <1>1, <2>1, <2>2, <2>3, <2>4 DEF Acquiring, AcquireBatch, AcquireReentrant, ReacquireBatch, Adopt
<1>2. ASSUME NEW qr \in Proc, NEW w \in Owner, CommitAcquire(qr, w) \/ RejectAcquire(qr, w)
      PROVE  task'[pr][o] = task[pr][o]
  <2>1. PICK t : t = task[qr][w] /\ t \in TaskRecord
    BY TaskLease
  <2>2. PICK u : task' = [task EXCEPT ![qr][w] = u] /\ u.op \in {"publish", "idle"}
    <3>1. PICK R : \/ task' = [task EXCEPT ![qr][w] = [t EXCEPT !.op = "publish", !.replaced = R]]
                   \/ task' = [task EXCEPT ![qr][w] = Idle]
      BY <1>2, <2>1 DEF CommitAcquire, RejectAcquire
    <3>2. [t EXCEPT !.op = "publish", !.replaced = R].op = "publish"
      BY <2>1 DEF TaskRecord
    <3> QED BY <1>t, <3>1, <3>2
  <2> QED BY <1>n, <2>2
<1>3. ASSUME NEW qr \in Proc, NEW w \in Owner, NEW l \in Lease, StartRefresh(qr, w, l)
      PROVE  task'[pr][o] = task[pr][o] \/ HoldingStarts(pr, o)
  <2>1. PICK S, u : /\ u = [Idle EXCEPT !.op = "refresh", !.lease = l, !.started = now, !.result = todo_for(S)]
                    /\ task' = task \/ task' = [task EXCEPT ![qr][w] = u]
    BY <1>3 DEF StartRefresh
  <2>2. u.op = "refresh" /\ \A p \in Path : u.result[p] # "ok"
    BY <2>1 DEF Idle, todo_for
  <2> QED BY <1>u, <2>1, <2>2 DEF HoldingStarts
<1>4. ASSUME NEW qr \in Proc, NEW w \in Owner, NEW l \in Lease, NEW S,
             Release(qr, w, l, S) \/ Cleanup(qr, w, l)
      PROVE  task'[pr][o] = task[pr][o] \/ HoldingStarts(pr, o)
  <2>1. PICK R, u : /\ u = [Idle EXCEPT !.op = "release", !.lease = l, !.started = now, !.result = todo_for(R)]
                    /\ task' = [task EXCEPT ![qr][w] = u] /\ entries' = entries
    BY <1>4 DEF Release, Cleanup, start_release
  <2>2. u.op = "release" /\ u.lease = l
    BY <2>1 DEF Idle
  <2>3. ~entries[l].pending_handoff \/ entries[l].invalidation # "None"
    BY <1>4 DEF Release, Cleanup
  <2> QED BY <1>u, <2>1, <2>2, <2>3 DEF HoldingStarts
<1>5. ASSUME NEW qr \in Proc, NEW w \in Owner, NEW ok \in Outcome, RefreshPath(qr, w, ok)
      PROVE  task'[pr][o] = task[pr][o] \/ RefreshGoesOn(pr, o)
  <2>1. PICK t, sb : t = task[qr][w] /\ t \in TaskRecord /\ sb = stale_before_at(qr, t.started)
    BY TaskLease
  <2>2. PICK q \in Path, x \in {"err", "ok", "lost"} :
          /\ t.op = "refresh" /\ task' = [task EXCEPT ![qr][w] = [t EXCEPT !.result[q] = x]]
          /\ x = "ok" => ok /\ holder_found(tokens[q], w, t.lease, sb, FALSE)
          /\ tokens' = IF ~ok THEN tokens
                       ELSE [tokens EXCEPT ![q] =
                               mutate_holder_record(@, w, t.lease, t.started + Skew[qr], sb, FALSE)]
    BY <1>5, <2>1 DEF RefreshPath
  <2>3. PICK u : u = [t EXCEPT !.result[q] = x] /\ task' = [task EXCEPT ![qr][w] = u]
    BY <2>2
  <2>4. /\ u.op = "refresh" /\ u.lease = t.lease /\ u.started = t.started
        /\ \A p \in Path : u.result[p] = "ok" => t.result[p] = "ok" \/ (p = q /\ x = "ok")
    BY <2>1, <2>2, <2>3 DEF TaskRecord
  <2>5. x = "ok" => ConfirmsAt(qr, w, q)
    BY <2>1, <2>2 DEF ConfirmsAt
  <2>6. task'[pr][o] = task[pr][o] \/ (qr = pr /\ w = o /\ task'[pr][o] = u)
    BY <1>u, <2>3
  <2> QED BY <2>1, <2>2, <2>4, <2>5, <2>6 DEF RefreshGoesOn
<1>6. ASSUME NEW qr \in Proc, NEW w \in Owner, NEW ok \in Outcome, ReleasePath(qr, w, ok)
      PROVE  task'[pr][o] = task[pr][o] \/ ReleaseGoesOn(pr, o)
  <2>1. PICK t : t = task[qr][w] /\ t \in TaskRecord /\ t.op = "release"
    BY <1>6, TaskLease DEF ReleasePath
  <2>2. PICK p, u : /\ u = IF Todo(t) = {p} THEN Idle ELSE [t EXCEPT !.result[p] = "ok"]
                    /\ task' = [task EXCEPT ![qr][w] = u]
    BY <1>6, <2>1 DEF ReleasePath
  <2>3. u.op = "idle" \/ (u.op = "release" /\ u.lease = t.lease)
    BY <1>t, <2>1, <2>2 DEF TaskRecord
  <2>4. task'[pr][o] = task[pr][o] \/ (qr = pr /\ w = o /\ task'[pr][o] = u)
    BY <1>u, <2>2
  <2> QED BY <2>1, <2>3, <2>4 DEF ReleaseGoesOn
<1>7. ASSUME NEW qr \in Proc, NEW w \in Owner, ApplyRefresh(qr, w) PROVE task'[pr][o] = task[pr][o]
  BY <1>n, <1>t, <1>7 DEF ApplyRefresh
<1>8. ASSUME NEW qr \in Proc, NEW w \in Owner, NEW l \in Lease,
             Forget(qr, w, l) \/ Handoff(qr, w, l) \/ Lookup(qr, w)
      PROVE  task'[pr][o] = task[pr][o]
  BY <1>8 DEF Forget, Handoff, Lookup
<1>9. ASSUME Environment \/ (\E qr \in Proc, k \in Lease : Unpark(qr, k)) \/ UNCHANGED vars
      PROVE  task'[pr][o] = task[pr][o]
  <2>1. ASSUME NEW qr \in Proc, Crash(qr) PROVE task'[pr][o] = task[pr][o]
    <3>1. task' = [task EXCEPT ![qr] = [w \in Owner |-> Idle]]
      BY <2>1 DEF Crash
    <3>2. task'[pr][o] = task[pr][o] \/ task'[pr][o] = Idle
      BY <1>t, <3>1
    <3> QED BY <1>t, <3>2
  <2>2. task' = task \/ \E qr \in Proc : Crash(qr)
    BY <1>9, RequestAssumption DEF Environment, AckHandoff, Tick, Unpark, vars
  <2> QED BY <2>1, <2>2
<1>10. ASSUME NEW qr \in Proc, NEW w \in Owner, Holding(qr, w)
       PROVE  \/ task'[pr][o] = task[pr][o] \/ HoldingStarts(pr, o)
              \/ RefreshGoesOn(pr, o) \/ ReleaseGoesOn(pr, o)
  <2>1. CASE Lookup(qr, w)
    BY <2>1 DEF Lookup
  <2> QED BY <1>3, <1>4, <1>5, <1>6, <1>7, <1>8, <1>10, <2>1 DEF Holding
<1> QED BY <1>1, <1>2, <1>9, <1>10 DEF Next

-----------------------------------------------------------------------------
(* The stamps of the holders *)

\* A stamp stays right: what counts from a later time has found the holder renewed.
LEMMA StampStays ==
  ASSUME TypeOK, TypeOK', Structure, [Next]_vars, NEW p \in Path, NEW h \in Holder,
         StampOK(h, p), ~FreshLease(h.id),
         \A pr \in Proc, o \in Owner :
           ConfirmsAt(pr, o, p) /\ task[pr][o].lease = h.id => h.time >= task[pr][o].started + Skew[pr]
  PROVE  StampOK(h, p)'
<1>1. PICK l \in Lease : l = h.id
  BY DEF Holder
<1>2. ASSUME Valid(l)', entries'[l].cov[p] # "None"
      PROVE  h.kind = entries'[l].cov[p] /\ h.time >= entries'[l].conf[p] + Skew[entries'[l].proc]
  <2>1. CASE ValidMoves(l)
    <3>1. CASE entries'[l].cov[p] = entries[l].cov[p] /\ entries'[l].conf[p] = entries[l].conf[p]
      BY <1>1, <1>2, <2>1, <3>1 DEF ValidMoves, StampOK
    <3>2. CASE entries'[l].cov = entries[l].cov /\ RefreshApplied(l)
      <4>1. PICK pr \in Proc, o \in Owner :
              /\ task[pr][o].op = "refresh" /\ task[pr][o].lease = l /\ entries[l].proc = pr
              /\ entries'[l].conf[p] = IF task[pr][o].result[p] = "ok" THEN task[pr][o].started
                                       ELSE entries[l].conf[p]
        BY <3>2 DEF RefreshApplied
      <4>2. CASE task[pr][o].result[p] # "ok"
        BY <3>1, <3>2, <4>1, <4>2
      <4>3. CASE task[pr][o].result[p] = "ok"
        <5>1. h.time >= task[pr][o].started + Skew[pr]
          BY <1>1, <4>1, <4>3 DEF StampOK
        <5>2. h.kind = entries[l].cov[p]
          BY <1>1, <1>2, <2>1, <3>2 DEF StampOK, ValidMoves
        <5> QED BY <2>1, <3>2, <4>1, <4>3, <5>1, <5>2 DEF ValidMoves
      <4> QED BY <4>2, <4>3
    <3> QED BY <1>2, <2>1, <3>1, <3>2 DEF ValidMoves
  <2>2. CASE ValidArises(l)
    <3>1. PICK pr \in Proc, o \in Owner :
            /\ task[pr][o].op = "publish" /\ task[pr][o].lease = l /\ entries'[l].proc = pr
            /\ entries'[l].cov = task[pr][o].req
            /\ task[pr][o].req[p] # "None" => entries'[l].conf[p] = task[pr][o].started
      BY <2>2 DEF ValidArises
    <3>2. h.kind = task[pr][o].req[p] /\ h.time >= task[pr][o].started + Skew[pr]
      BY <1>1, <3>1 DEF StampOK, IsAcquiring
    <3> QED BY <1>2, <3>1, <3>2
  <2> QED BY <1>2, <2>1, <2>2, ValidLeases
<1>3. ASSUME NEW pr \in Proc, NEW o \in Owner, task'[pr][o].lease = l, IsAcquiring(pr, o)'
      PROVE  h.kind = task'[pr][o].req[p] /\ h.time >= task'[pr][o].started + Skew[pr]
  <2>1. ~AttemptStarts(pr, o)
    BY <1>1, <1>3 DEF AttemptStarts
  <2>2. CASE task'[pr][o] = task[pr][o]
    <3>1. IsAcquiring(pr, o)
      BY <1>3, <2>2 DEF IsAcquiring
    <3> QED BY <1>1, <1>3, <2>2, <3>1 DEF StampOK
  <2>3. CASE AttemptGoesOn(pr, o)
    BY <1>1, <1>3, <2>3 DEF StampOK, AttemptGoesOn
  <2> QED BY <1>3, <2>1, <2>2, <2>3, AttemptsArise
<1>4. ASSUME NEW pr \in Proc, NEW o \in Owner, task'[pr][o].lease = l,
             task'[pr][o].op = "refresh", task'[pr][o].result[p] = "ok"
      PROVE  h.time >= task'[pr][o].started + Skew[pr]
  <2>1. CASE task'[pr][o] = task[pr][o]
    BY <1>1, <1>4, <2>1 DEF StampOK
  <2>2. CASE RefreshGoesOn(pr, o)
    <3>1. /\ task[pr][o].op = "refresh" /\ task[pr][o].lease = l /\ task'[pr][o].started = task[pr][o].started
          /\ task[pr][o].result[p] = "ok" \/ ConfirmsAt(pr, o, p)
      BY <1>4, <2>2 DEF RefreshGoesOn
    <3> QED BY <1>1, <3>1 DEF StampOK
  <2> QED BY <1>4, <2>1, <2>2, HoldingArises DEF HoldingStarts, ReleaseGoesOn
<1> QED BY <1>1, <1>2, <1>3, <1>4 DEF StampOK

\* The right stamp of a holder stays right through a step of an attempt.
LEMMA StampStaysInAttempt ==
  ASSUME TypeOK, ScanOK, Structure, NEW xr \in Proc, NEW x \in Owner, FsAttempt(xr, x),
         NEW p \in Path, NEW h \in Holder, StampOK(h, p)
  PROVE  StampOK(h, p)'
<1>1. entries' = entries /\ task[xr][x].op = "acquire"
  BY AttemptSteps
<1>2. PICK u, v : AttemptMoves(xr, x, u, v)
  BY AttemptIsMove
<1>3. ASSUME NEW pr \in Proc, NEW o \in Owner, pr # xr \/ o # x PROVE task'[pr][o] = task[pr][o]
  BY <1>2, <1>3, MovesOne
<1>4. /\ task'[xr][x] = u
      /\ \/ u = Idle
         \/ /\ u.op \in {"acquire", "publish", "undo"} /\ u.lease = task[xr][x].lease
            /\ u.req = task[xr][x].req /\ u.started = task[xr][x].started
  <2>1. task'[xr][x] = u
    BY <1>2, MovesOne
  <2> QED BY <1>2, <2>1 DEF AttemptMoves
<1>5. Valid(h.id)' = Valid(h.id)
  BY <1>1 DEF Valid, Published
<1>6. ASSUME NEW pr \in Proc, NEW o \in Owner, task'[pr][o].lease = h.id
      PROVE  /\ IsAcquiring(pr, o)' => h.kind = task'[pr][o].req[p] /\ h.time >= task'[pr][o].started + Skew[pr]
             /\ task'[pr][o].op = "refresh" /\ task'[pr][o].result[p] = "ok" =>
                  h.time >= task'[pr][o].started + Skew[pr]
  <2>1. CASE pr # xr \/ o # x
    BY <1>3, <1>6, <2>1 DEF StampOK, IsAcquiring
  <2>2. CASE pr = xr /\ o = x
    <3>1. CASE u = Idle
      BY <1>4, <2>2, <3>1 DEF IsAcquiring, Idle
    <3>2. CASE u # Idle
      <4>1. IsAcquiring(xr, x)
        BY <1>1 DEF IsAcquiring
      <4> QED BY <1>4, <1>6, <2>2, <3>2, <4>1 DEF StampOK
    <3> QED BY <3>1, <3>2
  <2> QED BY <2>1, <2>2
<1> QED BY <1>1, <1>5, <1>6 DEF StampOK

\* Outside the attempts a token changes by a refresh that finds its holder, by a release
\* or by an undo.
LEMMA OutsideTokens ==
  ASSUME TypeOK, ScanOK, Outside, NEW p \in Path
  PROVE  \/ tokens'[p] = tokens[p]
         \/ \E qr \in Proc, w \in Owner : ConfirmsAt(qr, w, p)
         \/ \E qr \in Proc, w \in Owner :
              /\ task[qr][w].op = "release"
              /\ tokens'[p] = mutate_holder_record(tokens[p], w, task[qr][w].lease, now_ns(qr), 0, TRUE)
         \/ \E qr \in Proc, w \in Owner :
              LET t == task[qr][w] IN
              /\ t.op = "undo" /\ IsLast(p, Todo(t)) /\ \E ok \in Outcome : UndoPath(qr, w, ok)
              /\ \/ tokens'[p] = mutate_holder_record(tokens[p], w, t.lease, now_ns(qr), 0, TRUE)
                 \/ tokens'[p] = replace_holder(tokens[p], w, t.lease, t.replaced[p], now_ns(qr) - TTL)
<1>t. tokens \in [Path -> Token]
  BY DEF TypeOK
<1>1. ASSUME NEW qr \in Proc, NEW w \in Owner, NEW ok \in Outcome, RefreshPath(qr, w, ok)
      PROVE  tokens'[p] = tokens[p] \/ ConfirmsAt(qr, w, p)
  <2>1. PICK t, n, sb : t = task[qr][w] /\ n = t.started + Skew[qr] /\ sb = stale_before_at(qr, t.started)
    OBVIOUS
  <2>2. PICK q \in Path :
          /\ t.op = "refresh"
          /\ tokens' = IF ~ok THEN tokens
                       ELSE [tokens EXCEPT ![q] = mutate_holder_record(@, w, t.lease, n, sb, FALSE)]
    BY <1>1, <2>1 DEF RefreshPath
  <2>3. CASE q # p
    BY <1>t, <2>2, <2>3
  <2>4. CASE q = p /\ holder_found(tokens[p], w, t.lease, sb, FALSE)
    <3>1. tokens' = tokens \/ tokens' = [tokens EXCEPT ![p] = mutate_holder_record(@, w, t.lease, n, sb, FALSE)]
      BY <2>2, <2>4
    <3> QED BY <2>1, <2>2, <2>4, <3>1 DEF ConfirmsAt
  <2>5. CASE q = p /\ ~holder_found(tokens[p], w, t.lease, sb, FALSE)
    <3>1. mutate_holder_record(tokens[p], w, t.lease, n, sb, FALSE) = tokens[p]
      BY <2>5 DEF mutate_holder_record
    <3> QED BY <1>t, <2>2, <2>5, <3>1
  <2> QED BY <2>3, <2>4, <2>5
<1>2. ASSUME NEW qr \in Proc, NEW w \in Owner, NEW ok \in Outcome, ReleasePath(qr, w, ok)
      PROVE  /\ task[qr][w].op = "release"
             /\ \/ tokens'[p] = tokens[p]
                \/ tokens'[p] = mutate_holder_record(tokens[p], w, task[qr][w].lease, now_ns(qr), 0, TRUE)
  BY <1>2, <1>t DEF ReleasePath
<1>3. ASSUME NEW qr \in Proc, NEW w \in Owner, NEW ok \in Outcome, UndoPath(qr, w, ok)
      PROVE  LET t == task[qr][w] IN
             \/ tokens'[p] = tokens[p]
             \/ /\ t.op = "undo" /\ IsLast(p, Todo(t))
                /\ \/ tokens'[p] = mutate_holder_record(tokens[p], w, t.lease, now_ns(qr), 0, TRUE)
                   \/ tokens'[p] = replace_holder(tokens[p], w, t.lease, t.replaced[p], now_ns(qr) - TTL)
  <2>1. PICK t, b : t = task[qr][w] /\ b = now_ns(qr) - TTL
    OBVIOUS
  <2>2. PICK q \in Path :
          /\ t.op = "undo" /\ IsLast(q, Todo(t))
          /\ tokens' = IF ~ok THEN tokens
                       ELSE [tokens EXCEPT ![q] =
                               IF t.replaced[q] # {} THEN replace_holder(@, w, t.lease, t.replaced[q], b)
                               ELSE mutate_holder_record(@, w, t.lease, now_ns(qr), 0, TRUE)]
    BY <1>3, <2>1 DEF UndoPath
  <2>3. CASE q # p
    BY <1>t, <2>2, <2>3
  <2>4. CASE q = p
    <3>1. \/ tokens'[p] = tokens[p]
          \/ tokens'[p] = replace_holder(tokens[p], w, t.lease, t.replaced[p], b)
          \/ tokens'[p] = mutate_holder_record(tokens[p], w, t.lease, now_ns(qr), 0, TRUE)
      BY <1>t, <2>2, <2>4
    <3> QED BY <2>1, <2>2, <2>4, <3>1
  <2> QED BY <2>3, <2>4
<1>4. /\ \A pr \in Proc, o \in Owner : ~CommitAcquire(pr, o)
      /\ \A pr \in Proc, o \in Owner : RejectAcquire(pr, o) => tokens' = tokens
  BY OutsideLeaves
<1>5. [Next]_vars
  BY DEF Outside
<1>6. CASE tokens' = tokens
  BY <1>6
<1>7. CASE \E qr \in Proc, w \in Owner, ok \in Outcome : RefreshPath(qr, w, ok)
  BY <1>1, <1>7
<1>8. CASE \E qr \in Proc, w \in Owner, ok \in Outcome : ReleasePath(qr, w, ok)
  BY <1>2, <1>8
<1>9. CASE \E qr \in Proc, w \in Owner, ok \in Outcome : UndoPath(qr, w, ok)
  BY <1>3, <1>9
<1> QED BY <1>4, <1>5, <1>6, <1>7, <1>8, <1>9, TokensStep

\* What a refresh that finds its holder leaves in a token.
LEMMA ConfirmedHolders ==
  ASSUME TypeOK, NEW qr \in Proc, NEW w \in Owner, NEW p \in Path, ConfirmsAt(qr, w, p)
  PROVE  LET t == task[qr][w] IN
         /\ task[qr][w].op = "refresh" /\ tokens[p].owner = w /\ ~Gone(t.lease, p)
         /\ \A h \in tokens'[p].holders :
              \/ h \in tokens[p].holders /\ h.id # t.lease
              \/ /\ h.id = t.lease /\ h.time = t.started + Skew[qr]
                 /\ \E g \in tokens[p].holders : g.id = h.id /\ g.kind = h.kind
<1>1. PICK t, n, sb, tok : /\ t = task[qr][w] /\ n = t.started + Skew[qr]
                           /\ sb = stale_before_at(qr, t.started) /\ tok = tokens[p]
  OBVIOUS
<1>2. tok \in Token /\ tokens \in [Path -> Token] /\ n \in Int
  BY <1>1, TaskLease, SkewAssumption DEF TypeOK
<1>3. /\ t.op = "refresh" /\ holder_found(tok, w, t.lease, sb, FALSE)
      /\ tokens'[p] = mutate_holder_record(tok, w, t.lease, n, sb, FALSE)
  BY <1>1, <1>2 DEF ConfirmsAt
<1>4. PICK mine, others : /\ mine = {h \in tok.holders : h.id = t.lease}
                          /\ others = {h \in tok.holders : h.id # t.lease /\ h.time >= sb}
  OBVIOUS
<1>5. PICK kept : kept = {[h EXCEPT !.time = n] : h \in mine}
  OBVIOUS
<1>6. tokens'[p] = recompute([tok EXCEPT !.holders = others \cup kept])
  BY <1>3, <1>4, <1>5 DEF mutate_holder_record
<1>7. \A h \in kept : h \in Holder /\ h.id = t.lease /\ h.time = n
                      /\ \E g \in tok.holders : g.id = h.id /\ g.kind = h.kind
  BY <1>2, <1>4, <1>5 DEF Token, Holder
<1>8. \A h \in others : h \in Holder /\ h \in tok.holders /\ h.id # t.lease
  BY <1>2, <1>4 DEF Token
<1>9. tokens'[p].holders \subseteq others \cup kept
  BY <1>2, <1>6, <1>7, <1>8 DEF recompute, NoToken, Token
<1>10. tok.owner = w /\ \E h \in tok.holders : h.id = t.lease
  BY <1>3 DEF holder_found
<1> QED BY <1>1, <1>3, <1>7, <1>8, <1>9, <1>10 DEF Gone

\* Outside the attempts, a holder was there, is renewed or is put back.
LEMMA HolderOrigins ==
  ASSUME TypeOK, ScanOK, Outside, NEW p \in Path, NEW h \in tokens'[p].holders
  PROVE  \/ h \in tokens[p].holders
         \/ \E qr \in Proc, w \in Owner :
              /\ task[qr][w].op = "refresh" /\ h.id = task[qr][w].lease
              /\ h.time = task[qr][w].started + Skew[qr]
              /\ \E g \in tokens[p].holders : g.id = h.id /\ g.kind = h.kind
         \/ \E qr \in Proc, w \in Owner :
              /\ task[qr][w].op = "undo" /\ p \in Todo(task[qr][w]) /\ h \in task[qr][w].replaced[p]
<1>t. tokens[p] \in Token
  BY DEF TypeOK
<1>1. ASSUME NEW qr \in Proc, NEW w \in Owner,
             tokens'[p] = mutate_holder_record(tokens[p], w, task[qr][w].lease, now_ns(qr), 0, TRUE)
      PROVE  h \in tokens[p].holders
  <2>1. PICK i, n, z : i = task[qr][w].lease /\ n = now_ns(qr) /\ z = 0
    OBVIOUS
  <2>2. {} \in SUBSET Holder
    OBVIOUS
  <2>3. \A g \in mutate_holder_record(tokens[p], w, i, n, z, TRUE).holders : g \in tokens[p].holders
    BY <1>t, <2>2, UndoneHolders
  <2> QED BY <1>1, <2>1, <2>3
<1>2. ASSUME NEW qr \in Proc, NEW w \in Owner, task[qr][w].op = "undo", IsLast(p, Todo(task[qr][w])),
             tokens'[p] = replace_holder(tokens[p], w, task[qr][w].lease, task[qr][w].replaced[p],
                                         now_ns(qr) - TTL)
      PROVE  h \in tokens[p].holders \/ (p \in Todo(task[qr][w]) /\ h \in task[qr][w].replaced[p])
  <2>1. PICK i, b, back : i = task[qr][w].lease /\ b = now_ns(qr) - TTL /\ back = task[qr][w].replaced[p]
    OBVIOUS
  <2>2. back \in SUBSET Holder
    BY <2>1, TaskLease DEF TaskRecord
  <2>3. \A g \in replace_holder(tokens[p], w, i, back, b).holders : g \in tokens[p].holders \/ g \in back
    BY <1>t, <2>2, UndoneHolders
  <2> QED BY <1>2, <2>1, <2>3 DEF IsLast
<1>3. ASSUME NEW qr \in Proc, NEW w \in Owner, ConfirmsAt(qr, w, p)
      PROVE  \/ h \in tokens[p].holders
             \/ /\ task[qr][w].op = "refresh" /\ h.id = task[qr][w].lease
                /\ h.time = task[qr][w].started + Skew[qr]
                /\ \E g \in tokens[p].holders : g.id = h.id /\ g.kind = h.kind
  BY <1>3, ConfirmedHolders
<1>4. CASE tokens'[p] = tokens[p]
  BY <1>4
<1>5. CASE \E qr \in Proc, w \in Owner : ConfirmsAt(qr, w, p)
  BY <1>3, <1>5
<1>6. CASE \E qr \in Proc, w \in Owner :
             tokens'[p] = mutate_holder_record(tokens[p], w, task[qr][w].lease, now_ns(qr), 0, TRUE)
  BY <1>1, <1>6
<1>7. CASE \E qr \in Proc, w \in Owner :
             /\ task[qr][w].op = "undo" /\ IsLast(p, Todo(task[qr][w]))
             /\ tokens'[p] = replace_holder(tokens[p], w, task[qr][w].lease, task[qr][w].replaced[p],
                                            now_ns(qr) - TTL)
  BY <1>2, <1>7
<1> QED BY <1>4, <1>5, <1>6, <1>7, OutsideTokens

\* A renewed holder has the right stamp, in the eyes of the state it is renewed in.
LEMMA RenewedStamp ==
  ASSUME TypeOK, Structure, NEW qr \in Proc, NEW w \in Owner, NEW p \in Path, NEW h \in Holder,
         task[qr][w].op = "refresh", h.id = task[qr][w].lease,
         h.time = task[qr][w].started + Skew[qr],
         NEW g \in tokens[p].holders, g.id = h.id, g.kind = h.kind, StampOK(g, p)
  PROVE  StampOK(h, p)
<1>1. PICK l \in Lease : l = h.id
  BY DEF Holder
<1>2. l \in registry(entries, qr, w) /\ Published(l) /\ entries[l].conf[p] <= task[qr][w].started
  BY <1>1, RequestAssumption
     DEF Structure, HeldWhileInFlight, RefreshIsLater, registry, Published
<1>3. /\ entries[l].conf[p] \in Nat /\ task[qr][w].started \in Nat /\ Skew[qr] \in Nat
      /\ entries[l].proc = qr /\ entries[l].owner = w
  BY <1>2, TaskLease, SkewAssumption DEF TypeOK, Entry, registry
<1>4. h.time >= entries[l].conf[p] + Skew[entries[l].proc]
  BY <1>2, <1>3
<1>5. Valid(l) /\ entries[l].cov[p] # "None" => h.kind = entries[l].cov[p]
  BY <1>1 DEF StampOK
<1>6. ASSUME NEW pr \in Proc, NEW o \in Owner, task[pr][o].lease = l
      PROVE  ~IsAcquiring(pr, o) /\ (task[pr][o].op = "refresh" => pr = qr /\ o = w)
  BY <1>2, <1>3, <1>6 DEF Structure, UnpublishedWhileAcquiring, HeldWhileInFlight, registry
<1>7. h.time >= task[qr][w].started + Skew[qr]
  BY <1>3
<1> QED BY <1>1, <1>4, <1>5, <1>6, <1>7 DEF StampOK

\* The holder that an attempt writes has the right stamp.
LEMMA WrittenStamp ==
  ASSUME TypeOK, Structure, NEW xr \in Proc, NEW x \in Owner, task[xr][x].op = "acquire",
         NEW p \in Path, NEW h \in Holder, h.id = task[xr][x].lease, h.kind = task[xr][x].req[p],
         h.time >= task[xr][x].started + Skew[xr]
  PROVE  StampOK(h, p)
<1>1. PICK l \in Lease : l = h.id
  BY DEF Holder
<1>2. IsAcquiring(xr, x) /\ ~Published(l)
  BY <1>1 DEF IsAcquiring, Structure, UnpublishedWhileAcquiring
<1>3. ASSUME NEW pr \in Proc, NEW o \in Owner, task[pr][o].lease = l
      PROVE  /\ task[pr][o].op # "refresh" /\ (IsAcquiring(pr, o) => pr = xr /\ o = x)
  <2>1. task[pr][o].op # "refresh"
    BY <1>2, <1>3, RequestAssumption DEF Structure, HeldWhileInFlight, registry, Published
  <2> QED BY <1>1, <1>2, <1>3, <2>1 DEF Structure, OneAcquisitionPerLease
<1> QED BY <1>1, <1>2, <1>3 DEF StampOK, Valid

\* What an attempt withholds stays the same, outside the attempts.
LEMMA ReplacedOutside ==
  ASSUME TypeOK, ScanOK, Structure, Outside, NEW pr \in Proc, NEW o \in Owner, IsAcquiring(pr, o)'
  PROVE  \/ task'[pr][o].op = "acquire" /\ task'[pr][o].replaced = [p \in Path |-> {}]
         \/ IsAcquiring(pr, o) /\ task'[pr][o].replaced = task[pr][o].replaced
<1>1. [Next]_vars /\ ~CommitAcquire(pr, o)
  BY OutsideLeaves DEF Outside
<1>2. CASE task'[pr][o] = task[pr][o]
  BY <1>2 DEF IsAcquiring
<1> QED BY <1>1, <1>2, AttemptsArise DEF AttemptStarts, AttemptGoesOn

\* Outside the attempts every stamp stays right.
LEMMA StampedOutside ==
  ASSUME TypeOK, TypeOK', ScanOK, Structure, Undoable, Undoable', FsAdoptions, Stamped, Outside
  PROVE  Stamped'
<1>n. [Next]_vars
  BY DEF Outside
<1>1. ASSUME NEW p \in Path, NEW h \in tokens'[p].holders PROVE StampOK(h, p)'
  <2>t. h \in Holder
    BY DEF TypeOK, Token
  <2>1. CASE h \in tokens[p].holders
    <3>1. StampOK(h, p) /\ ~FreshLease(h.id)
      BY <2>1 DEF Stamped, FreshLease
    <3>2. ASSUME NEW pr \in Proc, NEW o \in Owner, ConfirmsAt(pr, o, p), task[pr][o].lease = h.id
          PROVE  h.time >= task[pr][o].started + Skew[pr]
      <4>1. h.time = task[pr][o].started + Skew[pr] /\ task[pr][o].started \in Nat /\ Skew[pr] \in Nat
        BY <3>2, ConfirmedHolders, TaskLease, SkewAssumption
      <4> QED BY <4>1
    <3> QED BY <1>n, <2>t, <3>1, <3>2, StampStays
  <2>2. ASSUME NEW qr \in Proc, NEW w \in Owner, task[qr][w].op = "refresh", h.id = task[qr][w].lease,
               h.time = task[qr][w].started + Skew[qr],
               NEW g \in tokens[p].holders, g.id = h.id, g.kind = h.kind
        PROVE  StampOK(h, p)'
    <3>1. StampOK(g, p) /\ ~FreshLease(h.id)
      BY <2>2 DEF Stamped, FreshLease
    <3>2. StampOK(h, p)
      BY <2>t, <2>2, <3>1, RenewedStamp
    <3>3. ASSUME NEW pr \in Proc, NEW o \in Owner, ConfirmsAt(pr, o, p), task[pr][o].lease = h.id
          PROVE  h.time >= task[pr][o].started + Skew[pr]
      <4>1. h.time = task[pr][o].started + Skew[pr] /\ task[pr][o].started \in Nat /\ Skew[pr] \in Nat
        BY <3>3, ConfirmedHolders, TaskLease, SkewAssumption
      <4> QED BY <4>1
    <3> QED BY <1>n, <2>t, <3>1, <3>2, <3>3, StampStays
  <2>3. ASSUME NEW qr \in Proc, NEW w \in Owner, task[qr][w].op = "undo", p \in Todo(task[qr][w]),
               h \in task[qr][w].replaced[p]
        PROVE  StampOK(h, p)'
    <3>1. IsAcquiring(qr, w) /\ p \in FsWithheld(qr, w) /\ h.id = task[qr][w].source
      BY <2>3 DEF IsAcquiring, FsWithheld, Withheld, Undoable, ReplacedAtSource
    <3>2. StampOK(h, p) /\ ~FreshLease(h.id)
      BY <2>3, <3>1 DEF Stamped, FreshLease
    <3>3. ASSUME NEW pr \in Proc, NEW o \in Owner, ConfirmsAt(pr, o, p), task[pr][o].lease = h.id
          PROVE  h.time >= task[pr][o].started + Skew[pr]
      <4>1. h.time = task[pr][o].started + Skew[pr] /\ task[pr][o].started \in Nat /\ Skew[pr] \in Nat
        BY <3>3, ConfirmedHolders, TaskLease, SkewAssumption
      <4> QED BY <4>1
    <3> QED BY <1>n, <2>t, <3>2, <3>3, StampStays
  <2> QED BY <2>1, <2>2, <2>3, HolderOrigins
<1>2. ASSUME NEW pr \in Proc, NEW o \in Owner, NEW p \in Path, IsAcquiring(pr, o)', p \in FsWithheld(pr, o)',
             NEW h \in task'[pr][o].replaced[p]
      PROVE  StampOK(h, p)'
  <2>1. PICK s \in Lease : s = h.id /\ s = task'[pr][o].source /\ h \in Holder
    <3>1. task'[pr][o].replaced \in [Path -> SUBSET Holder]
      BY DEF TypeOK, Task, TaskRecord
    <3>2. h \in Holder /\ h.id = task'[pr][o].source
      BY <1>2, <3>1 DEF Undoable, ReplacedAtSource
    <3> QED BY <3>2 DEF Holder
  <2>2. FsAdopting(pr, o, s)'
    BY <1>2, <2>1 DEF FsAdopting
  <2>3. FsAdopting(pr, o, s) /\ p \in FsWithheld(pr, o)
    BY <1>2, <2>2, WithheldOutside
  <2>4. IsAcquiring(pr, o) /\ h \in task[pr][o].replaced[p]
    BY <1>2, <2>3, ReplacedOutside DEF FsAdopting
  <2>5. StampOK(h, p) /\ ~FreshLease(s)
    BY <2>3, <2>4 DEF Stamped, FreshLease, FsAdopting
  <2>6. Gone(s, p)
    BY <2>3 DEF FsAdoptions, FsSourceWithheld
  <2>7. \A qr \in Proc, w \in Owner : ConfirmsAt(qr, w, p) => task[qr][w].lease # s
    BY <2>6, ConfirmedHolders
  <2> QED BY <1>n, <2>1, <2>5, <2>7, StampStays
<1> QED BY <1>1, <1>2 DEF Stamped

\* A step of an attempt writes the right stamp and keeps the stamps of what it replaces.
LEMMA StampedAttempt ==
  ASSUME TypeOK, TypeOK', ScanOK, Structure, Stamped, Undoable', NEW xr \in Proc, NEW x \in Owner, FsAttempt(xr, x)
  PROVE  Stamped'
<1>1. ASSUME NEW p \in Path, NEW h \in tokens'[p].holders PROVE StampOK(h, p)'
  <2>t. h \in Holder
    BY DEF TypeOK, Token
  <2>1. StampOK(h, p)
    <3>1. CASE h \in tokens[p].holders
      BY <3>1 DEF Stamped
    <3>2. CASE h \notin tokens[p].holders
      <4>1. task[xr][x].op = "acquire" /\ ~(tokens' = tokens)
        BY <3>2, AttemptSteps
      <4>2. PICK q \in Path : \E stamp, u, v : FsWriteAt(xr, x, q, stamp, u, v)
        BY <4>1, AttemptSteps, GiveUpMoves DEF FsLooks, FsReadAt
      <4>3. PICK stamp, u, v : FsWriteAt(xr, x, q, stamp, u, v)
        BY <4>2
      <4>4. PICK t, n, sb : t = task[xr][x] /\ n = stamp + Skew[xr] /\ sb = stale_before_at(xr, stamp)
        OBVIOUS
      <4>5. /\ stamp \in Nat /\ scan[xr][x].clock <= stamp /\ scan[xr][x].phase = "check"
            /\ tokens' = [tokens EXCEPT ![q] = with_holder(@, x, t.lease, t.req[q], n, sb, t.source)]
        BY <4>3, <4>4 DEF FsWriteAt
      <4>6. tokens \in [Path -> Token] /\ p = q
        BY <3>2, <4>5 DEF TypeOK
      <4>7. h = [id |-> t.lease, kind |-> t.req[q], time |-> n]
        BY <3>2, <4>5, <4>6 DEF with_holder, add_holder, held, Token
      <4>8. n >= t.started + Skew[xr]
        <5>1. t.started <= scan[xr][x].clock /\ t.started \in Nat /\ scan[xr][x].clock \in Nat /\ Skew[xr] \in Nat
          BY <4>4, <4>5, TaskLease, SkewAssumption DEF ScanOK, Scan
        <5> QED BY <4>4, <4>5, <5>1
      <4> QED BY <2>t, <4>1, <4>4, <4>6, <4>7, <4>8, WrittenStamp
    <3> QED BY <3>1, <3>2
  <2> QED BY <2>t, <2>1, StampStaysInAttempt
<1>2. ASSUME NEW pr \in Proc, NEW o \in Owner, NEW p \in Path, IsAcquiring(pr, o)', p \in FsWithheld(pr, o)',
             NEW h \in task'[pr][o].replaced[p]
      PROVE  StampOK(h, p)'
  <2>1. PICK s \in Lease : s = h.id /\ s = task'[pr][o].source /\ h \in Holder
    <3>1. task'[pr][o].replaced \in [Path -> SUBSET Holder]
      BY DEF TypeOK, Task, TaskRecord
    <3>2. h \in Holder /\ h.id = task'[pr][o].source
      BY <1>2, <3>1 DEF Undoable, ReplacedAtSource
    <3> QED BY <3>2 DEF Holder
  <2>2. StampOK(h, p)
    <3>1. CASE pr # xr \/ o # x
      <4>1. task'[pr][o] = task[pr][o] /\ FsWithheld(pr, o)' = FsWithheld(pr, o)
        BY <3>1, OthersAdopt
      <4> QED BY <1>2, <4>1 DEF Stamped, IsAcquiring
    <3>2. CASE pr = xr /\ o = x
      <4>1. FsAdopting(xr, x, s)'
        BY <1>2, <2>1, <3>2 DEF FsAdopting
      <4>2. /\ IsAcquiring(xr, x)
            /\ \/ FsWithheld(xr, x)' = FsWithheld(xr, x)
               \/ \E q \in Path : WritesNext(xr, x, q) /\ FsWithheld(xr, x)' = FsWithheld(xr, x) \cup {q}
        BY <4>1, WithheldAttempt
      <4>3. \/ task'[xr][x].replaced = task[xr][x].replaced
            \/ \E q \in Path : WritesNext(xr, x, q)
        BY <4>1, AttemptProgress DEF GoesOnUnwritten, FsAdopting, IsAcquiring, Idle
      <4>4. ASSUME NEW q \in Path, WritesNext(xr, x, q)
            PROVE  \/ p = q /\ h \in tokens[p].holders
                   \/ p # q /\ h \in task[xr][x].replaced[p]
        <5>1. task[xr][x].replaced \in [Path -> SUBSET Holder]
          BY TaskLease DEF TaskRecord
        <5>2. task'[xr][x].replaced = [task[xr][x].replaced EXCEPT ![q] = {g \in tokens[q].holders : g.id = task[xr][x].source}]
          BY <4>4 DEF WritesNext
        <5> QED BY <3>2, <5>1, <5>2
      <4>5. CASE h \in tokens[p].holders
        BY <4>5 DEF Stamped
      <4>6. CASE h \in task[xr][x].replaced[p] /\ p \in FsWithheld(xr, x)
        BY <4>2, <4>6 DEF Stamped
      <4>7. CASE \E q \in Path : WritesNext(xr, x, q)
        <5>1. PICK q \in Path : WritesNext(xr, x, q)
          BY <4>7
        <5>2. FsWithheld(xr, x)' \subseteq FsWithheld(xr, x) \cup {q}
          <6>1. \A r \in Path : WritesNext(xr, x, r) => r = q
            BY <5>1, RankOrder DEF WritesNext
          <6> QED BY <4>2, <6>1
        <5> QED BY <1>2, <3>2, <4>4, <4>5, <4>6, <5>1, <5>2
      <4>8. CASE ~ \E q \in Path : WritesNext(xr, x, q)
        BY <1>2, <3>2, <4>2, <4>3, <4>6, <4>8
      <4> QED BY <4>7, <4>8
    <3> QED BY <3>1, <3>2
  <2> QED BY <2>1, <2>2, StampStaysInAttempt
<1> QED BY <1>1, <1>2 DEF Stamped

-----------------------------------------------------------------------------
(* Holders that outlive a step *)

\* A release and an undo are of other holders, or of other paths.
LEMMA OutlivesOutside ==
  ASSUME TypeOK, ScanOK, Structure, Outside, NEW p \in Path, NEW x \in Lease, NEW o,
         tokens[p].owner = o, NEW h \in tokens[p].holders, h.id = x, 0 <= h.time,
         \A qr \in Proc : now_ns(qr) - TTL <= h.time,
         \A qr \in Proc, w \in Owner : task[qr][w].op = "release" => task[qr][w].lease # x,
         \A qr \in Proc, w \in Owner, ok \in Outcome :
           UndoPath(qr, w, ok) /\ IsLast(p, Todo(task[qr][w])) => task[qr][w].lease # x
  PROVE  ~GoneNext(x, p) /\ tokens'[p].owner = o
<1>1. PICK tok, k, time : /\ tok = tokens[p] /\ tok \in Token /\ tokens \in [Path -> Token]
                          /\ k = h.kind /\ time = h.time /\ h \in tok.holders /\ time \in Int
  BY DEF TypeOK, Token, Holder
<1>2. HolderIn(tok, o, x, k, time) /\ 0 <= time
  BY <1>1 DEF HolderIn
<1>3. SUFFICES \E least : HolderIn(tokens'[p], o, x, k, least)
  BY DEF HolderIn, GoneNext
<1>4. ASSUME NEW qr \in Proc, NEW w \in Owner, task[qr][w].lease # x,
             tokens'[p] = mutate_holder_record(tokens[p], w, task[qr][w].lease, now_ns(qr), 0, TRUE)
      PROVE  HolderIn(tokens'[p], o, x, k, time)
  <2>1. PICK i, n : i = task[qr][w].lease /\ n = now_ns(qr)
    OBVIOUS
  <2>2. HolderIn(mutate_holder_record(tok, w, i, n, 0, TRUE), o, x, k, time)
    BY <1>1, <1>2, <1>4, <2>1, DropKeeps
  <2> QED BY <1>1, <1>4, <2>1, <2>2
<1>5. ASSUME NEW qr \in Proc, NEW w \in Owner, task[qr][w].lease # x,
             tokens'[p] = replace_holder(tokens[p], w, task[qr][w].lease, task[qr][w].replaced[p],
                                         now_ns(qr) - TTL)
      PROVE  HolderIn(tokens'[p], o, x, k, time)
  <2>1. PICK i, b, back : i = task[qr][w].lease /\ b = now_ns(qr) - TTL /\ back = task[qr][w].replaced[p]
    OBVIOUS
  <2>2. b \in Int /\ b <= time
    BY <1>1, <2>1, SkewAssumption, TimeAssumption DEF TypeOK, now_ns
  <2>3. HolderIn(replace_holder(tok, w, i, back, b), o, x, k, time)
    BY <1>1, <1>2, <1>5, <2>1, <2>2, ReplaceKeeps
  <2> QED BY <1>1, <1>5, <2>1, <2>3
<1>6. ASSUME NEW qr \in Proc, NEW w \in Owner, ConfirmsAt(qr, w, p)
      PROVE  \E least : HolderIn(tokens'[p], o, x, k, least)
  <2>1. PICK t, n, sb : t = task[qr][w] /\ n = t.started + Skew[qr] /\ sb = stale_before_at(qr, t.started)
    OBVIOUS
  <2>2. tokens'[p] = mutate_holder_record(tok, w, t.lease, n, sb, FALSE) /\ w = o
    BY <1>1, <1>6, <2>1, ConfirmedHolders DEF ConfirmsAt
  <2>3. n \in Int /\ sb \in Int /\ sb <= time
    <3>1. t.started \in Nat /\ t.started <= now /\ now \in Nat /\ Skew[qr] \in Nat /\ TTL \in Nat
      BY <2>1, TaskLease, SkewAssumption, TimeAssumption DEF Structure, PastConfirmations, TypeOK
    <3>2. now_ns(qr) - TTL <= time
      BY <1>1
    <3> QED BY <1>1, <2>1, <3>1, <3>2 DEF stale_before_at, now_ns
  <2>4. CASE t.lease # x
    <3>1. HolderIn(mutate_holder_record(tok, w, t.lease, n, sb, FALSE), o, x, k, time)
      BY <1>1, <1>2, <2>3, <2>4, MutateKeeps
    <3> QED BY <2>2, <3>1
  <2>5. CASE t.lease = x
    <3>1. PICK least \in Int : least <= n /\ least <= time
      BY <1>1, <2>3
    <3>2. HolderIn(tok, o, x, k, least)
      BY <1>1, <3>1 DEF HolderIn
    <3>3. HolderIn(mutate_holder_record(tok, o, x, n, sb, FALSE), o, x, k, least)
      BY <1>1, <2>3, <3>1, <3>2, RefreshKeeps
    <3> QED BY <2>2, <2>5, <3>3
  <2> QED BY <2>4, <2>5
<1>7. CASE tokens'[p] = tokens[p]
  BY <1>1, <1>2, <1>7
<1>8. CASE \E qr \in Proc, w \in Owner : ConfirmsAt(qr, w, p)
  BY <1>6, <1>8
<1>9. CASE \E qr \in Proc, w \in Owner :
             /\ task[qr][w].op = "release"
             /\ tokens'[p] = mutate_holder_record(tokens[p], w, task[qr][w].lease, now_ns(qr), 0, TRUE)
  BY <1>4, <1>9
<1>10. ASSUME NEW qr \in Proc, NEW w \in Owner, NEW ok \in Outcome, UndoPath(qr, w, ok),
              IsLast(p, Todo(task[qr][w])),
              \/ tokens'[p] = mutate_holder_record(tokens[p], w, task[qr][w].lease, now_ns(qr), 0, TRUE)
              \/ tokens'[p] = replace_holder(tokens[p], w, task[qr][w].lease, task[qr][w].replaced[p],
                                             now_ns(qr) - TTL)
       PROVE  HolderIn(tokens'[p], o, x, k, time)
  <2>1. task[qr][w].lease # x
    BY <1>10
  <2> QED BY <1>4, <1>5, <1>10, <2>1
<1> QED BY <1>7, <1>8, <1>9, <1>10, OutsideTokens

\* A write is in place of another source, or at another path.
LEMMA OutlivesAttempt ==
  ASSUME TypeOK, ScanOK, Structure, NEW xr \in Proc, NEW w \in Owner, FsAttempt(xr, w),
         NEW p \in Path, NEW x \in Lease, NEW o, tokens[p].owner = o,
         NEW h \in tokens[p].holders, h.id = x, \A qr \in Proc : now_ns(qr) - TTL <= h.time,
         Writes(xr, w, p) => task[xr][w].source # x
  PROVE  ~GoneNext(x, p) /\ tokens'[p].owner = o
<1>1. PICK tok, k, time : /\ tok = tokens[p] /\ tok \in Token /\ tokens \in [Path -> Token]
                          /\ k = h.kind /\ time = h.time /\ h \in tok.holders /\ time \in Int
  BY DEF TypeOK, Token, Holder
<1>2. HolderIn(tok, o, x, k, time)
  BY <1>1 DEF HolderIn
<1>3. SUFFICES HolderIn(tokens'[p], o, x, k, time)
  BY DEF HolderIn, GoneNext
<1>4. CASE tokens' = tokens
  BY <1>1, <1>2, <1>4
<1>5. ASSUME NEW q \in Path, NEW stamp, NEW u, NEW v, FsWriteAt(xr, w, q, stamp, u, v)
      PROVE  HolderIn(tokens'[p], o, x, k, time)
  <2>1. PICK t, sb, n :
        /\ t = task[xr][w] /\ sb = stale_before_at(xr, stamp) /\ n = stamp + Skew[xr]
        /\ tokens' = [tokens EXCEPT ![q] = with_holder(@, w, t.lease, t.req[q], n, sb, t.source)]
        /\ ~conflict_at(tokens, q, w, sb) /\ stamp \in Nat /\ stamp <= now
    BY <1>5 DEF FsWriteAt
  <2>2. sb \in Int /\ sb <= time
    <3>1. now \in Nat /\ Skew[xr] \in Nat /\ TTL \in Nat /\ now_ns(xr) - TTL <= time
      BY <1>1, SkewAssumption, TimeAssumption DEF TypeOK
    <3> QED BY <1>1, <2>1, <3>1 DEF stale_before_at, now_ns
  <2>3. CASE p # q
    BY <1>1, <1>2, <2>1, <2>3
  <2>4. CASE p = q
    <3>1. t.source # x
      BY <1>5, <2>1, <2>4 DEF Writes
    <3>2. live_kind(tok, sb) # "None" /\ tok.holders # {} /\ tok.owner = o
      BY <1>1, <1>2, <2>2, HolderIsLive DEF HolderIn
    <3>3. o = w
      BY <1>1, <2>1, <2>4, <3>2 DEF conflict_at, foreign
    <3>4. HolderIn(with_holder(tok, o, t.lease, t.req[q], n, sb, t.source), o, x, k, time)
      BY <1>1, <1>2, <2>2, <3>1, WithHolderKeeps
    <3>5. tokens'[p] = with_holder(tok, o, t.lease, t.req[q], n, sb, t.source)
      BY <1>1, <2>1, <2>4, <3>3
    <3> QED BY <3>4, <3>5
  <2> QED BY <2>3, <2>4
<1>6. tokens' = tokens \/ \E q \in Path : \E stamp, u, v : FsWriteAt(xr, w, q, stamp, u, v)
  BY AttemptSteps, GiveUpMoves DEF FsLooks, FsReadAt
<1> QED BY <1>4, <1>5, <1>6

\* An attempt that writes at p withholds p.
LEMMA WritesWithhold ==
  ASSUME TypeOK, ScanOK, Structure, NEW xr \in Proc, NEW x \in Owner, FsAttempt(xr, x),
         NEW p \in Path, Writes(xr, x, p), NEW s, s = task[xr][x].source
  PROVE  FsAdopting(xr, x, s)' /\ task'[xr][x].op = "acquire"
<1>1. PICK stamp, u, v : FsWriteAt(xr, x, p, stamp, u, v)
  BY DEF Writes
<1>2. PICK t, m : t = task[xr][x] /\ m = scan[xr][x]
  OBVIOUS
<1>3. /\ AttemptMoves(xr, x, u, v) /\ u.op = "acquire" /\ m.phase = "check" /\ p \in m.todo
      /\ v = IF m.todo = {p} THEN phase_for("verify", t.req, lock_paths(t.req))
             ELSE phase_for("check", t.req, m.todo \ {p})
  BY <1>1, <1>2 DEF FsWriteAt, IsFirst
<1>4. task'[xr][x] = u /\ scan'[xr][x] = v
  BY <1>3, MovesOne
<1>5. u # Idle
  BY <1>3 DEF Idle
<1>6. u.req = t.req /\ u.source = t.source
  BY <1>2, <1>3, <1>5 DEF AttemptMoves
<1>7. p \in lock_paths(t.req) /\ m.todo \in SUBSET Path
  BY <1>2, <1>3 DEF ScanOK, Scan
<1>8. v.phase = "verify" \/ (v.phase = "check" /\ p \notin v.todo)
  BY <1>3, <1>7 DEF phase_for
<1>9. p \in written(xr, x)'
  BY <1>4, <1>6, <1>7, <1>8 DEF written
<1>10. p \in FsWithheld(xr, x)'
  BY <1>3, <1>4, <1>9 DEF FsWithheld
<1> QED BY <1>2, <1>3, <1>4, <1>6, <1>10 DEF FsAdopting, IsAcquiring

-----------------------------------------------------------------------------
(* Parked leases that stay valid *)

\* A release in flight is of a lease that was held before the step.
LEMMA ReleaseParkedStep ==
  ASSUME TypeOK, TypeOK', Structure, Structure', ReleaseParked, [Next]_vars
  PROVE  ReleaseParked'
<1> SUFFICES ASSUME NEW pr \in Proc, NEW o \in Owner, NEW l, l = task'[pr][o].lease,
                    task'[pr][o].op = "release", entries'[l].pending_handoff, Valid(l)'
             PROVE  FALSE
  BY DEF ReleaseParked
<1>1. l \in Lease /\ l \in registry(entries, pr, o)'
  BY DEF Structure, HeldWhileInFlight, registry
<1>2. CASE HoldingStarts(pr, o)
  BY <1>2 DEF HoldingStarts, Valid
<1>3. CASE task'[pr][o] = task[pr][o] \/ ReleaseGoesOn(pr, o)
  <2>1. task[pr][o].op = "release" /\ task[pr][o].lease = l
    BY <1>3 DEF ReleaseGoesOn
  <2>2. l \in registry(entries, pr, o) /\ Published(l)
    BY <2>1, RequestAssumption DEF Structure, HeldWhileInFlight, registry, Published
  <2>3. ~ValidArises(l)
    BY <2>2 DEF ValidArises, Structure, UnpublishedWhileAcquiring, IsAcquiring
  <2>4. ValidMoves(l)
    BY <1>1, <2>3, ValidLeases
  <2>5. ~entries[l].pending_handoff
    BY <2>1, <2>4 DEF ReleaseParked, ValidMoves
  <2>6. PICK qr \in Proc, w \in Owner : Handoff(qr, w, l)
    BY <2>4, <2>5 DEF ValidMoves
  <2>7. task[qr][w].op = "idle" /\ l \in registry(entries, qr, w)
    BY <2>6 DEF Handoff
  <2> QED BY <2>1, <2>2, <2>7 DEF registry
<1> QED BY <1>2, <1>3, HoldingArises DEF RefreshGoesOn

\* A lease that somebody may adopt keeps its coverage, its owner and its deadline.
LEMMA ParkedStays ==
  ASSUME TypeOK, TypeOK', Structure, ReleaseParked, [Next]_vars, now <= now',
         NEW s \in Lease, Transferable(s), Valid(s)'
  PROVE  /\ Valid(s) /\ entries[s].pending_handoff
         /\ entries'[s].cov = entries[s].cov /\ entries'[s].owner = entries[s].owner
         /\ expired(entries[s]) => expired(entries[s])'
<1>1. ~ValidArises(s)
  BY DEF ValidArises, Transferable, IsAcquiring
<1>2. ValidMoves(s)
  BY <1>1, ValidLeases
<1>3. Valid(s) /\ entries[s].pending_handoff /\ entries'[s].owner = entries[s].owner
  BY <1>2 DEF ValidMoves, Valid, Transferable
<1>4. ~PathReleased(s)
  BY <1>3 DEF PathReleased, ReleaseParked
<1>5. /\ entries'[s].cov = entries[s].cov
      /\ (\A p \in Path : entries'[s].conf[p] = entries[s].conf[p]) \/ RefreshApplied(s)
  BY <1>2, <1>4 DEF ValidMoves
<1>6. now \in Nat /\ now' \in Nat /\ now <= now'
  BY DEF TypeOK
<1>7. ASSUME expired(entries[s]) PROVE expired(entries[s])'
  <2>1. \A p \in Path : entries'[s].conf[p] = entries[s].conf[p]
    BY <1>5, <1>7 DEF RefreshApplied
  <2>2. PICK p \in lock_paths(entries[s].cov) : now - entries[s].conf[p] >= Validity
    BY <1>7 DEF expired
  <2>3. p \in lock_paths(entries'[s].cov) /\ entries'[s].conf[p] = entries[s].conf[p]
    BY <1>5, <2>1, <2>2 DEF lock_paths
  <2>4. entries[s].conf[p] \in Nat /\ Validity \in Nat
    BY <2>2, TimeAssumption DEF TypeOK, Entry, lock_paths
  <2>5. now' - entries'[s].conf[p] >= Validity
    BY <1>6, <2>2, <2>3, <2>4
  <2> QED BY <2>3, <2>5 DEF expired
<1> QED BY <1>3, <1>5, <1>6, <1>7

\* A reference is made of a parked lease, and an adoption starts from a reference.
LEMMA ReferencesTrueStep ==
  ASSUME TypeOK, TypeOK', Structure, ReleaseParked, ReferencesTrue, [Next]_vars, now <= now'
  PROVE  ReferencesTrue'
<1> SUFFICES ASSUME NEW s \in Lease, Valid(s)'
             PROVE  /\ \A m \in handoffs' : m.lease = s =>
                         m.cov = entries'[s].cov /\ m.owner = entries'[s].owner
                    /\ \A pr \in Proc, o \in Owner :
                         IsAcquiring(pr, o)' /\ task'[pr][o].source = s =>
                           task'[pr][o].req = entries'[s].cov /\ o = entries'[s].owner
  BY DEF ReferencesTrue
<1>1. ASSUME NEW m \in handoffs, m.lease = s
      PROVE  m.cov = entries'[s].cov /\ m.owner = entries'[s].owner
  <2>1. Transferable(s)
    BY <1>1 DEF Structure, SourcesTransferable
  <2>2. Valid(s) /\ entries'[s].cov = entries[s].cov /\ entries'[s].owner = entries[s].owner
    BY <2>1, ParkedStays
  <2> QED BY <1>1, <2>2 DEF ReferencesTrue
<1>2. ASSUME NEW m \in handoffs', m \notin handoffs, m.lease = s
      PROVE  m.cov = entries'[s].cov /\ m.owner = entries'[s].owner
  <2>1. PICK pr \in Proc, o \in Owner :
          /\ Handoff(pr, o, s) /\ m.owner = o /\ m.cov = entries[s].cov
          /\ s \in registry(entries, pr, o)
    BY <1>2, ReferencesArise
  <2>2. Published(s) /\ entries[s].owner = o /\ entries[s].proc = pr
    BY <2>1, RequestAssumption DEF registry, Published
  <2>3. ValidMoves(s)
    <3>1. ~ValidArises(s)
      BY <2>2 DEF ValidArises, Structure, UnpublishedWhileAcquiring, IsAcquiring
    <3> QED BY <3>1, ValidLeases
  <2>4. ~PathReleased(s)
    <3> SUFFICES ASSUME NEW qr \in Proc, NEW w \in Owner, task[qr][w].op = "release", task[qr][w].lease = s
                 PROVE  FALSE
      BY DEF PathReleased
    <3>1. qr = pr /\ w = o
      BY <2>2 DEF Structure, HeldWhileInFlight, registry
    <3> QED BY <2>1, <3>1 DEF Handoff
  <2> QED BY <2>1, <2>2, <2>3, <2>4 DEF ValidMoves
<1>3. ASSUME NEW pr \in Proc, NEW o \in Owner, IsAcquiring(pr, o)', task'[pr][o].source = s
      PROVE  task'[pr][o].req = entries'[s].cov /\ o = entries'[s].owner
  <2>1. CASE AttemptStarts(pr, o)
    <3>1. PICK m \in handoffs : m.lease = s /\ m.owner = o /\ m.cov = task'[pr][o].req
      BY <1>3, <2>1, Sentinels DEF AttemptStarts
    <3> QED BY <1>1, <3>1
  <2>2. CASE IsAcquiring(pr, o) /\ task[pr][o].source = s /\ task'[pr][o].req = task[pr][o].req
    <3>1. Transferable(s)
      BY <2>2 DEF Structure, SourcesTransferable
    <3>2. Valid(s) /\ entries'[s].cov = entries[s].cov /\ entries'[s].owner = entries[s].owner
      BY <3>1, ParkedStays
    <3> QED BY <2>2, <3>2 DEF ReferencesTrue
  <2>3. CASE task'[pr][o] = task[pr][o]
    BY <1>3, <2>2, <2>3 DEF IsAcquiring
  <2>4. CASE AttemptGoesOn(pr, o)
    BY <1>3, <2>2, <2>4 DEF AttemptGoesOn
  <2> QED BY <1>3, <2>1, <2>3, <2>4, AttemptsArise
<1> QED BY <1>1, <1>2, <1>3

\* A step of an attempt is about none of this.
LEMMA ParkedAttempt ==
  ASSUME TypeOK, ScanOK, Structure, ReleaseParked, ReferencesTrue,
         NEW xr \in Proc, NEW x \in Owner, FsAttempt(xr, x)
  PROVE  ReleaseParked' /\ ReferencesTrue'
<1>1. entries' = entries /\ handoffs' = handoffs /\ task[xr][x].op = "acquire"
  BY AttemptSteps
<1>2. PICK u, v : AttemptMoves(xr, x, u, v)
  BY AttemptIsMove
<1>3. /\ task'[xr][x] = u
      /\ \A pr \in Proc, o \in Owner : pr # xr \/ o # x => task'[pr][o] = task[pr][o]
  BY <1>2, MovesOne
<1>4. /\ u.op # "release"
      /\ u.op = "idle" \/ (u.req = task[xr][x].req /\ u.source = task[xr][x].source)
  BY <1>2 DEF AttemptMoves, Idle
<1>5. IsAcquiring(xr, x)
  BY <1>1 DEF IsAcquiring
<1>6. ReleaseParked'
  BY <1>1, <1>3, <1>4 DEF ReleaseParked, Valid, Published
<1>7. ASSUME NEW s \in Lease, Valid(s), NEW pr \in Proc, NEW o \in Owner, IsAcquiring(pr, o)',
             task'[pr][o].source = s
      PROVE  task'[pr][o].req = entries[s].cov /\ o = entries[s].owner
  <2>1. CASE pr = xr /\ o = x
    <3>1. u.op # "idle" /\ u.source = s
      BY <1>3, <1>7, <2>1 DEF IsAcquiring
    <3> QED BY <1>3, <1>4, <1>5, <1>7, <2>1, <3>1 DEF ReferencesTrue
  <2>2. CASE pr # xr \/ o # x
    BY <1>3, <1>7, <2>2 DEF ReferencesTrue, IsAcquiring
  <2> QED BY <2>1, <2>2
<1>8. ReferencesTrue'
  <2>1. \A s \in Lease : Valid(s)' => Valid(s)
    BY <1>1 DEF Valid, Published
  <2> QED BY <1>1, <1>7, <2>1 DEF ReferencesTrue
<1> QED BY <1>6, <1>8

\* An undo that is not over marks the last path it had to do.
LEMMA UndoAt ==
  ASSUME TypeOK, NEW pr \in Proc, NEW o \in Owner, NEW ok \in Outcome, UndoPath(pr, o, ok),
         task'[pr][o].op = "undo"
  PROVE  \E q \in Path, v \in {"ok", "err"} :
           /\ IsLast(q, Todo(task[pr][o]))
           /\ task'[pr][o] = [task[pr][o] EXCEPT !.result[q] = v]
           /\ v = "ok" => UndoPath(pr, o, TRUE)
<1>1. PICK t : t = task[pr][o]
  OBVIOUS
<1>2. PICK v : v = IF ok THEN "ok" ELSE "err"
  OBVIOUS
<1>3. v \in {"ok", "err"} /\ (v = "ok" => UndoPath(pr, o, TRUE))
  <2>1. ok \in BOOLEAN
    BY RequestAssumption
  <2>2. CASE ok = TRUE
    BY <1>2, <2>2
  <2>3. CASE ok = FALSE
    BY <1>2, <2>3
  <2> QED BY <2>1, <2>2, <2>3
<1>4. PICK q \in Path :
        /\ IsLast(q, Todo(t))
        /\ task' = [task EXCEPT ![pr][o] = IF Todo(t) = {q} THEN Idle
                                          ELSE [t EXCEPT !.result[q] = v]]
  BY <1>1, <1>2 DEF UndoPath
<1>5. task'[pr][o] = IF Todo(t) = {q} THEN Idle ELSE [t EXCEPT !.result[q] = v]
  BY <1>4 DEF TypeOK
<1>6. task'[pr][o] # Idle
  BY DEF Idle
<1> QED BY <1>1, <1>3, <1>4, <1>5, <1>6

\* The steps around the attempts keep track of what was replaced: a rollback has it to do,
\* and each of its undos says how it went.
LEMMA ReplacedTrackedOutside ==
  ASSUME TypeOK, TypeOK', ScanOK, Structure, Undoable, ReplacedTracked, Outside
  PROVE  ReplacedTracked'
<1> SUFFICES ASSUME NEW pr \in Proc, NEW o \in Owner, NEW p \in Path, IsAcquiring(pr, o)',
                    task'[pr][o].replaced[p] # {}
             PROVE  /\ task'[pr][o].req[p] # "None"
                    /\ task'[pr][o].op = "acquire" => p \in written(pr, o)'
                    /\ task'[pr][o].op = "undo" => task'[pr][o].result[p] \in {"todo", "ok", "err"}
  BY DEF ReplacedTracked
<1>1. [Next]_vars /\ ~CommitAcquire(pr, o)
  BY OutsideLeaves DEF Outside
<1>2. PICK t, u : t = task[pr][o] /\ u = task'[pr][o] /\ t \in TaskRecord
  BY TaskLease
<1>3. ~AttemptStarts(pr, o)
  BY DEF AttemptStarts
<1>4. CASE u = t
  <2>1. IsAcquiring(pr, o) /\ t.replaced[p] # {}
    BY <1>2, <1>4 DEF IsAcquiring
  <2>2. t.op = "acquire" => written(pr, o)' = written(pr, o)
    <3>1. t.op = "acquire" => scan'[pr][o] = scan[pr][o]
      BY <1>2, <1>4, OutsideScan
    <3> QED BY <1>2, <1>4, <3>1 DEF written
  <2> QED BY <1>2, <1>4, <2>1, <2>2 DEF ReplacedTracked
<1>5. CASE /\ RollbackLease(pr, o) /\ AttemptGoesOn(pr, o) /\ u.op = "undo"
           /\ u.result = todo_for(lock_paths(t.req)) /\ u.replaced = t.replaced
  <2>1. IsAcquiring(pr, o) /\ t.replaced[p] # {} /\ u.req = t.req
    BY <1>2, <1>5 DEF AttemptGoesOn
  <2>2. t.req[p] # "None"
    BY <1>2, <2>1 DEF ReplacedTracked
  <2>3. u.result[p] = "todo"
    BY <1>5, <2>2 DEF todo_for, lock_paths
  <2> QED BY <1>2, <1>5, <2>1, <2>2, <2>3
<1>6. ASSUME NEW ok \in Outcome, UndoPath(pr, o, ok), AttemptGoesOn(pr, o), u.op = "undo", u.replaced = t.replaced
      PROVE  u.req[p] # "None" /\ u.result[p] \in {"todo", "ok", "err"}
  <2>1. IsAcquiring(pr, o) /\ t.replaced[p] # {} /\ u.req = t.req /\ t.op = "undo"
    BY <1>2, <1>6 DEF AttemptGoesOn, UndoPath
  <2>2. t.req[p] # "None" /\ t.result[p] \in {"todo", "ok", "err"}
    BY <1>2, <2>1 DEF ReplacedTracked
  <2>4. task'[pr][o].op = "undo"
    BY <1>2, <1>6
  <2>5. PICK q \in Path, v \in {"ok", "err"} :
          /\ IsLast(q, Todo(task[pr][o]))
          /\ task'[pr][o] = [task[pr][o] EXCEPT !.result[q] = v]
          /\ v = "ok" => UndoPath(pr, o, TRUE)
    BY <1>6, <2>4, UndoAt
  <2>6. u.result[p] \in {t.result[p], "ok", "err"}
    BY <1>2, <2>5 DEF TaskRecord
  <2> QED BY <2>1, <2>2, <2>6
<1> QED BY <1>1, <1>2, <1>3, <1>4, <1>5, <1>6, AttemptsArise

\* An attempt keeps track of what it replaced: the path was written first.
LEMMA ReplacedTrackedAttempt ==
  ASSUME TypeOK, ScanOK, Structure, ReplacedTracked, NEW xr \in Proc, NEW x \in Owner, FsAttempt(xr, x)
  PROVE  ReplacedTracked'
<1> SUFFICES ASSUME NEW pr \in Proc, NEW o \in Owner, NEW p \in Path, IsAcquiring(pr, o)',
                    task'[pr][o].replaced[p] # {}
             PROVE  /\ task'[pr][o].req[p] # "None"
                    /\ task'[pr][o].op = "acquire" => p \in written(pr, o)'
                    /\ task'[pr][o].op = "undo" => task'[pr][o].result[p] \in {"todo", "ok", "err"}
  BY DEF ReplacedTracked
<1>1. CASE pr # xr \/ o # x
  <2>1. task'[pr][o] = task[pr][o] /\ written(pr, o)' = written(pr, o)
    BY <1>1, AttemptOthers
  <2>2. IsAcquiring(pr, o)
    BY <2>1 DEF IsAcquiring
  <2> QED BY <2>1, <2>2 DEF ReplacedTracked
<1>2. CASE pr = xr /\ o = x
  <2>1. PICK t, u : t = task[pr][o] /\ u = task'[pr][o] /\ t \in TaskRecord /\ t.op = "acquire"
    BY <1>2, TaskLease, AttemptSteps
  <2>2. IsAcquiring(pr, o) /\ u # Idle
    BY <2>1 DEF IsAcquiring, Idle
  <2>3. ASSUME t.replaced[p] # {} PROVE t.req[p] # "None" /\ p \in written(pr, o)
    BY <2>1, <2>2, <2>3 DEF ReplacedTracked
  <2>4. CASE GoesOnUnwritten(pr, o)
    <3>1. /\ u.replaced = t.replaced /\ u.req = t.req
          /\ \/ u.op = "acquire" /\ written(pr, o)' = written(pr, o)
             \/ u.op = "publish"
             \/ u.op = "undo" /\ u.result = todo_for(written(pr, o))
      BY <2>1, <2>4 DEF GoesOnUnwritten, AttemptGoesOn
    <3>2. t.req[p] # "None" /\ p \in written(pr, o)
      BY <2>1, <2>3, <3>1
    <3>3. u.result = todo_for(written(pr, o)) => u.result[p] = "todo"
      BY <3>2 DEF todo_for
    <3> QED BY <2>1, <3>1, <3>2, <3>3
  <2>5. ASSUME NEW q \in Path, WritesNext(pr, o, q), AttemptGoesOn(pr, o), u.op = "acquire"
        PROVE  u.req[p] # "None" /\ p \in written(pr, o)'
    <3>1. /\ q \in lock_paths(t.req) /\ written(pr, o)' = written(pr, o) \cup {q} /\ u.req = t.req
          /\ u.replaced = [t.replaced EXCEPT ![q] = {h \in tokens[q].holders : h.id = t.source}]
      BY <2>1, <2>5 DEF WritesNext, AttemptGoesOn
    <3>2. CASE p = q
      BY <3>1, <3>2 DEF lock_paths
    <3>3. CASE p # q
      <4>1. t.replaced[p] # {}
        BY <2>1, <3>1, <3>3 DEF TaskRecord
      <4> QED BY <2>3, <3>1, <4>1
    <3> QED BY <3>2, <3>3
  <2> QED BY <1>2, <2>1, <2>2, <2>4, <2>5, AttemptProgress
<1> QED BY <1>1, <1>2

-----------------------------------------------------------------------------
(* The source goes back *)

\* A holder stamped no earlier than what a lease within its deadline counts from is
\* live by every clock.
LEMMA StampIsLive ==
  ASSUME TypeOK, Structure, NEW s \in Lease, Valid(s), ~expired(entries[s]), NEW p \in Path,
         entries[s].cov[p] # "None", NEW h \in Holder,
         h.time >= entries[s].conf[p] + Skew[entries[s].proc]
  PROVE  0 <= h.time /\ \A qr \in Proc : now_ns(qr) - TTL <= h.time
<1>1. PICK c, pr : c = entries[s].conf[p] /\ pr = entries[s].proc
  OBVIOUS
<1>2. c \in Nat /\ pr \in Proc /\ now \in Nat /\ h.time \in Int /\ now - c < Validity
  <2>1. c \in Nat /\ pr \in Proc /\ now \in Nat /\ h.time \in Int
    BY <1>1 DEF TypeOK, Entry, Valid, Published, Holder
  <2>2. ~(now - c >= Validity)
    BY <1>1 DEF expired, lock_paths
  <2> QED BY <2>1, <2>2, TimeAssumption
<1>3. h.time >= c + Skew[pr]
  BY <1>1
<1>4. ASSUME NEW qr \in Proc PROVE 0 <= h.time /\ now_ns(qr) - TTL <= h.time
  <2>1. /\ c + Skew[pr] \in Int /\ 0 <= c + Skew[pr]
        /\ stale_before_at(qr, now) \in Int /\ stale_before_at(qr, now) <= c + Skew[pr]
    BY <1>2, FreshIsLive
  <2>2. now_ns(qr) - TTL = stale_before_at(qr, now)
    BY <1>2, SkewAssumption, TimeAssumption DEF now_ns, stale_before_at
  <2> QED BY <1>2, <1>3, <2>1, <2>2
<1> QED BY <1>2, <1>4

\* The holder of a lease within its deadline is live by every clock.
LEMMA ValidIsLive ==
  ASSUME TypeOK, Structure, NEW s \in Lease, Valid(s), ~expired(entries[s]), NEW p \in Path,
         entries[s].cov[p] # "None", NEW h \in Holder, h.id = s, StampOK(h, p)
  PROVE  0 <= h.time /\ \A qr \in Proc : now_ns(qr) - TTL <= h.time
<1>1. h.time >= entries[s].conf[p] + Skew[entries[s].proc]
  BY DEF StampOK
<1> QED BY <1>1, StampIsLive

\* The holder of a prompt attempt is live by every clock.
LEMMA PromptIsLive ==
  ASSUME TypeOK, NEW pr \in Proc, NEW o \in Owner, IsAcquiring(pr, o), Prompt(pr, o),
         NEW p \in Path, NEW h \in Holder, h.id = task[pr][o].lease, StampOK(h, p)
  PROVE  0 <= h.time /\ \A qr \in Proc : now_ns(qr) - TTL <= h.time
<1>1. PICK time : time = task[pr][o].started + Skew[pr]
  OBVIOUS
<1>2. time \in Nat /\ h.time \in Int /\ now \in Nat /\ TTL \in Nat /\ \A qr \in Proc : Skew[qr] \in Nat
  BY <1>1, TaskLease, SkewAssumption, TimeAssumption DEF TypeOK, Holder
<1>3. h.time >= time
  BY <1>1 DEF StampOK
<1>4. \A qr \in Proc : time >= now_ns(qr) - TTL
  BY <1>1 DEF Prompt
<1> QED BY <1>2, <1>3, <1>4 DEF now_ns

\* An attempt that is prompt after a step was prompt before it.
LEMMA PromptBefore ==
  ASSUME TypeOK, TypeOK', now <= now', NEW pr \in Proc, NEW o \in Owner,
         task'[pr][o].started = task[pr][o].started, Prompt(pr, o)'
  PROVE  Prompt(pr, o)
<1> SUFFICES ASSUME NEW qr \in Proc PROVE task[pr][o].started + Skew[pr] >= now_ns(qr) - TTL
  BY DEF Prompt
<1>1. PICK time : time = task[pr][o].started + Skew[pr]
  OBVIOUS
<1>2. time \in Nat /\ now \in Nat /\ now' \in Nat /\ TTL \in Nat /\ Skew[qr] \in Nat
  BY <1>1, TaskLease, SkewAssumption, TimeAssumption DEF TypeOK
<1>3. time >= now' + Skew[qr] - TTL
  <2>1. task'[pr][o].started + Skew[pr] >= now_ns(qr)' - TTL
    BY DEF Prompt
  <2>2. task'[pr][o].started + Skew[pr] = time
    BY <1>1
  <2>3. now_ns(qr)' = now' + Skew[qr]
    BY DEF now_ns
  <2> QED BY <1>2, <2>1, <2>2, <2>3
<1> QED BY <1>1, <1>2, <1>3 DEF now_ns

\* The steps around the attempts take away no holder that a prompt adoption relies on.
LEMMA StandsInOutside ==
  ASSUME TypeOK, TypeOK', ScanOK, Structure, Undoable, Stamped, StandsIn, Outside
  PROVE  StandsIn'
<1> SUFFICES ASSUME NEW pr \in Proc, NEW o \in Owner, NEW s \in Lease, FsAdopting(pr, o, s)', Prompt(pr, o)',
                    NEW p \in FsWithheld(pr, o)'
             PROVE  ~GoneNext(task'[pr][o].lease, p)
  BY DEF StandsIn, Gone, GoneNext
<1>1. /\ FsAdopting(pr, o, s) /\ AttemptGoesOn(pr, o) /\ p \in FsWithheld(pr, o)
      /\ \A ok \in Outcome : UndoPath(pr, o, ok) => ~IsLast(p, Todo(task[pr][o]))
  <2>1. /\ FsAdopting(pr, o, s) /\ AttemptGoesOn(pr, o) /\ p \in FsWithheld(pr, o)
    BY WithheldOutside
  <2>2. p \in Path
    BY <2>1 DEF FsWithheld, Withheld, written, lock_paths, Todo
  <2> QED BY <2>1, <2>2, WithheldOutside
<1>2. p \in Path /\ now <= now'
  BY <1>1, OutsideLeaves DEF FsWithheld, Withheld, written, lock_paths, Todo
<1>3. PICK l \in Lease : /\ l = task[pr][o].lease /\ l = task'[pr][o].lease /\ IsAcquiring(pr, o)
                         /\ task'[pr][o].started = task[pr][o].started
  BY <1>1, TaskLease DEF AttemptGoesOn, IsAcquiring
<1>4. Prompt(pr, o)
  BY <1>2, <1>3, PromptBefore
<1>5. ~Gone(l, p)
  BY <1>1, <1>3, <1>4 DEF StandsIn
<1>6. tokens[p].owner = o
  BY <1>2, <1>3, <1>5 DEF Undoable, AttemptHolders
<1>7. PICK h \in tokens[p].holders : h.id = l
  BY <1>5 DEF Gone
<1>8. h \in Holder /\ StampOK(h, p)
  BY <1>2, <1>7 DEF Stamped, TypeOK, Token
<1>9. 0 <= h.time /\ \A qr \in Proc : now_ns(qr) - TTL <= h.time
  BY <1>2, <1>3, <1>4, <1>7, <1>8, PromptIsLive
<1>10. \A qr \in Proc, w \in Owner : task[qr][w].op = "release" => task[qr][w].lease # l
  <2> SUFFICES ASSUME NEW qr \in Proc, NEW w \in Owner, task[qr][w].op = "release", task[qr][w].lease = l
               PROVE  FALSE
    OBVIOUS
  <2>1. l \in registry(entries, qr, w)
    BY DEF Structure, HeldWhileInFlight
  <2>2. Published(l)
    BY <2>1, RequestAssumption DEF registry, Published
  <2> QED BY <1>3, <2>2 DEF Structure, UnpublishedWhileAcquiring
<1>11. ASSUME NEW qr \in Proc, NEW w \in Owner, NEW ok \in Outcome, UndoPath(qr, w, ok),
              IsLast(p, Todo(task[qr][w]))
       PROVE  task[qr][w].lease # l
  <2>1. IsAcquiring(qr, w)
    BY <1>11 DEF UndoPath, IsAcquiring
  <2>2. qr # pr \/ w # o
    BY <1>1, <1>11
  <2> QED BY <1>3, <2>1, <2>2 DEF Structure, OneAcquisitionPerLease
<1>12. ~GoneNext(l, p)
  BY <1>2, <1>6, <1>7, <1>9, <1>10, <1>11, OutlivesOutside
<1> QED BY <1>3, <1>12

\* An attempt, its own or another, takes away no holder that a prompt adoption relies on.
LEMMA StandsInAttempt ==
  ASSUME TypeOK, TypeOK', ScanOK, Structure, Undoable, Stamped, StandsIn,
         NEW xr \in Proc, NEW x \in Owner, FsAttempt(xr, x)
  PROVE  StandsIn'
<1> SUFFICES ASSUME NEW pr \in Proc, NEW o \in Owner, NEW s \in Lease, FsAdopting(pr, o, s)', Prompt(pr, o)',
                    NEW p \in FsWithheld(pr, o)'
             PROVE  ~GoneNext(task'[pr][o].lease, p)
  BY DEF StandsIn, Gone, GoneNext
<1>n. now' = now /\ task[xr][x].op = "acquire"
  BY AttemptSteps
<1>p. p \in Path
  BY DEF FsWithheld, Withheld, written, lock_paths, Todo
<1>1. ASSUME FsAdopting(pr, o, s), p \in FsWithheld(pr, o), task'[pr][o].lease = task[pr][o].lease,
             task'[pr][o].started = task[pr][o].started
      PROVE  ~GoneNext(task'[pr][o].lease, p)
  <2>1. PICK l \in Lease : l = task[pr][o].lease /\ IsAcquiring(pr, o)
    BY <1>1, TaskLease DEF FsAdopting, IsAcquiring
  <2>2. Prompt(pr, o)
    <3>1. now <= now'
      BY <1>n DEF TypeOK
    <3> QED BY <1>1, <3>1, PromptBefore
  <2>3. ~Gone(l, p)
    BY <1>1, <2>1, <2>2 DEF StandsIn
  <2>4. tokens[p].owner = o
    BY <1>p, <2>1, <2>3 DEF Undoable, AttemptHolders
  <2>5. PICK h \in tokens[p].holders : h.id = l
    BY <2>3 DEF Gone
  <2>6. h \in Holder /\ StampOK(h, p)
    BY <1>p, <2>5 DEF Stamped, TypeOK, Token
  <2>7. \A qr \in Proc : now_ns(qr) - TTL <= h.time
    BY <1>p, <2>1, <2>2, <2>5, <2>6, PromptIsLive
  <2>8. task[xr][x].source # l
    BY <1>n, <2>1 DEF Structure, SourcesTransferable, Transferable, IsAcquiring
  <2>9. ~GoneNext(l, p)
    BY <1>p, <2>1, <2>4, <2>5, <2>7, <2>8, OutlivesAttempt
  <2> QED BY <1>1, <2>1, <2>9
<1>2. CASE pr # xr \/ o # x
  <2>1. task'[pr][o] = task[pr][o] /\ FsWithheld(pr, o)' = FsWithheld(pr, o) /\ FsAdopting(pr, o, s)
    BY <1>2, OthersAdopt
  <2> QED BY <1>1, <2>1
<1>3. CASE pr = xr /\ o = x
  <2>1. /\ IsAcquiring(pr, o) /\ task[pr][o].source = s
        /\ \/ FsWithheld(pr, o)' = FsWithheld(pr, o)
           \/ \E q \in Path : WritesNext(pr, o, q) /\ FsWithheld(pr, o)' = FsWithheld(pr, o) \cup {q}
    BY <1>3, WithheldAttempt
  <2>2. AttemptGoesOn(pr, o)
    <3>1. task'[pr][o] # Idle
      BY DEF FsAdopting, IsAcquiring, Idle
    <3> QED BY <1>3, <3>1, AttemptProgress DEF GoesOnUnwritten
  <2>3. CASE p \in FsWithheld(pr, o)
    <3>1. FsAdopting(pr, o, s)
      BY <2>1, <2>3 DEF FsAdopting
    <3> QED BY <1>1, <2>2, <2>3, <3>1 DEF AttemptGoesOn
  <2>4. CASE p \notin FsWithheld(pr, o)
    <3>1. WritesNext(pr, o, p)
      BY <2>1, <2>4
    <3>2. PICK t, n, sb :
            /\ t = task[pr][o]
            /\ tokens' = [tokens EXCEPT ![p] = with_holder(@, o, t.lease, t.req[p], n, sb, t.source)]
      BY <3>1 DEF WritesNext
    <3>3. PICK new, h : /\ new = with_holder(tokens[p], o, t.lease, t.req[p], n, sb, t.source)
                        /\ h = [id |-> t.lease, kind |-> t.req[p], time |-> n]
      OBVIOUS
    <3>4. tokens \in [Path -> Token] /\ tokens[p] \in Token
      BY <1>p DEF TypeOK
    <3>5. h \in new.holders /\ h.id = t.lease
      BY <3>3, <3>4 DEF with_holder, add_holder, held, Token
    <3>6. tokens'[p] = new
      BY <1>p, <3>2, <3>3, <3>4
    <3>7. task'[pr][o].lease = t.lease
      BY <2>2, <3>2 DEF AttemptGoesOn
    <3> QED BY <3>5, <3>6, <3>7 DEF GoneNext
  <2> QED BY <2>3, <2>4
<1> QED BY <1>2, <1>3

\* The undo of a prompt adoption puts the holder of a valid source back.
LEMMA SourceGoesBack ==
  ASSUME TypeOK, ScanOK, Structure, Undoable, FsAdoptions, ReferencesTrue, Stamped, StandsIn,
         NEW pr \in Proc, NEW o \in Owner, NEW s \in Lease, FsAdopting(pr, o, s), Prompt(pr, o),
         Valid(s), ~expired(entries[s]), UndoPath(pr, o, TRUE),
         NEW p \in Path, IsLast(p, Todo(task[pr][o])), task[pr][o].replaced[p] # {}
  PROVE  ~GoneNext(s, p) /\ tokens'[p].owner = o
<1>1. PICK t, tok, b : /\ t = task[pr][o] /\ t \in TaskRecord /\ tok = tokens[p] /\ tok \in Token
                       /\ b = now_ns(pr) - TTL /\ tokens \in [Path -> Token]
  BY TaskLease DEF TypeOK
<1>2. /\ IsAcquiring(pr, o) /\ t.source = s /\ t.op = "undo" /\ p \in FsWithheld(pr, o)
      /\ IsLast(p, Todo(t)) /\ t.replaced[p] # {}
  BY <1>1 DEF FsAdopting, UndoPath, FsWithheld, Withheld, IsLast
<1>3. PICK q \in Path :
        /\ IsLast(q, Todo(t))
        /\ tokens' = [tokens EXCEPT ![q] =
                        IF t.replaced[q] # {} THEN replace_holder(@, o, t.lease, t.replaced[q], b)
                        ELSE mutate_holder_record(@, o, t.lease, now_ns(pr), 0, TRUE)]
  BY <1>1 DEF UndoPath
<1>4. q = p
  BY <1>2, <1>3, RankOrder DEF IsLast
<1>5. tokens'[p] = replace_holder(tok, o, t.lease, t.replaced[p], b)
  BY <1>1, <1>2, <1>3, <1>4
<1>6. tok.owner = o /\ \E h \in tok.holders : h.id = t.lease
  <2>1. ~Gone(t.lease, p)
    BY <1>1, <1>2 DEF StandsIn
  <2> QED BY <1>1, <1>2, <2>1 DEF Undoable, AttemptHolders, Gone
<1>7. PICK r \in t.replaced[p] : r \in Holder /\ r.id = s /\ StampOK(r, p)
  BY <1>1, <1>2 DEF TaskRecord, Undoable, ReplacedAtSource, Stamped
<1>8. Gone(s, p) /\ entries[s].cov[p] # "None"
  <2>1. Gone(s, p) /\ p \in lock_paths(t.req)
    BY <1>1, <1>2 DEF FsAdoptions, FsSourceWithheld
  <2>2. t.req = entries[s].cov
    BY <1>1, <1>2 DEF ReferencesTrue
  <2> QED BY <2>1, <2>2 DEF lock_paths
<1>9. r.time >= b
  <2>1. now_ns(pr) - TTL <= r.time
    BY <1>7, <1>8, ValidIsLive
  <2>2. r.time \in Int /\ b \in Int
    BY <1>1, <1>7, SkewAssumption, TimeAssumption DEF Holder, TypeOK, now_ns
  <2> QED BY <1>1, <2>1, <2>2
<1>10. PICK others, back : /\ others = {h \in tok.holders : h.id # t.lease /\ h.time >= b}
                           /\ back = {g \in t.replaced[p] : g.time >= b /\ \A h \in others : h.id # g.id}
  OBVIOUS
<1>11. r \in back
  BY <1>1, <1>7, <1>8, <1>9, <1>10 DEF Gone
<1>12. PICK new : new = [tok EXCEPT !.holders = others \cup back]
  OBVIOUS
<1>13. tokens'[p] = recompute(new)
  BY <1>5, <1>6, <1>10, <1>12 DEF replace_holder
<1>14. r \in new.holders /\ new.owner = o
  BY <1>1, <1>6, <1>11, <1>12 DEF Token
<1>15. tokens'[p] = new
  BY <1>13, <1>14 DEF recompute
<1> QED BY <1>7, <1>14, <1>15 DEF GoneNext

\* What a valid source has at a path stays there.
LEMMA SourceStays ==
  ASSUME TypeOK, ScanOK, Structure, Stamped, ReferencesTrue, ReleaseParked, ReplacedTracked, Outside,
         NEW pr \in Proc, NEW o \in Owner, NEW s \in Lease, FsAdopting(pr, o, s),
         Valid(s), ~expired(entries[s]), entries[s].pending_handoff, NEW p \in Path,
         task[pr][o].replaced[p] # {}, ~Gone(s, p), tokens[p].owner = o
  PROVE  ~GoneNext(s, p) /\ tokens'[p].owner = o
<1>1. IsAcquiring(pr, o) /\ task[pr][o].source = s /\ Transferable(s)
  BY DEF FsAdopting, Structure, SourcesTransferable
<1>2. entries[s].cov[p] # "None"
  BY <1>1 DEF ReferencesTrue, ReplacedTracked
<1>3. PICK h \in tokens[p].holders : h.id = s
  BY DEF Gone
<1>4. h \in Holder /\ StampOK(h, p)
  BY <1>3 DEF Stamped, TypeOK, Token
<1>5. 0 <= h.time /\ \A qr \in Proc : now_ns(qr) - TTL <= h.time
  BY <1>2, <1>3, <1>4, ValidIsLive
<1>6. \A qr \in Proc, w \in Owner : task[qr][w].op = "release" => task[qr][w].lease # s
  BY DEF ReleaseParked
<1>7. \A qr \in Proc, w \in Owner, ok \in Outcome :
        UndoPath(qr, w, ok) /\ IsLast(p, Todo(task[qr][w])) => task[qr][w].lease # s
  BY <1>1 DEF Transferable, UndoPath, IsAcquiring
<1> QED BY <1>3, <1>5, <1>6, <1>7, OutlivesOutside

\* The steps around the attempts leave what was given back, and an undo adds to it.
LEMMA GivenBackOutside ==
  ASSUME TypeOK, TypeOK', ScanOK, Structure, Undoable, FsAdoptions, Restorable, Outside
  PROVE  GivenBack'
<1> SUFFICES ASSUME NEW pr \in Proc, NEW o \in Owner, NEW p \in Path, NEW s \in Lease,
                    FsAdopting(pr, o, s)', task'[pr][o].op = "undo", task'[pr][o].result[p] = "ok",
                    task'[pr][o].replaced[p] # {}, Prompt(pr, o)', Valid(s)', ~expired(entries[s])'
             PROVE  ~GoneNext(s, p) /\ tokens'[p].owner = o
  BY DEF GivenBack, Gone, GoneNext
<1>r. ReleaseParked /\ ReferencesTrue /\ Stamped /\ ReplacedTracked /\ StandsIn /\ GivenBack
  BY DEF Restorable
<1>n. [Next]_vars /\ now <= now' /\ ~CommitAcquire(pr, o)
  BY OutsideLeaves DEF Outside
<1>1. FsAdopting(pr, o, s) /\ AttemptGoesOn(pr, o)
  BY WithheldOutside
<1>2. PICK t, u : t = task[pr][o] /\ u = task'[pr][o] /\ t \in TaskRecord /\ u.started = t.started
  BY <1>1, TaskLease DEF AttemptGoesOn
<1>3. Prompt(pr, o)
  BY <1>2, <1>n, PromptBefore
<1>4. Valid(s) /\ ~expired(entries[s]) /\ entries[s].pending_handoff
  <2>1. Transferable(s)
    BY <1>1 DEF FsAdopting, Structure, SourcesTransferable
  <2> QED BY <1>n, <1>r, <2>1, ParkedStays
<1>5. ASSUME t.op = "undo", t.result[p] = "ok", t.replaced[p] # {}
      PROVE  ~GoneNext(s, p) /\ tokens'[p].owner = o
  <2>1. ~Gone(s, p) /\ tokens[p].owner = o
    BY <1>1, <1>2, <1>3, <1>4, <1>5, <1>r DEF GivenBack
  <2> QED BY <1>1, <1>2, <1>4, <1>5, <1>r, <2>1, SourceStays
<1>6. CASE u = t
  BY <1>2, <1>5, <1>6
<1>7. CASE u.result = todo_for(lock_paths(t.req))
  BY <1>2, <1>7 DEF todo_for
<1>8. ASSUME NEW ok \in Outcome, UndoPath(pr, o, ok), u.replaced = t.replaced
      PROVE  ~GoneNext(s, p) /\ tokens'[p].owner = o
  <2>2. PICK q \in Path, v \in {"ok", "err"} :
          /\ IsLast(q, Todo(task[pr][o]))
          /\ task'[pr][o] = [task[pr][o] EXCEPT !.result[q] = v]
          /\ v = "ok" => UndoPath(pr, o, TRUE)
    BY <1>8, UndoAt
  <2>3. u = [t EXCEPT !.result[q] = v] /\ t.op = "undo"
    BY <1>2, <1>8, <2>2 DEF UndoPath
  <2>4. CASE q = p
    <3>1. u.result[p] = v
      BY <1>2, <2>3, <2>4 DEF TaskRecord
    <3>3. UndoPath(pr, o, TRUE) /\ IsLast(p, Todo(task[pr][o])) /\ task[pr][o].replaced[p] # {}
      BY <1>2, <1>8, <2>2, <2>4, <3>1
    <3> QED BY <1>1, <1>3, <1>4, <1>r, <3>3, SourceGoesBack
  <2>5. CASE q # p
    <3>1. t.result[p] = "ok"
      BY <1>2, <2>3, <2>5 DEF TaskRecord
    <3> QED BY <1>2, <1>5, <1>8, <2>3, <3>1
  <2> QED BY <2>4, <2>5
<1>9. ~AttemptStarts(pr, o)
  BY DEF AttemptStarts
<1>10. IsAcquiring(pr, o)'
  BY DEF FsAdopting
<1> QED BY <1>2, <1>6, <1>7, <1>8, <1>9, <1>10, <1>n, AttemptsArise

\* Another attempt leaves what was given back: the holder of a valid lease is not stale.
LEMMA GivenBackAttempt ==
  ASSUME TypeOK, TypeOK', ScanOK, Structure, FsAdoptions', Restorable,
         NEW xr \in Proc, NEW x \in Owner, FsAttempt(xr, x)
  PROVE  GivenBack'
<1> SUFFICES ASSUME NEW pr \in Proc, NEW o \in Owner, NEW p \in Path, NEW s \in Lease,
                    FsAdopting(pr, o, s)', task'[pr][o].op = "undo", task'[pr][o].result[p] = "ok",
                    task'[pr][o].replaced[p] # {}, Prompt(pr, o)', Valid(s)', ~expired(entries[s])'
             PROVE  ~GoneNext(s, p) /\ tokens'[p].owner = o
  BY DEF GivenBack, Gone, GoneNext
<1>r. ReferencesTrue /\ Stamped /\ ReplacedTracked /\ GivenBack
  BY DEF Restorable
<1>n. now' = now /\ entries' = entries /\ task[xr][x].op = "acquire"
  BY AttemptSteps
<1>1. CASE pr = xr /\ o = x
  <2>1. task'[pr][o].op = "undo" => task'[pr][o].result = todo_for(written(pr, o))
    BY <1>1, AttemptProgress DEF GoesOnUnwritten, Idle
  <2> QED BY <2>1 DEF todo_for
<1>2. CASE pr # xr \/ o # x
  <2>1. task'[pr][o] = task[pr][o] /\ FsAdopting(pr, o, s)
    BY <1>2, OthersAdopt
  <2>2. Prompt(pr, o) /\ Valid(s) /\ ~expired(entries[s])
    BY <1>n, <2>1 DEF Prompt, now_ns, Valid, Published, expired
  <2>3. ~Gone(s, p) /\ tokens[p].owner = o
    BY <1>r, <2>1, <2>2 DEF GivenBack
  <2>4. entries[s].cov[p] # "None"
    BY <1>r, <2>1, <2>2 DEF ReferencesTrue, ReplacedTracked, FsAdopting
  <2>5. PICK h \in tokens[p].holders : h.id = s
    BY <2>3 DEF Gone
  <2>6. h \in Holder /\ StampOK(h, p)
    BY <1>r, <2>5 DEF Stamped, TypeOK, Token
  <2>7. \A qr \in Proc : now_ns(qr) - TTL <= h.time
    BY <2>2, <2>4, <2>5, <2>6, ValidIsLive
  <2>8. ASSUME Writes(xr, x, p) PROVE task[xr][x].source # s
    <3> SUFFICES ASSUME task[xr][x].source = s PROVE FALSE
      OBVIOUS
    <3>1. FsAdopting(xr, x, s)'
      BY <2>8, WritesWithhold
    <3> QED BY <1>2, <3>1 DEF FsAdoptions, FsOneAdoption
  <2> QED BY <2>3, <2>5, <2>7, <2>8, OutlivesAttempt
<1> QED BY <1>1, <1>2

\* Every step keeps the source of an adoption restorable.
LEMMA RestorableStep ==
  ASSUME TypeOK, TypeOK', ScanOK, Structure, Structure', Undoable, Undoable', FsAdoptions, FsAdoptions',
         Restorable, [FsNext]_fsvars
  PROVE  Restorable'
<1>r. ReleaseParked /\ ReferencesTrue /\ Stamped /\ ReplacedTracked /\ StandsIn /\ GivenBack
  BY DEF Restorable
<1>1. CASE Outside
  <2>1. [Next]_vars /\ now <= now'
    BY <1>1, OutsideLeaves DEF Outside
  <2>2. ReleaseParked' /\ ReferencesTrue'
    BY <1>r, <2>1, ReleaseParkedStep, ReferencesTrueStep
  <2>3. Stamped'
    BY <1>1, <1>r, StampedOutside
  <2>4. ReplacedTracked'
    BY <1>1, <1>r, ReplacedTrackedOutside
  <2>5. StandsIn'
    BY <1>1, <1>r, StandsInOutside
  <2>6. GivenBack'
    BY <1>1, GivenBackOutside
  <2> QED BY <2>2, <2>3, <2>4, <2>5, <2>6 DEF Restorable
<1>2. ASSUME NEW xr \in Proc, NEW x \in Owner, FsAttempt(xr, x) PROVE Restorable'
  <2>1. ReleaseParked' /\ ReferencesTrue'
    BY <1>2, <1>r, ParkedAttempt
  <2>2. Stamped'
    BY <1>2, <1>r, StampedAttempt
  <2>3. ReplacedTracked'
    BY <1>2, <1>r, ReplacedTrackedAttempt
  <2>4. StandsIn'
    BY <1>2, <1>r, StandsInAttempt
  <2>5. GivenBack'
    BY <1>2, GivenBackAttempt
  <2> QED BY <2>1, <2>2, <2>3, <2>4, <2>5 DEF Restorable
<1> QED BY <1>1, <1>2, FsSteps

\* Nothing is to be restored at first.
LEMMA RestorableInit == FsInit => Restorable
<1> SUFFICES ASSUME FsInit PROVE Restorable
  OBVIOUS
<1>1. /\ \A pr \in Proc, o \in Owner : task[pr][o] = Idle
      /\ \A l \in Lease : entries[l] = NoEntry
      /\ \A p \in Path : tokens[p] = NoToken
  BY DEF FsInit, Init
<1>2. \A pr \in Proc, o \in Owner : task[pr][o].op = "idle" /\ ~IsAcquiring(pr, o)
  BY <1>1 DEF Idle, IsAcquiring
<1>3. \A l \in Lease : ~Valid(l)
  BY <1>1 DEF Valid, Published, NoEntry
<1>4. \A p \in Path : tokens[p].holders = {}
  <2>1. NoToken.holders = {}
    BY DEF NoToken
  <2> QED BY <1>1, <2>1
<1>5. ReleaseParked /\ ReferencesTrue
  BY <1>2, <1>3 DEF ReleaseParked, ReferencesTrue
<1>6. Stamped /\ ReplacedTracked
  BY <1>2, <1>4 DEF Stamped, ReplacedTracked
<1>7. StandsIn /\ GivenBack
  BY <1>2 DEF StandsIn, GivenBack, FsAdopting
<1> QED BY <1>5, <1>6, <1>7 DEF Restorable

\* A rollback of a prompt adoption that ends has put the valid source back wherever it
\* had taken it out and the undo did not fail.
LEMMA UndoneIsGivenBack ==
  ASSUME TypeOK, TypeOK', ScanOK, Structure, Undoable, FsAdoptions, Restorable, [Next]_vars,
         NEW pr \in Proc, NEW o \in Owner, NEW p \in Path, NEW s \in Lease, UndoneAt(pr, o, p),
         task[pr][o].op = "undo", task[pr][o].replaced[p] # {}, task[pr][o].source = s,
         Prompt(pr, o), Valid(s), ~expired(entries[s])
  PROVE  now' = now /\ entries' = entries /\ ~GoneNext(s, p) /\ tokens'[p].owner = o
<1>r. ReferencesTrue /\ Stamped /\ ReplacedTracked /\ StandsIn /\ GivenBack
  BY DEF Restorable
<1>1. PICK t : t = task[pr][o] /\ t \in TaskRecord
  BY TaskLease
<1>2. /\ IsAcquiring(pr, o) /\ task'[pr][o].op = "idle" /\ ~Crash(pr) /\ t.result[p] # "err"
      /\ ~(Todo(t) = {p} /\ UndoPath(pr, o, FALSE))
  BY <1>1 DEF UndoneAt, IsAcquiring
<1>3. PICK ok \in Outcome : UndoPath(pr, o, ok)
  BY <1>2, UndoEnds
<1>4. now' = now /\ entries' = entries
  BY <1>3 DEF UndoPath
<1>5. PICK v : v = IF ok THEN "ok" ELSE "err"
  OBVIOUS
<1>6. PICK q \in Path :
        /\ IsLast(q, Todo(t))
        /\ tokens' = [tokens EXCEPT ![q] = tokens'[q]]
        /\ task' = [task EXCEPT ![pr][o] = IF Todo(t) = {q} THEN Idle
                                          ELSE [t EXCEPT !.result[q] = v]]
  <2>1. tokens \in [Path -> Token]
    BY DEF TypeOK
  <2> QED BY <1>1, <1>3, <1>5, <2>1 DEF UndoPath
<1>7. Todo(t) = {q}
  <2>1. task'[pr][o] = IF Todo(t) = {q} THEN Idle ELSE [t EXCEPT !.result[q] = v]
    BY <1>6 DEF TypeOK
  <2>2. [t EXCEPT !.result[q] = v].op = "undo"
    BY <1>1 DEF TaskRecord
  <2> QED BY <1>2, <2>1, <2>2
<1>8. FsAdopting(pr, o, s)
  <2>1. FsWithheld(pr, o) = {q}
    BY <1>1, <1>7 DEF FsWithheld, Withheld
  <2> QED BY <1>2, <2>1 DEF FsAdopting
<1>9. CASE q = p
  <2>1. ok = TRUE
    BY <1>2, <1>3, <1>7, <1>9, RequestAssumption
  <2>2. UndoPath(pr, o, TRUE) /\ IsLast(p, Todo(task[pr][o]))
    BY <1>1, <1>3, <1>6, <1>9, <2>1
  <2> QED BY <1>4, <1>8, <1>r, <2>2, SourceGoesBack
<1>10. CASE q # p
  <2>1. t.result[p] \in {"todo", "ok", "err"}
    BY <1>1, <1>2, <1>r DEF ReplacedTracked
  <2>2. t.result[p] = "ok"
    BY <1>2, <1>7, <1>10, <2>1 DEF Todo
  <2>3. ~Gone(s, p) /\ tokens[p].owner = o
    BY <1>1, <1>8, <1>r, <2>2 DEF GivenBack
  <2>4. tokens'[p] = tokens[p]
    <3>1. tokens \in [Path -> Token]
      BY DEF TypeOK
    <3> QED BY <1>6, <1>10, <3>1
  <2> QED BY <1>4, <2>3, <2>4 DEF Gone, GoneNext
<1> QED BY <1>9, <1>10

\* The source that was given back is backed as its lease says.
LEMMA GivenBackIsBacked ==
  ASSUME TypeOK, TypeOK', Structure, Restorable, Stamped', now' = now, entries' = entries,
         NEW pr \in Proc, NEW o \in Owner, NEW p \in Path, NEW s \in Lease, IsAcquiring(pr, o),
         task[pr][o].replaced[p] # {}, task[pr][o].source = s, Valid(s), ~expired(entries[s]),
         ~GoneNext(s, p), tokens'[p].owner = o
  PROVE  Backed(s, p)'
<1>1. entries[s].owner = o /\ entries[s].cov[p] # "None"
  BY DEF Restorable, ReferencesTrue, ReplacedTracked
<1>2. PICK h \in tokens'[p].holders : h.id = s
  BY DEF GoneNext
<1>3. h \in Holder
  BY <1>2 DEF TypeOK, Token
<1>4. StampOK(h, p)'
  BY <1>2 DEF Stamped
<1>5. h.kind = entries[s].cov[p] /\ h.time >= entries[s].conf[p] + Skew[entries[s].proc]
  BY <1>1, <1>2, <1>4 DEF StampOK, Valid, Published
<1>6. \A qr \in Proc : now_ns(qr) - TTL <= h.time
  BY <1>1, <1>3, <1>5, StampIsLive
<1>7. ASSUME NEW qr \in Proc PROVE h.time >= now_ns(qr)' - TTL
  <2>1. now_ns(qr)' = now_ns(qr)
    BY DEF now_ns
  <2>2. now_ns(qr) \in Int /\ TTL \in Int /\ h.time \in Int
    BY <1>3, SkewAssumption, TimeAssumption DEF TypeOK, now_ns, Holder
  <2> QED BY <1>6, <2>1, <2>2
<1> QED BY <1>1, <1>2, <1>5, <1>7 DEF Backed
-----------------------------------------------------------------------------
(* The theorems *)

\* The invariant that carries exclusion over the filesystem provider: what an attempt
\* has written and what a process claims is in the store, and of two that meet one
\* has still to look at the other.
THEOREM StakesCorrect == FsSpec => [](TypeOK /\ ScanOK /\ Structure /\ StakesGrounded /\ StillToLook)
<1>1. FsInit => TypeOK /\ ScanOK /\ Structure /\ StakesGrounded /\ StillToLook
  <2> SUFFICES ASSUME FsInit PROVE TypeOK /\ ScanOK /\ Structure /\ StakesGrounded /\ StillToLook
    OBVIOUS
  <2>1. Init /\ TypeOK /\ Structure
    BY TypeInit, StructureInit DEF FsInit
  <2>2. ScanOK
    BY <2>1 DEF FsInit, ScanOK, NoScan, Scan
  <2>3. ASSUME NEW o \in Owner, NEW l \in Lease, NEW p \in Path, NEW k, NEW pr \in Proc, NEW c
        PROVE  ~Stake(o, l, p, k, pr, c)
    <3>1. task[pr][o].op = "idle"
      BY <2>1 DEF Init, Idle
    <3> QED BY <2>1, <3>1, NoClaimsInit DEF Stake, Pending
  <2> QED BY <2>1, <2>2, <2>3 DEF StakesGrounded, StillToLook
<1>2. TypeOK /\ ScanOK /\ Structure /\ StakesGrounded /\ StillToLook /\ [FsNext]_fsvars
        => (TypeOK /\ ScanOK /\ Structure /\ StakesGrounded /\ StillToLook)'
  <2> SUFFICES ASSUME TypeOK, ScanOK, Structure, StakesGrounded, StillToLook, [FsNext]_fsvars
               PROVE  (TypeOK /\ ScanOK /\ Structure /\ StakesGrounded /\ StillToLook)'
    OBVIOUS
  <2>1. TypeOK'
    BY FsTypeStep
  <2>2. Structure'
    BY <2>1, FsStructureStep
  <2> QED BY <2>1, <2>2, ScanStep, FsGroundedStep, StillToLookStep
<1> QED BY <1>1, <1>2, PTL DEF FsSpec

\* Two owners are never both authorized to mutate one path over the filesystem
\* provider either, which checks, writes and verifies without a transaction.
THEOREM FsExclusionCorrect == FsSpec => []MutualExclusion
<1>1. TypeOK /\ ScanOK /\ Structure /\ StakesGrounded /\ StillToLook => MutualExclusion
  <2> SUFFICES ASSUME TypeOK, Structure, StillToLook PROVE Exclusive
    BY ClaimsExclude
  <2> SUFFICES ASSUME NEW o \in Owner, NEW w \in Owner, NEW l \in Lease, NEW m \in Lease,
                      NEW p \in Path, NEW q \in Path, NEW k \in Kind, NEW j \in Kind,
                      NEW pr \in Proc, NEW qr \in Proc, NEW c \in 0 .. now, NEW d \in 0 .. now,
                      Claim(o, l, p, k, pr, c), Claim(w, m, q, j, qr, d), o # w
               PROVE  Apart(p, k, q, j)
    BY DEF Exclusive
  <2>1. LookedAt(o, l, p, pr, q) /\ LookedAt(w, m, q, qr, p)
    BY ClaimLooked
  <2> QED BY <2>1 DEF StillToLook, Stake
<1> QED BY <1>1, StakesCorrect, PTL

\* An authorization has its holder in the store over the filesystem provider too.
THEOREM FsHoldersBacked == FsSpec => []HolderBacked
<1>1. StakesGrounded => Grounded
  BY DEF StakesGrounded, Stake, Grounded
<1> QED BY <1>1, ClaimsBacked, StakesCorrect, PTL

\* An attempt over the filesystem provider keeps track of what it wrote and of the
\* source it took out, so that it can put both back when it fails.
THEOREM UndoableCorrect == FsSpec => []Undoable
<1>1. FsInit => Undoable
  <2> SUFFICES ASSUME FsInit PROVE \A pr \in Proc, o \in Owner : task[pr][o].op = "idle"
    BY DEF Undoable, AttemptHolders, WrittenHolders, ReplacedAtSource, IsAcquiring
  <2> QED BY DEF FsInit, Init, Idle
<1>2. TypeOK /\ TypeOK' /\ ScanOK /\ Structure /\ Undoable /\ [FsNext]_fsvars => Undoable'
  BY UndoableStep
<1> QED BY <1>1, <1>2, StakesCorrect, PTL DEF FsSpec

\* An acquisition that fails between two of its writes to the filesystem, or in the
\* verification after them, leaves none of its holders behind.
THEOREM FsAcquisitionIsAllOrNothing == FsSpec => AllOrNothing
<1>1. TypeOK /\ TypeOK' /\ ScanOK /\ Structure /\ Undoable /\ [FsNext]_fsvars
      => \A pr \in Proc, o \in Owner, p \in Path :
           UndoneAt(pr, o, p) => \A h \in tokens'[p].holders : h.id # task[pr][o].lease
  <2> SUFFICES ASSUME TypeOK, TypeOK', ScanOK, Structure, Undoable, [FsNext]_fsvars,
                      NEW pr \in Proc, NEW o \in Owner, NEW p \in Path, UndoneAt(pr, o, p)
               PROVE  GoneNext(task[pr][o].lease, p)
    BY DEF GoneNext
  <2>1. task[pr][o].op \in {"acquire", "undo"} /\ task'[pr][o].op = "idle" /\ ~Crash(pr)
    BY DEF UndoneAt
  <2>2. CASE Outside
    <3>1. task[pr][o].op = "undo"
      BY <2>1, <2>2, OutsideScan
    <3>2. ReplacedIsSource /\ AttemptHolders /\ [Next]_vars
      BY <2>2 DEF Undoable, ReplacedAtSource, ReplacedIsSource, IsAcquiring, Outside
    <3> QED BY <3>1, <3>2, UndoneIsGone
  <2>3. ASSUME NEW xr \in Proc, NEW x \in Owner, FsAttempt(xr, x)
        PROVE  GoneNext(task[pr][o].lease, p)
    <3>1. pr = xr /\ o = x
      <4>1. pr # xr \/ o # x => task'[pr][o] = task[pr][o]
        BY <2>3, AttemptOthers
      <4> QED BY <2>1, <4>1
    <3>2. task[pr][o].op = "acquire"
      BY <2>3, <3>1, AttemptSteps
    <3>3. tokens' = tokens /\ written(pr, o) = {}
      BY <2>1, <2>3, <3>1, AttemptProgress DEF GoesOnUnwritten
    <3>4. Gone(task[pr][o].lease, p)
      BY <3>2, <3>3 DEF Undoable, WrittenHolders
    <3> QED BY <3>3, <3>4 DEF Gone, GoneNext
  <2> QED BY <2>2, <2>3, FsSteps
<1>2. TypeOK /\ TypeOK' /\ ScanOK /\ Structure /\ Undoable /\ [FsNext]_fsvars
      => [\A pr \in Proc, o \in Owner, p \in Path :
            UndoneAt(pr, o, p) => \A h \in tokens'[p].holders : h.id # task[pr][o].lease]_vars
  BY <1>1
<1> QED BY <1>2, StakesCorrect, UndoableCorrect, PTL DEF FsSpec, AllOrNothing

\* The adoptions of one source over the filesystem provider, which takes it over path by
\* path, exclude each other, and a source that was adopted is out of the store.
THEOREM FsAdoptionsCorrect == FsSpec => []FsAdoptions
<1>1. FsInit => FsAdoptions
  <2> SUFFICES ASSUME FsInit PROVE FsAdoptions
    OBVIOUS
  <2>1. \A pr \in Proc, o \in Owner : task[pr][o].op = "idle"
    BY DEF FsInit, Init, Idle
  <2>2. handoffs = {} /\ \A l \in Lease : ~Published(l)
    BY DEF FsInit, Init, Published, NoEntry
  <2>3. \A s, c : ~Referenced(s, c)
    BY <2>1, <2>2 DEF Referenced, IsAcquiring
  <2>4. \A pr \in Proc, o \in Owner : \A s : ~FsAdopting(pr, o, s)
    BY <2>1 DEF FsAdopting, IsAcquiring
  <2> QED BY <2>1, <2>2, <2>3, <2>4 DEF FsAdoptions, OneCoverage, PublishesAll, FsSourceWithheld,
                FsOneAdoption, FsAdoptedForGood, AdoptedOnce
<1>2. TypeOK /\ TypeOK' /\ ScanOK /\ Structure /\ Undoable /\ FsAdoptions /\ [FsNext]_fsvars
      => FsAdoptions'
  BY AdoptionsOutside, AdoptionsAttempt, FsSteps
<1> QED BY <1>1, <1>2, StakesCorrect, UndoableCorrect, PTL DEF FsSpec

\* A parked lease is adopted at most once over the filesystem provider too, however the
\* writes of two consumers that were given its reference interleave.
THEOREM FsReferencesAreAdoptedOnce == FsSpec => []AdoptedOnce
<1>1. FsAdoptions => AdoptedOnce
  BY DEF FsAdoptions
<1> QED BY <1>1, FsAdoptionsCorrect, PTL

\* What an adoption over the filesystem provider took out of the store can be put back:
\* replaced holders keep their kind and date, the new holder stands in for them, and a
\* source once given back stays.
THEOREM RestorableCorrect == FsSpec => []Restorable
<1>1. FsInit => Restorable
  BY RestorableInit
<1>2. /\ TypeOK /\ TypeOK' /\ ScanOK /\ Structure /\ Structure' /\ Undoable /\ Undoable'
      /\ FsAdoptions /\ FsAdoptions' /\ Restorable /\ [FsNext]_fsvars
      => Restorable'
  BY RestorableStep
<1> QED BY <1>1, <1>2, StakesCorrect, UndoableCorrect, FsAdoptionsCorrect, PTL DEF FsSpec

\* A failed adoption over the filesystem provider, which replaces the source path by path
\* and rolls back path by path, leaves the parked lease of the producer backed as it was.
THEOREM FsSourcesAreRestored == FsSpec => SourceRestored
<1>1. /\ TypeOK /\ TypeOK' /\ ScanOK /\ Structure /\ Undoable /\ FsAdoptions
      /\ Restorable /\ Restorable' /\ [FsNext]_fsvars
      => \A pr \in Proc, o \in Owner, p \in Path, src \in Lease :
           /\ UndoneAt(pr, o, p) /\ task[pr][o].replaced[p] # {} /\ task[pr][o].source = src
           /\ \A qr \in Proc : task[pr][o].started + Skew[pr] >= now_ns(qr) - TTL
           /\ Published(src) /\ entries[src].invalidation = "None" /\ ~expired(entries[src])
           => Backed(src, p)'
  <2> SUFFICES ASSUME TypeOK, TypeOK', ScanOK, Structure, Undoable, FsAdoptions,
                      Restorable, Restorable', [FsNext]_fsvars,
                      NEW pr \in Proc, NEW o \in Owner, NEW p \in Path, NEW src \in Lease,
                      UndoneAt(pr, o, p), task[pr][o].replaced[p] # {}, task[pr][o].source = src,
                      \A qr \in Proc : task[pr][o].started + Skew[pr] >= now_ns(qr) - TTL,
                      Published(src), entries[src].invalidation = "None", ~expired(entries[src])
               PROVE  Backed(src, p)'
    OBVIOUS
  <2>1. /\ task[pr][o].op \in {"acquire", "undo"} /\ task'[pr][o].op = "idle" /\ ~Crash(pr)
        /\ IsAcquiring(pr, o)
    BY DEF UndoneAt, IsAcquiring
  <2>2. Prompt(pr, o) /\ Valid(src) /\ Stamped'
    BY DEF Prompt, Valid, Restorable
  <2>3. Outside /\ task[pr][o].op = "undo"
    <3>1. CASE Outside
      BY <2>1, <3>1, OutsideScan
    <3>2. ASSUME NEW xr \in Proc, NEW x \in Owner, FsAttempt(xr, x)
          PROVE  FALSE
      <4>1. pr = xr /\ o = x
        <5>1. pr # xr \/ o # x => task'[pr][o] = task[pr][o]
          BY <3>2, AttemptOthers
        <5> QED BY <2>1, <5>1
      <4>2. task[pr][o].op = "acquire"
        BY <3>2, <4>1, AttemptSteps
      <4>3. written(pr, o) = {}
        BY <2>1, <3>2, <4>1, AttemptProgress DEF GoesOnUnwritten
      <4> QED BY <2>1, <4>2, <4>3 DEF Restorable, ReplacedTracked
    <3> QED BY <3>1, <3>2, FsSteps
  <2>4. [Next]_vars
    BY <2>3 DEF Outside
  <2>5. now' = now /\ entries' = entries /\ ~GoneNext(src, p) /\ tokens'[p].owner = o
    BY <2>2, <2>3, <2>4, UndoneIsGivenBack
  <2> QED BY <2>1, <2>2, <2>5, GivenBackIsBacked
<1>2. /\ TypeOK /\ TypeOK' /\ ScanOK /\ Structure /\ Undoable /\ FsAdoptions
      /\ Restorable /\ Restorable' /\ [FsNext]_fsvars
      => [\A pr \in Proc, o \in Owner, p \in Path, src \in Lease :
           /\ UndoneAt(pr, o, p) /\ task[pr][o].replaced[p] # {} /\ task[pr][o].source = src
           /\ \A qr \in Proc : task[pr][o].started + Skew[pr] >= now_ns(qr) - TTL
           /\ Published(src) /\ entries[src].invalidation = "None" /\ ~expired(entries[src])
           => Backed(src, p)']_vars
  BY <1>1
<1> QED BY <1>2, StakesCorrect, UndoableCorrect, FsAdoptionsCorrect, RestorableCorrect, PTL
        DEF FsSpec, SourceRestored
=============================================================================
