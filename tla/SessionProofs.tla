---------------------------- MODULE SessionProofs ----------------------------
(***************************************************************************)
(* What SessionCommit guarantees for any number of messages, archives,      *)
(* queue messages, retries and crashes.  The argument is about who may      *)
(* touch an archive: while Phase 1 writes it nobody else does, then the     *)
(* publication lease keeps it from being taken for an orphan, and once it   *)
(* has work the handlers of its messages alone end it, of which there is    *)
(* one as long as no crash left two messages.  Archives are numbered        *)
(* without gaps, so the commit never meets an archive that has work.  A     *)
(* reader beside the commits comes by every message, as messages only move  *)
(* from the root into archives and the root is read first.                  *)
(***************************************************************************)
EXTENDS SessionContext, SequenceTheorems, FiniteSetTheorems, WellFoundedInduction, TLAPS

PhaseAt == {"idle", "persist", "meta", "lease", "ready", "reset", "boundary"}
LeaseAt == {"free", "publisher", "judge", "leaked", "stale"}
WorkAt == {"none", "open", "cancelling", "cancelled", "closed"}
MsgAt == Handled \cup {"none", "pending", "ack", "left"}
Live == Handled \cup {"pending"}
Past == {"order", "probe", "judge", "run"}
MessageSeq == Seq(1 .. accepted)

ArchiveRecord ==
  [mark : {"none", "preparing", "ready"}, messages : MessageSeq,
   done : {"no", "done", "reset"}, failed : {"no", "failed", "missing"}]

CommitRecord ==
  [at : PhaseAt, n : 0 .. MaxArchives, archived : MessageSeq, retained : MessageSeq,
   wrote : SUBSET {"intent", "messages"}, reset : BOOLEAN]

Shapes ==
  /\ accepted \in 0 .. MaxMessages /\ root \in MessageSeq
  /\ count \in 0 .. MaxArchives /\ retries \in 0 .. MaxRetries /\ restarts \in 0 .. MaxRestarts
  /\ arch \in [Archive -> ArchiveRecord] /\ phase1 \in CommitRecord
  /\ pub \in [Archive -> {"no", "publish", "release"}] /\ lease \in [Archive -> LeaseAt]
  /\ work \in [Archive -> WorkAt] /\ msg \in [Archive -> [Copy -> MsgAt]]
  /\ revived \in [Archive -> {"no", "asked", "active"}] /\ twice \in SUBSET Archive

\* Archives are numbered without gaps, and commit_count does not run ahead of them.
Contiguous ==
  /\ \A i, j \in Archive : j < i /\ exists(i) => exists(j)
  /\ \A i \in Archive : i <= count => exists(i)

\* An archive is ready only with messages, and is published and worked on only when it is
\* ready.  Work that is open has a message that is not about to be deleted.
ready(n) ==
  /\ arch[n].mark = "ready" => arch[n].messages # <<>>
  /\ pub[n] # "no" \/ work[n] # "none" => arch[n].mark = "ready"
  /\ pub[n] = "publish" => work[n] = "none"
  /\ \A c \in Copy : msg[n][c] # "none" => work[n] # "none"
  /\ has_work(n) => \E c \in Copy : msg[n][c] \notin {"none", "ack"}

\* Whoever publishes an archive, or judges one, holds the lease on it.
leased(n) ==
  /\ pub[n] # "no" => lease[n] = "publisher"
  /\ \A c \in Copy : msg[n][c] \in {"probe", "judge"} => n > 1
  /\ \A c \in Copy : msg[n][c] = "judge" => lease[n - 1] = "judge"
  /\ \A c, d \in Copy : msg[n][c] = "judge" /\ msg[n][d] = "judge" => c = d

\* As long as no crash left two messages one is handled or waits, its work is open while
\* it is handled, and past the first look its archive has not ended.
sole(n) ==
  n \notin twice =>
    /\ \A c, d \in Copy : msg[n][c] \in Live /\ msg[n][d] \in Live => c = d
    /\ \A c \in Copy : msg[n][c] \in Handled => work[n] = "open"
    /\ \A c \in Copy : msg[n][c] \in Past => ~is_terminal(n)

\* A handler extracts when the predecessor has ended, or is retried.
in_turn(n) ==
  \A c \in Copy : msg[n][c] = "run" /\ n > 1 => is_terminal(n - 1) \/ revived[n - 1] # "no"

\* An archive that was declared an orphan.
orphan_idle(n) ==
  arch[n].failed = "missing" => pub[n] # "publish" /\ (has_work(n) => revived[n] = "asked")

\* The archive that the commit under way writes is nobody else's.
Writing ==
  ~unlocked /\ phase1.archived # <<>> =>
    LET a == arch[phase1.n] IN
    /\ phase1.n \in Archive /\ pub[phase1.n] = "no" /\ work[phase1.n] = "none"
    /\ a.done = "no" /\ a.failed = "no"
    /\ IF phase1.at = "persist"
       THEN /\ a.messages \in {<<>>, phase1.archived}
            /\ "messages" \in phase1.wrote => a.messages = phase1.archived
       ELSE a.messages = phase1.archived
    /\ a.mark = "ready" <=> phase1.at \in {"reset", "boundary"}
    /\ phase1.at \in {"ready", "reset", "boundary"} => lease[phase1.n] = "publisher"

\* It is the newest but for the boundary of a reset, and all before it are there.
Newest ==
  ~unlocked =>
    /\ phase1.archived = <<>> => phase1.at \in {"reset", "boundary"}
    /\ phase1.at \in {"reset", "boundary"} => phase1.reset
    /\ phase1.reset => phase1.n + 1 \in Archive
    /\ \A i \in Archive :
         /\ i < phase1.n \/ (i = phase1.n /\ phase1.at # "persist") => exists(i)
         /\ i > phase1.n =>
              IF phase1.at = "boundary" /\ i = phase1.n + 1 THEN exists(i) /\ arch[i].mark = "none"
              ELSE ~exists(i)

\* While the archive is written the root still has what will be in it and in the root.
RootSafe ==
  phase1.at = "persist" => ToSet(root) \subseteq ToSet(phase1.archived) \cup ToSet(phase1.retained)

SessionInv ==
  /\ Shapes /\ Contiguous /\ Writing /\ Newest
  /\ \A n \in Archive : ready(n) /\ leased(n) /\ sole(n) /\ in_turn(n) /\ orphan_idle(n)

LossInv == SessionInv /\ RootSafe /\ NoMessageLost

-----------------------------------------------------------------------------
(* Archives and handlers *)

LEMMA ArchiveNumbers ==
  /\ Archive \subseteq Nat /\ \A n \in Archive : n >= 1 /\ n <= MaxArchives
  /\ \A n \in Archive : n > 1 => n - 1 \in Archive
  /\ MaxArchives \in Nat
BY SessionAssumption DEF Archive

LEMMA SameTypes ==
  ASSUME UNCHANGED accepted
  PROVE  MessageSeq' = MessageSeq /\ ArchiveRecord' = ArchiveRecord /\ CommitRecord' = CommitRecord
BY DEF MessageSeq, ArchiveRecord, CommitRecord

\* An archive with a mark or messages, or that has ended, is there.
LEMMA Existing ==
  ASSUME NEW n \in Archive
  PROVE  arch[n].mark # "none" \/ arch[n].messages # <<>> \/ is_terminal(n) => exists(n)
BY DEF exists, Empty, is_terminal

\* A step of a handler of n, which may change the end of the archive k.
Handles(n, k) ==
  /\ quiet /\ Shapes'
  /\ \A i \in Archive \ {n} : msg'[i] = msg[i] /\ work'[i] = work[i] /\ revived'[i] = revived[i]
  /\ work[n] # "none" /\ work'[n] # "none" /\ (has_work(n)' => has_work(n))
  /\ has_work(n)' => \E c \in Copy : msg'[n][c] \notin {"none", "ack"}
  /\ revived[n] # "no" => revived'[n] # "no"
  /\ \A i \in Archive \ {k} : arch'[i] = arch[i]
  /\ arch'[k].mark = arch[k].mark /\ arch'[k].messages = arch[k].messages /\ exists(k) /\ exists(k)'
  /\ \/ arch'[k] = arch[k]
     \/ /\ ~unlocked /\ phase1.archived # <<>> => k # phase1.n
        /\ k # n => ~has_work(k)
        /\ is_terminal(k)' \/ revived'[k] # "no"
        /\ orphan_idle(k)'
  /\ \A i \in Archive : i # n - 1 => lease'[i] = lease[i]
  /\ \A i \in Archive : lease[i] = "publisher" => lease'[i] = "publisher"
  /\ leased(n)' /\ sole(n)' /\ in_turn(n)' /\ orphan_idle(n)'

LEMMA HandlesKeeps ==
  ASSUME SessionInv, NEW n \in Archive, NEW k \in Archive, Handles(n, k)
  PROVE  SessionInv'
<1>0. Shapes /\ \A i \in Archive : ready(i) /\ leased(i) /\ sole(i) /\ in_turn(i) /\ orphan_idle(i)
  BY DEF SessionInv
<1>1. /\ UNCHANGED <<accepted, root, count, phase1, pub, twice, retries, restarts>>
      /\ unlocked' = unlocked
  BY DEF Handles, quiet, messagevars, bounds, unlocked
<1>2. \A i \in Archive : arch'[i].mark = arch[i].mark /\ arch'[i].messages = arch[i].messages
  BY DEF Handles
<1>3. \A i \in Archive : exists(i)' <=> exists(i)
  BY DEF Handles, exists
<1>4. Contiguous'
  BY <1>1, <1>3 DEF SessionInv, Contiguous
<1>5. Writing'
  <2> SUFFICES ASSUME ~unlocked, phase1.archived # <<>>
               PROVE  Writing'
    BY <1>1 DEF Writing
  <2>1. phase1.n \in Archive /\ work[phase1.n] = "none"
    BY DEF SessionInv, Writing
  <2>2. arch'[phase1.n] = arch[phase1.n]
    BY <2>1 DEF Handles
  <2>3. work'[phase1.n] = "none"
    BY <2>1 DEF Handles
  <2> QED BY <1>1, <2>1, <2>2, <2>3 DEF SessionInv, Writing, Handles
<1>6. Newest'
  BY <1>1, <1>2, <1>3 DEF SessionInv, Newest
<1>7. ASSUME NEW i \in Archive PROVE ready(i)'
  <2>1. CASE i = n
    BY <1>0, <1>1, <1>2, <2>1 DEF ready, Handles, has_work
  <2>2. CASE i # n
    <3>1. msg'[i] = msg[i] /\ work'[i] = work[i]
      BY <2>2 DEF Handles
    <3> QED BY <1>0, <1>1, <1>2, <3>1 DEF ready, has_work
  <2> QED BY <2>1, <2>2
<1>8. ASSUME NEW i \in Archive PROVE leased(i)'
  <2>1. CASE i = n
    BY <2>1 DEF Handles
  <2>2. CASE i # n
    <3>1. msg'[i] = msg[i] /\ pub'[i] = pub[i]
      BY <1>1, <2>2 DEF Handles
    <3>2. i > 1 => lease'[i - 1] = lease[i - 1]
      BY <2>2, ArchiveNumbers DEF Handles
    <3> QED BY <1>0, <3>1, <3>2 DEF leased, Handles
  <2> QED BY <2>1, <2>2
<1>9. ASSUME NEW i \in Archive PROVE sole(i)'
  <2>1. CASE i = n
    BY <2>1 DEF Handles
  <2>2. CASE i # n
    <3>1. msg'[i] = msg[i] /\ work'[i] = work[i] /\ twice' = twice
      BY <1>1, <2>2 DEF Handles
    <3>2. work[i] = "open" => (is_terminal(i)' <=> is_terminal(i))
      BY <2>2 DEF Handles, is_terminal, has_work
    <3>3. \A c \in Copy : msg[i][c] \in Past => msg[i][c] \in Handled
      BY DEF Past, Handled
    <3> QED BY <1>0, <3>1, <3>2, <3>3 DEF sole
  <2> QED BY <2>1, <2>2
<1>10. ASSUME NEW i \in Archive PROVE in_turn(i)'
  <2>1. CASE i = n
    BY <2>1 DEF Handles
  <2>2. CASE i # n
    <3>1. msg'[i] = msg[i]
      BY <2>2 DEF Handles
    <3>3. ASSUME i > 1, is_terminal(i - 1) \/ revived[i - 1] # "no"
          PROVE  is_terminal(i - 1)' \/ revived'[i - 1] # "no"
      BY <3>3, ArchiveNumbers DEF Handles, is_terminal
    <3> QED BY <1>0, <3>1, <3>3 DEF in_turn
  <2> QED BY <2>1, <2>2
<1>11. ASSUME NEW i \in Archive PROVE orphan_idle(i)'
  BY <1>0, <1>1 DEF Handles, orphan_idle, has_work
<1> QED BY <1>4, <1>5, <1>6, <1>7, <1>8, <1>9, <1>10, <1>11 DEF SessionInv, Handles

\* An archive with work is there, and so is the one before it.
LEMMA WorkedOn ==
  ASSUME SessionInv, NEW n \in Archive, work[n] # "none"
  PROVE  exists(n) /\ arch[n].mark = "ready" /\ (n > 1 => n - 1 \in Archive /\ exists(n - 1))
<1>1. exists(n) /\ arch[n].mark = "ready"
  BY Existing DEF SessionInv, ready
<1>2. n > 1 => n - 1 \in Archive /\ n - 1 < n
  BY ArchiveNumbers
<1> QED BY <1>1, <1>2 DEF SessionInv, Contiguous

LEMMA GoTypes ==
  ASSUME Shapes, NEW n \in Archive, NEW c \in Copy, NEW at \in MsgAt, go(n, c, at)
  PROVE  /\ msg' \in [Archive -> [Copy -> MsgAt]] /\ msg'[n][c] = at
         /\ \A d \in Copy \ {c} : msg'[n][d] = msg[n][d]
         /\ \A i \in Archive \ {n} : msg'[i] = msg[i]
BY DEF go, Shapes

\* A message of n moves on, which may change the work and the end of the archive k.
Moves(n, c, at, k) ==
  /\ quiet /\ go(n, c, at)
  /\ msg[n][c] \in Live \/ (msg[n][c] = "ack" /\ at \in {"none", "left"} /\ UNCHANGED <<arch, work>>)
  /\ work' \in [Archive -> WorkAt] /\ (\A i \in Archive \ {n} : work'[i] = work[i])
  /\ work'[n] # "none" /\ (has_work(n)' => work'[n] = work[n])
  /\ has_work(n)' => at \notin {"none", "ack"} \/ msg[n][c] = "ack"
  /\ n \notin twice => (at \in Handled => work'[n] = "open") /\ (at \in Past => ~is_terminal(n)')
  /\ revived' \in [Archive -> {"no", "asked", "active"}]
  /\ (\A i \in Archive \ {n} : revived'[i] = revived[i]) /\ (revived[n] # "no" => revived'[n] # "no")
  /\ arch' \in [Archive -> ArchiveRecord] /\ (\A i \in Archive \ {k} : arch'[i] = arch[i])
  /\ arch'[k].mark = arch[k].mark /\ arch'[k].messages = arch[k].messages /\ exists(k) /\ exists(k)'
  /\ \/ arch'[k] = arch[k]
     \/ /\ ~unlocked /\ phase1.archived # <<>> => k # phase1.n
        /\ k # n => ~has_work(k)
        /\ is_terminal(k)' \/ revived'[k] # "no"
        /\ orphan_idle(k)'
  /\ lease' \in [Archive -> LeaseAt]
  /\ \A i \in Archive : i # n - 1 => lease'[i] = lease[i]
  /\ \A i \in Archive : lease[i] = "publisher" => lease'[i] = "publisher"
  /\ n > 1 => \/ lease'[n - 1] = lease[n - 1] /\ at # "judge"
              \/ lease[n - 1] = "free" /\ lease'[n - 1] = "judge" /\ at = "judge"
              \/ msg[n][c] = "judge" /\ at # "judge"
  /\ at \in {"probe", "judge"} => n > 1
  /\ at = "run" /\ n > 1 => is_terminal(n - 1)' \/ revived'[n - 1] # "no"
  /\ orphan_idle(n)'

LEMMA MovesKeeps ==
  ASSUME SessionInv, NEW n \in Archive, NEW c \in Copy, NEW at \in MsgAt, NEW k \in Archive,
         Moves(n, c, at, k)
  PROVE  SessionInv'
<1>0. Shapes /\ ready(n) /\ leased(n) /\ sole(n) /\ in_turn(n) /\ orphan_idle(n)
  BY DEF SessionInv
<1>1. /\ msg' \in [Archive -> [Copy -> MsgAt]] /\ msg'[n][c] = at
      /\ \A d \in Copy \ {c} : msg'[n][d] = msg[n][d]
      /\ \A i \in Archive \ {n} : msg'[i] = msg[i]
  BY <1>0, GoTypes DEF Moves
<1>2. pub' = pub /\ twice' = twice /\ quiet
  BY DEF Moves, quiet
<1>3. Shapes'
  BY <1>0, <1>1, SameTypes DEF Moves, Shapes, quiet, messagevars, bounds
<1>4. msg[n][c] # "none" /\ work[n] # "none"
  BY <1>0 DEF Moves, ready, Live, Handled
<1>5. has_work(n)' => has_work(n) /\ \E d \in Copy : msg'[n][d] \notin {"none", "ack"}
  <2> SUFFICES ASSUME has_work(n)' PROVE has_work(n) /\ \E d \in Copy : msg'[n][d] \notin {"none", "ack"}
    OBVIOUS
  <2>1. has_work(n)
    BY DEF Moves, has_work
  <2>2. CASE at \notin {"none", "ack"}
    BY <1>1, <2>1, <2>2
  <2>3. CASE msg[n][c] = "ack"
    <3>1. PICK d \in Copy : msg[n][d] \notin {"none", "ack"}
      BY <1>0, <2>1 DEF ready
    <3>2. msg'[n][d] = msg[n][d]
      BY <1>1, <2>3, <3>1
    <3> QED BY <2>1, <3>1, <3>2
  <2> QED BY <2>2, <2>3 DEF Moves
<1>6. leased(n)'
  <2>1. pub'[n] # "no" => lease'[n] = "publisher"
    BY <1>0, <1>2 DEF leased, Moves
  <2>2. \A d \in Copy : msg'[n][d] \in {"probe", "judge"} => n > 1
    BY <1>0, <1>1 DEF leased, Moves
  <2>3. ASSUME NEW d \in Copy, msg'[n][d] = "judge" PROVE lease'[n - 1] = "judge"
    BY <1>0, <1>1, <2>2, <2>3 DEF leased, Moves
  <2>4. ASSUME NEW d \in Copy, NEW e \in Copy, msg'[n][d] = "judge", msg'[n][e] = "judge" PROVE d = e
    BY <1>0, <1>1, <2>2, <2>4 DEF leased, Moves
  <2> QED BY <2>1, <2>2, <2>3, <2>4 DEF leased
<1>7. sole(n)'
  <2> SUFFICES ASSUME n \notin twice
               PROVE  /\ \A d, e \in Copy : msg'[n][d] \in Live /\ msg'[n][e] \in Live => d = e
                      /\ \A d \in Copy : msg'[n][d] \in Handled => work'[n] = "open"
                      /\ \A d \in Copy : msg'[n][d] \in Past => ~is_terminal(n)'
    BY <1>2 DEF sole
  <2>0. Handled \subseteq Live /\ Past \subseteq Live
    BY DEF Live, Past, Handled
  <2>1. CASE msg[n][c] \in Live
    <3>1. \A d \in Copy \ {c} : msg'[n][d] \notin Live
      BY <1>0, <1>1, <2>1 DEF sole
    <3> QED BY <1>1, <2>0, <3>1 DEF Moves
  <2>2. CASE msg[n][c] = "ack" /\ at \in {"none", "left"} /\ UNCHANGED <<arch, work>>
    <3>1. at \notin Live
      BY <2>2 DEF Live, Handled
    <3> QED BY <1>0, <1>1, <2>0, <2>2, <3>1 DEF sole, is_terminal
  <2> QED BY <2>1, <2>2 DEF Moves
<1>8. in_turn(n)'
  <2>1. ASSUME n > 1, is_terminal(n - 1) \/ revived[n - 1] # "no"
        PROVE  is_terminal(n - 1)' \/ revived'[n - 1] # "no"
    BY <2>1, ArchiveNumbers DEF Moves, is_terminal
  <2> QED BY <1>0, <1>1, <2>1 DEF in_turn, Moves
<1>9. Handles(n, k)
  BY <1>1, <1>2, <1>3, <1>4, <1>5, <1>6, <1>7, <1>8 DEF Handles, Moves
<1> QED BY <1>9, HandlesKeeps

\* A message of n moves on and nothing else changes.
LEMMA PassesKeeps ==
  ASSUME SessionInv, NEW n \in Archive, NEW c \in Copy, NEW at \in MsgAt \ {"none", "ack", "judge"},
         go(n, c, at), msg[n][c] \in Live, UNCHANGED <<arch, lease, work, revived>>, quiet,
         n \notin twice => (at \in Handled => work[n] = "open") /\ (at \in Past => ~is_terminal(n)),
         at = "probe" => n > 1,
         at = "run" /\ n > 1 => is_terminal(n - 1) \/ revived[n - 1] # "no"
  PROVE  SessionInv'
<1>0. Shapes /\ ready(n) /\ orphan_idle(n)
  BY DEF SessionInv
<1>1. work[n] # "none"
  BY <1>0 DEF ready, Live, Handled
<1>2. exists(n) /\ exists(n)'
  BY <1>1, WorkedOn DEF exists
<1>3. orphan_idle(n)'
  BY <1>0 DEF orphan_idle, quiet, has_work
<1>4. Moves(n, c, at, n)
  <2>1. n \notin twice => (at \in Handled => work'[n] = "open") /\ (at \in Past => ~is_terminal(n)')
    BY DEF is_terminal
  <2>2. at = "run" /\ n > 1 => is_terminal(n - 1)' \/ revived'[n - 1] # "no"
    BY DEF is_terminal
  <2> QED BY <1>0, <1>1, <1>2, <1>3, <2>1, <2>2 DEF Moves, has_work, Shapes
<1> QED BY <1>4, MovesKeeps

\* Of a message that is handled while it is the only one.
LEMMA HandledAlone ==
  ASSUME SessionInv, NEW n \in Archive, NEW c \in Copy, msg[n][c] \in Handled
  PROVE  /\ msg[n][c] \in Live /\ work[n] # "none"
         /\ n \notin twice => work[n] = "open" /\ (msg[n][c] \in Past => ~is_terminal(n))
BY DEF SessionInv, ready, sole, Live, Handled

LEMMA CloseTypes ==
  ASSUME Shapes, NEW n \in Archive, close(n)
  PROVE  /\ work' \in [Archive -> WorkAt] /\ (\A i \in Archive \ {n} : work'[i] = work[i])
         /\ ~has_work(n)' /\ (work[n] # "none" => work'[n] # "none")
<1>1. work[n] \in WorkAt
  BY DEF Shapes
<1>2. PICK w \in WorkAt : /\ w = IF work[n] = "cancelling" THEN "cancelled"
                                ELSE IF work[n] = "open" THEN "closed" ELSE work[n]
                          /\ w \notin {"open", "cancelling"} /\ (work[n] # "none" => w # "none")
  BY <1>1 DEF WorkAt
<1>3. work' = [work EXCEPT ![n] = w]
  BY <1>2 DEF close
<1>4. work'[n] = w
  BY <1>3 DEF Shapes
<1> QED BY <1>2, <1>3, <1>4 DEF Shapes, has_work

\* The probe of a handler that is interrupted is given up.
LEMMA DropTypes ==
  ASSUME SessionInv, NEW n \in Archive, NEW j \in BOOLEAN, j => n > 1 /\ lease[n - 1] = "judge",
         lease' = dropped_probe(n, j)
  PROVE  /\ lease' \in [Archive -> LeaseAt]
         /\ \A i \in Archive : i # n - 1 => lease'[i] = lease[i]
         /\ \A i \in Archive : lease[i] = "publisher" => lease'[i] = "publisher"
         /\ ~j => lease' = lease
<1>1. lease \in [Archive -> LeaseAt]
  BY DEF SessionInv, Shapes
<1>2. \A i \in Archive : lease'[i] = IF j /\ i = n - 1 THEN "free" ELSE lease[i]
  BY DEF dropped_probe
<1>3. lease' \in [Archive -> LeaseAt]
  BY <1>1 DEF dropped_probe, LeaseAt
<1>4. ~j => lease' = lease
  BY <1>1, <1>2, <1>3
<1> QED BY <1>2, <1>3, <1>4

LEMMA FailTypes ==
  ASSUME Shapes, NEW n \in Archive, NEW stage \in {"failed", "missing"}, fail_archive(n, stage)
  PROVE  /\ arch' \in [Archive -> ArchiveRecord] /\ \A i \in Archive \ {n} : arch'[i] = arch[i]
         /\ arch'[n].mark = arch[n].mark /\ arch'[n].messages = arch[n].messages
         /\ arch'[n].done = arch[n].done /\ arch'[n].failed = stage
         /\ is_terminal(n)' /\ exists(n)'
<1>1. arch' = [arch EXCEPT ![n].failed = stage]
  BY DEF fail_archive
<1>2. /\ arch' \in [Archive -> ArchiveRecord] /\ \A i \in Archive \ {n} : arch'[i] = arch[i]
      /\ arch'[n].mark = arch[n].mark /\ arch'[n].messages = arch[n].messages
      /\ arch'[n].done = arch[n].done /\ arch'[n].failed = stage
  BY <1>1 DEF Shapes, ArchiveRecord
<1> QED BY <1>2 DEF is_terminal, exists, Empty

\* The handler of a message ends: the work is closed or stays as it is.
Ends(n, c) ==
  /\ quiet /\ UNCHANGED revived /\ msg[n][c] \in Live
  /\ (close(n) /\ go(n, c, "ack")) \/ (arch' = arch /\ work' = work /\ go(n, c, "left"))
  /\ arch' = arch \/ fail_archive(n, "failed")
  /\ lease' = [i \in Archive |-> IF msg[n][c] = "judge" /\ i = n - 1 THEN "free" ELSE lease[i]]

LEMMA EndsKeeps ==
  ASSUME SessionInv, NEW n \in Archive, NEW c \in Copy, Ends(n, c)
  PROVE  SessionInv'
<1>0. Shapes /\ ready(n) /\ leased(n) /\ orphan_idle(n)
  BY DEF SessionInv
<1>1. work[n] # "none" /\ exists(n)
  <2>1. work[n] # "none"
    BY <1>0 DEF Ends, ready, Live, Handled
  <2> QED BY <2>1, WorkedOn
<1>2. /\ arch' \in [Archive -> ArchiveRecord] /\ \A i \in Archive \ {n} : arch'[i] = arch[i]
      /\ arch'[n].mark = arch[n].mark /\ arch'[n].messages = arch[n].messages
      /\ arch'[n] = arch[n] \/ (is_terminal(n)' /\ arch'[n].failed = "failed")
      /\ exists(n)'
  <2>1. CASE arch' = arch
    BY <1>0, <1>1, <2>1 DEF Shapes, exists
  <2>2. CASE fail_archive(n, "failed")
    BY <1>0, <2>2, FailTypes
  <2> QED BY <2>1, <2>2 DEF Ends
<1>3. PICK j \in BOOLEAN : j <=> msg[n][c] = "judge"
  OBVIOUS
<1>4. lease' = dropped_probe(n, j)
  BY <1>3 DEF Ends, dropped_probe
<1>5. j => n > 1 /\ lease[n - 1] = "judge"
  BY <1>0, <1>3 DEF leased
<1>6. /\ lease' \in [Archive -> LeaseAt]
      /\ \A i \in Archive : i # n - 1 => lease'[i] = lease[i]
      /\ \A i \in Archive : lease[i] = "publisher" => lease'[i] = "publisher"
      /\ ~j => lease' = lease
  BY <1>4, <1>5, DropTypes
<1>7. ~unlocked /\ phase1.archived # <<>> => n # phase1.n
  BY <1>1 DEF SessionInv, Writing
<1>8. pub' = pub /\ quiet /\ revived' = revived /\ msg[n][c] \in Live
  BY DEF Ends, quiet
<1>9. PICK at \in {"ack", "left"} :
        /\ go(n, c, at) /\ work' \in [Archive -> WorkAt] /\ \A i \in Archive \ {n} : work'[i] = work[i]
        /\ work'[n] # "none" /\ (has_work(n)' => work'[n] = work[n] /\ at = "left")
  <2>1. CASE close(n) /\ go(n, c, "ack")
    BY <1>0, <1>1, <2>1, CloseTypes
  <2>2. CASE arch' = arch /\ work' = work /\ go(n, c, "left")
    BY <1>0, <1>1, <2>2 DEF Shapes
  <2> QED BY <2>1, <2>2 DEF Ends
<1>10. orphan_idle(n)'
  BY <1>0, <1>2, <1>8, <1>9 DEF orphan_idle, has_work
<1>11. at \in MsgAt /\ at \notin Handled /\ at \notin Past
  BY DEF MsgAt, Handled, Past
<1>12. Moves(n, c, at, n)
  <2>1. \/ lease'[n - 1] = lease[n - 1] /\ at # "judge"
        \/ msg[n][c] = "judge" /\ at # "judge"
    BY <1>3, <1>6
  <2>2. revived' \in [Archive -> {"no", "asked", "active"}]
    BY <1>0, <1>8 DEF Shapes
  <2> QED BY <1>1, <1>2, <1>6, <1>7, <1>8, <1>9, <1>10, <1>11, <2>1, <2>2 DEF Moves
<1> QED BY <1>11, <1>12, MovesKeeps

\* Without a probe the leases stay as they are.
LEMMA NoProbe ==
  ASSUME Shapes, UNCHANGED lease, NEW n, NEW c, msg[n][c] # "judge"
  PROVE  lease' = [i \in Archive |-> IF msg[n][c] = "judge" /\ i = n - 1 THEN "free" ELSE lease[i]]
BY DEF Shapes

LEMMA EndKeeps ==
  ASSUME SessionInv, NEW n \in Archive, NEW c \in Copy,
         DeliverLate(n, c) \/ Settle(n, c) \/ HandlerRaises(n, c) \/ HandlerLeaves(n, c)
  PROVE  SessionInv'
<1>0. Shapes
  BY DEF SessionInv
<1>1. CASE DeliverLate(n, c)
  <2>1. msg[n][c] = "pending" /\ UNCHANGED lease
    BY <1>1 DEF DeliverLate
  <2>2. lease' = [i \in Archive |-> IF msg[n][c] = "judge" /\ i = n - 1 THEN "free" ELSE lease[i]]
    BY <1>0, <2>1, NoProbe
  <2>3. Ends(n, c)
    BY <1>1, <2>1, <2>2 DEF DeliverLate, Ends, Live
  <2> QED BY <2>3, EndsKeeps
<1>2. CASE Settle(n, c)
  <2>1. msg[n][c] = "settle" /\ UNCHANGED lease
    BY <1>2 DEF Settle
  <2>2. lease' = [i \in Archive |-> IF msg[n][c] = "judge" /\ i = n - 1 THEN "free" ELSE lease[i]]
    BY <1>0, <2>1, NoProbe
  <2>3. Ends(n, c)
    BY <1>2, <2>1, <2>2 DEF Settle, Ends, Live, Handled
  <2> QED BY <2>3, EndsKeeps
<1>3. CASE HandlerRaises(n, c)
  <2>1. Ends(n, c)
    BY <1>3 DEF HandlerRaises, Ends, Live, dropped_probe
  <2> QED BY <2>1, EndsKeeps
<1>4. CASE HandlerLeaves(n, c)
  <2>1. Ends(n, c)
    BY <1>4 DEF HandlerLeaves, Ends, Live, dropped_probe
  <2> QED BY <2>1, EndsKeeps
<1> QED BY <1>1, <1>2, <1>3, <1>4

LEMMA DeliverKeeps ==
  ASSUME SessionInv, NEW n \in Archive, NEW c \in Copy, Deliver(n, c)
  PROVE  SessionInv'
<1>1. /\ go(n, c, "look") /\ work[n] = "open" /\ UNCHANGED <<arch, lease, work, revived>> /\ quiet
      /\ msg[n][c] \in Live
  BY DEF Deliver, Live
<1>2. "look" \in MsgAt \ {"none", "ack", "judge"} /\ "look" \notin Past
  BY DEF MsgAt, Handled, Past
<1> QED BY <1>1, <1>2, PassesKeeps

LEMMA AckKeeps ==
  ASSUME SessionInv, NEW n \in Archive, NEW c \in Copy, NEW ok \in BOOLEAN, Ack(n, c, ok)
  PROVE  SessionInv'
<1>0. Shapes /\ ready(n) /\ orphan_idle(n)
  BY DEF SessionInv
<1>1. PICK at \in {"none", "left"} : go(n, c, at)
  BY DEF Ack
<1>2. msg[n][c] = "ack" /\ UNCHANGED <<arch, lease, work, revived>> /\ quiet /\ pub' = pub
  BY DEF Ack, quiet
<1>3. at \in MsgAt /\ at \notin Handled /\ at \notin Past
  BY DEF MsgAt, Handled, Past
<1>4. work[n] # "none"
  BY <1>0, <1>2 DEF ready
<1>5. exists(n) /\ exists(n)' /\ orphan_idle(n)'
  BY <1>0, <1>2, <1>4, WorkedOn DEF exists, orphan_idle, has_work
<1>6. Moves(n, c, at, n)
  BY <1>0, <1>1, <1>2, <1>3, <1>4, <1>5 DEF Moves, has_work, Shapes
<1> QED BY <1>3, <1>6, MovesKeeps

LEMMA ActivateKeeps ==
  ASSUME SessionInv, NEW n \in Archive, NEW c \in Copy, ActivateRecovery(n, c)
  PROVE  SessionInv'
<1>0. Shapes /\ ready(n) /\ leased(n) /\ sole(n) /\ in_turn(n) /\ orphan_idle(n)
  BY DEF SessionInv
<1>1. /\ arch' \in [Archive -> ArchiveRecord] /\ \A i \in Archive \ {n} : arch'[i] = arch[i]
      /\ arch'[n].mark = arch[n].mark /\ arch'[n].messages = arch[n].messages
      /\ arch'[n].failed = "no" /\ arch'[n].done = arch[n].done
  <2>1. arch' = [arch EXCEPT ![n].failed = "no"]
    BY DEF ActivateRecovery
  <2> QED BY <1>0, <2>1 DEF Shapes, ArchiveRecord
<1>2. /\ revived' \in [Archive -> {"no", "asked", "active"}] /\ revived'[n] = "active"
      /\ \A i \in Archive \ {n} : revived'[i] = revived[i]
  BY <1>0 DEF ActivateRecovery, Shapes
<1>3. UNCHANGED <<lease, work, msg>> /\ msg[n][c] = "look" /\ quiet /\ unlocked /\ pub' = pub /\ twice' = twice
  BY DEF ActivateRecovery, tree_lockable, quiet
<1>4. Shapes'
  BY <1>0, <1>1, <1>2, <1>3, SameTypes DEF Shapes, quiet, messagevars, bounds
<1>5. leased(n)' /\ orphan_idle(n)' /\ sole(n)'
  BY <1>0, <1>1, <1>3 DEF leased, orphan_idle, sole, is_terminal
<1>6. in_turn(n)'
  BY <1>0, <1>1, <1>2, <1>3, ArchiveNumbers DEF in_turn, is_terminal
<1>7. work[n] # "none" /\ exists(n) /\ exists(n)'
  <2>1. work[n] # "none"
    BY <1>0, <1>3 DEF ready
  <2> QED BY <1>0, <1>1, <2>1, WorkedOn DEF exists, Empty
<1>8. has_work(n) => \E d \in Copy : msg[n][d] \notin {"none", "ack"}
  BY <1>0 DEF ready
<1>9. Handles(n, n)
  BY <1>1, <1>2, <1>3, <1>4, <1>5, <1>6, <1>7, <1>8 DEF Handles, has_work
<1> QED BY <1>9, HandlesKeeps

LEMMA LookKeeps ==
  ASSUME SessionInv, NEW n \in Archive, NEW c \in Copy, Resume(n, c) \/ CanRunArchive(n, c)
  PROVE  SessionInv'
<1>0. /\ msg[n][c] \in Handled /\ quiet /\ UNCHANGED <<arch, lease, work, revived>>
      /\ CanRunArchive(n, c) => msg[n][c] \in Past
  BY DEF Resume, CanRunArchive, Handled, Past
<1>1. /\ msg[n][c] \in Live /\ work[n] # "none"
      /\ n \notin twice => work[n] = "open" /\ (msg[n][c] \in Past => ~is_terminal(n))
  BY <1>0, HandledAlone
<1>t. /\ {"order", "run", "probe", "settle", "requeue"} \subseteq MsgAt \ {"none", "ack", "judge"}
      /\ "settle" \notin Past /\ "requeue" \notin Past
  BY DEF MsgAt, Handled, Past
<1>2. CASE Resume(n, c)
  <2>1. CASE is_terminal(n)
    <3>1. go(n, c, "settle")
      BY <1>2, <2>1 DEF Resume
    <3> QED BY <1>0, <1>1, <1>t, <3>1, PassesKeeps
  <2>2. CASE ~is_terminal(n)
    <3>1. go(n, c, "order")
      BY <1>2, <2>2 DEF Resume
    <3> QED BY <1>0, <1>1, <1>t, <2>2, <3>1, PassesKeeps
  <2> QED BY <2>1, <2>2
<1>3. CASE CanRunArchive(n, c)
  <2>1. n \notin twice => ~is_terminal(n)
    BY <1>0, <1>1, <1>3
  <2>2. CASE go(n, c, "run") /\ predecessor_over(n)
    <3>1. n > 1 => exists(n - 1)
      BY <1>1, WorkedOn
    <3>2. n > 1 => is_terminal(n - 1)
      BY <2>2, <3>1 DEF predecessor_over
    <3> QED BY <1>0, <1>1, <1>t, <2>1, <2>2, <3>2, PassesKeeps
  <2>3. CASE go(n, c, "requeue")
    BY <1>0, <1>1, <1>t, <2>3, PassesKeeps
  <2>4. CASE go(n, c, "probe") /\ ~predecessor_over(n)
    <3>1. n > 1
      BY <2>4 DEF predecessor_over
    <3> QED BY <1>0, <1>1, <1>t, <2>1, <2>4, <3>1, PassesKeeps
  <2> QED BY <1>3, <2>2, <2>3, <2>4 DEF CanRunArchive
<1> QED BY <1>2, <1>3

\* The predecessor of n has failed, and n extracts.
LEMMA FailsBefore ==
  ASSUME SessionInv, NEW n \in Archive, n > 1, NEW c \in Copy, NEW stage \in {"failed", "missing"},
         fail_archive(n - 1, stage), go(n, c, "run"), UNCHANGED <<work, revived>>, quiet,
         msg[n][c] \in {"order", "judge"}, ~has_work(n - 1),
         ~unlocked /\ phase1.archived # <<>> => n - 1 # phase1.n,
         \A i \in Archive : i # n - 1 => lease'[i] = lease[i],
         \A i \in Archive : lease[i] = "publisher" => lease'[i] = "publisher",
         lease' = lease \/ msg[n][c] = "judge",
         lease' \in [Archive -> LeaseAt],
         stage = "missing" => pub[n - 1] = "no"
  PROVE  SessionInv'
<1>0. Shapes /\ ready(n) /\ orphan_idle(n) /\ n - 1 \in Archive /\ n - 1 # n
  BY ArchiveNumbers DEF SessionInv
<1> DEFINE k == n - 1
<1> HIDE DEF k
<1>k. k = n - 1 /\ k \in Archive /\ k # n
  BY <1>0 DEF k
<1>1. /\ msg[n][c] \in Live /\ work[n] # "none" /\ pub' = pub
      /\ n \notin twice => work[n] = "open" /\ ~is_terminal(n)
  <2>1. msg[n][c] \in Handled /\ msg[n][c] \in Past
    BY DEF Handled, Past
  <2> QED BY <2>1, HandledAlone DEF quiet
<1>2. /\ arch' \in [Archive -> ArchiveRecord] /\ \A i \in Archive \ {k} : arch'[i] = arch[i]
      /\ arch'[k].mark = arch[k].mark /\ arch'[k].messages = arch[k].messages
      /\ arch'[k].failed = stage /\ is_terminal(k)' /\ exists(k)'
  BY <1>0, <1>k, FailTypes
<1>3. orphan_idle(k)' /\ orphan_idle(n)'
  BY <1>0, <1>k, <1>1, <1>2 DEF orphan_idle, has_work, quiet
<1>4. exists(k)
  BY <1>k, <1>1, WorkedOn
<1>5. n \notin twice => ~is_terminal(n)'
  BY <1>k, <1>1, <1>2 DEF is_terminal
<1>6. "run" \in MsgAt /\ "run" \in Handled
  BY DEF MsgAt, Handled
<1>7. Moves(n, c, "run", k)
  BY <1>0, <1>k, <1>1, <1>2, <1>3, <1>4, <1>5, <1>6 DEF Moves, has_work, Shapes
<1> QED BY <1>k, <1>6, <1>7, MovesKeeps

LEMMA FailUnreadyKeeps ==
  ASSUME SessionInv, NEW n \in Archive, NEW c \in Copy, FailUnready(n, c)
  PROVE  SessionInv'
<1>1. n > 1 /\ n - 1 \in Archive
  BY ArchiveNumbers DEF FailUnready, predecessor_over
<1>2. ~has_work(n - 1)
  BY <1>1 DEF SessionInv, ready, FailUnready, has_work
<1>3. lease' \in [Archive -> LeaseAt] /\ UNCHANGED lease
  BY DEF FailUnready, SessionInv, Shapes
<1> QED BY <1>1, <1>2, <1>3, FailsBefore DEF FailUnready

LEMMA ProbeKeeps ==
  ASSUME SessionInv, NEW n \in Archive, NEW c \in Copy, Probe(n, c)
  PROVE  SessionInv'
<1>0. Shapes /\ ready(n) /\ leased(n) /\ orphan_idle(n)
  BY DEF SessionInv
<1>1. /\ quiet /\ UNCHANGED <<arch, work, revived>> /\ n > 1 /\ n - 1 \in Archive
      /\ msg[n][c] \in Handled /\ msg[n][c] \in Past /\ pub' = pub
  BY <1>0, ArchiveNumbers DEF Probe, leased, Handled, Past, quiet
<1>2. /\ msg[n][c] \in Live /\ work[n] # "none"
      /\ n \notin twice => work[n] = "open" /\ ~is_terminal(n)
  BY <1>1, HandledAlone
<1>t. {"requeue", "judge"} \subseteq MsgAt /\ "requeue" \notin Past /\ "judge" \in Past
  BY DEF MsgAt, Handled, Past
<1>3. CASE lease[n - 1] # "free"
  <2>1. go(n, c, "requeue") /\ UNCHANGED lease
    BY <1>3 DEF Probe
  <2> QED BY <1>1, <1>2, <1>t, <2>1, PassesKeeps
<1>4. CASE lease[n - 1] = "free"
  <2>1. go(n, c, "judge") /\ lease' = [lease EXCEPT ![n - 1] = "judge"]
    BY <1>4 DEF Probe
  <2>2. /\ lease' \in [Archive -> LeaseAt] /\ lease'[n - 1] = "judge"
        /\ \A i \in Archive : i # n - 1 => lease'[i] = lease[i]
    BY <1>0, <1>1, <2>1 DEF Shapes, LeaseAt
  <2>3. \A i \in Archive : lease[i] = "publisher" => lease'[i] = "publisher"
    BY <1>4, <2>2
  <2>4. exists(n) /\ exists(n)' /\ orphan_idle(n)'
    BY <1>0, <1>1, <1>2, WorkedOn DEF exists, orphan_idle, has_work
  <2>5. n \notin twice => work'[n] = "open" /\ ~is_terminal(n)'
    BY <1>1, <1>2 DEF is_terminal
  <2>6. Moves(n, c, "judge", n)
    BY <1>0, <1>1, <1>2, <1>4, <2>1, <2>2, <2>3, <2>4, <2>5 DEF Moves, has_work, Shapes
  <2> QED BY <1>t, <2>6, MovesKeeps
<1> QED BY <1>3, <1>4

LEMMA JudgeKeeps ==
  ASSUME SessionInv, NEW n \in Archive, NEW c \in Copy, Judge(n, c)
  PROVE  SessionInv'
<1>0. Shapes /\ ready(n) /\ leased(n) /\ orphan_idle(n)
  BY DEF SessionInv
<1>1. /\ quiet /\ UNCHANGED <<work, revived>> /\ n > 1 /\ n - 1 \in Archive
      /\ msg[n][c] \in Handled /\ msg[n][c] \in Past /\ pub' = pub /\ msg[n][c] = "judge"
  BY <1>0, ArchiveNumbers DEF Judge, leased, Handled, Past, quiet
<1>a. /\ msg[n][c] \in Live /\ work[n] # "none"
      /\ n \notin twice => work[n] = "open" /\ ~is_terminal(n)
  BY <1>1, HandledAlone
<1>2. /\ lease' \in [Archive -> LeaseAt]
      /\ \A i \in Archive : i # n - 1 => lease'[i] = lease[i]
      /\ lease[n - 1] = "judge"
  BY <1>0, <1>1 DEF Judge, Shapes, leased, LeaseAt
<1>3. \A i \in Archive : lease[i] = "publisher" => lease'[i] = "publisher"
  BY <1>2
<1>4. CASE has_work(n - 1)
  <2>1. go(n, c, "requeue") /\ UNCHANGED arch
    BY <1>4 DEF Judge
  <2>2. "requeue" \in MsgAt /\ "requeue" \notin Past
    BY DEF MsgAt, Handled, Past
  <2>3. exists(n) /\ exists(n)' /\ orphan_idle(n)'
    BY <1>0, <1>1, <1>a, <2>1, WorkedOn DEF exists, orphan_idle, has_work
  <2>4. Moves(n, c, "requeue", n)
    BY <1>0, <1>1, <1>a, <1>2, <1>3, <2>1, <2>2, <2>3 DEF Moves, has_work, Shapes
  <2> QED BY <2>2, <2>4, MovesKeeps
<1>5. CASE ~has_work(n - 1)
  <2>1. fail_archive(n - 1, "missing") /\ go(n, c, "run")
    BY <1>5 DEF Judge
  <2>2. pub[n - 1] = "no"
    BY <1>1, <1>2 DEF SessionInv, leased
  <2>3. exists(n) /\ arch[n].mark = "ready"
    BY <1>a, WorkedOn
  <2>4. ~unlocked /\ phase1.archived # <<>> => n - 1 # phase1.n
    <3> SUFFICES ASSUME ~unlocked, n - 1 = phase1.n PROVE FALSE
      OBVIOUS
    <3>1. n > phase1.n /\ n = phase1.n + 1
      BY <1>1, ArchiveNumbers
    <3>2. arch[n].mark = "none"
      BY <2>3, <3>1 DEF SessionInv, Newest
    <3> QED BY <2>3, <3>2
  <2> QED BY <1>1, <1>2, <1>3, <1>5, <2>1, <2>2, <2>4, FailsBefore
<1> QED BY <1>4, <1>5

LEMMA ExtractKeeps ==
  ASSUME SessionInv, NEW n \in Archive, NEW c \in Copy, NEW ok \in BOOLEAN, Extract(n, c, ok)
  PROVE  SessionInv'
<1>0. Shapes /\ ready(n) /\ orphan_idle(n)
  BY DEF SessionInv
<1>1. quiet /\ UNCHANGED <<lease, work, revived>> /\ msg[n][c] \in Handled /\ pub' = pub /\ go(n, c, "settle")
  BY DEF Extract, Handled, quiet
<1>2. msg[n][c] \in Live /\ work[n] # "none" /\ (n \notin twice => work[n] = "open")
  BY <1>1, HandledAlone
<1>3. /\ arch' \in [Archive -> ArchiveRecord] /\ \A i \in Archive \ {n} : arch'[i] = arch[i]
      /\ arch'[n].mark = arch[n].mark /\ arch'[n].messages = arch[n].messages
      /\ arch'[n].done = "done" \/ arch'[n].failed = "failed"
      /\ arch'[n].failed \in {arch[n].failed, "failed"}
  <2>1. CASE ok
    <3>1. arch' = [arch EXCEPT ![n].done = "done"]
      BY <2>1 DEF Extract
    <3> QED BY <1>0, <3>1 DEF Shapes, ArchiveRecord
  <2>2. CASE ~ok
    <3>1. fail_archive(n, "failed")
      BY <2>2 DEF Extract
    <3> QED BY <1>0, <3>1, FailTypes
  <2> QED BY <2>1, <2>2
<1>4. is_terminal(n)' /\ exists(n) /\ exists(n)'
  BY <1>2, <1>3, WorkedOn DEF is_terminal, exists, Empty
<1>5. orphan_idle(n)'
  BY <1>0, <1>1, <1>3 DEF orphan_idle, has_work
<1>6. ~unlocked /\ phase1.archived # <<>> => n # phase1.n
  BY <1>2 DEF SessionInv, Writing
<1>7. "settle" \in MsgAt /\ "settle" \notin Past
  BY DEF MsgAt, Handled, Past
<1>8. Moves(n, c, "settle", n)
  BY <1>0, <1>1, <1>2, <1>3, <1>4, <1>5, <1>6, <1>7 DEF Moves, has_work, Shapes
<1> QED BY <1>7, <1>8, MovesKeeps

LEMMA RequeueKeeps ==
  ASSUME SessionInv, NEW n \in Archive, NEW c \in Copy, Requeue(n, c)
  PROVE  SessionInv'
<1>0. Shapes /\ ready(n) /\ leased(n) /\ sole(n) /\ in_turn(n) /\ orphan_idle(n)
  BY DEF SessionInv
<1>1. /\ msg[n][c] = "requeue" /\ work[n] = "open" /\ quiet /\ UNCHANGED <<arch, lease, work, revived>>
      /\ pub' = pub /\ twice' = twice
  BY DEF Requeue, quiet
<1>2. CASE go(n, c, "pending")
  <2>1. "pending" \in MsgAt \ {"none", "ack", "judge"} /\ "pending" \notin Handled /\ "pending" \notin Past
    BY DEF MsgAt, Handled, Past
  <2>2. msg[n][c] \in Live
    BY <1>1 DEF Live, Handled
  <2> QED BY <1>1, <1>2, <2>1, <2>2, PassesKeeps
<1>3. ASSUME NEW d \in Copy, msg[n][d] = "none", msg' = [msg EXCEPT ![n][d] = "pending", ![n][c] = "ack"]
      PROVE  SessionInv'
  <2>0. c # d
    BY <1>1, <1>3
  <2>1. /\ msg' \in [Archive -> [Copy -> MsgAt]] /\ msg'[n][d] = "pending" /\ msg'[n][c] = "ack"
        /\ \A e \in Copy \ {c, d} : msg'[n][e] = msg[n][e]
        /\ \A i \in Archive \ {n} : msg'[i] = msg[i]
    <3>0. PICK q : q = [msg[n] EXCEPT ![d] = "pending", ![c] = "ack"]
      OBVIOUS
    <3>1. /\ q \in [Copy -> MsgAt] /\ q[d] = "pending" /\ q[c] = "ack"
          /\ \A e \in Copy \ {c, d} : q[e] = msg[n][e]
      <4>1. msg[n] \in [Copy -> MsgAt]
        BY <1>0 DEF Shapes
      <4> QED BY <2>0, <3>0, <4>1 DEF MsgAt
    <3>2. msg' = [msg EXCEPT ![n] = q]
      BY <1>0, <1>3, <3>0 DEF Shapes
    <3> QED BY <1>0, <3>1, <3>2 DEF Shapes
  <2>2. Shapes'
    BY <1>0, <1>1, <2>1, SameTypes DEF Shapes, quiet, messagevars, bounds
  <2>3. \A e \in Copy : msg'[n][e] \in Handled => msg'[n][e] = msg[n][e]
    BY <2>1 DEF Handled
  <2>4. leased(n)'
    <3>1. \A e \in Copy : msg'[n][e] \in {"probe", "judge"} => msg'[n][e] = msg[n][e]
      BY <2>3 DEF Handled
    <3> QED BY <1>0, <1>1, <3>1 DEF leased
  <2>5. in_turn(n)' /\ orphan_idle(n)'
    BY <1>0, <1>1, <2>3 DEF in_turn, orphan_idle, Handled, is_terminal, has_work
  <2>6. sole(n)'
    <3> SUFFICES ASSUME n \notin twice
                 PROVE  /\ \A e, f \in Copy : msg'[n][e] \in Live /\ msg'[n][f] \in Live => e = f
                        /\ \A e \in Copy : msg'[n][e] \in Handled => work'[n] = "open"
                        /\ \A e \in Copy : msg'[n][e] \in Past => ~is_terminal(n)'
      BY <1>1 DEF sole
    <3>0. Past \subseteq Live /\ msg[n][c] \in Live /\ "ack" \notin Live /\ "pending" \notin Past
      BY <1>1 DEF Live, Past, Handled
    <3>1. \A e \in Copy \ {d} : msg'[n][e] \notin Live
      BY <1>0, <2>1, <3>0 DEF sole
    <3> QED BY <1>1, <2>1, <3>0, <3>1
  <2>7. exists(n) /\ exists(n)'
    BY <1>1, WorkedOn DEF exists
  <2>8. Handles(n, n)
    BY <1>1, <2>1, <2>2, <2>4, <2>5, <2>6, <2>7 DEF Handles, has_work
  <2> QED BY <2>8, HandlesKeeps
<1> QED BY <1>2, <1>3 DEF Requeue

LEMMA CancelTaskKeeps ==
  ASSUME SessionInv, NEW n \in Archive, NEW kept \in SUBSET Copy, CancelTask(n, kept)
  PROVE  SessionInv'
<1>0. Shapes /\ ready(n) /\ leased(n) /\ sole(n) /\ in_turn(n) /\ orphan_idle(n)
  BY DEF SessionInv
<1> DEFINE handled == {c \in Copy : msg[n][c] \in Handled}
           left == {c \in Copy : msg[n][c] = "left"}
           judging == \E c \in handled : msg[n][c] = "judge"
<1>1. /\ work[n] = "open" /\ kept \subseteq handled /\ quiet /\ revived' = revived
      /\ pub' = pub /\ twice' = twice
  BY DEF CancelTask, quiet
<1>2. /\ msg' \in [Archive -> [Copy -> MsgAt]] /\ \A i \in Archive \ {n} : msg'[i] = msg[i]
      /\ \A c \in Copy : msg'[n][c] = IF c \in kept THEN "left" ELSE IF c \in handled THEN "none" ELSE msg[n][c]
  <2>1. PICK q : q = [c \in Copy |-> IF c \in kept THEN "left" ELSE IF c \in handled THEN "none" ELSE msg[n][c]]
    OBVIOUS
  <2>2. q \in [Copy -> MsgAt]
    BY <1>0, <2>1 DEF Shapes, MsgAt
  <2>3. msg' = [msg EXCEPT ![n] = q]
    BY <2>1 DEF CancelTask
  <2> QED BY <1>0, <2>1, <2>2, <2>3 DEF Shapes
<1>3. /\ work' \in [Archive -> WorkAt] /\ \A i \in Archive \ {n} : work'[i] = work[i]
      /\ work'[n] \in {"cancelled", "cancelling"}
      /\ work'[n] = "cancelling" => handled = {} /\ left # {}
  <2>1. CASE work' = [work EXCEPT ![n] = "cancelled"]
    BY <1>0, <2>1 DEF Shapes, WorkAt
  <2>2. CASE handled = {} /\ left # {} /\ work' = [work EXCEPT ![n] = "cancelling"]
    BY <1>0, <2>2 DEF Shapes, WorkAt
  <2> QED BY <2>1, <2>2 DEF CancelTask
<1>4. \A c \in Copy : msg'[n][c] \notin Handled
  BY <1>1, <1>2 DEF Handled
<1>5. exists(n)
  BY <1>1, WorkedOn
<1>6. /\ arch' \in [Archive -> ArchiveRecord] /\ \A i \in Archive \ {n} : arch'[i] = arch[i]
      /\ arch'[n].mark = arch[n].mark /\ arch'[n].messages = arch[n].messages
      /\ arch'[n] = arch[n] \/ (is_terminal(n)' /\ arch'[n].failed = "failed")
      /\ exists(n)'
  <2>1. CASE arch' = arch
    BY <1>0, <1>5, <2>1 DEF Shapes, exists
  <2>2. CASE fail_archive(n, "failed")
    BY <1>0, <2>2, FailTypes
  <2> QED BY <2>1, <2>2 DEF CancelTask
<1>7. /\ lease' \in [Archive -> LeaseAt]
      /\ \A i \in Archive : i # n - 1 => lease'[i] = lease[i]
      /\ \A i \in Archive : lease[i] = "publisher" => lease'[i] = "publisher"
  <2>1. PICK j \in BOOLEAN : j <=> judging
    OBVIOUS
  <2>2. lease' = dropped_probe(n, j)
    BY <2>1 DEF CancelTask, dropped_probe
  <2>3. j => n > 1 /\ lease[n - 1] = "judge"
    BY <1>0, <2>1 DEF leased
  <2> QED BY <2>2, <2>3, DropTypes
<1>8. Shapes'
  BY <1>0, <1>1, <1>2, <1>3, <1>6, <1>7, SameTypes DEF Shapes, quiet, messagevars, bounds
<1>9. leased(n)' /\ in_turn(n)' /\ orphan_idle(n)'
  <2>1. \A c \in Copy : msg'[n][c] \notin {"probe", "judge", "run"}
    BY <1>4 DEF Handled
  <2>2. leased(n)'
    BY <1>0, <1>1, <1>7, <2>1 DEF leased
  <2> QED BY <1>0, <1>1, <1>3, <1>6, <2>1, <2>2 DEF in_turn, orphan_idle, has_work
<1>10. sole(n)'
  <2>1. \A c \in Copy : msg'[n][c] \in Live => msg[n][c] \in Live
    BY <1>1, <1>2 DEF Live, Handled
  <2>2. \A c \in Copy : msg'[n][c] \notin Past
    BY <1>4 DEF Past, Handled
  <2> QED BY <1>0, <1>1, <1>4, <2>1, <2>2 DEF sole
<1>11. has_work(n)' => \E c \in Copy : msg'[n][c] \notin {"none", "ack"}
  <2> SUFFICES ASSUME has_work(n)' PROVE \E c \in Copy : msg'[n][c] \notin {"none", "ack"}
    OBVIOUS
  <2>1. handled = {} /\ left # {}
    BY <1>3 DEF has_work
  <2>2. PICK c \in Copy : msg[n][c] = "left"
    BY <2>1
  <2>3. msg'[n][c] = "left"
    BY <1>1, <1>2, <2>1, <2>2
  <2> QED BY <2>3
<1>12. ~unlocked /\ phase1.archived # <<>> => n # phase1.n
  BY <1>1 DEF SessionInv, Writing
<1>13. Handles(n, n)
  BY <1>1, <1>2, <1>3, <1>5, <1>6, <1>7, <1>8, <1>9, <1>10, <1>11, <1>12 DEF Handles, has_work
<1> QED BY <1>13, HandlesKeeps

LEMMA HandlerKeeps ==
  ASSUME SessionInv, NEW n \in Archive, NEW c \in Copy, HandlerStep(n, c)
  PROVE  SessionInv'
BY EndKeeps, DeliverKeeps, AckKeeps, ActivateKeeps, LookKeeps, FailUnreadyKeeps, ProbeKeeps,
   JudgeKeeps, ExtractKeeps, RequeueKeeps DEF HandlerStep

-----------------------------------------------------------------------------
(* Phase 1 *)

\* A step of the commit under way: it changes only archives K that have no work and are
\* not published.
writes(k) ==
  /\ work[k] = "none" /\ pub[k] = "no" /\ ready(k)'
  /\ is_terminal(k) => is_terminal(k)'
  /\ arch'[k].failed # "missing"
  /\ pub'[k] # "no" => lease'[k] = "publisher"

Commits(K) ==
  /\ Shapes' /\ UNCHANGED <<work, msg, revived, twice>>
  /\ \A i \in Archive \ K : arch'[i] = arch[i] /\ pub'[i] = pub[i]
  /\ \A k \in K : writes(k)
  /\ \A i \in Archive : \/ lease'[i] = lease[i] \/ lease[i] = "free"
                        \/ pub[i] = "no" /\ lease[i] = "publisher"

LEMMA CommitsKeep ==
  ASSUME SessionInv, NEW K \in SUBSET Archive, Commits(K)
  PROVE  \A n \in Archive : ready(n)' /\ leased(n)' /\ sole(n)' /\ in_turn(n)' /\ orphan_idle(n)'
<1> SUFFICES ASSUME NEW n \in Archive
             PROVE  ready(n)' /\ leased(n)' /\ sole(n)' /\ in_turn(n)' /\ orphan_idle(n)'
  OBVIOUS
<1>0. Shapes /\ ready(n) /\ leased(n) /\ sole(n) /\ in_turn(n) /\ orphan_idle(n)
  BY DEF SessionInv
<1>a. work' = work /\ msg' = msg /\ revived' = revived /\ twice' = twice
  BY DEF Commits
<1>b. n \notin K => arch'[n] = arch[n] /\ pub'[n] = pub[n]
  BY DEF Commits
<1>c. n \in K => writes(n)
  BY DEF Commits
<1>1. ready(n)'
  BY <1>0, <1>a, <1>b, <1>c DEF ready, writes, has_work
<1>2. leased(n)'
  <2>1. pub'[n] # "no" => lease'[n] = "publisher"
    BY <1>0, <1>b, <1>c DEF leased, Commits, writes
  <2>2. \A c \in Copy : msg[n][c] = "judge" => lease'[n - 1] = lease[n - 1]
    BY <1>0, ArchiveNumbers DEF leased, Commits
  <2> QED BY <1>0, <1>a, <2>1, <2>2 DEF leased
<1>5. sole(n)'
  <2>1. \A c \in Copy : msg[n][c] \in Past => arch'[n] = arch[n]
    BY <1>0, <1>b, <1>c DEF ready, writes, Past
  <2> QED BY <1>0, <1>a, <2>1 DEF sole, is_terminal
<1>3. in_turn(n)'
  <2>2. ASSUME n > 1, is_terminal(n - 1) PROVE is_terminal(n - 1)'
    <3>1. n - 1 \in Archive
      BY <2>2, ArchiveNumbers
    <3>2. CASE n - 1 \in K
      BY <2>2, <3>2 DEF Commits, writes
    <3>3. CASE n - 1 \notin K
      BY <2>2, <3>1, <3>3 DEF Commits, is_terminal
    <3> QED BY <3>2, <3>3
  <2> QED BY <1>0, <1>a, <2>2 DEF in_turn
<1>4. orphan_idle(n)'
  BY <1>0, <1>a, <1>b, <1>c DEF orphan_idle, has_work, writes
<1> QED BY <1>1, <1>2, <1>3, <1>4, <1>5

\* Archives that a step adds have all the ones before them.
LEMMA GrowsKeeps ==
  ASSUME Contiguous, MaxArchives \in Nat,
         \A i \in Archive : exists(i) => exists(i)',
         \A i \in Archive : exists(i)' => exists(i) \/ \A j \in Archive : j < i => exists(j)',
         \A i \in Archive : i <= count' => i <= count \/ exists(i)'
  PROVE  Contiguous'
<1>1. ASSUME NEW i \in Archive, NEW j \in Archive, j < i, exists(i)'
      PROVE  exists(j)'
  <2>1. exists(i) => exists(j)
    BY <1>1 DEF Contiguous
  <2> QED BY <1>1, <2>1
<1>2. ASSUME NEW i \in Archive, i <= count'
      PROVE  exists(i)'
  BY <1>2 DEF Contiguous
<1>3. Archive' = Archive
  BY DEF Archive
<1> QED BY <1>1, <1>2, <1>3 DEF Contiguous

\* An archive without a message in the queue.
unsent(n) == \A c \in Copy : msg[n][c] = "none"

\* The archive of the commit, until it is ready.
mine(n) ==
  /\ n \in Archive /\ phase1.archived # <<>> /\ pub[n] = "no" /\ work[n] = "none" /\ unsent(n)
  /\ arch[n].done = "no" /\ arch[n].failed = "no" /\ arch[n].mark # "ready"
  /\ arch[n].messages \in {<<>>, phase1.archived}
  /\ phase1.at # "persist" \/ "messages" \in phase1.wrote => arch[n].messages = phase1.archived
  /\ phase1.at = "ready" => lease[n] = "publisher"
  /\ \A i \in Archive : (i < n => exists(i)) /\ (i > n => ~exists(i))
  /\ phase1.reset => n + 1 \in Archive

LEMMA UnderWay ==
  ASSUME SessionInv, NEW n, n = phase1.n, phase1.at \in {"persist", "meta", "lease", "ready"}
  PROVE  mine(n)
<1>1. ~unlocked /\ phase1.archived # <<>>
  BY DEF unlocked, SessionInv, Newest
<1>2. /\ n \in Archive /\ pub[n] = "no" /\ work[n] = "none"
      /\ arch[n].done = "no" /\ arch[n].failed = "no" /\ arch[n].mark # "ready"
      /\ arch[n].messages \in {<<>>, phase1.archived}
      /\ phase1.at # "persist" \/ "messages" \in phase1.wrote => arch[n].messages = phase1.archived
      /\ phase1.at = "ready" => lease[n] = "publisher"
  BY <1>1 DEF SessionInv, Writing
<1>3. unsent(n)
  BY <1>2 DEF SessionInv, ready, unsent
<1>4. \A i \in Archive : (i < n => exists(i)) /\ (i > n => ~exists(i))
  BY <1>1 DEF SessionInv, Newest
<1>5. phase1.reset => n + 1 \in Archive
  BY <1>1 DEF SessionInv, Newest
<1> QED BY <1>1, <1>2, <1>3, <1>4, <1>5 DEF mine

\* The commit goes on with its archive, which is there after the step.
goes_on(n) ==
  /\ phase1'.n = n /\ phase1'.archived = phase1.archived /\ phase1'.reset = phase1.reset
  /\ phase1'.at \in {"persist", "meta", "lease", "ready", "reset"}
  /\ phase1'.at = "reset" => phase1.reset
  /\ exists(n)' /\ count' \in {count, n}

LEMMA GoesOnKeeps ==
  ASSUME SessionInv, NEW n \in Archive, mine(n), goes_on(n), Commits({n}), Writing'
  PROVE  SessionInv'
<1>1. \A i \in Archive \ {n} : exists(i)' <=> exists(i)
  BY DEF Commits, exists
<1>2. Contiguous'
  <2>1. Contiguous /\ MaxArchives \in Nat
    BY ArchiveNumbers DEF SessionInv
  <2>2. \A i \in Archive : exists(i) => exists(i)'
    BY <1>1 DEF goes_on
  <2>3. \A i \in Archive : exists(i)' => exists(i) \/ \A j \in Archive : j < i => exists(j)'
    BY <1>1, ArchiveNumbers DEF mine
  <2>4. \A i \in Archive : i <= count' => i <= count \/ exists(i)'
    <3> SUFFICES ASSUME NEW i \in Archive, i <= n PROVE exists(i)'
      BY DEF goes_on
    <3>1. CASE i = n
      BY <3>1 DEF goes_on
    <3>2. CASE i < n
      BY <1>1, <3>2, ArchiveNumbers DEF mine
    <3> QED BY <3>1, <3>2, ArchiveNumbers
  <2> QED BY <2>1, <2>2, <2>3, <2>4, GrowsKeeps
<1>3. Newest'
  <2>1. Archive' = Archive
    BY DEF Archive
  <2>2. \A i \in Archive : (i < n => exists(i)') /\ (i > n => ~exists(i)')
    BY <1>1, ArchiveNumbers DEF mine
  <2>3. /\ phase1'.archived # <<>> /\ (phase1'.at \in {"reset", "boundary"} => phase1'.reset)
        /\ (phase1'.reset => phase1'.n + 1 \in Archive) /\ phase1'.at # "boundary" /\ exists(n)'
        /\ phase1'.n = n
    BY DEF mine, goes_on
  <2> QED BY <2>1, <2>2, <2>3 DEF Newest
<1>4. \A i \in Archive : ready(i)' /\ leased(i)' /\ sole(i)' /\ in_turn(i)' /\ orphan_idle(i)'
  BY CommitsKeep
<1> QED BY <1>2, <1>3, <1>4 DEF SessionInv, Commits, Archive

LEMMA MarkerKeeps ==
  ASSUME SessionInv, WritePhase1Marker
  PROVE  SessionInv'
<1>n. PICK n : n = phase1.n
  OBVIOUS
<1>0. Shapes /\ mine(n) /\ n \in Archive /\ phase1.at = "persist"
  BY <1>n, UnderWay DEF SessionInv, WritePhase1Marker, mine
<1>1. /\ arch' \in [Archive -> ArchiveRecord] /\ \A i \in Archive \ {n} : arch'[i] = arch[i]
      /\ arch'[n].mark = "preparing" /\ arch'[n].messages = arch[n].messages
      /\ arch'[n].done = "no" /\ arch'[n].failed = "no"
  <2>1. arch' = [arch EXCEPT ![n].mark = "preparing"]
    BY <1>n DEF WritePhase1Marker
  <2> QED BY <1>0, <2>1 DEF Shapes, ArchiveRecord, mine
<1>2. /\ phase1' \in CommitRecord /\ phase1'.n = n /\ phase1'.archived = phase1.archived
      /\ phase1'.reset = phase1.reset /\ phase1'.at = "persist"
      /\ phase1'.wrote = phase1.wrote \cup {"intent"}
  BY <1>n, <1>0 DEF WritePhase1Marker, Shapes, CommitRecord
<1>3. UNCHANGED <<accepted, root, count, lease, pub, work, msg, revived, twice, retries, restarts>>
  BY DEF WritePhase1Marker, messagevars, queuevars, deliveryvars, bounds
<1>4. Shapes'
  BY <1>0, <1>1, <1>2, <1>3, SameTypes DEF Shapes
<1>5. writes(n)
  BY <1>0, <1>1, <1>3 DEF writes, mine, is_terminal, ready, has_work, unsent
<1>6. Commits({n})
  BY <1>1, <1>3, <1>4, <1>5 DEF Commits
<1>7. Writing'
  BY <1>0, <1>1, <1>2, <1>3 DEF Writing, mine
<1>8. goes_on(n)
  BY <1>1, <1>2, <1>3 DEF goes_on, exists, Empty
<1> QED BY <1>0, <1>6, <1>7, <1>8, GoesOnKeeps

LEMMA WriteArchiveKeeps ==
  ASSUME SessionInv, WriteArchive
  PROVE  SessionInv'
<1>n. PICK n : n = phase1.n
  OBVIOUS
<1>0. Shapes /\ mine(n) /\ n \in Archive /\ phase1.at = "persist" /\ phase1.archived \in MessageSeq
  BY <1>n, UnderWay DEF SessionInv, WriteArchive, mine, Shapes, CommitRecord
<1>1. /\ arch' \in [Archive -> ArchiveRecord] /\ \A i \in Archive \ {n} : arch'[i] = arch[i]
      /\ arch'[n].mark = arch[n].mark /\ arch'[n].messages = phase1.archived
      /\ arch'[n].done = "no" /\ arch'[n].failed = "no"
  <2>1. arch' = [arch EXCEPT ![n].messages = phase1.archived]
    BY <1>n DEF WriteArchive
  <2> QED BY <1>0, <2>1 DEF Shapes, ArchiveRecord, mine
<1>2. /\ phase1' \in CommitRecord /\ phase1'.n = n /\ phase1'.archived = phase1.archived
      /\ phase1'.reset = phase1.reset /\ phase1'.at = "persist"
      /\ phase1'.wrote = phase1.wrote \cup {"messages"}
  BY <1>n, <1>0 DEF WriteArchive, Shapes, CommitRecord
<1>3. UNCHANGED <<accepted, root, count, lease, pub, work, msg, revived, twice, retries, restarts>>
  BY DEF WriteArchive, messagevars, queuevars, deliveryvars, bounds
<1>4. Shapes'
  BY <1>0, <1>1, <1>2, <1>3, SameTypes DEF Shapes
<1>5. writes(n)
  BY <1>0, <1>1, <1>3 DEF writes, mine, is_terminal, ready, has_work, unsent
<1>6. Commits({n})
  BY <1>1, <1>3, <1>4, <1>5 DEF Commits
<1>7. Writing'
  BY <1>0, <1>1, <1>2, <1>3 DEF Writing, mine
<1>8. goes_on(n)
  BY <1>0, <1>1, <1>2, <1>3 DEF goes_on, exists, Empty, mine
<1> QED BY <1>0, <1>6, <1>7, <1>8, GoesOnKeeps

\* The archive is complete: the root, the metadata and the lease follow.
LEMMA CompleteKeeps ==
  ASSUME SessionInv, RewriteRoot \/ SaveMeta \/ TakePublicationLease
  PROVE  SessionInv'
<1>n. PICK n : n = phase1.n
  OBVIOUS
<1>0. Shapes /\ mine(n) /\ n \in Archive /\ phase1.retained \in MessageSeq /\ phase1.at # "ready"
  BY <1>n, UnderWay DEF SessionInv, RewriteRoot, SaveMeta, TakePublicationLease, mine, Shapes, CommitRecord
<1>1. arch[n].messages = phase1.archived /\ phase1.archived # <<>> /\ exists(n)
  BY <1>0 DEF mine, RewriteRoot, SaveMeta, TakePublicationLease, exists, Empty
<1>2. /\ phase1' \in CommitRecord /\ phase1'.n = n /\ phase1'.archived = phase1.archived
      /\ phase1'.reset = phase1.reset
      /\ phase1'.at \in {"meta", "lease", "ready"}
      /\ phase1'.at = "ready" => TakePublicationLease
  <2>1. CASE RewriteRoot
    BY <1>n, <1>0, <2>1 DEF RewriteRoot, Shapes, CommitRecord, PhaseAt
  <2>2. CASE SaveMeta
    BY <1>n, <1>0, <2>2 DEF SaveMeta, Shapes, CommitRecord, PhaseAt
  <2>3. CASE TakePublicationLease
    BY <1>n, <1>0, <2>3 DEF TakePublicationLease, Shapes, CommitRecord, PhaseAt
  <2> QED BY <2>1, <2>2, <2>3
<1>3. UNCHANGED <<accepted, arch, pub, work, msg, revived, twice, retries, restarts>>
  BY DEF RewriteRoot, SaveMeta, TakePublicationLease, messagevars, queuevars, deliveryvars, bounds
<1>4. root' \in MessageSeq /\ count' \in {count, n}
  BY <1>0, <1>n DEF Shapes, RewriteRoot, SaveMeta, TakePublicationLease, messagevars
<1>5. /\ lease' \in [Archive -> LeaseAt]
      /\ \A i \in Archive : lease'[i] = lease[i] \/ lease[i] = "free"
      /\ TakePublicationLease => lease'[n] = "publisher"
  <2>1. CASE TakePublicationLease
    BY <1>n, <1>0, <2>1 DEF TakePublicationLease, Shapes, LeaseAt
  <2>2. CASE RewriteRoot \/ SaveMeta
    <3>1. lease' = lease /\ phase1.at # "lease"
      BY <2>2 DEF RewriteRoot, SaveMeta
    <3> QED BY <1>0, <3>1 DEF Shapes, TakePublicationLease
  <2> QED BY <2>1, <2>2
<1>6. Shapes'
  <2>1. count' \in 0 .. MaxArchives
    BY <1>0, <1>4, ArchiveNumbers DEF Shapes
  <2> QED BY <1>0, <1>2, <1>3, <1>4, <1>5, <2>1, SameTypes DEF Shapes
<1>7. writes(n)
  BY <1>0, <1>3 DEF writes, mine, is_terminal, ready, has_work, unsent
<1>8. Commits({n})
  BY <1>3, <1>5, <1>6, <1>7 DEF Commits
<1>9. Writing'
  BY <1>0, <1>1, <1>2, <1>3, <1>5 DEF Writing, mine
<1>10. goes_on(n)
  BY <1>1, <1>2, <1>3, <1>4 DEF goes_on, exists
<1> QED BY <1>0, <1>8, <1>9, <1>10, GoesOnKeeps

\* The lock is released.
LEMMA FinishKeeps ==
  ASSUME SessionInv, NEW K \in SUBSET Archive, Commits(K), phase1' = NoCommit, Contiguous'
  PROVE  SessionInv'
<1>1. ~unlocked' <=> FALSE
  BY DEF unlocked, NoCommit
<1>2. Writing' /\ Newest'
  BY <1>1 DEF Writing, Newest
<1>3. \A i \in Archive : ready(i)' /\ leased(i)' /\ sole(i)' /\ in_turn(i)' /\ orphan_idle(i)'
  BY CommitsKeep
<1> QED BY <1>2, <1>3 DEF SessionInv, Commits, Archive

LEMMA NoCommitType ==
  NoCommit \in CommitRecord
BY EmptySeq, ArchiveNumbers DEF NoCommit, CommitRecord, PhaseAt, MessageSeq

LEMMA ReadyMarkerKeeps ==
  ASSUME SessionInv, WriteReadyMarker
  PROVE  SessionInv'
<1>n. PICK n : n = phase1.n
  OBVIOUS
<1>0. Shapes /\ mine(n) /\ n \in Archive /\ phase1.at = "ready" /\ arch[n].messages = phase1.archived
  BY <1>n, UnderWay DEF SessionInv, WriteReadyMarker, mine
<1>1. /\ arch' \in [Archive -> ArchiveRecord] /\ \A i \in Archive \ {n} : arch'[i] = arch[i]
      /\ arch'[n].mark = "ready" /\ arch'[n].messages = arch[n].messages
      /\ arch'[n].done = "no" /\ arch'[n].failed = "no"
  <2>1. arch' = [arch EXCEPT ![n].mark = "ready"]
    BY <1>n DEF WriteReadyMarker
  <2> QED BY <1>0, <2>1 DEF Shapes, ArchiveRecord, mine
<1>2. UNCHANGED <<accepted, root, count, lease, work, msg, revived, twice, retries, restarts>>
  BY DEF WriteReadyMarker, messagevars, deliveryvars, bounds
<1>3. exists(n)' /\ lease'[n] = "publisher"
  BY <1>0, <1>1, <1>2 DEF exists, Empty, mine
<1>4. CASE phase1.reset
  <2>1. /\ phase1' \in CommitRecord /\ phase1'.n = n /\ phase1'.archived = phase1.archived
        /\ phase1'.reset = phase1.reset /\ phase1'.at = "reset" /\ pub' = pub
    <3>1. phase1' = [phase1 EXCEPT !.at = "reset"] /\ pub' = pub
      BY <1>4 DEF WriteReadyMarker
    <3> QED BY <1>n, <1>0, <3>1 DEF Shapes, CommitRecord, PhaseAt
  <2>2. Shapes'
    BY <1>0, <1>1, <1>2, <2>1, SameTypes DEF Shapes
  <2>3. writes(n)
    BY <1>0, <1>1, <1>2, <2>1 DEF writes, mine, is_terminal, ready, has_work, unsent
  <2>4. Commits({n})
    BY <1>1, <1>2, <2>1, <2>2, <2>3 DEF Commits
  <2>5. Writing'
    BY <1>0, <1>1, <1>2, <1>3, <2>1 DEF Writing, mine
  <2>6. goes_on(n)
    BY <1>2, <1>3, <1>4, <2>1 DEF goes_on
  <2> QED BY <1>0, <2>4, <2>5, <2>6, GoesOnKeeps
<1>5. CASE ~phase1.reset
  <2>1. /\ phase1' = NoCommit /\ pub' \in [Archive -> {"no", "publish", "release"}]
        /\ \A i \in Archive \ {n} : pub'[i] = pub[i]
    BY <1>n, <1>0, <1>5 DEF WriteReadyMarker, finish_phase1, mine, Shapes
  <2>2. Shapes'
    BY <1>0, <1>1, <1>2, <2>1, SameTypes, NoCommitType DEF Shapes
  <2>3. writes(n)
    <3>1. ready(n)'
      BY <1>0, <1>1, <1>2 DEF mine, ready, has_work, unsent
    <3> QED BY <1>0, <1>1, <1>3, <3>1 DEF writes, mine, is_terminal
  <2>4. Commits({n})
    BY <1>1, <1>2, <2>1, <2>2, <2>3 DEF Commits
  <2>5. Contiguous'
    <3>1. \A i \in Archive \ {n} : exists(i)' <=> exists(i)
      BY <1>1 DEF exists
    <3>2. \A i \in Archive : exists(i) => exists(i)'
      BY <1>3, <3>1
    <3>3. \A i \in Archive : exists(i)' => exists(i) \/ \A j \in Archive : j < i => exists(j)'
      BY <1>0, <3>2, <3>1 DEF mine
    <3>4. \A i \in Archive : i <= count' => i <= count \/ exists(i)'
      BY <1>2
    <3>5. Contiguous
      BY DEF SessionInv
    <3> QED BY <3>2, <3>3, <3>4, <3>5, GrowsKeeps, ArchiveNumbers
  <2> QED BY <1>0, <2>1, <2>4, <2>5, FinishKeeps
<1> QED BY <1>4, <1>5

\* The archive of a commit that also resets, once it is ready; without messages there is
\* none.
LEMMA ResetUnderWay ==
  ASSUME SessionInv, NEW n, n = phase1.n, phase1.at \in {"reset", "boundary"}
  PROVE  /\ n \in 0 .. MaxArchives /\ n + 1 \in Archive /\ ~unlocked /\ phase1.reset
         /\ \A i \in Archive : i <= n => exists(i)
         /\ phase1.at = "reset" => \A i \in Archive : i > n => ~exists(i)
         /\ phase1.at = "boundary" => \A i \in Archive : i <= n + 1 => exists(i)
         /\ phase1.at = "boundary" => \A i \in Archive : i > n + 1 => ~exists(i)
         /\ phase1.archived # <<>> =>
              /\ n \in Archive /\ arch[n].done = "no" /\ arch[n].failed = "no" /\ arch[n].mark = "ready"
              /\ arch[n].messages = phase1.archived /\ pub[n] = "no" /\ work[n] = "none"
              /\ unsent(n) /\ lease[n] = "publisher"
<1>0. Shapes /\ Newest /\ Writing /\ \A i \in Archive : ready(i)
  BY DEF SessionInv
<1>1. ~unlocked /\ n \in 0 .. MaxArchives
  BY <1>0 DEF unlocked, Shapes, CommitRecord
<1>2. phase1.reset /\ n + 1 \in Archive
  BY <1>0, <1>1 DEF Newest
<1>3. /\ \A i \in Archive : i <= n => exists(i)
      /\ phase1.at = "reset" => \A i \in Archive : i > n => ~exists(i)
      /\ phase1.at = "boundary" => \A i \in Archive : i <= n + 1 => exists(i)
      /\ phase1.at = "boundary" => \A i \in Archive : i > n + 1 => ~exists(i)
  <2>1. ASSUME NEW i \in Archive
        PROVE  /\ i < n \/ i = n => exists(i)
               /\ i > n => IF phase1.at = "boundary" /\ i = n + 1 THEN exists(i) ELSE ~exists(i)
    BY <1>0, <1>1 DEF Newest
  <2>2. ASSUME NEW i \in Archive, i <= n PROVE exists(i)
    <3>1. i < n \/ i = n
      BY <1>1, <2>2, ArchiveNumbers
    <3> QED BY <2>1, <3>1
  <2>3. ASSUME phase1.at = "reset", NEW i \in Archive, i > n PROVE ~exists(i)
    BY <2>1, <2>3
  <2>4. ASSUME phase1.at = "boundary", NEW i \in Archive, i <= n + 1 PROVE exists(i)
    <3>1. i <= n \/ (i > n /\ i = n + 1)
      BY <1>1, <2>4, ArchiveNumbers
    <3> QED BY <2>1, <2>2, <2>4, <3>1
  <2>5. ASSUME phase1.at = "boundary", NEW i \in Archive, i > n + 1 PROVE ~exists(i)
    <3>1. i > n /\ i # n + 1
      BY <1>1, <2>5, ArchiveNumbers
    <3> QED BY <2>1, <2>5, <3>1
  <2> QED BY <2>2, <2>3, <2>4, <2>5
<1>4. ASSUME phase1.archived # <<>>
      PROVE  /\ n \in Archive /\ arch[n].done = "no" /\ arch[n].failed = "no" /\ arch[n].mark = "ready"
             /\ arch[n].messages = phase1.archived /\ pub[n] = "no" /\ work[n] = "none"
             /\ lease[n] = "publisher"
  BY <1>0, <1>1, <1>4 DEF Writing
<1>5. phase1.archived # <<>> => unsent(n)
  BY <1>0, <1>4 DEF ready, unsent
<1> QED BY <1>1, <1>2, <1>3, <1>4, <1>5

\* An archive that is not there has no publication and no work.
LEMMA Untouched ==
  ASSUME SessionInv, NEW n \in Archive, ~exists(n)
  PROVE  arch[n] = Empty /\ pub[n] = "no" /\ work[n] = "none" /\ unsent(n)
<1>1. arch[n] = Empty /\ ready(n)
  BY DEF exists, SessionInv
<1>2. arch[n].mark # "ready"
  BY <1>1 DEF Empty
<1> QED BY <1>1, <1>2 DEF ready, unsent

LEMMA AppendResetKeeps ==
  ASSUME SessionInv, AppendContextReset
  PROVE  SessionInv'
<1>n. PICK n : n = phase1.n
  OBVIOUS
<1>at. phase1.at = "reset"
  BY DEF AppendContextReset
<1>0. Shapes /\ Contiguous /\ Writing
  BY DEF SessionInv
<1>r. /\ n \in 0 .. MaxArchives /\ n + 1 \in Archive /\ phase1.reset
      /\ \A i \in Archive : i <= n => exists(i)
      /\ \A i \in Archive : i > n => ~exists(i)
      /\ phase1.archived # <<>> => n \in Archive /\ arch[n].done = "no"
  BY <1>n, <1>at, ResetUnderWay
<1>u. UNCHANGED <<accepted, root, count, lease, work, msg, revived, twice, retries, restarts>>
  BY DEF AppendContextReset, messagevars, deliveryvars, bounds
<1>1. CASE is_context_reset_archive(n)
  <2>1. phase1.archived = <<>>
    BY <1>1, <1>r DEF is_context_reset_archive
  <2>2. phase1' = NoCommit /\ pub' = pub /\ arch' = arch
    BY <1>n, <1>1, <2>1 DEF AppendContextReset, finish_phase1
  <2>3. Shapes'
    BY <1>0, <1>u, <2>2, SameTypes, NoCommitType DEF Shapes
  <2>4. Commits({})
    BY <1>u, <2>2, <2>3 DEF Commits
  <2>5. Contiguous'
    BY <1>0, <1>u, <2>2 DEF Contiguous, exists
  <2> QED BY <2>2, <2>4, <2>5, FinishKeeps
<1>2. CASE ~is_context_reset_archive(n)
  <2> DEFINE m == n + 1
  <2> HIDE DEF m
  <2>m. m = n + 1 /\ m \in Archive /\ m # n /\ ~exists(m) /\ m > n
    <3>1. n + 1 > n /\ n + 1 # n
      BY <1>r
    <3> QED BY <1>r, <3>1 DEF m
  <2>e. arch[m] = Empty /\ pub[m] = "no" /\ work[m] = "none" /\ unsent(m)
    BY <2>m, Untouched
  <2>1. /\ arch' \in [Archive -> ArchiveRecord] /\ \A i \in Archive \ {m} : arch'[i] = arch[i]
        /\ arch'[m].mark = "none" /\ arch'[m].failed = "no" /\ arch'[m].done = "reset"
    <3>1. arch' = [arch EXCEPT ![m].done = "reset"]
      BY <1>n, <1>2, <2>m DEF AppendContextReset
    <3> QED BY <1>0, <2>m, <2>e, <3>1 DEF Shapes, ArchiveRecord, Empty
  <2>2. /\ phase1' \in CommitRecord /\ phase1'.n = n /\ phase1'.archived = phase1.archived
        /\ phase1'.reset = phase1.reset /\ phase1'.at = "boundary" /\ pub' = pub
    <3>1. phase1' = [phase1 EXCEPT !.at = "boundary"] /\ pub' = pub
      BY <1>n, <1>2 DEF AppendContextReset
    <3> QED BY <1>n, <1>0, <3>1 DEF Shapes, CommitRecord, PhaseAt
  <2>3. Shapes'
    BY <1>0, <1>u, <2>1, <2>2, SameTypes DEF Shapes
  <2>4. writes(m)
    BY <2>e, <2>1, <2>2, <1>u DEF writes, is_terminal, ready, has_work, unsent, Empty
  <2>5. Commits({m})
    BY <1>u, <2>1, <2>2, <2>3, <2>4 DEF Commits
  <2>6. /\ \A i \in Archive \ {m} : exists(i)' <=> exists(i)
        /\ exists(m)'
    BY <2>1 DEF exists, Empty
  <2>7. Contiguous'
    <3>1. \A i \in Archive : exists(i) => exists(i)'
      BY <2>6
    <3>2. ASSUME NEW i \in Archive, exists(i)', ~exists(i), NEW j \in Archive, j < i
          PROVE  exists(j)'
      <4>1. i = m
        BY <2>6, <3>2
      <4>2. j <= n
        BY <1>r, <2>m, <3>2, <4>1, ArchiveNumbers
      <4> QED BY <1>r, <3>1, <4>2
    <3>3. \A i \in Archive : i <= count' => i <= count \/ exists(i)'
      BY <1>u
    <3> QED BY <1>0, <3>1, <3>2, <3>3, GrowsKeeps, ArchiveNumbers
  <2>8. Writing'
    <3> SUFFICES ASSUME phase1.archived # <<>> PROVE Writing'
      BY <2>2 DEF Writing
    <3>1. /\ arch[n].failed = "no" /\ arch[n].mark = "ready" /\ arch[n].messages = phase1.archived
          /\ pub[n] = "no" /\ work[n] = "none" /\ lease[n] = "publisher"
      BY <1>n, <1>at, ResetUnderWay
    <3>2. n \in Archive /\ arch'[n] = arch[n] /\ arch[n].done = "no"
      BY <1>r, <2>m, <2>1
    <3> QED BY <1>u, <2>2, <3>1, <3>2 DEF Writing
  <2>9. Newest'
    <3>1. ASSUME NEW i \in Archive
          PROVE  /\ i < n \/ i = n => exists(i)'
                 /\ i > n => IF i = n + 1 THEN exists(i)' /\ arch'[i].mark = "none" ELSE ~exists(i)'
      <4>1. i < n \/ i = n => i <= n
        BY <1>r, ArchiveNumbers
      <4>2. CASE i = m
        BY <1>r, <2>m, <2>1, <2>6, <4>2
      <4>3. CASE i # m
        BY <1>r, <2>m, <2>6, <4>1, <4>3
      <4> QED BY <4>2, <4>3
    <3>2. phase1'.reset /\ phase1'.n + 1 \in Archive
      BY <1>r, <2>2
    <3> QED BY <2>2, <3>1, <3>2 DEF Newest, Archive
  <2>10. \A i \in Archive : ready(i)' /\ leased(i)' /\ sole(i)' /\ in_turn(i)' /\ orphan_idle(i)'
    BY <2>m, <2>5, CommitsKeep
  <2> QED BY <2>3, <2>7, <2>8, <2>9, <2>10 DEF SessionInv, Archive
<1> QED BY <1>1, <1>2

LEMMA SaveResetKeeps ==
  ASSUME SessionInv, SaveResetMeta
  PROVE  SessionInv'
<1>n. PICK n : n = phase1.n
  OBVIOUS
<1>at. phase1.at = "boundary"
  BY DEF SaveResetMeta
<1>0. Shapes /\ Contiguous
  BY DEF SessionInv
<1>r. /\ n \in 0 .. MaxArchives /\ n + 1 \in Archive /\ \A i \in Archive : i <= n + 1 => exists(i)
  BY <1>n, <1>at, ResetUnderWay
<1>u. /\ UNCHANGED <<accepted, root, arch, lease, work, msg, revived, twice, retries, restarts>>
      /\ count' = n + 1 /\ phase1' = NoCommit
  BY <1>n DEF SaveResetMeta, messagevars, deliveryvars, bounds, finish_phase1
<1>1. Contiguous'
  BY <1>0, <1>r, <1>u DEF Contiguous, exists
<1>2. count' \in 0 .. MaxArchives
  BY <1>r, <1>u, ArchiveNumbers
<1>3. CASE phase1.archived = <<>>
  <2>1. pub' = pub
    BY <1>3 DEF SaveResetMeta, finish_phase1
  <2>2. Shapes'
    BY <1>0, <1>u, <1>2, <2>1, SameTypes, NoCommitType DEF Shapes
  <2>3. Commits({})
    BY <1>u, <2>1, <2>2 DEF Commits
  <2> QED BY <1>u, <1>1, <2>3, FinishKeeps
<1>4. CASE phase1.archived # <<>>
  <2>1. /\ n \in Archive /\ arch[n].failed = "no" /\ arch[n].mark = "ready" /\ arch[n].messages # <<>>
        /\ pub[n] = "no" /\ work[n] = "none" /\ unsent(n) /\ lease[n] = "publisher"
    BY <1>n, <1>at, <1>4, ResetUnderWay
  <2>2. /\ pub' \in [Archive -> {"no", "publish", "release"}]
        /\ \A i \in Archive \ {n} : pub'[i] = pub[i]
    BY <1>n, <1>0, <1>4, <2>1 DEF SaveResetMeta, finish_phase1, Shapes
  <2>3. Shapes'
    BY <1>0, <1>u, <1>2, <2>2, SameTypes, NoCommitType DEF Shapes
  <2>4. writes(n)
    BY <1>u, <2>1 DEF writes, is_terminal, ready, has_work, unsent
  <2>5. Commits({n})
    BY <1>u, <2>2, <2>3, <2>4 DEF Commits
  <2> QED BY <1>u, <1>1, <2>1, <2>5, FinishKeeps
<1> QED BY <1>3, <1>4

\* What a failed commit marks is its own archive or the boundary it could not write.
LEMMA Broken ==
  ASSUME SessionInv, ~unlocked, NEW n \in broken
  PROVE  /\ n \in Archive /\ pub[n] = "no" /\ work[n] = "none" /\ unsent(n)
         /\ arch[n].mark = "ready" => arch[n].messages # <<>>
         /\ \A j \in Archive : j < n => exists(j)
<1>0. n \in Archive /\ Shapes /\ ready(n)
  BY DEF broken, SessionInv
<1>1. CASE n = phase1.n /\ phase1.archived # <<>>
  <2>1. pub[n] = "no" /\ work[n] = "none"
    BY <1>1 DEF SessionInv, Writing
  <2>2. \A j \in Archive : j < n => exists(j)
    BY <1>1 DEF SessionInv, Newest
  <2> QED BY <1>0, <2>1, <2>2 DEF ready, unsent
<1>2. CASE n = phase1.n + 1 /\ phase1.at = "reset"
  <2>n. PICK m : m = phase1.n
    OBVIOUS
  <2>1. /\ m \in 0 .. MaxArchives /\ \A i \in Archive : i <= m => exists(i)
        /\ \A i \in Archive : i > m => ~exists(i)
    BY <1>2, <2>n, ResetUnderWay
  <2>2. n > m /\ \A j \in Archive : j < n => j <= m
    BY <1>2, <2>n, <2>1, ArchiveNumbers
  <2>3. ~exists(n) /\ \A j \in Archive : j < n => exists(j)
    BY <1>0, <2>1, <2>2
  <2>4. arch[n] = Empty /\ pub[n] = "no" /\ work[n] = "none" /\ unsent(n)
    BY <1>0, <2>3, Untouched
  <2> QED BY <1>0, <2>3, <2>4 DEF ready
<1> QED BY <1>1, <1>2 DEF broken

LEMMA FailPhase1Keeps ==
  ASSUME SessionInv, NEW marked \in SUBSET Archive, FailPhase1(marked)
  PROVE  SessionInv'
<1>0. Shapes /\ Contiguous /\ ~unlocked /\ \A n \in Archive : ready(n)
  BY DEF SessionInv, FailPhase1
<1>b. ASSUME NEW n \in marked
      PROVE  /\ n \in Archive /\ pub[n] = "no" /\ work[n] = "none" /\ unsent(n)
             /\ arch[n].mark = "ready" => arch[n].messages # <<>>
             /\ \A j \in Archive : j < n => exists(j)
  BY <1>0, Broken DEF FailPhase1
<1>1. /\ arch' \in [Archive -> ArchiveRecord]
      /\ \A i \in Archive \ marked : arch'[i] = arch[i]
      /\ \A i \in marked : /\ arch'[i].mark = arch[i].mark /\ arch'[i].messages = arch[i].messages
                           /\ arch'[i].failed = "failed"
  <2>1. arch' = [n \in Archive |-> IF n \in marked THEN [arch[n] EXCEPT !.failed = "failed"] ELSE arch[n]]
    BY DEF FailPhase1
  <2>2. arch \in [Archive -> ArchiveRecord]
    BY <1>0 DEF Shapes
  <2> QED BY <2>1, <2>2 DEF ArchiveRecord
<1>2. /\ lease' \in [Archive -> LeaseAt]
      /\ \A i \in Archive : lease'[i] = lease[i] \/ (pub[i] = "no" /\ lease[i] = "publisher")
  BY <1>0 DEF FailPhase1, Shapes, LeaseAt
<1>3. /\ UNCHANGED <<accepted, root, count, pub, work, msg, revived, twice, retries, restarts>>
      /\ phase1' = NoCommit
  BY DEF FailPhase1, messagevars, queuevars, deliveryvars, bounds
<1>4. Shapes'
  BY <1>0, <1>1, <1>2, <1>3, SameTypes, NoCommitType DEF Shapes
<1>5. ASSUME NEW n \in marked PROVE writes(n)
  <2>1. n \in Archive /\ pub[n] = "no" /\ work[n] = "none" /\ unsent(n)
    BY <1>b
  <2>2. pub'[n] = "no" /\ work'[n] = "none" /\ \A c \in Copy : msg'[n][c] = "none"
    BY <1>3, <2>1 DEF unsent
  <2>3. arch'[n].mark = "ready" => arch'[n].messages # <<>>
    BY <1>b, <1>1
  <2>4. ready(n)'
    BY <2>2, <2>3 DEF ready, has_work
  <2> QED BY <1>1, <1>3, <2>1, <2>2, <2>4 DEF writes, is_terminal
<1>6. Commits(marked)
  BY <1>1, <1>2, <1>3, <1>4, <1>5 DEF Commits
<1>7. Contiguous'
  <2>1. /\ \A i \in Archive \ marked : exists(i)' <=> exists(i)
        /\ \A i \in marked : exists(i)'
    BY <1>1 DEF exists, Empty
  <2>2. \A i \in Archive : exists(i) => exists(i)'
    BY <2>1
  <2>3. \A i \in Archive : exists(i)' => exists(i) \/ \A j \in Archive : j < i => exists(j)'
    BY <1>b, <2>1, <2>2
  <2>4. \A i \in Archive : i <= count' => i <= count \/ exists(i)'
    BY <1>3
  <2> QED BY <1>0, <2>2, <2>3, <2>4, GrowsKeeps, ArchiveNumbers
<1> QED BY <1>3, <1>6, <1>7, FinishKeeps

\* Messages and archives that were numbered below a bound are so when it grows.
LEMMA MoreMessages ==
  ASSUME accepted \in Nat, accepted' = accepted + 1
  PROVE  /\ MessageSeq \subseteq MessageSeq' /\ ArchiveRecord \subseteq ArchiveRecord'
         /\ CommitRecord \subseteq CommitRecord'
<1>1. 1 .. accepted \subseteq 1 .. accepted'
  OBVIOUS
<1>2. MessageSeq \subseteq MessageSeq'
  BY <1>1, SeqMonotonic DEF MessageSeq
<1> QED BY <1>2 DEF ArchiveRecord, CommitRecord

LEMMA AppendMessageKeeps ==
  ASSUME SessionInv, AppendMessage
  PROVE  SessionInv'
<1>0. Shapes /\ Contiguous /\ unlocked
  BY DEF SessionInv, AppendMessage
<1>1. /\ UNCHANGED <<count, arch, phase1, lease, pub, work, msg, revived, twice, retries, restarts>>
      /\ accepted' = accepted + 1 /\ root' = Append(root, accepted + 1) /\ accepted < MaxMessages
  BY DEF AppendMessage, queuevars, deliveryvars, bounds
<1>2. accepted \in Nat /\ accepted' \in 0 .. MaxMessages
  BY <1>0, <1>1, SessionAssumption DEF Shapes
<1>3. root' \in MessageSeq'
  <2>1. root \in MessageSeq'
    BY <1>0, <1>1, <1>2, MoreMessages DEF Shapes
  <2>2. accepted + 1 \in 1 .. accepted'
    BY <1>1, <1>2
  <2> QED BY <1>1, <2>1, <2>2, AppendProperties DEF MessageSeq
<1>4. arch' \in [Archive -> ArchiveRecord'] /\ phase1' \in CommitRecord'
  BY <1>0, <1>1, <1>2, MoreMessages DEF Shapes
<1>5. Shapes'
  BY <1>0, <1>1, <1>2, <1>3, <1>4 DEF Shapes, Archive
<1>6. Commits({})
  BY <1>1, <1>5 DEF Commits
<1>7. \A i \in Archive : ready(i)' /\ leased(i)' /\ sole(i)' /\ in_turn(i)' /\ orphan_idle(i)'
  BY <1>6, CommitsKeep
<1>8. Contiguous'
  BY <1>0, <1>1 DEF Contiguous, exists, Archive
<1>9. unlocked'
  BY <1>0, <1>1 DEF unlocked
<1> QED BY <1>5, <1>7, <1>8, <1>9 DEF SessionInv, Writing, Newest, Archive

\* The two parts of the root.
LEMMA Parts ==
  ASSUME root \in MessageSeq, NEW k \in Nat, k < Len(root),
         NEW a, NEW r, a = SubSeq(root, 1, Len(root) - k), r = SubSeq(root, Len(root) - k + 1, Len(root))
  PROVE  /\ a \in MessageSeq /\ r \in MessageSeq /\ a # <<>> /\ ToSet(root) \subseteq ToSet(a) \cup ToSet(r)
         /\ DOMAIN a = 1 .. Len(root) - k /\ \A i \in 1 .. Len(root) - k : a[i] = root[i]
         /\ DOMAIN r = 1 .. k /\ \A i \in 1 .. k : r[i] = root[Len(root) - k + i]
<1>1. Len(root) \in Nat /\ DOMAIN root = 1 .. Len(root) /\ \A i \in 1 .. Len(root) : root[i] \in 1 .. accepted
  BY LenProperties, ElementOfSeq DEF MessageSeq
<1> DEFINE l == Len(root)
<1> HIDE DEF l
<1>2. /\ a \in Seq(1 .. accepted) /\ Len(a) = l - k
      /\ \A i \in 1 .. l - k : a[i] = root[i]
  <2>1. \A i \in 1 .. l - k : root[i] \in 1 .. accepted
    BY <1>1 DEF l
  <2>2. l - k \in Int /\ 1 <= l - k /\ a = SubSeq(root, 1, l - k)
    BY <1>1 DEF l
  <2>3. /\ a \in Seq(1 .. accepted)
        /\ Len(a) = IF 1 <= l - k THEN (l - k) - 1 + 1 ELSE 0
        /\ \A i \in 1 .. (l - k) - 1 + 1 : a[i] = root[1 + i - 1]
    BY <2>1, <2>2, SubSeqProperties
  <2>4. \A i \in 1 .. l - k : a[i] = root[i]
    BY <1>1, <2>3 DEF l
  <2> QED BY <1>1, <2>2, <2>3, <2>4 DEF l
<1>3. /\ r \in Seq(1 .. accepted) /\ Len(r) = k
      /\ \A i \in 1 .. k : r[i] = root[l - k + i]
  <2> DEFINE p == l - k + 1
  <2> HIDE DEF p
  <2>1. p \in Int /\ l \in Int /\ r = SubSeq(root, p, l) /\ \A i \in p .. l : root[i] \in 1 .. accepted
    BY <1>1 DEF l, p
  <2>2. /\ r \in Seq(1 .. accepted) /\ Len(r) = IF p <= l THEN l - p + 1 ELSE 0
        /\ \A i \in 1 .. l - p + 1 : r[i] = root[p + i - 1]
    <3>1. /\ SubSeq(root, p, l) \in Seq(1 .. accepted)
          /\ Len(SubSeq(root, p, l)) = IF p <= l THEN l - p + 1 ELSE 0
          /\ \A i \in 1 .. l - p + 1 : SubSeq(root, p, l)[i] = root[p + i - 1]
      BY <2>1, SubSeqProperties
    <3> QED BY <2>1, <3>1, Zenon
  <2>3. l - p + 1 = k /\ (IF p <= l THEN k ELSE 0) = k
    BY <1>1 DEF l, p
  <2>4. ASSUME NEW i \in 1 .. k PROVE r[i] = root[l - k + i]
    <3>1. p + i - 1 = l - k + i
      BY <1>1 DEF l, p
    <3> QED BY <2>2, <2>3, <3>1
  <2> QED BY <2>2, <2>3, <2>4
<1>4. a # <<>>
  <2>1. l - k # 0
    <3>1. l \in Nat /\ k < l
      BY <1>1 DEF l
    <3> QED BY <3>1
  <2>2. Len(a) # 0
    BY <1>2, <2>1
  <2> QED BY <2>2, EmptySeq
<1>5. ASSUME NEW i \in 1 .. l PROVE root[i] \in ToSet(a) \cup ToSet(r)
  <2>1. DOMAIN a = 1 .. l - k /\ DOMAIN r = 1 .. k
    BY <1>2, <1>3, LenProperties
  <2>2. CASE i <= l - k
    <3>1. i \in 1 .. l - k /\ a[i] = root[i]
      <4>1. i \in 1 .. l - k
        BY <1>1, <2>2 DEF l
      <4> QED BY <1>2, <4>1
    <3> QED BY <2>1, <3>1 DEF ToSet
  <2>3. CASE i > l - k
    <3>1. i - (l - k) \in 1 .. k /\ l - k + (i - (l - k)) = i
      BY <1>1, <2>3 DEF l
    <3>2. r[i - (l - k)] = root[i]
      BY <1>3, <3>1
    <3> QED BY <2>1, <3>1, <3>2 DEF ToSet
  <2>4. i <= l - k \/ i > l - k
    BY <1>1 DEF l
  <2> QED BY <2>2, <2>3, <2>4
<1>6. ToSet(root) \subseteq ToSet(a) \cup ToSet(r)
  BY <1>1, <1>5 DEF ToSet, l
<1>7. DOMAIN a = 1 .. l - k /\ DOMAIN r = 1 .. k
  BY <1>2, <1>3, LenProperties
<1> QED BY <1>2, <1>3, <1>4, <1>6, <1>7 DEF MessageSeq, l

\* A new archive comes after all there are.
LEMMA NextIndex ==
  ASSUME SessionInv, NEW n \in Archive, is_next_index(n)
  PROVE  \A i \in Archive : (i < n => exists(i)) /\ (i >= n => ~exists(i))
<1>0. Contiguous /\ count \in Nat
  BY SessionAssumption DEF SessionInv, Shapes
<1>1. ASSUME NEW i \in Archive, i < n PROVE exists(i)
  <2>1. i <= count \/ i \in count + 1 .. n - 1
    BY <1>0, <1>1, ArchiveNumbers
  <2> QED BY <1>0, <1>1, <2>1 DEF is_next_index, Contiguous
<1>2. ASSUME NEW i \in Archive, i >= n PROVE ~exists(i)
  <2>1. i = n \/ n < i
    BY <1>2, ArchiveNumbers
  <2> QED BY <1>0, <2>1 DEF is_next_index, Contiguous
<1> QED BY <1>1, <1>2

LEMMA BeginCommitKeeps ==
  ASSUME SessionInv, NEW n \in Archive, NEW k \in 0 .. MaxMessages, NEW reset \in BOOLEAN,
         BeginCommit(n, k, reset)
  PROVE  SessionInv'
<1>0. Shapes /\ Contiguous /\ k \in Nat /\ k < Len(root) /\ root \in MessageSeq
  BY SessionAssumption DEF SessionInv, BeginCommit, Shapes
<1>1. PICK a, r : a = SubSeq(root, 1, Len(root) - k) /\ r = SubSeq(root, Len(root) - k + 1, Len(root))
  OBVIOUS
<1>2. phase1' = [at |-> "persist", n |-> n, archived |-> a, retained |-> r, wrote |-> {}, reset |-> reset]
  BY <1>1 DEF BeginCommit
<1>3. a \in MessageSeq /\ r \in MessageSeq /\ a # <<>>
  BY <1>0, <1>1, Parts
<1>4. n \in 0 .. MaxArchives
  BY ArchiveNumbers
<1>5. /\ phase1' \in CommitRecord /\ phase1'.at = "persist" /\ phase1'.n = n /\ phase1'.archived = a
      /\ phase1'.wrote = {} /\ phase1'.reset = reset
  BY <1>2, <1>3, <1>4 DEF CommitRecord, PhaseAt
<1>6. UNCHANGED <<accepted, root, count, arch, lease, pub, work, msg, revived, twice, retries, restarts>>
  BY DEF BeginCommit, messagevars, queuevars, deliveryvars, bounds
<1>7. Shapes'
  BY <1>0, <1>5, <1>6, SameTypes DEF Shapes
<1>8. Contiguous'
  BY <1>0, <1>6 DEF Contiguous, exists
<1>9. \A i \in Archive : (i < n => exists(i)) /\ (i >= n => ~exists(i))
  BY NextIndex DEF BeginCommit
<1>10. Writing'
  <2>1. ~exists(n)
    BY DEF BeginCommit, is_next_index
  <2>2. arch[n] = Empty /\ pub[n] = "no" /\ work[n] = "none"
    BY <2>1, Untouched
  <2> QED BY <1>5, <1>6, <2>2 DEF Writing, Empty
<1>11. Newest'
  <2>1. reset => n + 1 \in Archive
    <3>1. reset => n < MaxArchives
      BY DEF BeginCommit
    <3> QED BY <3>1, ArchiveNumbers DEF Archive
  <2>2. \A i \in Archive : i > n => i >= n
    BY ArchiveNumbers
  <2> QED BY <1>3, <1>5, <1>6, <1>9, <2>1, <2>2 DEF Newest, exists
<1>12. Commits({})
  BY <1>6, <1>7 DEF Commits
<1>13. \A i \in Archive : ready(i)' /\ leased(i)' /\ sole(i)' /\ in_turn(i)' /\ orphan_idle(i)'
  BY <1>12, CommitsKeep
<1> QED BY <1>7, <1>8, <1>10, <1>11, <1>13 DEF SessionInv, Archive

LEMMA BeginResetKeeps ==
  ASSUME SessionInv, NEW n \in Archive, BeginReset(n)
  PROVE  SessionInv'
<1>0. Shapes /\ Contiguous
  BY DEF SessionInv
<1>1. PICK m : m = n - 1
  OBVIOUS
<1>2. m \in 0 .. MaxArchives /\ m + 1 = n
  BY <1>1, ArchiveNumbers
<1>3. phase1' = [at |-> "reset", n |-> m, archived |-> <<>>, retained |-> <<>>, wrote |-> {}, reset |-> TRUE]
  BY <1>1 DEF BeginReset, NoCommit
<1>4. /\ phase1' \in CommitRecord /\ phase1'.at = "reset" /\ phase1'.n = m /\ phase1'.archived = <<>>
      /\ phase1'.reset = TRUE
  BY <1>2, <1>3, EmptySeq DEF CommitRecord, PhaseAt, MessageSeq
<1>5. UNCHANGED <<accepted, root, count, arch, lease, pub, work, msg, revived, twice, retries, restarts>>
  BY DEF BeginReset, messagevars, queuevars, deliveryvars, bounds
<1>6. Shapes'
  BY <1>0, <1>4, <1>5, SameTypes DEF Shapes
<1>7. Contiguous'
  BY <1>0, <1>5 DEF Contiguous, exists
<1>8. \A i \in Archive : (i < n => exists(i)) /\ (i >= n => ~exists(i))
  BY NextIndex DEF BeginReset
<1>9. Writing'
  BY <1>4 DEF Writing
<1>10. Newest'
  <2>1. \A i \in Archive : (i < m \/ i = m => i < n) /\ (i > m => i >= n)
    BY <1>2, ArchiveNumbers
  <2> QED BY <1>2, <1>4, <1>5, <1>8, <2>1 DEF Newest, exists, Archive
<1>11. Commits({})
  BY <1>5, <1>6 DEF Commits
<1>12. \A i \in Archive : ready(i)' /\ leased(i)' /\ sole(i)' /\ in_turn(i)' /\ orphan_idle(i)'
  BY <1>11, CommitsKeep
<1> QED BY <1>6, <1>7, <1>9, <1>10, <1>12 DEF SessionInv, Archive

\* A cancelled commit leaves everything as it is but its lease.
LEMMA CancelPhase1Keeps ==
  ASSUME SessionInv, CancelPhase1
  PROVE  SessionInv'
<1>0. Shapes /\ Contiguous
  BY DEF SessionInv
<1>1. /\ lease' \in [Archive -> LeaseAt]
      /\ \A i \in Archive : lease'[i] = lease[i] \/ (pub[i] = "no" /\ lease[i] = "publisher")
  BY <1>0 DEF CancelPhase1, Shapes, LeaseAt
<1>2. /\ UNCHANGED <<accepted, root, count, arch, pub, work, msg, revived, twice, retries, restarts>>
      /\ phase1' = NoCommit
  BY DEF CancelPhase1, messagevars, queuevars, deliveryvars, bounds
<1>3. Shapes'
  BY <1>0, <1>1, <1>2, SameTypes, NoCommitType DEF Shapes
<1>4. Commits({})
  BY <1>1, <1>2, <1>3 DEF Commits
<1>5. Contiguous'
  BY <1>0, <1>2 DEF Contiguous, exists
<1> QED BY <1>2, <1>4, <1>5, FinishKeeps

LEMMA CommitStepKeeps ==
  ASSUME SessionInv, CommitStep
  PROVE  SessionInv'
BY MarkerKeeps, WriteArchiveKeeps, CompleteKeeps, ReadyMarkerKeeps, AppendResetKeeps, SaveResetKeeps,
   CancelPhase1Keeps, FailPhase1Keeps DEF CommitStep

-----------------------------------------------------------------------------
(* Publication, retries and crashes leave the files alone *)

\* What is said of the files of the archives and of the commit alone.
LEMMA FilesKeep ==
  ASSUME SessionInv, UNCHANGED <<accepted, root, count, arch, phase1>>
  PROVE  Contiguous' /\ Newest'
<1>1. Contiguous'
  BY DEF SessionInv, Contiguous, exists, Archive
<1>2. Newest'
  BY DEF SessionInv, Newest, exists, Archive, unlocked
<1> QED BY <1>1, <1>2

LEMMA PublishKeeps ==
  ASSUME SessionInv, NEW n \in Archive, NEW ok \in BOOLEAN, Publish(n, ok)
  PROVE  SessionInv'
<1>0. /\ Shapes /\ Writing /\ \A i \in Archive : ready(i) /\ leased(i) /\ sole(i) /\ in_turn(i) /\ orphan_idle(i)
      /\ pub[n] = "publish"
  BY DEF SessionInv, Publish
<1>1. UNCHANGED <<accepted, root, count, arch, phase1, lease, revived, twice, retries, restarts>>
  BY DEF Publish, messagevars, bounds
<1>2. /\ pub' \in [Archive -> {"no", "publish", "release"}] /\ pub'[n] = "release"
      /\ \A i \in Archive \ {n} : pub'[i] = pub[i]
  BY <1>0 DEF Publish, Shapes
<1>a. work[n] = "none" /\ unsent(n)
  BY <1>0 DEF ready, unsent
<1>3. /\ work' \in [Archive -> WorkAt] /\ msg' \in [Archive -> [Copy -> MsgAt]]
      /\ \A i \in Archive \ {n} : work'[i] = work[i] /\ msg'[i] = msg[i]
      /\ \A c \in Copy \ {1} : msg'[n][c] = "none"
      /\ \/ work'[n] = "open" /\ msg'[n][1] = "pending" /\ 1 \in Copy
         \/ work'[n] = "none" /\ \A c \in Copy : msg'[n][c] = "none"
  <2>1. CASE ok
    <3>1. go(n, 1, "pending") /\ work' = [work EXCEPT ![n] = "open"]
      BY <2>1 DEF Publish, go
    <3>2. 1 \in Copy /\ "pending" \in MsgAt
      BY SessionAssumption DEF Copy, MsgAt
    <3>3. /\ msg' \in [Archive -> [Copy -> MsgAt]] /\ msg'[n][1] = "pending"
          /\ \A d \in Copy \ {1} : msg'[n][d] = msg[n][d]
          /\ \A i \in Archive \ {n} : msg'[i] = msg[i]
      BY <1>0, <3>1, <3>2, GoTypes
    <3>4. work' \in [Archive -> WorkAt] /\ work'[n] = "open" /\ \A i \in Archive \ {n} : work'[i] = work[i]
      BY <1>0, <3>1 DEF Shapes, WorkAt
    <3> QED BY <1>a, <3>2, <3>3, <3>4 DEF unsent
  <2>2. CASE ~ok
    BY <1>0, <1>a, <2>2 DEF Publish, Shapes, unsent
  <2> QED BY <2>1, <2>2
<1>b. \A c \in Copy : msg'[n][c] \in {"none", "pending"} /\ (msg'[n][c] = "pending" => c = 1)
  BY <1>3
<1>4. Shapes'
  BY <1>0, <1>1, <1>2, <1>3, SameTypes DEF Shapes
<1>5. Contiguous' /\ Newest'
  BY <1>1, FilesKeep
<1>6. Writing'
  <2> SUFFICES ASSUME ~unlocked, phase1.archived # <<>> PROVE Writing'
    BY <1>1 DEF Writing, unlocked
  <2>1. phase1.n # n /\ phase1.n \in Archive
    BY <1>0 DEF Writing
  <2>2. pub'[phase1.n] = pub[phase1.n] /\ work'[phase1.n] = work[phase1.n]
    BY <1>2, <1>3, <2>1
  <2> QED BY <1>0, <1>1, <2>2 DEF Writing
<1>7. ASSUME NEW i \in Archive PROVE ready(i)' /\ leased(i)' /\ sole(i)' /\ in_turn(i)' /\ orphan_idle(i)'
  <2>1. CASE i # n
    <3>1. msg'[i] = msg[i] /\ work'[i] = work[i] /\ pub'[i] = pub[i]
      BY <1>2, <1>3, <2>1
    <3> QED BY <1>0, <1>1, <3>1 DEF ready, leased, sole, in_turn, orphan_idle, has_work, is_terminal
  <2>2. CASE i = n
    <3>1. ready(n)'
      BY <1>0, <1>1, <1>2, <1>3, <1>b DEF ready, has_work
    <3>2. leased(n)' /\ in_turn(n)'
      BY <1>0, <1>1, <1>2, <1>b DEF leased, in_turn
    <3>3. sole(n)'
      BY <1>b DEF sole, Handled, Past, Live
    <3>4. orphan_idle(n)'
      BY <1>0, <1>1, <1>2 DEF orphan_idle
    <3> QED BY <2>2, <3>1, <3>2, <3>3, <3>4
  <2> QED BY <2>1, <2>2
<1> QED BY <1>4, <1>5, <1>6, <1>7 DEF SessionInv, Archive

\* The publication ends and its lease is released, or leaks.
LEMMA ReleaseKeeps ==
  ASSUME SessionInv, NEW n \in Archive, ReleasePublication(n) \/ CancelUnpublished(n)
  PROVE  SessionInv'
<1>0. /\ Shapes /\ Writing /\ \A i \in Archive : ready(i) /\ leased(i) /\ sole(i) /\ in_turn(i) /\ orphan_idle(i)
      /\ pub[n] \in {"publish", "release"}
  BY DEF SessionInv, ReleasePublication, CancelUnpublished
<1>1. UNCHANGED <<accepted, root, count, arch, phase1, work, msg, revived, twice, retries, restarts>>
  BY DEF ReleasePublication, CancelUnpublished, messagevars, deliveryvars, bounds
<1>2. /\ pub' \in [Archive -> {"no", "publish", "release"}] /\ pub'[n] = "no"
      /\ \A i \in Archive \ {n} : pub'[i] = pub[i]
  BY <1>0 DEF ReleasePublication, CancelUnpublished, Shapes
<1>3. /\ lease' \in [Archive -> LeaseAt]
      /\ \A i \in Archive \ {n} : lease'[i] = lease[i]
      /\ lease[n] = "publisher"
  BY <1>0 DEF ReleasePublication, CancelUnpublished, Shapes, leased, LeaseAt
<1>4. Shapes'
  BY <1>0, <1>1, <1>2, <1>3, SameTypes DEF Shapes
<1>5. Contiguous' /\ Newest'
  BY <1>1, FilesKeep
<1>6. Writing'
  <2> SUFFICES ASSUME ~unlocked, phase1.archived # <<>> PROVE Writing'
    BY <1>1 DEF Writing, unlocked
  <2>1. phase1.n # n /\ phase1.n \in Archive
    BY <1>0 DEF Writing
  <2>2. pub'[phase1.n] = pub[phase1.n] /\ lease'[phase1.n] = lease[phase1.n]
    BY <1>2, <1>3, <2>1
  <2> QED BY <1>0, <1>1, <2>2 DEF Writing
<1>7. ASSUME NEW i \in Archive PROVE ready(i)' /\ leased(i)' /\ sole(i)' /\ in_turn(i)' /\ orphan_idle(i)'
  <2>1. ready(i)'
    BY <1>0, <1>1, <1>2 DEF ready, has_work
  <2>2. leased(i)'
    <3>1. ASSUME NEW c \in Copy, msg[i][c] = "judge" PROVE lease'[i - 1] = lease[i - 1]
      <4>1. i > 1 /\ i - 1 \in Archive /\ lease[i - 1] = "judge"
        BY <1>0, <3>1, ArchiveNumbers DEF leased
      <4> QED BY <1>3, <4>1
    <3> QED BY <1>0, <1>1, <1>2, <1>3, <3>1 DEF leased
  <2>3. in_turn(i)' /\ sole(i)'
    BY <1>0, <1>1 DEF in_turn, sole, is_terminal
  <2>4. orphan_idle(i)'
    BY <1>0, <1>1, <1>2 DEF orphan_idle, has_work
  <2> QED BY <2>1, <2>2, <2>3, <2>4
<1> QED BY <1>4, <1>5, <1>6, <1>7 DEF SessionInv, Archive

\* The queue has no message of the session, so that no handler runs.
LEMMA RetryKeeps ==
  ASSUME SessionInv, NEW n \in Archive, RetryArchive(n)
  PROVE  SessionInv'
<1>0. /\ Shapes /\ Writing /\ \A i \in Archive : ready(i) /\ leased(i) /\ sole(i) /\ in_turn(i) /\ orphan_idle(i)
      /\ unlocked /\ arch[n].mark = "ready" /\ retries < MaxRetries
  BY DEF SessionInv, RetryArchive, tree_lockable
<1>1. /\ UNCHANGED <<accepted, root, count, arch, phase1, pub, lease, restarts>>
      /\ retries' = retries + 1
  BY DEF RetryArchive, messagevars
<1>2. /\ work' \in [Archive -> WorkAt]
      /\ work'[n] = "open" /\ \A i \in Archive \ {n} : work'[i] = work[i]
  BY <1>0 DEF RetryArchive, Shapes, WorkAt
<1>3. /\ revived' \in [Archive -> {"no", "asked", "active"}]
      /\ is_terminal(n) => revived'[n] = "asked"
      /\ \A i \in Archive \ {n} : revived'[i] = revived[i]
  BY <1>0 DEF RetryArchive, Shapes
<1>4. \A i \in Archive : unsent(i)
  BY DEF RetryArchive, unsent
<1>a. pub[n] = "no"
  <2>1. lease[n] = "free"
    BY DEF RetryArchive, tree_lockable
  <2> QED BY <1>0, <2>1 DEF leased
<1>b. /\ msg' \in [Archive -> [Copy -> MsgAt]] /\ msg'[n][1] = "pending" /\ 1 \in Copy
      /\ \A c \in Copy \ {1} : msg'[n][c] = "none"
      /\ \A i \in Archive \ {n} : msg'[i] = msg[i]
  <2>1. go(n, 1, "pending")
    BY DEF RetryArchive, go
  <2>2. 1 \in Copy /\ "pending" \in MsgAt
    BY SessionAssumption DEF Copy, MsgAt
  <2>3. /\ msg' \in [Archive -> [Copy -> MsgAt]] /\ msg'[n][1] = "pending"
        /\ \A d \in Copy \ {1} : msg'[n][d] = msg[n][d]
        /\ \A i \in Archive \ {n} : msg'[i] = msg[i]
    BY <1>0, <2>1, <2>2, GoTypes
  <2> QED BY <1>4, <2>2, <2>3 DEF unsent
<1>c. /\ \A i \in Archive, c \in Copy : msg'[i][c] \in {"none", "pending"} /\ (msg'[i][c] = "pending" => i = n /\ c = 1)
      /\ twice' \in SUBSET Archive
  <2>1. twice' \in SUBSET Archive
    BY <1>0 DEF RetryArchive, Shapes
  <2> QED BY <1>4, <1>b, <2>1 DEF unsent
<1>5. Shapes'
  <2>1. retries' \in 0 .. MaxRetries
    BY <1>0, <1>1, SessionAssumption DEF Shapes
  <2> QED BY <1>0, <1>1, <1>2, <1>3, <1>b, <1>c, <2>1, SameTypes DEF Shapes
<1>6. Contiguous' /\ Newest'
  BY <1>1, FilesKeep
<1>7. Writing'
  BY <1>0, <1>1 DEF Writing, unlocked
<1>8. ASSUME NEW i \in Archive PROVE ready(i)' /\ leased(i)' /\ sole(i)' /\ in_turn(i)' /\ orphan_idle(i)'
  <2>1. ready(i)'
    <3>1. CASE i = n
      BY <1>0, <1>1, <1>2, <1>a, <1>b, <3>1 DEF ready, has_work
    <3>2. CASE i # n
      <4>1. work'[i] = work[i] /\ msg'[i] = msg[i]
        BY <1>2, <1>b, <3>2
      <4> QED BY <1>0, <1>1, <4>1 DEF ready, has_work
    <3> QED BY <3>1, <3>2
  <2>2. leased(i)'
    BY <1>0, <1>1, <1>c DEF leased
  <2>3. in_turn(i)' /\ sole(i)'
    BY <1>c DEF in_turn, sole, Handled, Past, Live
  <2>4. orphan_idle(i)'
    BY <1>0, <1>1, <1>2, <1>3 DEF orphan_idle, has_work, is_terminal
  <2> QED BY <2>1, <2>2, <2>3, <2>4
<1> QED BY <1>5, <1>6, <1>7, <1>8 DEF SessionInv, Archive

LEMMA CrashKeeps ==
  ASSUME SessionInv, Crash
  PROVE  SessionInv'
<1>0. /\ Shapes /\ Contiguous /\ \A i \in Archive : ready(i) /\ orphan_idle(i)
      /\ restarts < MaxRestarts
  BY DEF SessionInv, Crash
<1>1. /\ UNCHANGED <<accepted, root, count, arch, work, revived, retries>>
      /\ restarts' = restarts + 1 /\ phase1' = NoCommit
  BY DEF Crash, messagevars
<1>2. /\ pub' \in [Archive -> {"no", "publish", "release"}] /\ msg' \in [Archive -> [Copy -> MsgAt]]
      /\ lease' \in [Archive -> LeaseAt] /\ \A i \in Archive : pub'[i] = "no"
      /\ \A i \in Archive, c \in Copy : msg'[i][c] = IF msg[i][c] = "none" THEN "none" ELSE "pending"
  BY DEF Crash, MsgAt, LeaseAt
<1>a. /\ twice' \in SUBSET Archive
      /\ \A i \in Archive \ twice' : \A c, d \in Copy : msg[i][c] # "none" /\ msg[i][d] # "none" => c = d
  BY <1>0 DEF Crash, Shapes
<1>3. Shapes'
  <2>1. restarts' \in 0 .. MaxRestarts
    BY <1>0, <1>1, SessionAssumption DEF Shapes
  <2> QED BY <1>0, <1>1, <1>2, <1>a, <2>1, SameTypes, NoCommitType DEF Shapes
<1>4. Contiguous'
  BY <1>0, <1>1 DEF Contiguous, exists, Archive
<1>5. Writing' /\ Newest'
  <2>1. unlocked'
    BY <1>1 DEF unlocked, NoCommit
  <2> QED BY <2>1 DEF Writing, Newest
<1>6. ASSUME NEW i \in Archive PROVE ready(i)' /\ leased(i)' /\ sole(i)' /\ in_turn(i)' /\ orphan_idle(i)'
  <2>1. ready(i)' /\ orphan_idle(i)'
    BY <1>0, <1>1, <1>2 DEF ready, orphan_idle, has_work
  <2>2. leased(i)' /\ in_turn(i)'
    BY <1>2 DEF leased, in_turn
  <2>3. sole(i)'
    BY <1>2, <1>a DEF sole, Handled, Past, Live
  <2> QED BY <2>1, <2>2, <2>3
<1> QED BY <1>3, <1>4, <1>5, <1>6 DEF SessionInv, Archive

LEMMA ExpiryKeeps ==
  ASSUME SessionInv, NEW n \in Archive, LeaseExpires(n)
  PROVE  SessionInv'
<1>0. /\ Shapes /\ Writing /\ \A i \in Archive : ready(i) /\ leased(i) /\ sole(i) /\ in_turn(i) /\ orphan_idle(i)
  BY DEF SessionInv
<1>1. UNCHANGED <<accepted, root, count, arch, phase1, pub, work, msg, revived, twice, retries, restarts>>
  BY DEF LeaseExpires, messagevars, queuevars, deliveryvars, bounds
<1>2. /\ lease' \in [Archive -> LeaseAt]
      /\ \A i \in Archive : lease[i] # "stale" => lease'[i] = lease[i]
  BY <1>0 DEF LeaseExpires, Shapes, LeaseAt
<1>3. Shapes'
  BY <1>0, <1>1, <1>2, SameTypes DEF Shapes
<1>4. Contiguous' /\ Newest'
  BY <1>1, FilesKeep
<1>5. Writing'
  BY <1>0, <1>1, <1>2 DEF Writing, unlocked
<1>6. ASSUME NEW i \in Archive PROVE ready(i)' /\ leased(i)' /\ sole(i)' /\ in_turn(i)' /\ orphan_idle(i)'
  <2>1. ready(i)' /\ orphan_idle(i)' /\ in_turn(i)' /\ sole(i)'
    BY <1>0, <1>1 DEF ready, orphan_idle, in_turn, sole, is_terminal, has_work
  <2>2. leased(i)'
    <3>1. ASSUME NEW c \in Copy, msg[i][c] = "judge" PROVE lease'[i - 1] = "judge"
      <4>1. i > 1 /\ lease[i - 1] = "judge"
        BY <1>0, <3>1 DEF leased
      <4>2. i - 1 \in Archive
        BY <4>1, ArchiveNumbers
      <4> QED BY <1>2, <4>1, <4>2
    <3> QED BY <1>0, <1>1, <1>2, <3>1 DEF leased
  <2> QED BY <2>1, <2>2
<1> QED BY <1>3, <1>4, <1>5, <1>6 DEF SessionInv, Archive

-----------------------------------------------------------------------------
LEMMA SessionStarts ==
  ASSUME SessionInit
  PROVE  SessionInv
<1>1. Empty \in ArchiveRecord /\ root \in MessageSeq
  BY EmptySeq DEF Empty, ArchiveRecord, MessageSeq, SessionInit
<1>2. Shapes
  BY <1>1, NoCommitType, SessionAssumption DEF SessionInit, Shapes, MsgAt, LeaseAt, WorkAt
<1>3. Contiguous
  BY ArchiveNumbers DEF SessionInit, Contiguous, exists
<1>4. unlocked
  BY DEF SessionInit, unlocked, NoCommit
<1>5. \A n \in Archive : ready(n) /\ leased(n) /\ sole(n) /\ in_turn(n) /\ orphan_idle(n)
  BY DEF SessionInit, ready, leased, sole, in_turn, orphan_idle, Empty, has_work, Live, Handled, Past
<1> QED BY <1>2, <1>3, <1>4, <1>5 DEF SessionInv, Writing, Newest

LEMMA SessionStepKeeps ==
  ASSUME SessionInv, [SessionNext]_vars
  PROVE  SessionInv'
<1>1. CASE UNCHANGED vars
  <2>1. UNCHANGED <<accepted, root, count, arch, phase1, lease, pub, work, msg, revived, twice, retries, restarts>>
    BY <1>1 DEF vars, messagevars, queuevars, deliveryvars, bounds
  <2>2. Shapes'
    BY <2>1, SameTypes DEF SessionInv, Shapes
  <2>3. Commits({})
    BY <2>1, <2>2 DEF Commits
  <2>4. Contiguous' /\ Newest'
    BY <2>1, FilesKeep
  <2>5. Writing'
    BY <2>1 DEF SessionInv, Writing, unlocked
  <2>6. \A i \in Archive : ready(i)' /\ leased(i)' /\ sole(i)' /\ in_turn(i)' /\ orphan_idle(i)'
    BY <2>3, CommitsKeep
  <2> QED BY <2>2, <2>4, <2>5, <2>6 DEF SessionInv, Archive
<1>2. CASE SessionNext
  <2>1. ASSUME NEW n \in Archive, PublishStep(n) PROVE SessionInv'
    BY <2>1, PublishKeeps, ReleaseKeeps DEF PublishStep
  <2> QED BY <1>2, <2>1, AppendMessageKeeps, CommitStepKeeps, CrashKeeps, BeginResetKeeps,
             BeginCommitKeeps, HandlerKeeps, CancelTaskKeeps, RetryKeeps, ExpiryKeeps DEF SessionNext
<1> QED BY <1>1, <1>2

\* What holds of a session at all times, for any number of messages, archives, retries and
\* crashes: archives have no gaps, the one being committed is nobody else's, whoever
\* publishes or judges one holds its lease, handlers wait for their turn, and unless a
\* crash left two messages of an archive only one of them is before its acknowledgement.
THEOREM SessionInvariant == SessionSpec => []SessionInv
<1>1. SessionInit => SessionInv
  BY SessionStarts
<1>2. SessionInv /\ [SessionNext]_vars => SessionInv'
  BY SessionStepKeeps
<1> QED BY <1>1, <1>2, PTL DEF SessionSpec

\* The variables have their types, and work is queued only for archives that are ready
\* and have messages.
THEOREM SessionTypes == SessionSpec => []SessionTypeOK
<1>1. ASSUME SessionInv PROVE SessionTypeOK
  <2>1. Shapes /\ \A n \in Archive : ready(n)
    BY <1>1 DEF SessionInv
  <2>2. /\ DOMAIN arch = Archive
        /\ phase1.at \in {"idle", "persist", "meta", "lease", "ready", "reset", "boundary"}
    BY <2>1 DEF Shapes, CommitRecord, PhaseAt
  <2>3. ASSUME NEW n \in Archive
        PROVE  /\ arch[n].mark \in {"none", "preparing", "ready"} /\ arch[n].messages \in Seq(1 .. accepted)
               /\ arch[n].done \in {"no", "done", "reset"} /\ arch[n].failed \in {"no", "failed", "missing"}
    BY <2>1 DEF Shapes, ArchiveRecord, MessageSeq
  <2>4. \A n \in Archive : work[n] # "none" => arch[n].mark = "ready" /\ arch[n].messages # <<>>
    BY <2>1 DEF ready
  <2>5. \A n \in Archive : has_work(n) => \E c \in Copy : msg[n][c] # "none"
    BY <2>1 DEF ready
  <2> QED BY <2>1, <2>2, <2>3, <2>4, <2>5 DEF SessionTypeOK, Shapes, MessageSeq, MsgAt, LeaseAt, WorkAt
<1> QED BY <1>1, SessionInvariant, PTL

\* _can_run_archive, _ensure_phase1_ready and the judgement of orphans let an archive
\* extract only in its turn, whatever crashes, is cancelled or is retried meanwhile and
\* however many messages of it are handled; a message that is replaced is given up, so
\* that without a crash one handler extracts.
THEOREM ArchivesExtractInTurn == SessionSpec => []ExtractsInTurn
<1>1. ASSUME SessionInv PROVE ExtractsInTurn
  BY <1>1 DEF SessionInv, in_turn, sole, ExtractsInTurn, Handled, Past, Live
<1> QED BY <1>1, SessionInvariant, PTL

\* The publication lease, held from before the archive is ready until its work is open,
\* keeps an archive that will have work from being declared an orphan.
THEOREM OrphansStayWithoutWork == SessionSpec => []OrphansHaveNoWork
<1>1. ASSUME SessionInv PROVE OrphansHaveNoWork
  BY <1>1 DEF SessionInv, orphan_idle, OrphansHaveNoWork
<1> QED BY <1>1, SessionInvariant, PTL

-----------------------------------------------------------------------------
(* Messages *)

\* No archive's messages change.
SameMessages == \A n \in Archive : arch'[n].messages = arch[n].messages

\* The parts into which a commit has split the root are the same, or not used any more.
SameParts ==
  phase1'.at = "persist" =>
    phase1.at = "persist" /\ phase1'.archived = phase1.archived /\ phase1'.retained = phase1.retained

\* What a handler or a cancelled task does to the archives.
marks(n) ==
  /\ quiet
  /\ \/ arch' = arch \/ arch' = [arch EXCEPT ![n].done = "done"]
     \/ \E k \in {n, n - 1}, f \in {"failed", "missing"} : arch' = [arch EXCEPT ![k].failed = f]
     \/ (\E c \in Copy : msg[n][c] = "look") /\ arch' = [arch EXCEPT ![n].failed = "no"]

LEMMA HandlersMark ==
  ASSUME NEW n \in Archive,
         (\E c \in Copy : HandlerStep(n, c)) \/ (\E kept \in SUBSET Copy : CancelTask(n, kept))
  PROVE  marks(n)
<1>1. ASSUME NEW c \in Copy, HandlerStep(n, c) PROVE marks(n)
  <2>1. CASE \/ Deliver(n, c) \/ Resume(n, c) \/ CanRunArchive(n, c) \/ Probe(n, c) \/ Requeue(n, c)
             \/ Settle(n, c) \/ Ack(n, c, TRUE) \/ Ack(n, c, FALSE) \/ HandlerRaises(n, c)
             \/ HandlerLeaves(n, c)
    BY <2>1 DEF Deliver, Resume, CanRunArchive, Probe, Requeue, Settle, Ack, HandlerRaises,
                HandlerLeaves, marks
  <2>2. CASE DeliverLate(n, c) \/ FailUnready(n, c) \/ Judge(n, c)
    BY <2>2 DEF DeliverLate, FailUnready, Judge, fail_archive, marks
  <2>3. CASE ActivateRecovery(n, c)
    BY <2>3 DEF ActivateRecovery, marks
  <2>4. CASE Extract(n, c, TRUE) \/ Extract(n, c, FALSE)
    BY <2>4 DEF Extract, fail_archive, marks
  <2> QED BY <1>1, <2>1, <2>2, <2>3, <2>4 DEF HandlerStep
<1>2. ASSUME NEW kept, CancelTask(n, kept) PROVE marks(n)
  <2>1. arch' = arch \/ fail_archive(n, "failed")
    BY <1>2 DEF CancelTask
  <2>2. quiet
    BY <1>2 DEF CancelTask
  <2> QED BY <2>1, <2>2 DEF fail_archive, marks
<1> QED BY <1>1, <1>2

LEMMA HandlersSpareMessages ==
  ASSUME Shapes, NEW n \in Archive, marks(n)
  PROVE  UNCHANGED <<accepted, root>> /\ SameMessages /\ SameParts
<1>1. quiet
  BY DEF marks
<1>2. \/ arch' = arch \/ arch' = [arch EXCEPT ![n].done = "done"]
      \/ \E i \in {n, n - 1}, s \in {"no", "failed", "missing"} : arch' = [arch EXCEPT ![i].failed = s]
  BY DEF marks
<1>3. SameMessages
  <2>1. CASE arch' = arch
    BY <2>1 DEF SameMessages
  <2>2. CASE arch' = [arch EXCEPT ![n].done = "done"]
    BY <2>2 DEF SameMessages, Shapes, ArchiveRecord
  <2>3. ASSUME NEW i, NEW s, arch' = [arch EXCEPT ![i].failed = s] PROVE SameMessages
    BY <2>3 DEF SameMessages, Shapes, ArchiveRecord
  <2> QED BY <1>2, <2>1, <2>2, <2>3
<1> QED BY <1>1, <1>3 DEF quiet, messagevars, SameParts

LEMMA CommitSparesMessages ==
  ASSUME Shapes, WritePhase1Marker \/ SaveMeta \/ TakePublicationLease \/ WriteReadyMarker
                 \/ AppendContextReset \/ SaveResetMeta \/ CancelPhase1
                 \/ \E marked \in SUBSET Archive : FailPhase1(marked)
  PROVE  UNCHANGED <<accepted, root>> /\ SameMessages /\ SameParts
<1>0. NoCommit.at = "idle"
  BY DEF NoCommit
<1>1. CASE WritePhase1Marker
  <2>1. arch' = [arch EXCEPT ![phase1.n].mark = "preparing"]
    BY <1>1 DEF WritePhase1Marker
  <2>2. SameMessages
    BY <2>1 DEF Shapes, ArchiveRecord, SameMessages
  <2> QED BY <1>1, <2>2 DEF WritePhase1Marker, messagevars, SameParts, Shapes, CommitRecord
<1>2. CASE SaveMeta \/ TakePublicationLease
  BY <1>2 DEF SaveMeta, TakePublicationLease, messagevars, SameMessages, SameParts, Shapes, CommitRecord
<1>3. CASE WriteReadyMarker
  <2>1. arch' = [arch EXCEPT ![phase1.n].mark = "ready"]
    BY <1>3 DEF WriteReadyMarker
  <2>2. SameMessages
    BY <2>1 DEF Shapes, ArchiveRecord, SameMessages
  <2>3. phase1' = NoCommit \/ phase1' = [phase1 EXCEPT !.at = "reset"]
    BY <1>3 DEF WriteReadyMarker, finish_phase1
  <2> QED BY <1>0, <1>3, <2>2, <2>3 DEF WriteReadyMarker, messagevars, SameParts, Shapes, CommitRecord
<1>4. CASE AppendContextReset
  <2>1. arch' = arch \/ arch' = [arch EXCEPT ![phase1.n + 1].done = "reset"]
    BY <1>4 DEF AppendContextReset
  <2>2. SameMessages
    BY <2>1 DEF Shapes, ArchiveRecord, SameMessages
  <2>3. phase1' = NoCommit \/ phase1' = [phase1 EXCEPT !.at = "boundary"]
    BY <1>4 DEF AppendContextReset, finish_phase1
  <2> QED BY <1>0, <1>4, <2>2, <2>3 DEF AppendContextReset, messagevars, SameParts, Shapes, CommitRecord
<1>5. CASE SaveResetMeta \/ CancelPhase1
  BY <1>0, <1>5 DEF SaveResetMeta, CancelPhase1, finish_phase1, messagevars, SameMessages, SameParts
<1>6. ASSUME NEW marked, FailPhase1(marked)
      PROVE  UNCHANGED <<accepted, root>> /\ SameMessages /\ SameParts
  <2>1. SameMessages
    BY <1>6 DEF FailPhase1, Shapes, ArchiveRecord, SameMessages
  <2> QED BY <1>0, <1>6, <2>1 DEF FailPhase1, messagevars, SameParts
<1> QED BY <1>1, <1>2, <1>3, <1>4, <1>5, <1>6

\* Only four steps concern messages.
LEMMA MessagesMove ==
  ASSUME SessionInv, [SessionNext]_vars
  PROVE  \/ UNCHANGED <<accepted, root>> /\ SameMessages /\ SameParts
         \/ AppendMessage \/ WriteArchive \/ RewriteRoot
         \/ \E n \in Archive, k \in 0 .. MaxMessages, reset \in BOOLEAN : BeginCommit(n, k, reset)
<1>0. Shapes /\ NoCommit.at = "idle"
  BY DEF SessionInv, NoCommit
<1>1. CASE UNCHANGED vars
  BY <1>1 DEF vars, messagevars, SameMessages, SameParts
<1>2. CASE Crash
  BY <1>0, <1>2 DEF Crash, messagevars, SameMessages, SameParts
<1>3. ASSUME NEW n \in Archive, PublishStep(n) \/ RetryArchive(n) \/ LeaseExpires(n)
      PROVE  UNCHANGED <<accepted, root>> /\ SameMessages /\ SameParts
  BY <1>3 DEF PublishStep, CancelUnpublished, Publish, ReleasePublication, RetryArchive, LeaseExpires, messagevars,
              SameMessages, SameParts
<1>4. ASSUME NEW n \in Archive, BeginReset(n)
      PROVE  UNCHANGED <<accepted, root>> /\ SameMessages /\ SameParts
  BY <1>4 DEF BeginReset, NoCommit, messagevars, SameMessages, SameParts
<1>5. ASSUME NEW n \in Archive,
             (\E c \in Copy : HandlerStep(n, c)) \/ (\E kept \in SUBSET Copy : CancelTask(n, kept))
      PROVE  UNCHANGED <<accepted, root>> /\ SameMessages /\ SameParts
  BY <1>0, <1>5, HandlersMark, HandlersSpareMessages
<1>6. CASE SessionNext
  BY <1>0, <1>2, <1>3, <1>4, <1>5, <1>6, CommitSparesMessages DEF SessionNext, CommitStep
<1> QED BY <1>1, <1>6

LEMMA LossKeeps ==
  ASSUME LossInv, [SessionNext]_vars
  PROVE  LossInv'
<1>0. SessionInv /\ Shapes /\ RootSafe /\ NoMessageLost /\ SessionInv'
  BY SessionStepKeeps DEF LossInv, SessionInv
<1>1. CASE UNCHANGED <<accepted, root>> /\ SameMessages /\ SameParts
  <2>1. RootSafe'
    BY <1>0, <1>1 DEF RootSafe, SameParts
  <2>2. NoMessageLost'
    BY <1>0, <1>1 DEF NoMessageLost, SameMessages, kept_in, Archive
  <2> QED BY <1>0, <2>1, <2>2 DEF LossInv
<1>2. CASE AppendMessage
  <2>1. /\ accepted' = accepted + 1 /\ root' = Append(root, accepted + 1) /\ arch' = arch
        /\ phase1' = phase1 /\ phase1.at = "idle" /\ accepted \in Nat
    BY <1>0, <1>2, SessionAssumption DEF AppendMessage, unlocked, Shapes
  <2>2. RootSafe'
    BY <2>1 DEF RootSafe
  <2>3. ToSet(root) \cup {accepted + 1} \subseteq ToSet(root')
    <3>1. root \in Seq(1 .. accepted + 1) /\ accepted + 1 \in 1 .. accepted + 1
      BY <1>0, <2>1, MoreMessages DEF Shapes, MessageSeq
    <3>2. /\ root' \in Seq(1 .. accepted + 1) /\ Len(root') = Len(root) + 1
          /\ \A i \in 1 .. Len(root) : root'[i] = root[i]
          /\ root'[Len(root) + 1] = accepted + 1
      BY <2>1, <3>1, AppendProperties
    <3>3. Len(root) \in Nat /\ DOMAIN root = 1 .. Len(root) /\ DOMAIN root' = 1 .. Len(root) + 1
      BY <3>1, <3>2, LenProperties
    <3>4. \A i \in DOMAIN root : i \in DOMAIN root' /\ root'[i] = root[i]
      BY <3>2, <3>3
    <3>5. Len(root) + 1 \in DOMAIN root'
      BY <3>3
    <3> QED BY <3>2, <3>4, <3>5 DEF ToSet
  <2>4. NoMessageLost'
    <3> SUFFICES ASSUME NEW m \in 1 .. accepted + 1
                 PROVE  m \in ToSet(root') \/ \E n \in Archive : m \in ToSet(arch'[n].messages)
      BY <2>1 DEF NoMessageLost, kept_in, Archive
    <3>1. m \in 1 .. accepted \/ m = accepted + 1
      BY <2>1
    <3> QED BY <1>0, <2>1, <2>3, <3>1 DEF NoMessageLost, kept_in
  <2> QED BY <1>0, <2>2, <2>4 DEF LossInv
<1>3. CASE WriteArchive
  <2>n. PICK n : n = phase1.n
    OBVIOUS
  <2>0. mine(n) /\ n \in Archive
    BY <1>0, <1>3, <2>n, UnderWay DEF WriteArchive, mine
  <2>1. /\ \A i \in Archive \ {n} : arch'[i] = arch[i]
        /\ arch'[n].messages = phase1.archived
    <3>1. arch' = [arch EXCEPT ![n].messages = phase1.archived]
      BY <1>3, <2>n DEF WriteArchive
    <3> QED BY <1>0, <2>0, <3>1 DEF Shapes, ArchiveRecord
  <2>2. /\ UNCHANGED <<accepted, root>> /\ phase1.at = "persist"
        /\ phase1'.archived = phase1.archived /\ phase1'.retained = phase1.retained
    BY <1>0, <1>3 DEF WriteArchive, messagevars, Shapes, CommitRecord
  <2>3. RootSafe'
    BY <1>0, <2>2 DEF RootSafe
  <2>4. ToSet(arch[n].messages) \subseteq ToSet(arch'[n].messages)
    BY <2>0, <2>1 DEF mine, ToSet
  <2>5. NoMessageLost'
    BY <1>0, <2>0, <2>1, <2>2, <2>4 DEF NoMessageLost, kept_in, Archive
  <2> QED BY <1>0, <2>3, <2>5 DEF LossInv
<1>4. CASE RewriteRoot
  <2>n. PICK n : n = phase1.n
    OBVIOUS
  <2>0. mine(n) /\ n \in Archive /\ arch[n].messages = phase1.archived
    BY <1>0, <1>4, <2>n, UnderWay DEF RewriteRoot, mine
  <2>1. /\ UNCHANGED <<accepted, arch>> /\ phase1.at = "persist" /\ root' = phase1.retained
        /\ phase1'.at = "meta"
    BY <1>0, <1>4 DEF RewriteRoot, Shapes, CommitRecord
  <2>2. RootSafe'
    BY <2>1 DEF RootSafe
  <2>3. ToSet(root) \subseteq kept_in(n) \cup ToSet(root')
    BY <1>0, <2>0, <2>1 DEF RootSafe, kept_in
  <2>4. NoMessageLost'
    BY <1>0, <2>0, <2>1, <2>3 DEF NoMessageLost, kept_in, Archive
  <2> QED BY <1>0, <2>2, <2>4 DEF LossInv
<1>5. ASSUME NEW n \in Archive, NEW k \in 0 .. MaxMessages, NEW reset \in BOOLEAN, BeginCommit(n, k, reset)
      PROVE  LossInv'
  <2>1. k \in Nat /\ k < Len(root) /\ root \in MessageSeq
    BY <1>0, <1>5, SessionAssumption DEF BeginCommit, Shapes
  <2>2. PICK a, r : a = SubSeq(root, 1, Len(root) - k) /\ r = SubSeq(root, Len(root) - k + 1, Len(root))
    OBVIOUS
  <2>3. phase1'.archived = a /\ phase1'.retained = r
    BY <1>5, <2>2 DEF BeginCommit
  <2>4. UNCHANGED <<accepted, root, arch>>
    BY <1>5 DEF BeginCommit, messagevars
  <2>5. ToSet(root) \subseteq ToSet(a) \cup ToSet(r)
    BY <2>1, <2>2, Parts
  <2>6. RootSafe'
    BY <2>3, <2>4, <2>5 DEF RootSafe
  <2>7. NoMessageLost'
    BY <1>0, <2>4 DEF NoMessageLost, kept_in, Archive
  <2> QED BY <1>0, <2>6, <2>7 DEF LossInv
<1> QED BY <1>0, <1>1, <1>2, <1>3, <1>4, <1>5, MessagesMove

\* Whatever write of Phase 1 fails and wherever the process dies, a message that was
\* accepted is live or in an archive: the archive is written before the root, at a number
\* that had none.
THEOREM MessagesAreKept == ContextSpec => []NoMessageLost
<1>1. ContextInit => LossInv
  <2> SUFFICES ASSUME ContextInit PROVE LossInv
    OBVIOUS
  <2>1. SessionInv
    BY SessionStarts DEF ContextInit
  <2>2. RootSafe /\ NoMessageLost
    BY DEF ContextInit, SessionInit, NoCommit, RootSafe, NoMessageLost
  <2> QED BY <2>1, <2>2 DEF LossInv
<1>2. LossInv /\ [ContextNext]_cvars => LossInv'
  <2>1. [ContextNext]_cvars => [SessionNext]_vars
    BY DEF ContextNext, cvars, ReadStep, Load, List, Scan, ReadMessages, Merge, Return
  <2> QED BY <2>1, LossKeeps
<1>3. LossInv => NoMessageLost
  BY DEF LossInv
<1> QED BY <1>1, <1>2, <1>3, PTL DEF ContextSpec

-----------------------------------------------------------------------------
(* The order of messages *)

Ascending(s) == \A i, j \in DOMAIN s : i < j => s[i] < s[j]

\* What was accepted before a message of the archive n is in n or in an earlier one.
backed(n) ==
  \A m \in kept_in(n), y \in 1 .. accepted : y < m => \E i \in 1 .. n : y \in kept_in(i)

\* A commit archives the older messages.
split ==
  /\ Ascending(phase1.archived) /\ Ascending(phase1.retained)
  /\ \A x \in ToSet(phase1.archived), y \in ToSet(phase1.retained) : x < y

Ordered ==
  /\ Ascending(root) /\ \A n \in Archive : Ascending(arch[n].messages) /\ backed(n)
  /\ phase1.at = "persist" => split

LEMMA PartsInOrder ==
  ASSUME root \in MessageSeq, Ascending(root), NEW k \in Nat, k < Len(root),
         NEW a, NEW r, a = SubSeq(root, 1, Len(root) - k), r = SubSeq(root, Len(root) - k + 1, Len(root))
  PROVE  Ascending(a) /\ Ascending(r) /\ \A x \in ToSet(a), y \in ToSet(r) : x < y
<1>1. /\ DOMAIN a = 1 .. Len(root) - k /\ \A i \in 1 .. Len(root) - k : a[i] = root[i]
      /\ DOMAIN r = 1 .. k /\ \A i \in 1 .. k : r[i] = root[Len(root) - k + i]
  BY Parts
<1>2. Len(root) \in Nat /\ DOMAIN root = 1 .. Len(root)
  BY LenProperties DEF MessageSeq
<1>3. PICK l \in Nat : l = Len(root) /\ k < l
  BY <1>2
<1>4. Ascending(a)
  <2> SUFFICES ASSUME NEW i \in DOMAIN a, NEW j \in DOMAIN a, i < j PROVE a[i] < a[j]
    BY DEF Ascending
  <2>1. i \in 1 .. l - k /\ j \in 1 .. l - k /\ i \in 1 .. l /\ j \in 1 .. l
    BY <1>1, <1>3
  <2> QED BY <1>1, <1>2, <1>3, <2>1 DEF Ascending
<1>5. Ascending(r)
  <2> SUFFICES ASSUME NEW i \in DOMAIN r, NEW j \in DOMAIN r, i < j PROVE r[i] < r[j]
    BY DEF Ascending
  <2>1. i \in 1 .. k /\ j \in 1 .. k
    BY <1>1
  <2>2. l - k + i \in 1 .. l /\ l - k + j \in 1 .. l /\ l - k + i < l - k + j
    BY <1>3, <2>1
  <2>3. r[i] = root[l - k + i] /\ r[j] = root[l - k + j]
    BY <1>1, <1>3, <2>1
  <2> QED BY <1>2, <1>3, <2>2, <2>3 DEF Ascending
<1>6. ASSUME NEW x \in ToSet(a), NEW y \in ToSet(r) PROVE x < y
  <2>1. PICK i \in 1 .. l - k, j \in 1 .. k : x = a[i] /\ y = r[j]
    BY <1>1, <1>3 DEF ToSet
  <2>2. i \in 1 .. l /\ l - k + j \in 1 .. l /\ i < l - k + j
    BY <1>3, <2>1
  <2> QED BY <1>1, <1>2, <1>3, <2>1, <2>2 DEF Ascending
<1> QED BY <1>4, <1>5, <1>6

\* The messages of an archive are numbers of messages.
LEMMA KeptNumbers ==
  ASSUME Shapes, NEW n \in Archive
  PROVE  arch[n].messages \in Seq(1 .. accepted) /\ kept_in(n) \subseteq 1 .. accepted /\ accepted \in Nat
<1>1. arch[n].messages \in Seq(1 .. accepted) /\ accepted \in Nat
  BY SessionAssumption DEF Shapes, ArchiveRecord, MessageSeq
<1> QED BY <1>1, ElementOfSeq, LenProperties DEF kept_in, ToSet

LEMMA OrderKeeps ==
  ASSUME LossInv, Ordered, [SessionNext]_vars
  PROVE  Ordered'
<1>0. SessionInv /\ Shapes /\ RootSafe /\ NoMessageLost /\ Archive' = Archive
  BY DEF LossInv, SessionInv, Archive
<1>1. CASE UNCHANGED <<accepted, root>> /\ SameMessages /\ SameParts
  <2>1. \A n \in Archive : kept_in(n)' = kept_in(n)
    BY <1>1 DEF SameMessages, kept_in
  <2>2. ASSUME NEW n \in Archive PROVE backed(n)'
    <3>1. \A i \in 1 .. n : i \in Archive
      BY ArchiveNumbers DEF Archive
    <3> QED BY <1>1, <2>1, <3>1 DEF Ordered, backed
  <2>3. phase1'.at = "persist" => split'
    BY <1>1 DEF SameParts, Ordered, split
  <2> QED BY <1>0, <1>1, <2>2, <2>3 DEF Ordered, SameMessages
<1>2. CASE AppendMessage
  <2>1. /\ accepted' = accepted + 1 /\ root' = Append(root, accepted + 1) /\ arch' = arch
        /\ phase1' = phase1 /\ phase1.at = "idle" /\ accepted \in Nat
    BY <1>0, <1>2, SessionAssumption DEF AppendMessage, unlocked, Shapes
  <2>2. Ascending(root')
    <3>1. root \in Seq(Nat) /\ \A i \in DOMAIN root : root[i] <= accepted
      BY <1>0, <2>1, ElementOfSeq, LenProperties, SeqMonotonic DEF Shapes, MessageSeq
    <3>2. /\ root' \in Seq(Nat) /\ Len(root') = Len(root) + 1
          /\ \A i \in 1 .. Len(root) : root'[i] = root[i]
          /\ root'[Len(root) + 1] = accepted + 1
      BY <2>1, <3>1, AppendProperties
    <3>3. Len(root) \in Nat /\ DOMAIN root = 1 .. Len(root) /\ DOMAIN root' = 1 .. Len(root) + 1
      BY <3>1, <3>2, LenProperties
    <3> SUFFICES ASSUME NEW i \in 1 .. Len(root) + 1, NEW j \in 1 .. Len(root) + 1, i < j
                 PROVE  root'[i] < root'[j]
      BY <3>3 DEF Ascending
    <3>4. i \in 1 .. Len(root) /\ (j \in 1 .. Len(root) \/ j = Len(root) + 1)
      BY <3>3
    <3>5. root[i] \in Nat /\ root[i] <= accepted
      BY <3>1, <3>3, <3>4, ElementOfSeq
    <3> QED BY <2>1, <3>2, <3>3, <3>4, <3>5 DEF Ordered, Ascending
  <2>3. ASSUME NEW n \in Archive PROVE backed(n)'
    <3> SUFFICES ASSUME NEW m \in kept_in(n), NEW y \in 1 .. accepted + 1, y < m
                 PROVE  \E i \in 1 .. n : y \in kept_in(i)
      BY <2>1 DEF backed, kept_in
    <3>1. m \in 1 .. accepted
      BY <1>0, KeptNumbers
    <3>2. y \in 1 .. accepted
      BY <2>1, <3>1
    <3> QED BY <3>2 DEF Ordered, backed
  <2> QED BY <1>0, <2>1, <2>2, <2>3 DEF Ordered
<1>3. CASE WriteArchive
  <2>n. PICK n : n = phase1.n
    OBVIOUS
  <2>0. mine(n) /\ n \in Archive
    BY <1>0, <1>3, <2>n, UnderWay DEF WriteArchive, mine
  <2>1. /\ \A i \in Archive \ {n} : arch'[i] = arch[i]
        /\ arch'[n].messages = phase1.archived
    <3>1. arch' = [arch EXCEPT ![n].messages = phase1.archived]
      BY <1>3, <2>n DEF WriteArchive
    <3> QED BY <1>0, <2>0, <3>1 DEF Shapes, ArchiveRecord
  <2>2. /\ UNCHANGED <<accepted, root>> /\ phase1.at = "persist" /\ split
        /\ phase1'.archived = phase1.archived /\ phase1'.retained = phase1.retained
    BY <1>0, <1>3 DEF WriteArchive, messagevars, Shapes, CommitRecord, Ordered
  <2>3. \A i \in Archive : kept_in(i) \subseteq kept_in(i)' /\ (i # n => kept_in(i)' = kept_in(i))
    BY <2>0, <2>1 DEF mine, kept_in, ToSet
  <2>4. ASSUME NEW i \in Archive PROVE Ascending(arch'[i].messages)
    BY <2>1, <2>2 DEF Ordered, split
  <2>5. ASSUME NEW i \in Archive PROVE backed(i)'
    <3> SUFFICES ASSUME NEW m \in kept_in(i)', NEW y \in 1 .. accepted, y < m
                 PROVE  \E j \in 1 .. i : y \in kept_in(j)'
      BY <2>2 DEF backed
    <3>1. \A j \in 1 .. i : j \in Archive
      BY ArchiveNumbers DEF Archive
    <3>2. CASE i # n
      <4>1. PICK j \in 1 .. i : y \in kept_in(j)
        BY <2>3, <3>2 DEF Ordered, backed
      <4> QED BY <2>3, <3>1, <4>1
    <3>3. CASE i = n
      <4>1. m \in ToSet(phase1.archived) /\ i \in 1 .. i
        BY <2>1, <3>3, ArchiveNumbers DEF kept_in
      <4>2. CASE y \in ToSet(root)
        <5>1. y \in ToSet(phase1.archived) \/ y \in ToSet(phase1.retained)
          BY <1>0, <2>2, <4>2 DEF RootSafe
        <5>2. y \notin ToSet(phase1.retained)
          <6>1. m \in 1 .. accepted /\ accepted \in Nat
            BY <1>0, <4>1, SessionAssumption, ElementOfSeq, LenProperties DEF ToSet, Shapes, CommitRecord, MessageSeq
          <6> QED BY <2>2, <4>1, <6>1 DEF split
        <5> QED BY <2>1, <3>3, <4>1, <5>1, <5>2 DEF kept_in
      <4>3. CASE y \notin ToSet(root)
        <5>1. PICK j \in Archive : y \in kept_in(j)
          BY <1>0, <4>3 DEF NoMessageLost
        <5>2. exists(j)
          <6>1. arch[j].messages # <<>>
            BY <5>1 DEF kept_in, ToSet
          <6> QED BY <6>1, Existing
        <5>3. j <= n
          <6>1. j \in Nat /\ n \in Nat /\ ~(j > n)
            BY <2>0, <5>2, ArchiveNumbers DEF mine
          <6> QED BY <6>1
        <5>4. j \in 1 .. i
          BY <3>3, <5>3, ArchiveNumbers
        <5> QED BY <2>3, <5>1, <5>4
      <4> QED BY <4>2, <4>3
    <3> QED BY <3>2, <3>3
  <2>6. split'
    BY <2>2 DEF split
  <2> QED BY <1>0, <2>2, <2>4, <2>5, <2>6 DEF Ordered
<1>4. CASE RewriteRoot
  <2>1. /\ UNCHANGED <<accepted, arch>> /\ phase1.at = "persist" /\ root' = phase1.retained
        /\ phase1'.at = "meta"
    BY <1>0, <1>4 DEF RewriteRoot, Shapes, CommitRecord
  <2>2. \A n \in Archive : backed(n)'
    BY <2>1 DEF Ordered, backed, kept_in
  <2> QED BY <1>0, <2>1, <2>2 DEF Ordered, split
<1>5. ASSUME NEW n \in Archive, NEW k \in 0 .. MaxMessages, NEW reset \in BOOLEAN, BeginCommit(n, k, reset)
      PROVE  Ordered'
  <2>1. k \in Nat /\ k < Len(root) /\ root \in MessageSeq
    BY <1>0, <1>5, SessionAssumption DEF BeginCommit, Shapes
  <2>2. PICK a, r : a = SubSeq(root, 1, Len(root) - k) /\ r = SubSeq(root, Len(root) - k + 1, Len(root))
    OBVIOUS
  <2>3. phase1'.archived = a /\ phase1'.retained = r
    BY <1>5, <2>2 DEF BeginCommit
  <2>4. UNCHANGED <<accepted, root, arch>>
    BY <1>5 DEF BeginCommit, messagevars
  <2>5. split'
    BY <2>1, <2>2, <2>3, PartsInOrder DEF Ordered, split
  <2>6. \A i \in Archive : backed(i)'
    BY <2>4 DEF Ordered, backed, kept_in
  <2> QED BY <1>0, <2>4, <2>5, <2>6 DEF Ordered
<1> QED BY <1>0, <1>1, <1>2, <1>3, <1>4, <1>5, MessagesMove

-----------------------------------------------------------------------------
(* Files grow *)

\* An archive that is there stays.
LEMMA ArchivesStay ==
  ASSUME SessionInv, [SessionNext]_vars, NEW i \in Archive, exists(i)
  PROVE  exists(i)'
<1>0. Shapes /\ arch \in [Archive -> ArchiveRecord] /\ arch[i] \in ArchiveRecord
  BY DEF SessionInv, Shapes
<1>1. CASE arch' = arch
  BY <1>1 DEF exists
<1>2. ASSUME NEW k, NEW f \in {"preparing", "ready"}, arch' = [arch EXCEPT ![k].mark = f] PROVE exists(i)'
  BY <1>0, <1>2 DEF exists, ArchiveRecord, Empty
<1>3. ASSUME NEW k, NEW f \in {"done", "reset"}, arch' = [arch EXCEPT ![k].done = f] PROVE exists(i)'
  BY <1>0, <1>3 DEF exists, ArchiveRecord, Empty
<1>4. ASSUME NEW k, NEW f \in {"failed", "missing"}, arch' = [arch EXCEPT ![k].failed = f] PROVE exists(i)'
  BY <1>0, <1>4 DEF exists, ArchiveRecord, Empty
<1>5. CASE WriteArchive
  <2>1. phase1.archived # <<>>
    BY <1>5 DEF WriteArchive, SessionInv, Newest, unlocked
  <2>2. arch' = [arch EXCEPT ![phase1.n].messages = phase1.archived]
    BY <1>5 DEF WriteArchive
  <2> QED BY <1>0, <2>1, <2>2 DEF exists, ArchiveRecord, Empty
<1>6. ASSUME NEW marked, FailPhase1(marked) PROVE exists(i)'
  BY <1>0, <1>6 DEF FailPhase1, exists, ArchiveRecord, Empty
<1>7. ASSUME NEW n \in Archive,
             (\E c \in Copy : HandlerStep(n, c)) \/ (\E kept \in SUBSET Copy : CancelTask(n, kept))
      PROVE  exists(i)'
  <2>1. marks(n)
    BY <1>7, HandlersMark
  <2>2. ASSUME NEW c \in Copy, msg[n][c] = "look", arch' = [arch EXCEPT ![n].failed = "no"] PROVE exists(i)'
    <3>1. arch[n].mark = "ready"
      BY <2>2 DEF SessionInv, ready
    <3> QED BY <1>0, <2>2, <3>1 DEF exists, ArchiveRecord, Empty
  <2> QED BY <1>1, <1>3, <1>4, <2>1, <2>2 DEF marks
<1>8. CASE CommitStep
  <2>1. \/ arch' = arch \/ WriteArchive \/ \E marked \in SUBSET Archive : FailPhase1(marked)
        \/ \E f \in {"preparing", "ready"} : arch' = [arch EXCEPT ![phase1.n].mark = f]
        \/ arch' = [arch EXCEPT ![phase1.n + 1].done = "reset"]
    BY <1>8 DEF CommitStep, WritePhase1Marker, RewriteRoot, SaveMeta, TakePublicationLease,
                WriteReadyMarker, AppendContextReset, SaveResetMeta, CancelPhase1
  <2> QED BY <1>1, <1>2, <1>3, <1>5, <1>6, <2>1
<1>9. CASE AppendMessage \/ Crash \/ UNCHANGED vars
  BY <1>1, <1>9 DEF AppendMessage, Crash, vars
<1>10. ASSUME NEW n \in Archive,
              \/ BeginReset(n) \/ PublishStep(n) \/ RetryArchive(n) \/ LeaseExpires(n)
              \/ \E k \in 0 .. MaxMessages, reset \in BOOLEAN : BeginCommit(n, k, reset)
       PROVE  exists(i)'
  BY <1>1, <1>10 DEF BeginReset, BeginCommit, PublishStep, CancelUnpublished, Publish, ReleasePublication,
                     RetryArchive, LeaseExpires
<1> QED BY <1>7, <1>8, <1>9, <1>10 DEF SessionNext

\* What a session step may do to what a reader has seen or will see: messages are added to
\* the root and to the newest archive.
Grows ==
  /\ accepted \in Nat /\ accepted' \in Nat /\ accepted <= accepted'
  /\ \A n \in Archive : kept_in(n) \subseteq kept_in(n)' /\ (exists(n) => exists(n)')
  /\ \A i, n \in Archive : i < n /\ exists(n) => kept_in(i)' = kept_in(i)

LEMMA FilesGrow ==
  ASSUME LossInv, [SessionNext]_vars
  PROVE  Grows
<1>0. SessionInv /\ Shapes /\ accepted \in Nat
  BY SessionAssumption DEF LossInv, SessionInv, Shapes
<1>1. \A n \in Archive : exists(n) => exists(n)'
  BY <1>0, ArchivesStay
<1>2. CASE WriteArchive
  <2>n. PICK n : n = phase1.n
    OBVIOUS
  <2>0. mine(n) /\ n \in Archive
    BY <1>0, <1>2, <2>n, UnderWay DEF WriteArchive, mine
  <2>1. /\ \A i \in Archive \ {n} : arch'[i] = arch[i]
        /\ arch'[n].messages = phase1.archived
    <3>1. arch' = [arch EXCEPT ![n].messages = phase1.archived]
      BY <1>2, <2>n DEF WriteArchive
    <3> QED BY <1>0, <2>0, <3>1 DEF Shapes, ArchiveRecord
  <2>2. \A i \in Archive : kept_in(i) \subseteq kept_in(i)' /\ (i # n => kept_in(i)' = kept_in(i))
    BY <2>0, <2>1 DEF mine, kept_in, ToSet
  <2>3. \A k \in Archive : n < k => ~exists(k)
    BY <2>0, ArchiveNumbers DEF mine
  <2>4. \A i, k \in Archive : i < k /\ exists(k) => kept_in(i)' = kept_in(i)
    BY <2>2, <2>3
  <2>5. accepted' = accepted /\ accepted <= accepted
    BY <1>0, <1>2 DEF WriteArchive, messagevars
  <2> QED BY <1>0, <1>1, <2>2, <2>4, <2>5 DEF Grows
<1>3. CASE SameMessages
  <2>1. accepted' = accepted \/ accepted' = accepted + 1
    BY <1>0, MessagesMove DEF AppendMessage, WriteArchive, RewriteRoot, BeginCommit, messagevars
  <2>2. accepted' \in Nat /\ accepted <= accepted'
    BY <1>0, <2>1
  <2>3. \A n \in Archive : kept_in(n)' = kept_in(n)
    BY <1>3 DEF SameMessages, kept_in
  <2> QED BY <1>0, <1>1, <2>2, <2>3 DEF Grows
<1>4. WriteArchive \/ SameMessages
  BY <1>0, MessagesMove DEF AppendMessage, RewriteRoot, BeginCommit, SameMessages
<1> QED BY <1>2, <1>3, <1>4

-----------------------------------------------------------------------------
(* The reader *)

ReaderRecord ==
  [at : {"no", "list", "scan", "read", "end"}, known : 0 .. accepted, live : MessageSeq,
   next : 0 .. MaxArchives, pending : SUBSET Archive, result : MessageSeq]

\* Archives are read after they were looked at, and the live messages are put at the end.
ReaderShape ==
  /\ reader \in ReaderRecord /\ Ascending(reader.live)
  /\ reader.at \in {"no", "list"} => reader.pending = {} /\ reader.next = 0
  /\ reader.at \notin {"read", "end"} => reader.result = <<>>

\* The archives still to be looked at and to be read are there, and what is between
\* them was read.
ReaderPlace ==
  /\ \A n \in reader.pending : reader.next < n
  /\ \A n \in Archive : n \in reader.pending \/ n <= reader.next => exists(n)
  /\ \A n \in reader.pending, i \in Archive :
       reader.next < i /\ i < n => i \in reader.pending \/ kept_in(i) \subseteq ToSet(reader.result)

\* y is in an archive that is still to be read, or that the reader did not get to.
due(y) == \E n \in Archive : (n \in reader.pending \/ n <= reader.next) /\ y \in kept_in(n)

\* What was accepted when the reader began is in what it has or will come by.
Seen ==
  \A y \in 1 .. reader.known :
    /\ reader.at = "list" => y \in ToSet(reader.live) \/ \E n \in Archive : y \in kept_in(n)
    /\ reader.at \in {"scan", "read"} => y \in ToSet(reader.live) \/ y \in ToSet(reader.result) \/ due(y)

\* What was accepted before a message of the result is ahead of it there, or covered.
InTurn ==
  reader.at = "read" =>
    \A k \in DOMAIN reader.result, y \in 1 .. accepted :
      y < reader.result[k] => is_covered(y) \/ \E j \in 1 .. k - 1 : reader.result[j] = y

ReadInv ==
  /\ LossInv /\ Ordered
  /\ ReaderShape /\ ReaderPlace /\ Seen /\ InTurn /\ ContextComplete /\ ContextInOrder

LEMMA SeqElements ==
  ASSUME NEW S, NEW s \in Seq(S)
  PROVE  /\ Len(s) \in Nat /\ DOMAIN s = 1 .. Len(s) /\ ToSet(s) = {s[i] : i \in 1 .. Len(s)}
         /\ \A i \in 1 .. Len(s) : s[i] \in S
BY LenProperties, ElementOfSeq DEF ToSet

LEMMA Joined ==
  ASSUME NEW S, NEW s \in Seq(S), NEW t \in Seq(S)
  PROVE  /\ s \o t \in Seq(S) /\ DOMAIN (s \o t) = 1 .. Len(s) + Len(t)
         /\ \A i \in 1 .. Len(s) : (s \o t)[i] = s[i]
         /\ \A i \in 1 .. Len(t) : (s \o t)[Len(s) + i] = t[i]
         /\ ToSet(s \o t) = ToSet(s) \cup ToSet(t)
<1>1. /\ s \o t \in Seq(S) /\ Len(s \o t) = Len(s) + Len(t)
      /\ \A i \in 1 .. Len(s) + Len(t) : (s \o t)[i] = IF i <= Len(s) THEN s[i] ELSE t[i - Len(s)]
  BY ConcatProperties
<1>2. PICK u, k, l : u = s \o t /\ k = Len(s) /\ l = Len(t)
  OBVIOUS
<1>3. k \in Nat /\ l \in Nat /\ DOMAIN s = 1 .. k /\ DOMAIN t = 1 .. l /\ DOMAIN u = 1 .. k + l
  BY <1>1, <1>2, LenProperties
<1>4. ASSUME NEW i \in 1 .. k PROVE i \in DOMAIN u /\ u[i] = s[i]
  BY <1>1, <1>2, <1>3
<1>5. ASSUME NEW i \in 1 .. l PROVE k + i \in DOMAIN u /\ u[k + i] = t[i]
  <2>1. k + i \in 1 .. k + l /\ ~(k + i <= k) /\ k + i - k = i
    BY <1>3
  <2> QED BY <1>1, <1>2, <1>3, <2>1
<1>6. ASSUME NEW i \in DOMAIN u PROVE u[i] \in ToSet(s) \cup ToSet(t)
  <2>1. i \in 1 .. k \/ (~(i <= k) /\ i - k \in 1 .. l)
    BY <1>3
  <2> QED BY <1>1, <1>2, <1>3, <2>1 DEF ToSet
<1>7. ToSet(u) = ToSet(s) \cup ToSet(t)
  <2>1. ToSet(u) \subseteq ToSet(s) \cup ToSet(t)
    BY <1>6 DEF ToSet
  <2>2. ToSet(s) \subseteq ToSet(u)
    BY <1>3, <1>4 DEF ToSet
  <2>3. ToSet(t) \subseteq ToSet(u)
    BY <1>3, <1>5 DEF ToSet
  <2> QED BY <2>1, <2>2, <2>3
<1> QED BY <1>1, <1>2, <1>3, <1>4, <1>5, <1>7

LEMMA Least ==
  ASSUME NEW T, T \subseteq Nat, T # {}
  PROVE  \E x \in T : \A y \in T : x <= y
<1>1. PICK R : R = OpToRel(<, Nat)
  OBVIOUS
<1>2. IsWellFoundedOn(R, Nat)
  BY <1>1, NatLessThanWellFounded
<1>3. PICK x \in T : \A y \in T : ~ (<<y, x>> \in R)
  BY <1>2, WFMin
<1>4. \A y \in Nat, z \in Nat : y < z => <<y, z>> \in R
  BY <1>1 DEF OpToRel
<1>5. ASSUME NEW y \in T PROVE x <= y
  <2>1. x \in Nat /\ y \in Nat /\ ~(y < x)
    BY <1>3, <1>4
  <2> QED BY <2>1
<1> QED BY <1>3, <1>5

\* stable_deduplicate_messages loses no message, and takes each at its first place.
LEMMA Deduplicated ==
  ASSUME NEW S, NEW s \in Seq(S), NEW t \in stable_deduplicate_messages(s)
  PROVE  /\ t \in Seq(S) /\ ToSet(t) = ToSet(s)
         /\ \A i, j \in DOMAIN t : i < j =>
              \E p, q \in first_places(s) : p < q /\ t[i] = s[p] /\ t[j] = s[q]
<1>1. PICK places, c : places = first_places(s) /\ c = Cardinality(places)
  OBVIOUS
<1>2. PICK f \in Bijection(1 .. c, places) :
        (\A i, j \in DOMAIN f : i < j => f[i] < f[j]) /\ t = [i \in DOMAIN f |-> s[f[i]]]
  BY <1>1 DEF stable_deduplicate_messages
<1>3. Len(s) \in Nat /\ DOMAIN s = 1 .. Len(s) /\ \A i \in 1 .. Len(s) : s[i] \in S
  BY SeqElements
<1>4. places \subseteq 1 .. Len(s)
  BY <1>1, <1>3 DEF first_places
<1>5. c \in Nat
  <2>1. IsFiniteSet(1 .. Len(s))
    BY <1>3, FS_Interval
  <2> QED BY <1>1, <1>4, <2>1, FS_Subset, FS_CardinalityType
<1>6. f \in [1 .. c -> places] /\ \A p \in places : \E i \in 1 .. c : f[i] = p
  BY <1>2 DEF Bijection, Injection, Surjection
<1>7. DOMAIN t = 1 .. c /\ \A i \in 1 .. c : f[i] \in places /\ t[i] = s[f[i]]
  BY <1>2, <1>6
<1>8. t \in Seq(S)
  <2>1. t \in [1 .. c -> S]
    BY <1>2, <1>3, <1>4, <1>6, <1>7
  <2> QED BY <1>5, <2>1, SeqDef
<1>9. ASSUME NEW m \in ToSet(s) PROVE m \in ToSet(t)
  <2>1. PICK T : T = {i \in 1 .. Len(s) : s[i] = m}
    OBVIOUS
  <2>2. T # {} /\ T \subseteq Nat
    BY <1>3, <2>1 DEF ToSet
  <2>3. PICK p \in T : \A y \in T : p <= y
    BY <2>2, Least
  <2>4. p \in places
    <3>1. ASSUME NEW j \in 1 .. p - 1 PROVE s[j] # s[p]
      <4>1. j \in 1 .. Len(s) /\ ~(p <= j)
        BY <1>3, <2>1, <2>3, <3>1
      <4> QED BY <2>1, <2>3, <4>1
    <3> QED BY <1>1, <1>3, <2>1, <2>3, <3>1 DEF first_places
  <2>5. PICK i \in 1 .. c : f[i] = p
    BY <1>6, <2>4
  <2> QED BY <1>7, <2>1, <2>3, <2>5 DEF ToSet
<1>10. ASSUME NEW m \in ToSet(t) PROVE m \in ToSet(s)
  <2>1. PICK i \in 1 .. c : m = t[i]
    BY <1>7, <1>10 DEF ToSet
  <2>2. f[i] \in DOMAIN s /\ m = s[f[i]]
    BY <1>3, <1>4, <1>7, <2>1
  <2> QED BY <2>2 DEF ToSet
<1>11. ASSUME NEW i \in DOMAIN t, NEW j \in DOMAIN t, i < j
       PROVE  \E p, q \in first_places(s) : p < q /\ t[i] = s[p] /\ t[j] = s[q]
  <2>1. f[i] < f[j] /\ f[i] \in places /\ f[j] \in places /\ t[i] = s[f[i]] /\ t[j] = s[f[j]]
    BY <1>2, <1>6, <1>7, <1>11
  <2> QED BY <1>1, <2>1
<1> QED BY <1>8, <1>9, <1>10, <1>11

\* The session goes on while a reader is under way.
LEMMA OtherSteps ==
  ASSUME ReadInv, [SessionNext]_vars, UNCHANGED reader
  PROVE  ReadInv'
<1>0. /\ LossInv /\ Ordered /\ ReaderShape /\ ReaderPlace /\ Seen /\ InTurn
      /\ ContextComplete /\ ContextInOrder /\ Archive' = Archive
  BY DEF ReadInv, Archive
<1>1. LossInv' /\ Ordered' /\ Grows
  BY <1>0, LossKeeps, OrderKeeps, FilesGrow
<1>2. accepted \in Nat /\ accepted' \in Nat /\ accepted <= accepted' /\ 1 .. accepted \subseteq 1 .. accepted'
  BY <1>1 DEF Grows
<1>3. /\ reader.next \in Nat /\ \A n \in 1 .. reader.next : n \in Archive
      /\ reader.pending \subseteq Archive /\ reader.result \in MessageSeq
  BY <1>0, ArchiveNumbers DEF ReaderShape, ReaderRecord, Archive
<1>4. ReaderShape'
  <2>1. \A s \in MessageSeq : s \in MessageSeq'
    BY <1>2, SeqMonotonic DEF MessageSeq
  <2>2. reader \in ReaderRecord'
    <3>1. \A k \in 0 .. accepted : k \in 0 .. accepted'
      BY <1>2
    <3> QED BY <1>0, <2>1, <3>1 DEF ReaderShape, ReaderRecord
  <2> QED BY <1>0, <2>2 DEF ReaderShape, Ascending
<1>5. ReaderPlace'
  <2>1. ASSUME NEW n \in reader.pending, NEW i \in Archive, reader.next < i, i < n
        PROVE  i \in reader.pending \/ kept_in(i)' \subseteq ToSet(reader.result)
    <3>1. n \in Archive /\ exists(n)
      BY <1>0, <1>3 DEF ReaderPlace
    <3>2. kept_in(i)' = kept_in(i)
      BY <1>1, <2>1, <3>1 DEF Grows
    <3> QED BY <1>0, <2>1, <3>2 DEF ReaderPlace
  <2>2. \A n \in Archive : n \in reader.pending \/ n <= reader.next => exists(n)'
    BY <1>0, <1>1 DEF ReaderPlace, Grows
  <2> QED BY <1>0, <2>1, <2>2 DEF ReaderPlace
<1>6. \A y : due(y) => due(y)'
  BY <1>0, <1>1 DEF due, Grows
<1>7. \A y : is_covered(y) => is_covered(y)'
  BY <1>1, <1>3 DEF is_covered, Grows
<1>8. Seen'
  BY <1>0, <1>1, <1>6 DEF Seen, Grows
<1>9. InTurn'
  <2> SUFFICES ASSUME reader.at = "read", NEW k \in DOMAIN reader.result, NEW y \in 1 .. accepted', y < reader.result[k]
               PROVE  is_covered(y)' \/ \E j \in 1 .. k - 1 : reader.result[j] = y
    BY DEF InTurn
  <2>1. reader.result[k] \in 1 .. accepted
    BY <1>3, SeqElements DEF MessageSeq
  <2>2. y \in 1 .. accepted
    BY <1>2, <2>1
  <2> QED BY <1>0, <1>7, <2>2 DEF InTurn
<1>10. ContextComplete'
  BY <1>0, <1>7 DEF ContextComplete
<1>11. ContextInOrder'
  BY <1>0, <1>7 DEF ContextInOrder
<1> QED BY <1>1, <1>4, <1>5, <1>8, <1>9, <1>10, <1>11 DEF ReadInv

\* What a step of the reader leaves alone.
LEMMA ReaderSpares ==
  ASSUME ReadInv, UNCHANGED vars
  PROVE  /\ LossInv' /\ Ordered' /\ accepted \in Nat /\ MaxArchives \in Nat
         /\ UNCHANGED accepted /\ UNCHANGED arch /\ MessageSeq' = MessageSeq /\ ReaderRecord' = ReaderRecord
         /\ \A n \in Archive : kept_in(n)' = kept_in(n) /\ exists(n)' = exists(n)
<1>1. LossInv /\ Ordered /\ SessionInv /\ Shapes
  BY DEF ReadInv, LossInv, SessionInv
<1>2. LossInv' /\ Ordered'
  BY <1>1, LossKeeps, OrderKeeps
<1>3. UNCHANGED <<accepted, arch>>
  BY DEF vars, messagevars
<1>4. MessageSeq' = MessageSeq /\ ReaderRecord' = ReaderRecord
  BY <1>3 DEF MessageSeq, ReaderRecord
<1>5. \A n \in Archive : kept_in(n)' = kept_in(n) /\ exists(n)' = exists(n)
  BY <1>3 DEF kept_in, exists
<1>6. accepted \in Nat /\ MaxArchives \in Nat
  BY <1>1, SessionAssumption DEF Shapes
<1> QED BY <1>2, <1>3, <1>4, <1>5, <1>6

LEMMA LoadKeeps ==
  ASSUME ReadInv, Load
  PROVE  ReadInv'
<1>0. LossInv /\ Ordered /\ ReaderShape /\ ReaderPlace /\ UNCHANGED vars /\ Shapes /\ NoMessageLost
  BY DEF ReadInv, Load, LossInv, SessionInv
<1>1. LossInv' /\ Ordered' /\ accepted \in Nat /\ ReaderRecord' = ReaderRecord /\ accepted' = accepted /\ arch' = arch
  BY <1>0, ReaderSpares
<1>2. /\ reader \in ReaderRecord /\ reader.at = "no" /\ reader.pending = {} /\ reader.next = 0
      /\ reader.result = <<>> /\ Ascending(root) /\ root \in MessageSeq
  BY <1>0 DEF Load, ReaderShape, Ordered, Shapes
<1>3. /\ reader' = [reader EXCEPT !.at = "list", !.known = accepted, !.live = root]
      /\ accepted \in 0 .. accepted
  BY <1>1 DEF Load
<1>4. /\ reader' \in ReaderRecord /\ reader'.at = "list" /\ reader'.pending = {} /\ reader'.next = 0
      /\ reader'.result = <<>> /\ reader'.live = root /\ reader'.known = accepted
  BY <1>2, <1>3 DEF ReaderRecord
<1>5. ReaderShape'
  BY <1>1, <1>2, <1>4 DEF ReaderShape, Ascending
<1>6. ReaderPlace'
  BY <1>4, ArchiveNumbers DEF ReaderPlace
<1>7. Seen'
  BY <1>0, <1>1, <1>4 DEF Seen, NoMessageLost, kept_in, Archive
<1> QED BY <1>1, <1>4, <1>5, <1>6, <1>7 DEF ReadInv, InTurn, ContextComplete, ContextInOrder

LEMMA ListKeeps ==
  ASSUME ReadInv, List
  PROVE  ReadInv'
<1>0. ReaderShape /\ Seen /\ UNCHANGED vars /\ Contiguous /\ reader.at = "list"
  BY DEF ReadInv, List, LossInv, SessionInv
<1>1. LossInv' /\ Ordered' /\ ReaderRecord' = ReaderRecord
      /\ \A n \in Archive : kept_in(n)' = kept_in(n) /\ exists(n)' = exists(n)
  BY <1>0, ReaderSpares
<1>2. PICK n \in 0 .. MaxArchives : is_newest(n) /\ reader' = [reader EXCEPT !.at = "scan", !.next = n]
  BY DEF List
<1>3. /\ reader' \in ReaderRecord /\ reader'.at = "scan" /\ reader'.pending = {} /\ reader'.next = n
      /\ reader'.result = <<>> /\ reader'.live = reader.live /\ reader'.known = reader.known
  BY <1>0, <1>2 DEF ReaderShape, ReaderRecord
<1>4. ReaderShape'
  BY <1>0, <1>1, <1>3 DEF ReaderShape, Ascending
<1>5. ReaderPlace'
  <2>1. ASSUME NEW i \in Archive, i <= n PROVE exists(i)
    <3>1. n \in Archive /\ n > 0 /\ (i = n \/ i < n)
      BY <2>1, ArchiveNumbers DEF Archive
    <3>2. exists(n)
      BY <1>2, <3>1 DEF is_newest
    <3> QED BY <1>0, <3>1, <3>2 DEF Contiguous
  <2> QED BY <1>1, <1>3, <2>1 DEF ReaderPlace, Archive
<1>6. Seen'
  <2> SUFFICES ASSUME NEW y \in 1 .. reader.known PROVE y \in ToSet(reader.live) \/ due(y)'
    BY <1>3 DEF Seen
  <2>1. ASSUME NEW i \in Archive, y \in kept_in(i) PROVE due(y)'
    <3>1. exists(i)
      <4>1. arch[i].messages # <<>>
        BY <2>1 DEF kept_in, ToSet
      <4> QED BY <4>1, Existing
    <3>2. i <= n
      BY <1>2, <3>1 DEF is_newest
    <3> QED BY <1>1, <1>3, <2>1, <3>2 DEF due, Archive
  <2> QED BY <1>0, <2>1 DEF Seen
<1> QED BY <1>1, <1>3, <1>4, <1>5, <1>6 DEF ReadInv, InTurn, ContextComplete, ContextInOrder

LEMMA ScanKeeps ==
  ASSUME ReadInv, Scan
  PROVE  ReadInv'
<1>0. ReaderShape /\ ReaderPlace /\ Seen /\ UNCHANGED vars /\ reader.at = "scan"
  BY DEF ReadInv, Scan
<1>1. LossInv' /\ Ordered' /\ ReaderRecord' = ReaderRecord /\ accepted' = accepted
      /\ \A n \in Archive : kept_in(n)' = kept_in(n) /\ exists(n)' = exists(n)
  BY <1>0, ReaderSpares
<1>2. /\ reader \in ReaderRecord /\ reader.next \in 0 .. MaxArchives /\ reader.next \in Nat
      /\ reader.result = <<>> /\ reader.pending \subseteq Archive
  BY <1>0, SessionAssumption DEF ReaderShape, ReaderRecord
<1>3. CASE reader' = [reader EXCEPT !.at = "read"]
  <2>1. /\ reader' \in ReaderRecord /\ reader'.at = "read" /\ reader'.pending = reader.pending
        /\ reader'.next = reader.next /\ reader'.live = reader.live /\ reader'.known = reader.known
        /\ reader'.result = <<>>
    BY <1>2, <1>3 DEF ReaderRecord
  <2>2. ReaderShape'
    BY <1>0, <1>1, <2>1 DEF ReaderShape, Ascending
  <2>3. ReaderPlace'
    BY <1>0, <1>1, <1>2, <2>1 DEF ReaderPlace, Archive
  <2>4. Seen'
    BY <1>0, <1>1, <1>2, <2>1 DEF Seen, due, Archive
  <2>5. InTurn'
    BY <2>1 DEF InTurn
  <2> QED BY <1>1, <2>1, <2>2, <2>3, <2>4, <2>5 DEF ReadInv, ContextComplete, ContextInOrder
<1>4. CASE ~(reader' = [reader EXCEPT !.at = "read"])
  <2>n. PICK n : n = reader.next
    OBVIOUS
  <2>1. n # 0 /\ reader' = [reader EXCEPT !.next = n - 1,
                                          !.pending = IF exists(n) THEN @ \cup {n} ELSE @]
    BY <1>4, <2>n DEF Scan
  <2>2. n \in Archive /\ n \in Nat /\ n - 1 \in Nat /\ n - 1 \in 0 .. MaxArchives /\ n <= n
    BY <1>2, <2>n, <2>1, SessionAssumption DEF Archive
  <2>3. exists(n)
    BY <1>0, <2>n, <2>2 DEF ReaderPlace
  <2>4. reader.pending \cup {n} \in SUBSET Archive
    BY <1>2, <2>2
  <2>5. /\ reader' \in ReaderRecord /\ reader'.at = "scan" /\ reader'.pending = reader.pending \cup {n}
        /\ reader'.next = n - 1 /\ reader'.live = reader.live /\ reader'.known = reader.known
        /\ reader'.result = <<>>
    BY <1>0, <1>2, <2>1, <2>2, <2>3, <2>4 DEF ReaderRecord
  <2>6. \A i \in Archive : (i <= n <=> i = n \/ i <= n - 1) /\ (n - 1 < i <=> i = n \/ n < i)
    BY <2>2, ArchiveNumbers
  <2>7. ReaderShape'
    BY <1>0, <1>1, <2>5 DEF ReaderShape, Ascending
  <2>8. ReaderPlace'
    <3>1. \A i \in reader.pending \cup {n} : n - 1 < i
      BY <1>0, <1>2, <2>n, <2>2, <2>6 DEF ReaderPlace
    <3>2. \A i \in Archive : i \in reader.pending \cup {n} \/ i <= n - 1 => exists(i)
      BY <1>0, <2>n, <2>3, <2>6 DEF ReaderPlace
    <3>3. ASSUME NEW k \in reader.pending \cup {n}, NEW i \in Archive, n - 1 < i, i < k
          PROVE  i \in reader.pending \cup {n} \/ kept_in(i) \subseteq ToSet(reader.result)
      <4>1. i # n => n < i
        BY <2>6, <3>3
      <4>2. i # n => k # n
        BY <2>2, <3>3, <4>1, ArchiveNumbers
      <4>3. i # n => i \in reader.pending \/ kept_in(i) \subseteq ToSet(reader.result)
        BY <1>0, <2>n, <3>3, <4>1, <4>2 DEF ReaderPlace
      <4> QED BY <4>3
    <3>4. reader'.result = reader.result /\ Archive' = Archive
      BY <1>2, <2>5 DEF Archive
    <3>5. \A k \in reader'.pending, i \in Archive :
            reader'.next < i /\ i < k => i \in reader'.pending \/ kept_in(i)' \subseteq ToSet(reader'.result)
      BY <1>1, <2>5, <3>3, <3>4
    <3>6. \A i \in Archive : i \in reader'.pending \/ i <= reader'.next => exists(i)'
      BY <1>1, <2>5, <3>2
    <3> QED BY <2>5, <3>1, <3>4, <3>5, <3>6 DEF ReaderPlace
  <2>9. Seen'
    <3>1. \A y : due(y) => due(y)'
      BY <1>1, <2>n, <2>5, <2>6 DEF due, Archive
    <3> QED BY <1>0, <1>2, <2>5, <3>1 DEF Seen
  <2> QED BY <1>1, <2>5, <2>7, <2>8, <2>9 DEF ReadInv, InTurn, ContextComplete, ContextInOrder
<1> QED BY <1>3, <1>4

LEMMA ReadMessagesKeeps ==
  ASSUME ReadInv, ReadMessages
  PROVE  ReadInv'
<1>0. ReaderShape /\ ReaderPlace /\ Seen /\ InTurn /\ Ordered /\ Shapes /\ UNCHANGED vars /\ reader.at = "read"
  BY DEF ReadInv, ReadMessages, LossInv, SessionInv
<1>1. LossInv' /\ Ordered' /\ ReaderRecord' = ReaderRecord /\ accepted' = accepted /\ accepted \in Nat
      /\ \A n \in Archive : kept_in(n)' = kept_in(n) /\ exists(n)' = exists(n)
  BY <1>0, ReaderSpares
<1>2. PICK n \in reader.pending : /\ \A i \in reader.pending : n <= i
                                  /\ reader' = [reader EXCEPT !.pending = @ \ {n}, !.result = @ \o arch[n].messages]
  BY DEF ReadMessages
<1>3. /\ reader \in ReaderRecord /\ reader.next \in Nat /\ reader.result \in MessageSeq
      /\ reader.pending \subseteq Archive /\ n \in Archive
  BY <1>0, SessionAssumption DEF ReaderShape, ReaderRecord
<1>4. PICK r, b : r = reader.result /\ b = arch[n].messages
  OBVIOUS
<1>5. r \in Seq(1 .. accepted) /\ b \in Seq(1 .. accepted) /\ kept_in(n) = ToSet(b)
  BY <1>0, <1>3, <1>4, KeptNumbers DEF MessageSeq, kept_in
<1>6. PICK k, l : k = Len(r) /\ l = Len(b)
  OBVIOUS
<1>7. PICK u : u = r \o b
  OBVIOUS
<1>8. /\ u \in Seq(1 .. accepted) /\ DOMAIN u = 1 .. k + l /\ ToSet(u) = ToSet(r) \cup ToSet(b)
      /\ \A i \in 1 .. k : u[i] = r[i]
      /\ \A i \in 1 .. l : u[k + i] = b[i]
      /\ k \in Nat /\ l \in Nat /\ DOMAIN r = 1 .. k /\ DOMAIN b = 1 .. l
  BY <1>5, <1>6, <1>7, Joined, LenProperties
<1>9. /\ reader' \in ReaderRecord /\ reader'.at = "read" /\ reader'.pending = reader.pending \ {n}
      /\ reader'.next = reader.next /\ reader'.live = reader.live /\ reader'.known = reader.known
      /\ reader'.result = u
  <2>1. u \in MessageSeq /\ reader.pending \ {n} \in SUBSET Archive
    BY <1>3, <1>8 DEF MessageSeq
  <2> QED BY <1>0, <1>2, <1>3, <1>4, <1>7, <2>1 DEF ReaderRecord
<1>10. ReaderShape'
  BY <1>0, <1>1, <1>9 DEF ReaderShape, Ascending
<1>11. ReaderPlace'
  <2>1. ASSUME NEW p \in reader.pending \ {n}, NEW i \in Archive, reader.next < i, i < p
        PROVE  i \in reader.pending \ {n} \/ kept_in(i) \subseteq ToSet(u)
    BY <1>0, <1>4, <1>5, <1>8, <2>1 DEF ReaderPlace
  <2> QED BY <1>0, <1>1, <1>9, <2>1 DEF ReaderPlace, Archive
<1>12. Seen'
  <2> SUFFICES ASSUME NEW y \in 1 .. reader.known
               PROVE  y \in ToSet(reader.live) \/ y \in ToSet(u) \/ due(y)'
    BY <1>9 DEF Seen
  <2>1. y \in ToSet(reader.live) \/ y \in ToSet(r) \/ due(y)
    BY <1>0, <1>4 DEF Seen
  <2>2. due(y) => y \in ToSet(u) \/ due(y)'
    BY <1>1, <1>5, <1>8, <1>9 DEF due, Archive
  <2> QED BY <1>8, <2>1, <2>2
<1>13. \A y : is_covered(y) => is_covered(y)'
  <2>1. \A i \in 1 .. reader.next : i \in Archive
    BY <1>0, ArchiveNumbers DEF ReaderShape, ReaderRecord, Archive
  <2> QED BY <1>1, <1>9, <2>1 DEF is_covered
<1>14. InTurn'
  <2> SUFFICES ASSUME NEW p \in 1 .. k + l, NEW y \in 1 .. accepted, y < u[p]
               PROVE  is_covered(y)' \/ \E j \in 1 .. p - 1 : u[j] = y
    BY <1>1, <1>8, <1>9 DEF InTurn
  <2>1. CASE p \in 1 .. k
    <3>1. is_covered(y) \/ \E j \in 1 .. p - 1 : r[j] = y
      BY <1>0, <1>4, <1>8, <2>1 DEF InTurn
    <3>2. \A j \in 1 .. p - 1 : j \in 1 .. k
      BY <1>8, <2>1
    <3> QED BY <1>8, <1>13, <3>1, <3>2
  <2>2. CASE p \notin 1 .. k
    <3>1. PICK q \in 1 .. l : p = k + q
      <4>1. p - k \in 1 .. l /\ p = k + (p - k)
        BY <1>8, <2>2
      <4> QED BY <4>1
    <3>2. u[p] = b[q] /\ b[q] \in kept_in(n)
      BY <1>5, <1>8, <3>1 DEF ToSet
    <3>3. PICK i \in 1 .. n : y \in kept_in(i)
      BY <1>0, <1>3, <3>2 DEF Ordered, backed
    <3>4. i \in Archive /\ i \in Nat /\ n \in Nat
      BY <1>3, ArchiveNumbers DEF Archive
    <3>5. CASE i <= reader.next
      <4>1. i \in 1 .. reader.next
        BY <1>3, <3>4, <3>5
      <4> QED BY <1>13, <3>3, <4>1 DEF is_covered
    <3>6. CASE reader.next < i /\ i < n
      <4>1. i \notin reader.pending
        BY <1>2, <3>4, <3>6
      <4>2. y \in ToSet(r)
        BY <1>0, <1>4, <3>3, <3>4, <3>6, <4>1 DEF ReaderPlace
      <4>3. PICK j \in 1 .. k : r[j] = y
        BY <1>8, <4>2 DEF ToSet
      <4>4. j \in 1 .. p - 1
        BY <1>8, <3>1, <4>3
      <4> QED BY <1>8, <4>3, <4>4
    <3>7. CASE i = n
      <4>1. PICK j \in 1 .. l : b[j] = y
        BY <1>5, <1>8, <3>3, <3>7 DEF ToSet
      <4>2. ~(q < j) /\ j # q
        <5>1. Ascending(b) /\ b[q] \in 1 .. accepted
          BY <1>0, <1>3, <1>4, <1>5, <1>8, SeqElements, <1>6 DEF Ordered
        <5>2. y < b[q]
          BY <3>2
        <5>3. y \in Nat /\ b[q] \in Nat /\ ~(b[q] < y) /\ y # b[q]
          BY <1>1, <5>1, <5>2
        <5>4. q < j => b[q] < b[j]
          BY <1>8, <5>1 DEF Ascending
        <5> QED BY <4>1, <5>3, <5>4
      <4>3. k + j \in 1 .. p - 1 /\ u[k + j] = y
        BY <1>8, <3>1, <4>1, <4>2
      <4> QED BY <4>3
    <3> QED BY <1>3, <3>4, <3>5, <3>6, <3>7
  <2> QED BY <2>1, <2>2
<1> QED BY <1>1, <1>9, <1>10, <1>11, <1>12, <1>14 DEF ReadInv, ContextComplete, ContextInOrder

LEMMA MergeKeeps ==
  ASSUME ReadInv, Merge
  PROVE  ReadInv'
<1>0. /\ ReaderShape /\ Seen /\ InTurn /\ UNCHANGED vars
      /\ reader.at = "read" /\ reader.pending = {}
  BY DEF ReadInv, Merge
<1>1. LossInv' /\ Ordered' /\ ReaderRecord' = ReaderRecord /\ accepted' = accepted /\ accepted \in Nat
      /\ \A n \in Archive : kept_in(n)' = kept_in(n) /\ exists(n)' = exists(n)
  BY <1>0, ReaderSpares
<1>2. PICK r, b : r = reader.result /\ b = reader.live
  OBVIOUS
<1>3. PICK u : u = r \o b
  OBVIOUS
<1>4. PICK t \in stable_deduplicate_messages(u) :
        reader' = [reader EXCEPT !.at = "end", !.live = <<>>, !.result = t]
  BY <1>2, <1>3 DEF Merge
<1>5. r \in Seq(1 .. accepted) /\ b \in Seq(1 .. accepted) /\ reader \in ReaderRecord /\ Ascending(b)
  BY <1>0, <1>2 DEF ReaderShape, ReaderRecord, MessageSeq
<1>6. PICK k, l : k = Len(r) /\ l = Len(b)
  OBVIOUS
<1>7. /\ u \in Seq(1 .. accepted) /\ DOMAIN u = 1 .. k + l /\ ToSet(u) = ToSet(r) \cup ToSet(b)
      /\ \A i \in 1 .. k : u[i] = r[i]
      /\ \A i \in 1 .. l : u[k + i] = b[i]
      /\ k \in Nat /\ l \in Nat /\ DOMAIN r = 1 .. k /\ DOMAIN b = 1 .. l
  BY <1>3, <1>5, <1>6, Joined, LenProperties
<1>8. /\ t \in Seq(1 .. accepted) /\ ToSet(t) = ToSet(u)
      /\ \A i, j \in DOMAIN t : i < j =>
           \E p, q \in first_places(u) : p < q /\ t[i] = u[p] /\ t[j] = u[q]
  <2>1. u \in Seq(1 .. accepted)
    BY <1>7
  <2> QED BY <1>4, <2>1, Deduplicated
<1>9. /\ reader' \in ReaderRecord /\ reader'.at = "end" /\ reader'.pending = {} /\ reader'.live = <<>>
      /\ reader'.next = reader.next /\ reader'.known = reader.known /\ reader'.result = t
  <2>1. t \in MessageSeq /\ <<>> \in MessageSeq
    BY <1>8, EmptySeq DEF MessageSeq
  <2> QED BY <1>0, <1>4, <1>5, <2>1 DEF ReaderRecord
<1>10. /\ reader.next \in Nat /\ \A i \in 1 .. reader.next : i \in Archive
       /\ \A i \in Archive : i <= reader.next => i \in 1 .. reader.next
  BY <1>0, ArchiveNumbers DEF ReaderShape, ReaderRecord, Archive
<1>11. \A y : is_covered(y)' <=> is_covered(y)
  BY <1>1, <1>9, <1>10 DEF is_covered
<1>12. ReaderShape'
  BY <1>1, <1>9 DEF ReaderShape, Ascending
<1>13. ReaderPlace'
  <2>1. ReaderPlace
    BY DEF ReadInv
  <2> QED BY <1>0, <1>1, <1>9, <2>1 DEF ReaderPlace, Archive
<1>14. ContextComplete'
  <2> SUFFICES ASSUME NEW y \in 1 .. reader.known PROVE y \in ToSet(t) \/ is_covered(y)'
    BY <1>9 DEF ContextComplete
  <2>1. y \in ToSet(b) \/ y \in ToSet(r) \/ due(y)
    BY <1>0, <1>2 DEF Seen
  <2>2. due(y) => is_covered(y)
    BY <1>0, <1>10 DEF due, is_covered
  <2> QED BY <1>7, <1>8, <1>11, <2>1, <2>2
<1>15. ContextInOrder'
  <2> SUFFICES ASSUME NEW i \in DOMAIN t, NEW j \in DOMAIN t, i < j, ~is_covered(t[i]), ~is_covered(t[j])
               PROVE  t[i] < t[j]
    BY <1>9, <1>11 DEF ContextInOrder
  <2>1. PICK p, q \in first_places(u) : p < q /\ t[i] = u[p] /\ t[j] = u[q]
    BY <1>8
  <2>2. /\ p \in 1 .. k + l /\ q \in 1 .. k + l /\ u[p] \in Nat /\ u[q] \in 1 .. accepted
        /\ \A h \in 1 .. q - 1 : u[h] # u[q]
    <3>1. p \in 1 .. k + l /\ q \in 1 .. k + l /\ \A h \in 1 .. q - 1 : u[h] # u[q]
      BY <1>7 DEF first_places
    <3>2. \A h \in 1 .. k + l : u[h] \in 1 .. accepted
      BY <1>7, SeqElements
    <3> QED BY <3>1, <3>2
  <2>3. u[p] # u[q]
    BY <1>7, <2>1, <2>2
  <2>4. CASE p \in 1 .. k
    <3>1. ASSUME u[q] < u[p] PROVE FALSE
      <4>1. \E h \in 1 .. p - 1 : r[h] = u[q]
        <5>1. u[q] < r[p] /\ p \in DOMAIN r /\ ~is_covered(u[q])
          BY <1>7, <2>1, <2>4, <3>1
        <5> QED BY <1>0, <1>2, <2>2, <5>1 DEF InTurn
      <4>2. PICK h \in 1 .. p - 1 : r[h] = u[q]
        BY <4>1
      <4>3. h \in 1 .. k /\ h \in 1 .. q - 1
        BY <1>7, <2>1, <2>2, <2>4
      <4> QED BY <1>7, <2>2, <4>2, <4>3
    <3> QED BY <1>1, <2>1, <2>2, <2>3, <3>1
  <2>5. CASE p \notin 1 .. k
    <3>1. p - k \in 1 .. l /\ q - k \in 1 .. l /\ p - k < q - k /\ k + (p - k) = p /\ k + (q - k) = q
      BY <1>7, <2>1, <2>2, <2>5
    <3>2. b[p - k] < b[q - k]
      BY <1>5, <1>7, <3>1 DEF Ascending
    <3>3. u[p] = b[p - k] /\ u[q] = b[q - k]
      BY <1>7, <3>1
    <3> QED BY <2>1, <3>2, <3>3
  <2> QED BY <2>4, <2>5
<1> QED BY <1>1, <1>9, <1>12, <1>13, <1>14, <1>15 DEF ReadInv, Seen, InTurn

LEMMA NoReaderHolds == LossInv /\ Ordered /\ reader = NoReader => ReadInv
<1> SUFFICES ASSUME LossInv, Ordered, reader = NoReader PROVE ReadInv
  OBVIOUS
<1>1. /\ reader.at = "no" /\ reader.known = 0 /\ reader.live = <<>> /\ reader.next = 0
      /\ reader.pending = {} /\ reader.result = <<>>
  BY DEF NoReader
<1>2. accepted \in Nat /\ MaxArchives \in Nat /\ <<>> \in MessageSeq
  BY SessionAssumption, EmptySeq DEF LossInv, SessionInv, Shapes, MessageSeq
<1>3. reader \in ReaderRecord
  <2>1. 0 \in 0 .. accepted /\ 0 \in 0 .. MaxArchives
    BY <1>2
  <2> QED BY <1>2, <2>1 DEF NoReader, ReaderRecord
<1>4. ReaderShape
  BY <1>1, <1>3 DEF ReaderShape, Ascending
<1>5. ReaderPlace
  <2>1. \A n \in Archive : ~(n <= 0)
    BY ArchiveNumbers
  <2> QED BY <1>1, <2>1 DEF ReaderPlace
<1> QED BY <1>1, <1>4, <1>5 DEF ReadInv, Seen, InTurn, ContextComplete, ContextInOrder

LEMMA ContextStarts ==
  ASSUME ContextInit
  PROVE  ReadInv
<1>1. SessionInv
  BY SessionStarts DEF ContextInit
<1>2. accepted = 0 /\ root = <<>> /\ phase1.at = "idle" /\ \A n \in Archive : arch[n].messages = <<>>
  BY DEF ContextInit, SessionInit, NoCommit, Empty
<1>3. LossInv
  BY <1>1, <1>2 DEF LossInv, RootSafe, NoMessageLost
<1>4. Ordered
  BY <1>2 DEF Ordered, Ascending, backed
<1> QED BY <1>3, <1>4, NoReaderHolds DEF ContextInit

\* The reader begins anew, or the invariant is kept.
LEMMA ContextStepKeeps ==
  ASSUME ReadInv, [ContextNext]_cvars
  PROVE  ReadInv' \/ (LossInv /\ Ordered /\ reader = NoReader)'
<1>1. CASE SessionNext /\ UNCHANGED reader
  BY <1>1, OtherSteps
<1>2. CASE UNCHANGED cvars
  BY <1>2, OtherSteps DEF cvars
<1>3. CASE Return
  BY <1>3, ReaderSpares DEF Return, NoReader
<1> QED BY <1>1, <1>2, <1>3, LoadKeeps, ListKeeps, ScanKeeps, ReadMessagesKeeps, MergeKeeps
        DEF ContextNext, ReadStep

\* What holds of a session and of whoever reads it meanwhile.
THEOREM ContextInvariant == ContextSpec => []ReadInv
<1>1. ContextInit => ReadInv
  BY ContextStarts
<1>2. ReadInv /\ [ContextNext]_cvars => ReadInv' \/ (LossInv /\ Ordered /\ reader = NoReader)'
  BY ContextStepKeeps
<1>3. LossInv /\ Ordered /\ reader = NoReader => ReadInv
  BY NoReaderHolds
<1> QED BY <1>1, <1>2, <1>3, PTL DEF ContextSpec

\* Live messages are loaded before archives are listed and commits move messages from the
\* former to the latter, so a reader without a lock meets each message it has to return:
\* live, in an archive it reads, or in one that it need not look at.
THEOREM ContextsAreComplete == ContextSpec => []ContextComplete
<1>1. ReadInv => ContextComplete
  BY DEF ReadInv
<1> QED BY <1>1, ContextInvariant, PTL

\* A message that is met twice, in an archive and live, is taken where it was met first,
\* and commits archive the oldest messages first: the context is in order of acceptance.
THEOREM ContextsAreInOrder == ContextSpec => []ContextInOrder
<1>1. ReadInv => ContextInOrder
  BY DEF ReadInv
<1> QED BY <1>1, ContextInvariant, PTL
=============================================================================
