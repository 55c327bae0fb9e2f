------------------------ MODULE PathLockFsInductive -------------------------
(***************************************************************************)
(* The invariants behind mutual exclusion, rollback, adoption and the      *)
(* return of a source over the filesystem provider.  Nothing decides there *)
(* in one step between two attempts: each writes first and then looks, so  *)
(* of two attempts that meet one sees the holder of the other.             *)
(***************************************************************************)
EXTENDS PathLockFs, PathLockInductive

Scan ==
  [phase : {"none", "source", "check", "verify"}, todo : SUBSET Path, reads : SUBSET Path,
   clock : Nat]

\* Where an attempt is: only an acquisition scans, on behalf of its requests, it reads
\* while it checks or verifies, and its clock is between its start and now.
ScanOK ==
  /\ scan \in [Proc -> [Owner -> Scan]]
  /\ \A pr \in Proc, o \in Owner :
       LET s == scan[pr][o] IN
       /\ s.phase # "none" => /\ task[pr][o].op = "acquire" /\ s.todo \subseteq lock_paths(task[pr][o].req)
                              /\ task[pr][o].started <= s.clock /\ s.clock <= now
       /\ s.phase = "none" => s = NoScan
       /\ s.phase = "source" => s.reads = {}

\* The paths at which the attempt has written its holder.
written(pr, o) ==
  CASE scan[pr][o].phase = "check"  -> lock_paths(task[pr][o].req) \ scan[pr][o].todo
    [] scan[pr][o].phase = "verify" -> lock_paths(task[pr][o].req)
    [] OTHER                        -> {}

\* A holder of an attempt that is not through its verification.
Pending(o, l, p, k, pr, c) ==
  /\ task[pr][o].op = "acquire" /\ task[pr][o].lease = l
  /\ task[pr][o].req[p] = k /\ p \in written(pr, o)
  /\ now - c < Validity /\ c = task[pr][o].started

Stake(o, l, p, k, pr, c) == Claim(o, l, p, k, pr, c) \/ Pending(o, l, p, k, pr, c)

StakesGrounded ==
  \A o \in Owner, l \in Lease, p \in Path, k \in Kind, pr \in Proc, c \in 0 .. now :
    Stake(o, l, p, k, pr, c) => HolderIn(tokens[p], o, l, k, c + Skew[pr])

\* The verification of the attempt for lease l, if it is still under way, has
\* looked at q on behalf of its holder at p.
LookedAt(o, l, p, pr, q) ==
  task[pr][o].op = "acquire" /\ task[pr][o].lease = l =>
    /\ scan[pr][o].phase = "verify"
    /\ \/ p \notin scan[pr][o].todo
       \/ IsFirst(p, scan[pr][o].todo) /\ q \notin scan[pr][o].reads

\* Of two stakes that meet, one has still to look at the other.
StillToLook ==
  \A o \in Owner, l \in Lease, p \in Path, k \in Kind, pr \in Proc, c \in 0 .. now :
    Stake(o, l, p, k, pr, c) =>
      \A w \in Owner, m \in Lease, q \in Path, j \in Kind, qr \in Proc, d \in 0 .. now :
        /\ Stake(w, m, q, j, qr, d) /\ o # w
        /\ LookedAt(o, l, p, pr, q) /\ LookedAt(w, m, q, qr, p)
        => Apart(p, k, q, j)

-----------------------------------------------------------------------------
(* What a failed attempt has to take back: its holders are its owner's and   *)
(* stand where it wrote them, and what it replaced is its source.            *)

WrittenHolders ==
  \A pr \in Proc, o \in Owner, p \in Path :
    task[pr][o].op = "acquire" /\ ~Gone(task[pr][o].lease, p) => p \in written(pr, o)

ReplacedAtSource ==
  \A pr \in Proc, o \in Owner, p \in Path :
    IsAcquiring(pr, o) => \A h \in task[pr][o].replaced[p] : h.id = task[pr][o].source

Undoable == AttemptHolders /\ WrittenHolders /\ ReplacedAtSource

-----------------------------------------------------------------------------
(* Adoption path by path: every adoption of one source takes the first path  *)
(* first and gives it back last, so the first path decides who has the rest. *)

FsWithheld(pr, o) == IF task[pr][o].op = "acquire" THEN written(pr, o) ELSE Withheld(task[pr][o])

FsAdopting(pr, o, s) ==
  IsAcquiring(pr, o) /\ task[pr][o].source = s /\ FsWithheld(pr, o) # {}

\* The source is out of the store where an adoption withholds it, from the first path on.
FsSourceWithheld ==
  \A pr \in Proc, o \in Owner, s \in Lease :
    FsAdopting(pr, o, s) =>
      /\ FsWithheld(pr, o) \subseteq lock_paths(task[pr][o].req)
      /\ \A p \in FsWithheld(pr, o) :
           /\ Gone(s, p)
           /\ \A q \in lock_paths(task[pr][o].req) : Rank[q] < Rank[p] => q \in FsWithheld(pr, o)

FsOneAdoption ==
  \A pr, qr \in Proc, o, w \in Owner, s \in Lease :
    FsAdopting(pr, o, s) /\ FsAdopting(qr, w, s) => pr = qr /\ o = w

\* A lease published from source s: no other attempt from s can write any more.
FsAdoptedForGood ==
  \A k, s \in Lease :
    Published(k) /\ entries[k].source = s =>
      /\ Transferable(s)
      /\ \A pr \in Proc, o \in Owner : ~FsAdopting(pr, o, s)
      /\ \A c \in Coverage : Referenced(s, c) => \A p \in lock_paths(c) : Gone(s, p)

PublishesAll ==
  \A pr \in Proc, o \in Owner : task[pr][o].op = "publish" => lock_paths(task[pr][o].req) # {}

FsAdoptions ==
  /\ OneCoverage /\ PublishesAll /\ FsSourceWithheld /\ FsOneAdoption
  /\ FsAdoptedForGood /\ AdoptedOnce

-----------------------------------------------------------------------------
(* Restoring the source: what an attempt took out of the store goes back as  *)
(* it was, if the attempt is prompt and the lease parked there still valid.  *)

Valid(l) == Published(l) /\ entries[l].invalidation = "None"

\* A release of a parked lease is the cleanup of an invalidated one.
ReleaseParked ==
  \A pr \in Proc, o \in Owner :
    task[pr][o].op = "release" /\ entries[task[pr][o].lease].pending_handoff =>
      ~Valid(task[pr][o].lease)

\* A reference says what the parked lease covers and whose it is.
ReferencesTrue ==
  \A s \in Lease :
    Valid(s) =>
      /\ \A m \in handoffs : m.lease = s => m.cov = entries[s].cov /\ m.owner = entries[s].owner
      /\ \A pr \in Proc, o \in Owner :
           IsAcquiring(pr, o) /\ task[pr][o].source = s =>
             task[pr][o].req = entries[s].cov /\ o = entries[s].owner

\* A holder at p is of the kind that its lease has there and no older than what the
\* lease, a refresh or an attempt counts from.
StampOK(h, p) ==
  /\ Valid(h.id) /\ entries[h.id].cov[p] # "None" =>
       h.kind = entries[h.id].cov[p] /\ h.time >= entries[h.id].conf[p] + Skew[entries[h.id].proc]
  /\ \A pr \in Proc, o \in Owner : task[pr][o].lease = h.id =>
       /\ IsAcquiring(pr, o) => h.kind = task[pr][o].req[p] /\ h.time >= task[pr][o].started + Skew[pr]
       /\ task[pr][o].op = "refresh" /\ task[pr][o].result[p] = "ok" =>
            h.time >= task[pr][o].started + Skew[pr]

Stamped ==
  /\ \A p \in Path : \A h \in tokens[p].holders : StampOK(h, p)
  /\ \A pr \in Proc, o \in Owner, p \in Path :
       IsAcquiring(pr, o) /\ p \in FsWithheld(pr, o) =>
         \A h \in task[pr][o].replaced[p] : StampOK(h, p)

\* What was replaced was replaced by a holder that stands, is being undone or was.
ReplacedTracked ==
  \A pr \in Proc, o \in Owner, p \in Path :
    IsAcquiring(pr, o) /\ task[pr][o].replaced[p] # {} =>
      /\ task[pr][o].req[p] # "None"
      /\ task[pr][o].op = "acquire" => p \in written(pr, o)
      /\ task[pr][o].op = "undo" => task[pr][o].result[p] \in {"todo", "ok", "err"}

\* No process takes the holders of the attempt for stale.
Prompt(pr, o) == \A qr \in Proc : task[pr][o].started + Skew[pr] >= now_ns(qr) - TTL

\* The holders of a prompt adoption stand where it withholds the source.
StandsIn ==
  \A pr \in Proc, o \in Owner, s \in Lease :
    FsAdopting(pr, o, s) /\ Prompt(pr, o) =>
      \A p \in FsWithheld(pr, o) : ~Gone(task[pr][o].lease, p)

\* What a prompt adoption has given back stays there while the parked lease is valid.
GivenBack ==
  \A pr \in Proc, o \in Owner, p \in Path, s \in Lease :
    /\ FsAdopting(pr, o, s) /\ task[pr][o].op = "undo"
    /\ task[pr][o].result[p] = "ok" /\ task[pr][o].replaced[p] # {}
    /\ Prompt(pr, o) /\ Valid(s) /\ ~expired(entries[s])
    => ~Gone(s, p) /\ tokens[p].owner = o

Restorable ==
  ReleaseParked /\ ReferencesTrue /\ Stamped /\ ReplacedTracked /\ StandsIn /\ GivenBack
=============================================================================
