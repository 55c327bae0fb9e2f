-------------------------- MODULE PathLockInductive -------------------------
(***************************************************************************)
(* The invariant that makes mutual exclusion between owners inductive.     *)
(* Exclusion is decided in the store, authorization in the registries; the *)
(* invariant ties each claim a process may act on to the holder behind it. *)
(***************************************************************************)
EXTENDS PathLock

IsAcquiring(pr, o) == task[pr][o].op \in {"acquire", "publish", "undo"}

\* The lease of a handoff reference authorizes nobody: it is parked or gone,
\* and no acquisition in flight is about to publish it.
Transferable(l) ==
  /\ Published(l) => entries[l].pending_handoff
  /\ \A pr \in Proc, o \in Owner : IsAcquiring(pr, o) => task[pr][o].lease # l

\* How operations in flight relate to the registries.
EntriesOwned ==
  \A l \in Lease : Published(l) => entries[l].owner \in Owner

PastConfirmations ==
  /\ \A l \in Lease, p \in Path : entries[l].conf[p] <= now
  /\ \A pr \in Proc, o \in Owner : task[pr][o].started <= now

UnpublishedWhileAcquiring ==
  \A pr \in Proc, o \in Owner : IsAcquiring(pr, o) => ~Published(task[pr][o].lease)

OneAcquisitionPerLease ==
  \A pr, qr \in Proc, o, w \in Owner :
    IsAcquiring(pr, o) /\ IsAcquiring(qr, w) /\ task[pr][o].lease = task[qr][w].lease
      => pr = qr /\ o = w

SourcesTransferable ==
  \A l \in Lease :
    \/ \E m \in handoffs : m.lease = l
    \/ \E pr \in Proc, o \in Owner : IsAcquiring(pr, o) /\ task[pr][o].source = l
    => Transferable(l)

HeldWhileInFlight ==
  \A pr \in Proc, o \in Owner :
    task[pr][o].op \in {"refresh", "release"} => task[pr][o].lease \in registry(entries, pr, o)

RefreshIsLater ==
  \A pr \in Proc, o \in Owner, p \in Path :
    task[pr][o].op = "refresh" => entries[task[pr][o].lease].conf[p] <= task[pr][o].started

ReleaseCovered ==
  \A pr \in Proc, o \in Owner :
    task[pr][o].op = "release" =>
      Todo(task[pr][o]) \subseteq lock_paths(entries[task[pr][o].lease].cov)

Structure ==
  /\ EntriesOwned /\ PastConfirmations /\ UnpublishedWhileAcquiring
  /\ OneAcquisitionPerLease /\ SourcesTransferable /\ HeldWhileInFlight /\ RefreshIsLater
  /\ ReleaseCovered

-----------------------------------------------------------------------------
(* Claims: what process pr may come to act on without asking the store     *)
(* again, because the store confirmed holder l of owner o at p at time c.  *)

EntryClaim(o, l, p, k, pr, c) ==
  /\ Usable(l) /\ entries[l].proc = pr /\ entries[l].owner = o
  /\ entries[l].cov[p] = k /\ k # "None"
  /\ now - entries[l].conf[p] < Validity
  /\ c = entries[l].conf[p]

RefreshClaim(o, l, p, k, pr, c) ==
  /\ EntryClaim(o, l, p, k, pr, entries[l].conf[p])
  /\ task[pr][o].op = "refresh" /\ task[pr][o].lease = l
  /\ task[pr][o].result[p] = "ok"
  /\ c = task[pr][o].started

PublishClaim(o, l, p, k, pr, c) ==
  /\ task[pr][o].op = "publish" /\ task[pr][o].lease = l
  /\ task[pr][o].req[p] = k /\ k # "None"
  /\ c = task[pr][o].started

Claim(o, l, p, k, pr, c) ==
  /\ now - c < Validity
  /\ \/ EntryClaim(o, l, p, k, pr, c)
     \/ RefreshClaim(o, l, p, k, pr, c)
     \/ PublishClaim(o, l, p, k, pr, c)

HolderIn(token, o, l, k, time) ==
  /\ token.owner = o
  /\ \E h \in token.holders : h.id = l /\ h.kind = k /\ h.time >= time

\* The holder behind a claim is in the store, no older than the claim.
Grounded ==
  \A o \in Owner, l \in Lease, p \in Path, k \in Kind, pr \in Proc, c \in 0 .. now :
    Claim(o, l, p, k, pr, c) => HolderIn(tokens[p], o, l, k, c + Skew[pr])

Apart(p, k, q, j) ==
  /\ p # q
  /\ ~(k = "Tree" /\ p \in ancestor_paths[q])
  /\ ~(j = "Tree" /\ q \in ancestor_paths[p])

\* Claims of different owners do not meet.
Exclusive ==
  \A o \in Owner, l \in Lease, p \in Path, k \in Kind, pr \in Proc, c \in 0 .. now :
    Claim(o, l, p, k, pr, c) =>
      \A w \in Owner, m \in Lease, q \in Path, j \in Kind, qr \in Proc, d \in 0 .. now :
        Claim(w, m, q, j, qr, d) /\ o # w => Apart(p, k, q, j)

\* What a claim on p of kind k reaches.
Reaches(p, k, q) == q = p \/ (k = "Tree" /\ p \in ancestor_paths[q])

OwnToken(token, o) == token.holders = {} \/ token.owner = o

\* No other owner has a holder, live or not, where a claim reaches.
Cleared ==
  \A o \in Owner, l \in Lease, p \in Path, k \in Kind, pr \in Proc, c \in 0 .. now :
    Claim(o, l, p, k, pr, c) => \A q \in Path : Reaches(p, k, q) => OwnToken(tokens[q], o)

-----------------------------------------------------------------------------
(* Adoption: an attempt that commits takes its source out of the store, and  *)
(* only the undo of that attempt puts it back.                               *)

IsAdopting(pr, o, s) == task[pr][o].op \in {"publish", "undo"} /\ task[pr][o].source = s

\* The paths of an attempt at which its holder still stands in for the source.
Withheld(t) == IF t.op = "publish" THEN lock_paths(t.req) ELSE Todo(t)

Gone(s, p) == \A h \in tokens[p].holders : h.id # s

\* Somebody may still adopt lease s with coverage c: a queued reference or an attempt.
Referenced(s, c) ==
  \/ \E m \in handoffs : m.lease = s /\ m.cov = c
  \/ \E pr \in Proc, o \in Owner :
       IsAcquiring(pr, o) /\ task[pr][o].source = s /\ task[pr][o].req = c

BatchesNonEmpty ==
  /\ \A m \in handoffs : lock_paths(m.cov) # {}
  /\ \A pr \in Proc, o \in Owner : IsAcquiring(pr, o) => lock_paths(task[pr][o].req) # {}
  /\ \A l \in Lease : Published(l) => lock_paths(entries[l].cov) # {}

OneCoverage ==
  \A s \in Lease, c, d \in Coverage : Referenced(s, c) /\ Referenced(s, d) => c = d

SourceWithheld ==
  \A pr \in Proc, o \in Owner, s \in Lease :
    IsAdopting(pr, o, s) =>
      /\ Withheld(task[pr][o]) # {} /\ Withheld(task[pr][o]) \subseteq lock_paths(task[pr][o].req)
      /\ \A p \in Withheld(task[pr][o]) : Gone(s, p)

ReplacedIsSource ==
  \A pr \in Proc, o \in Owner, p \in Path :
    task[pr][o].op \in {"publish", "undo"} =>
      \A h \in task[pr][o].replaced[p] : h.id = task[pr][o].source

OneAdoption ==
  \A pr, qr \in Proc, o, w \in Owner, s \in Lease :
    IsAdopting(pr, o, s) /\ IsAdopting(qr, w, s) => pr = qr /\ o = w

\* A lease published from source s: no other attempt from s can commit any more.
AdoptedForGood ==
  \A k, s \in Lease :
    Published(k) /\ entries[k].source = s =>
      /\ Transferable(s)
      /\ \A pr \in Proc, o \in Owner : ~IsAdopting(pr, o, s)
      /\ \A c \in Coverage : Referenced(s, c) => \A p \in lock_paths(c) : Gone(s, p)

Adoptions ==
  /\ BatchesNonEmpty /\ OneCoverage /\ SourceWithheld /\ ReplacedIsSource
  /\ OneAdoption /\ AdoptedForGood /\ AdoptedOnce

-----------------------------------------------------------------------------
(* Leftovers: where the holders of a lease can be, and whose they are.       *)

NothingWrittenYet ==
  \A pr \in Proc, o \in Owner, p \in Path :
    task[pr][o].op = "acquire" => Gone(task[pr][o].lease, p)

\* The holders of an attempt are its owner's, at paths it asked for and has not undone.
AttemptHolders ==
  \A pr \in Proc, o \in Owner, p \in Path :
    IsAcquiring(pr, o) /\ ~Gone(task[pr][o].lease, p) =>
      /\ tokens[p].owner = o /\ task[pr][o].req[p] # "None"
      /\ task[pr][o].op = "undo" => task[pr][o].result[p] \in {"todo", "err"}

\* The holders of a lease that is not parked are its owner's, at paths it covers.
HeldWhereCovered ==
  \A l \in Lease, p \in Path :
    Published(l) /\ ~entries[l].pending_handoff /\ ~Gone(l, p) =>
      p \in lock_paths(entries[l].cov) /\ tokens[p].owner = entries[l].owner

ReferenceCovers ==
  \A s \in Lease, c \in Coverage, p \in Path :
    Referenced(s, c) /\ ~Gone(s, p) => p \in lock_paths(c)

\* A source that was adopted is out of the store for good.
AdoptedIsGone ==
  \A u \in unparking :
    /\ Transferable(u[2])
    /\ \A pr \in Proc, o \in Owner : ~IsAdopting(pr, o, u[2])
    /\ \A p \in Path : Gone(u[2], p)

Leftovers ==
  /\ NothingWrittenYet /\ AttemptHolders /\ HeldWhereCovered /\ ReferenceCovers
  /\ AdoptedIsGone
=============================================================================
