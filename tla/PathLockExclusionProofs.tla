----------------------- MODULE PathLockExclusionProofs ----------------------
(***************************************************************************)
(* Mutual exclusion between owners, for any number of processes, owners,   *)
(* leases and paths: the claims of PathLockInductive are grounded in the   *)
(* store, and claims of different owners do not meet.                      *)
(***************************************************************************)
EXTENDS PathLockStructureProofs

-----------------------------------------------------------------------------
(* What the token functions do to a holder that is live. *)

\* A holder confirmed within Validity is live by every process's clock, even
\* for an operation that read its clock at an earlier time s.
LEMMA FreshIsLive ==
  ASSUME now \in Nat, NEW pr \in Proc, NEW qr \in Proc, NEW c \in Nat, NEW s \in Nat,
         now - c < Validity, s <= now
  PROVE  /\ c + Skew[pr] \in Int /\ 0 <= c + Skew[pr]
         /\ stale_before_at(qr, s) \in Int
         /\ stale_before_at(qr, s) <= c + Skew[pr]
<1>1. /\ Skew[pr] \in Nat /\ Skew[qr] \in Nat /\ Skew[qr] - Skew[pr] <= TTL - Validity
      /\ TTL \in Nat /\ Validity \in Nat
  BY SkewAssumption, TimeAssumption
<1> QED BY <1>1 DEF stale_before_at

\* Another holder of the same owner is added.
LEMMA WithHolderKeeps ==
  ASSUME NEW tok \in Token, NEW o, NEW l, NEW k, NEW time \in Int, HolderIn(tok, o, l, k, time),
         NEW id, NEW kind, NEW n, NEW sb \in Int, sb <= time, NEW src, src # l
  PROVE  HolderIn(with_holder(tok, o, id, kind, n, sb, src), o, l, k, time)
<1>1. PICK h \in tok.holders : h.id = l /\ h.kind = k /\ h.time >= time
  BY DEF HolderIn
<1>2. h.time \in Int
  BY <1>1 DEF Token, Holder
<1>3. h.time >= sb
  BY <1>1, <1>2
<1>4. tok.owner = o /\ tok.holders # {}
  BY DEF HolderIn
<1>5. h \in with_holder(tok, o, id, kind, n, sb, src).holders
  BY <1>1, <1>3, <1>4 DEF with_holder, add_holder, Token
<1>6. with_holder(tok, o, id, kind, n, sb, src).owner = o
  BY <1>4 DEF with_holder, add_holder, Token
<1> QED BY <1>1, <1>5, <1>6 DEF HolderIn

\* Another holder is refreshed, released or rolled back.
LEMMA MutateKeeps ==
  ASSUME NEW tok \in Token, NEW o, NEW l, NEW k, NEW time \in Int, HolderIn(tok, o, l, k, time),
         NEW w, NEW id, id # l, NEW n, NEW sb \in Int, sb <= time, NEW release
  PROVE  HolderIn(mutate_holder_record(tok, w, id, n, sb, release), o, l, k, time)
<1> DEFINE mine   == {h \in tok.holders : h.id = id}
           others == {h \in tok.holders : h.id # id /\ h.time >= sb}
           kept   == IF release THEN {} ELSE {[h EXCEPT !.time = n] : h \in mine}
           new    == [tok EXCEPT !.holders = others \cup kept]
<1>1. PICK h \in tok.holders : h.id = l /\ h.kind = k /\ h.time >= time
  BY DEF HolderIn
<1>2. h.time \in Int
  BY <1>1 DEF Token, Holder
<1>3. h \in others
  BY <1>1, <1>2
<1>4. h \in new.holders /\ new.owner = o
  <2> HIDE DEF others, kept
  <2> QED BY <1>3 DEF HolderIn, Token
<1>5. HolderIn(new, o, l, k, time) /\ new.holders # {}
  <2> HIDE DEF new
  <2> QED BY <1>1, <1>4 DEF HolderIn
<1>6. mutate_holder_record(tok, w, id, n, sb, release) \in {tok, recompute(new)}
  BY DEF mutate_holder_record
<1>7. recompute(new) = new
  <2> HIDE DEF new
  <2> QED BY <1>5 DEF recompute
<1> HIDE DEF new
<1> QED BY <1>5, <1>6, <1>7

\* Another holder is released, whatever its age.
LEMMA DropKeeps ==
  ASSUME NEW tok \in Token, NEW o, NEW l, NEW k, NEW time \in Int, HolderIn(tok, o, l, k, time),
         NEW w, NEW id, id # l, NEW n, 0 <= time
  PROVE  HolderIn(mutate_holder_record(tok, w, id, n, 0, TRUE), o, l, k, time)
<1> DEFINE z == 0
           b == TRUE
<1>1. z \in Int /\ z <= time
  OBVIOUS
<1> HIDE DEF z, b
<1>2. HolderIn(mutate_holder_record(tok, w, id, n, z, b), o, l, k, time)
  BY <1>1, MutateKeeps
<1> QED BY <1>2 DEF z, b

\* The holder itself is refreshed: it is there with the new time, or the
\* token is as it was.
LEMMA RefreshKeeps ==
  ASSUME NEW tok \in Token, NEW o, NEW l, NEW k, NEW time \in Int, HolderIn(tok, o, l, k, time),
         NEW n \in Int, time <= n, NEW sb
  PROVE  LET new == mutate_holder_record(tok, o, l, n, sb, FALSE) IN
         /\ HolderIn(new, o, l, k, time)
         /\ holder_found(tok, o, l, sb, FALSE) => HolderIn(new, o, l, k, n)
<1> DEFINE mine   == {h \in tok.holders : h.id = l}
           others == {h \in tok.holders : h.id # l /\ h.time >= sb}
           kept   == {[h EXCEPT !.time = n] : h \in mine}
           new    == [tok EXCEPT !.holders = others \cup kept]
<1>1. PICK h \in tok.holders : h.id = l /\ h.kind = k /\ h.time >= time
  BY DEF HolderIn
<1>2. [h EXCEPT !.time = n] \in kept
  BY <1>1
<1>3. h \in Holder
  BY <1>1 DEF Token
<1>4. [h EXCEPT !.time = n].id = l /\ [h EXCEPT !.time = n].kind = k /\ [h EXCEPT !.time = n].time = n
  BY <1>1, <1>3 DEF Holder
<1>5. [h EXCEPT !.time = n] \in new.holders /\ new.owner = o
  <2> HIDE DEF others, kept
  <2> QED BY <1>2 DEF HolderIn, Token
<1>6. HolderIn(new, o, l, k, n) /\ HolderIn(new, o, l, k, time) /\ new.holders # {}
  <2> DEFINE g == [h EXCEPT !.time = n]
  <2>1. g \in new.holders /\ new.owner = o /\ g.id = l /\ g.kind = k
    BY <1>4, <1>5
  <2>2. g.time >= n /\ g.time >= time
    BY <1>4
  <2> HIDE DEF new, g
  <2> QED BY <2>1, <2>2 DEF HolderIn
<1>7. /\ holder_found(tok, o, l, sb, FALSE) =>
           mutate_holder_record(tok, o, l, n, sb, FALSE) = recompute(new)
      /\ ~holder_found(tok, o, l, sb, FALSE) => mutate_holder_record(tok, o, l, n, sb, FALSE) = tok
  BY DEF mutate_holder_record
<1>8. recompute(new) = new
  <2> HIDE DEF new
  <2> QED BY <1>6 DEF recompute
<1> HIDE DEF new
<1> QED BY <1>6, <1>7, <1>8

\* Another holder gives way to the source it replaced.
LEMMA ReplaceKeeps ==
  ASSUME NEW tok \in Token, NEW o, NEW l, NEW k, NEW time \in Int, HolderIn(tok, o, l, k, time),
         NEW w, NEW id, id # l, NEW back, NEW sb \in Int, sb <= time
  PROVE  HolderIn(replace_holder(tok, w, id, back, sb), o, l, k, time)
<1> DEFINE others == {h \in tok.holders : h.id # id /\ h.time >= sb}
           more   == {r \in back : r.time >= sb /\ \A h \in others : h.id # r.id}
           new    == [tok EXCEPT !.holders = others \cup more]
<1>1. PICK h \in tok.holders : h.id = l /\ h.kind = k /\ h.time >= time
  BY DEF HolderIn
<1>2. h.time \in Int
  BY <1>1 DEF Token, Holder
<1>3. h \in others
  BY <1>1, <1>2
<1>4. h \in new.holders /\ new.owner = o
  <2> HIDE DEF others, more
  <2> QED BY <1>3 DEF HolderIn, Token
<1>5. HolderIn(new, o, l, k, time) /\ new.holders # {}
  <2> HIDE DEF new
  <2> QED BY <1>1, <1>4 DEF HolderIn
<1>6. replace_holder(tok, w, id, back, sb) \in {tok, recompute(new)}
  BY DEF replace_holder
<1>7. recompute(new) = new
  <2> HIDE DEF new
  <2> QED BY <1>5 DEF recompute
<1> HIDE DEF new
<1> QED BY <1>5, <1>6, <1>7

\* A live holder makes its token live, with at least its kind.
LEMMA HolderIsLive ==
  ASSUME NEW tok \in Token, NEW o, NEW l, NEW k, NEW time \in Int, HolderIn(tok, o, l, k, time),
         NEW sb \in Int, sb <= time
  PROVE  /\ live_kind(tok, sb) # "None"
         /\ k = "Tree" => live_kind(tok, sb) = "Tree"
<1>1. PICK h \in tok.holders : h.id = l /\ h.kind = k /\ h.time >= time
  BY DEF HolderIn
<1>2. h.time \in Int
  BY <1>1 DEF Token, Holder
<1>3. h \in live(tok, sb)
  BY <1>1, <1>2 DEF live
<1> QED BY <1>1, <1>3 DEF live_kind

\* Deleting stale tokens, and granting a batch without conflict, keeps it.
LEMMA RemoveStaleKeeps ==
  ASSUME NEW toks \in [Path -> Token], NEW p \in Path, NEW o, NEW l, NEW k, NEW time \in Int,
         HolderIn(toks[p], o, l, k, time), NEW r, NEW w, NEW sb \in Int, sb <= time,
         NEW S \in SUBSET stale_in_way(toks, r, w, sb)
  PROVE  HolderIn(remove_stale(toks, S)[p], o, l, k, time)
<1>1. live_kind(toks[p], sb) # "None"
  BY HolderIsLive
<1>2. p \notin S
  BY <1>1 DEF stale_in_way
<1> QED BY <1>2 DEF remove_stale

\* A batch granted without conflict keeps every live holder but its source.
LEMMA AcquireKeeps ==
  ASSUME NEW toks \in [Path -> Token], NEW p \in Path, NEW o, NEW l, NEW k, NEW time \in Int,
         HolderIn(toks[p], o, l, k, time), NEW r, NEW w, NEW id, NEW n, NEW sb \in Int, sb <= time,
         NEW src, src # l, ~has_conflict(toks, r, w, sb)
  PROVE  HolderIn(acquire_holder_records(toks, r, w, id, n, sb, src)[p], o, l, k, time)
<1> DEFINE S    == stale_in_way(toks, r, w, sb)
           kept == remove_stale(toks, S)
<1>1. HolderIn(kept[p], o, l, k, time) /\ kept[p] \in Token
  BY RemoveStaleKeeps, RemoveStaleType
<1>2. CASE r[p] = "None"
  BY <1>1, <1>2 DEF acquire_holder_records
<1>3. CASE r[p] # "None"
  <2>1. toks[p].owner = o /\ toks[p].holders # {} /\ live_kind(toks[p], sb) # "None"
    BY HolderIsLive DEF HolderIn
  <2>2. w = o
    BY <2>1, <1>3 DEF has_conflict, conflict_at, foreign, lock_paths
  <2> HIDE DEF kept
  <2>3. HolderIn(with_holder(kept[p], o, id, r[p], n, sb, src), o, l, k, time)
    BY <1>1, WithHolderKeeps
  <2> QED BY <1>3, <2>2, <2>3 DEF acquire_holder_records, kept
<1> QED BY <1>2, <1>3

\* A granted batch has its holders in the store.
LEMMA AcquireAdds ==
  ASSUME NEW toks \in [Path -> Token], NEW p \in Path, NEW r \in Coverage, NEW w \in Owner,
         NEW id \in Lease, NEW n \in Int, NEW sb, NEW src, r[p] # "None"
  PROVE  HolderIn(acquire_holder_records(toks, r, w, id, n, sb, src)[p], w, id, r[p], n)
<1> DEFINE kept == remove_stale(toks, stale_in_way(toks, r, w, sb))
           h    == [id |-> id, kind |-> r[p], time |-> n]
           new  == with_holder(kept[p], w, id, r[p], n, sb, src)
<1>1. kept[p] \in Token
  BY RemoveStaleType
<1>2. h \in new.holders /\ new.owner = w
  <2> HIDE DEF kept
  <2> QED BY <1>1 DEF with_holder, add_holder, held, Token
<1>3. HolderIn(new, w, id, r[p], n)
  <2> HIDE DEF new
  <2> QED BY <1>2 DEF HolderIn
<1>4. acquire_holder_records(toks, r, w, id, n, sb, src)[p] = new
  BY DEF acquire_holder_records
<1> QED BY <1>3, <1>4
-----------------------------------------------------------------------------
(* Claims *)

\* A claim rests on a confirmation in the past.
LEMMA ClaimTime ==
  ASSUME TypeOK, Structure, NEW o \in Owner, NEW l \in Lease, NEW p \in Path, NEW k, NEW pr \in Proc,
         NEW c, Claim(o, l, p, k, pr, c)
  PROVE  c \in 0 .. now /\ now \in Nat /\ now - c < Validity
<1>1. entries[l].conf[p] \in Nat /\ task[pr][o].started \in Nat /\ now \in Nat
  BY TaskLease DEF TypeOK, Entry
<1>2. entries[l].conf[p] <= now /\ task[pr][o].started <= now
  BY DEF Structure, PastConfirmations
<1>3. c = entries[l].conf[p] \/ c = task[pr][o].started
  BY DEF Claim, EntryClaim, RefreshClaim, PublishClaim
<1>4. now - c < Validity
  BY DEF Claim
<1> QED BY <1>1, <1>2, <1>3, <1>4

\* Nobody claims the lease of an attempt that is not yet granted or is being
\* undone, nor the source of an attempt in flight.
LEMMA ClaimedLease ==
  ASSUME TypeOK, Structure, NEW o \in Owner, NEW l \in Lease, NEW p \in Path, NEW k, NEW pr \in Proc,
         NEW c, Claim(o, l, p, k, pr, c), NEW qr \in Proc, NEW w \in Owner, IsAcquiring(qr, w)
  PROVE  /\ task[qr][w].op # "publish" => l # task[qr][w].lease
         /\ l # task[qr][w].source
<1>1. Usable(l) \/ (task[pr][o].op = "publish" /\ task[pr][o].lease = l)
  BY DEF Claim, EntryClaim, RefreshClaim, PublishClaim
<1>2. task[qr][w].op # "publish" => l # task[qr][w].lease
  BY <1>1 DEF Structure, UnpublishedWhileAcquiring, OneAcquisitionPerLease, Usable, IsAcquiring
<1>3. ASSUME l = task[qr][w].source PROVE FALSE
  <2>1. Transferable(l)
    BY <1>3 DEF Structure, SourcesTransferable
  <2> QED BY <1>1, <2>1 DEF Transferable, Usable, IsAcquiring
<1> QED BY <1>2, <1>3

\* Every claim after the step was a claim before it.
OldClaims ==
  \A o \in Owner, l \in Lease, p \in Path, k \in Kind, pr \in Proc, c \in Nat :
    Claim(o, l, p, k, pr, c)' => Claim(o, l, p, k, pr, c)

\* A step that confirms nothing: entries that stay usable keep the
\* confirmations of the paths they keep, and no operation gains a confirmed
\* path.
EntryUnconfirmed(l) ==
  Usable(l)' =>
    /\ Usable(l)
    /\ entries'[l].proc = entries[l].proc /\ entries'[l].owner = entries[l].owner
    /\ \A p \in Path : entries'[l].cov[p] # "None" =>
         entries'[l].cov[p] = entries[l].cov[p] /\ entries'[l].conf[p] = entries[l].conf[p]

TaskUnconfirmed(pr, o) ==
  \/ task'[pr][o] = task[pr][o]
  \/ task'[pr][o].op \notin {"refresh", "publish"}
  \/ task'[pr][o].op = "refresh" /\ \A p \in Path : task'[pr][o].result[p] # "ok"

LEMMA Unconfirmed ==
  ASSUME TypeOK, TypeOK', now <= now', \A l \in Lease : EntryUnconfirmed(l),
         \A pr \in Proc, o \in Owner : TaskUnconfirmed(pr, o)
  PROVE  OldClaims
<1> SUFFICES ASSUME NEW o \in Owner, NEW l \in Lease, NEW p \in Path, NEW k \in Kind,
                    NEW pr \in Proc, NEW c \in Nat, Claim(o, l, p, k, pr, c)'
             PROVE  Claim(o, l, p, k, pr, c)
  BY DEF OldClaims
<1>0. Validity \in Nat /\ now \in Nat /\ now' \in Nat /\ Skew \in [Proc -> Nat]
  BY TimeAssumption, SkewAssumption DEF TypeOK
<1>1. now - c < Validity
  <2>1. now' - c < Validity
    BY DEF Claim
  <2>2. \A a, b, d, v \in Nat : a <= b /\ b - d < v => a - d < v
    OBVIOUS
  <2> QED BY <2>1, <2>2, <1>0
<1>e. k # "None"
  BY DEF Kind
<1>2. ASSUME NEW d, d \in Nat, EntryClaim(o, l, p, k, pr, d)' PROVE EntryClaim(o, l, p, k, pr, d)
  <2>1. /\ Usable(l)' /\ entries'[l].proc = pr /\ entries'[l].owner = o
        /\ entries'[l].cov[p] = k /\ now' - entries'[l].conf[p] < Validity /\ d = entries'[l].conf[p]
    BY <1>2 DEF EntryClaim
  <2>2. /\ Usable(l) /\ entries[l].proc = pr /\ entries[l].owner = o
        /\ entries[l].cov[p] = k /\ entries'[l].conf[p] = entries[l].conf[p]
    BY <2>1, <1>e DEF EntryUnconfirmed
  <2>3. now - entries[l].conf[p] < Validity
    BY <2>1, <2>2, <1>0, <1>2
  <2> QED BY <2>1, <2>2, <2>3, <1>e DEF EntryClaim
<1>3. CASE EntryClaim(o, l, p, k, pr, c)'
  BY <1>1, <1>2, <1>3 DEF Claim
<1>4. CASE RefreshClaim(o, l, p, k, pr, c)'
  <2>2. PICK d \in Nat : d = entries'[l].conf[p]
    BY DEF TypeOK, Entry
  <2>1. /\ EntryClaim(o, l, p, k, pr, d)'
        /\ task'[pr][o].op = "refresh" /\ task'[pr][o].lease = l
        /\ task'[pr][o].result[p] = "ok" /\ c = task'[pr][o].started
    BY <1>4, <2>2 DEF RefreshClaim, EntryClaim
  <2>3. EntryClaim(o, l, p, k, pr, d) /\ d = entries[l].conf[p]
    BY <2>1, <2>2, <1>2, <1>e DEF EntryClaim, EntryUnconfirmed
  <2>4. task'[pr][o] = task[pr][o]
    BY <2>1 DEF TaskUnconfirmed
  <2>5. RefreshClaim(o, l, p, k, pr, c)
    BY <2>1, <2>3, <2>4 DEF RefreshClaim
  <2> QED BY <1>1, <2>5 DEF Claim
<1>5. CASE PublishClaim(o, l, p, k, pr, c)'
  <2>1. task'[pr][o] = task[pr][o]
    BY <1>5 DEF PublishClaim, TaskUnconfirmed
  <2>2. PublishClaim(o, l, p, k, pr, c)
    BY <1>5, <2>1 DEF PublishClaim
  <2> QED BY <1>1, <2>2 DEF Claim
<1> QED BY <1>3, <1>4, <1>5 DEF Claim

\* The registries keep everything but invalidations, or lose leases.
LEMMA KeptUnconfirmed ==
  ASSUME EntriesKept
  PROVE  \A l \in Lease : EntryUnconfirmed(l)
BY DEF EntriesKept, EntryUnconfirmed, Usable, Published

\* The step of one operation, or of none, that confirms nothing.
LEMMA UnconfirmedOne ==
  ASSUME TypeOK, TypeOK', now <= now', \A l \in Lease : EntryUnconfirmed(l),
         NEW pr \in Proc, NEW o \in Owner, NEW u, task' = [task EXCEPT ![pr][o] = u],
         \/ u.op \notin {"refresh", "publish"}
         \/ u.op = "refresh" /\ \A p \in Path : u.result[p] # "ok"
  PROVE  OldClaims
<1>1. /\ task'[pr][o] = u
      /\ \A qr \in Proc, w \in Owner : qr # pr \/ w # o => task'[qr][w] = task[qr][w]
  BY TaskSet DEF TypeOK
<1>2. \A qr \in Proc, w \in Owner : TaskUnconfirmed(qr, w)
  BY <1>1 DEF TaskUnconfirmed
<1> QED BY <1>2, Unconfirmed

LEMMA UnconfirmedNone ==
  ASSUME TypeOK, TypeOK', now <= now', \A l \in Lease : EntryUnconfirmed(l), task' = task
  PROVE  OldClaims
BY Unconfirmed DEF TaskUnconfirmed

\* A published lease was claimed, with the same confirmation, by the
\* acquisition that publishes it.
LEMMA PublishClaims ==
  ASSUME TypeOK, TypeOK', Structure, NEW pr \in Proc, NEW o \in Owner, PublishLease(pr, o)
  PROVE  OldClaims
<1> DEFINE t == task[pr][o]
           E == invalidate_expired(entries, pr, o)
<1>0. t.lease \in Lease /\ t.op = "publish"
  BY TaskLease DEF PublishLease
<1>1. E \in [Lease -> Entry]
  BY InvalidateExpiredType DEF TypeOK
<1>2. \A l \in Lease : l # t.lease => EntryUnconfirmed(l)
  <2>1. \A l \in Lease : l # t.lease => entries'[l] = E[l]
    BY <1>1 DEF PublishLease
  <2>2. \A l \in Lease :
        /\ E[l].proc = entries[l].proc /\ E[l].owner = entries[l].owner
        /\ E[l].cov = entries[l].cov /\ E[l].conf = entries[l].conf
        /\ E[l].pending_handoff = entries[l].pending_handoff
        /\ E[l].invalidation = "None" => entries[l].invalidation = "None"
    BY SweepKeeps DEF TypeOK
  <2> HIDE DEF E, t
  <2> QED BY <2>1, <2>2 DEF EntryUnconfirmed, Usable, Published
<1>3. /\ entries'[t.lease].proc = pr /\ entries'[t.lease].owner = o /\ entries'[t.lease].cov = t.req
      /\ \A p \in Path : t.req[p] # "None" => entries'[t.lease].conf[p] = t.started
  <2>1. entries'[t.lease] =
         [NoEntry EXCEPT !.proc = pr, !.owner = o, !.cov = t.req,
                         !.conf = [p \in Path |-> IF t.req[p] = "None" THEN 0 ELSE t.started],
                         !.source = t.source]
    BY <1>0, <1>1 DEF PublishLease
  <2> QED BY <2>1 DEF NoEntry
<1>4. /\ task'[pr][o].op = "idle"
      /\ \A qr \in Proc, w \in Owner : qr # pr \/ w # o => task'[qr][w] = task[qr][w]
  <2>1. Idle.op = "idle"
    BY DEF Idle
  <2> QED BY <2>1, TaskSet DEF PublishLease, TypeOK
<1>5. now' = now
  BY DEF PublishLease
<1>6. \A qr \in Proc, w \in Owner : task[qr][w].op = "refresh" => task[qr][w].lease # t.lease
  BY <1>0, RequestAssumption DEF Structure, HeldWhileInFlight, UnpublishedWhileAcquiring, registry, IsAcquiring, Published
<1> SUFFICES ASSUME NEW w \in Owner, NEW l \in Lease, NEW p \in Path, NEW k \in Kind,
                    NEW qr \in Proc, NEW c \in Nat, Claim(w, l, p, k, qr, c)'
             PROVE  Claim(w, l, p, k, qr, c)
  BY DEF OldClaims
<1>e. k # "None"
  BY DEF Kind
<1> HIDE DEF t, E
<1>7. now - c < Validity
  BY <1>5 DEF Claim
<1>8. CASE EntryClaim(w, l, p, k, qr, c)' /\ l # t.lease
  <2>1. EntryClaim(w, l, p, k, qr, c)
    BY <1>8, <1>2, <1>5, <1>e DEF EntryClaim, EntryUnconfirmed
  <2> QED BY <2>1, <1>7 DEF Claim
<1>9. CASE EntryClaim(w, l, p, k, qr, c)' /\ l = t.lease
  <2>1. qr = pr /\ w = o /\ t.req[p] = k /\ c = t.started
    BY <1>9, <1>3, <1>e DEF EntryClaim
  <2>2. PublishClaim(w, l, p, k, qr, c)
    BY <2>1, <1>0, <1>9, <1>e DEF PublishClaim, t
  <2> QED BY <2>2, <1>7 DEF Claim
<1>10. CASE RefreshClaim(w, l, p, k, qr, c)'
  <2>1. task'[qr][w] = task[qr][w]
    BY <1>10, <1>4 DEF RefreshClaim
  <2>2. l # t.lease
    BY <1>10, <2>1, <1>6 DEF RefreshClaim
  <2>3. RefreshClaim(w, l, p, k, qr, c)
    BY <1>10, <2>1, <2>2, <1>2, <1>5, <1>e DEF RefreshClaim, EntryClaim, EntryUnconfirmed
  <2> QED BY <2>3, <1>7 DEF Claim
<1>11. CASE PublishClaim(w, l, p, k, qr, c)'
  <2>1. task'[qr][w] = task[qr][w]
    BY <1>11, <1>4 DEF PublishClaim
  <2>2. PublishClaim(w, l, p, k, qr, c)
    BY <1>11, <2>1 DEF PublishClaim
  <2> QED BY <2>2, <1>7 DEF Claim
<1> QED BY <1>8, <1>9, <1>10, <1>11 DEF Claim

\* A confirmation that a refresh applies was claimed by the refresh.
LEMMA ApplyClaims ==
  ASSUME TypeOK, TypeOK', Structure, NEW pr \in Proc, NEW o \in Owner, ApplyRefresh(pr, o)
  PROVE  OldClaims
<1> DEFINE t == task[pr][o]
<1>0. t.lease \in Lease /\ t.op = "refresh" /\ t.started \in Nat /\ now \in Nat
  BY TaskLease DEF ApplyRefresh, TypeOK
<1>1. t.lease \in registry(entries, pr, o)
  BY <1>0 DEF Structure, HeldWhileInFlight
<1>2. \A l \in Lease :
        /\ entries'[l].proc = entries[l].proc /\ entries'[l].owner = entries[l].owner
        /\ entries'[l].cov = entries[l].cov /\ entries'[l].pending_handoff = entries[l].pending_handoff
        /\ \A p \in Path : entries'[l].conf[p] =
              IF l = t.lease /\ t.result[p] = "ok" THEN t.started ELSE entries[l].conf[p]
        /\ entries'[l].invalidation = "None" =>
              entries[l].invalidation = "None" /\ (l = t.lease => ~expired(entries[t.lease]))
  <2>1. entries' = apply_refresh_results(entries, pr, o, t.lease, t.result, t.started)
    BY DEF ApplyRefresh
  <2>2. entries \in [Lease -> Entry]
    BY DEF TypeOK
  <2> HIDE DEF t
  <2> QED BY <2>1, <2>2, <1>0, <1>1, ApplyKeeps
<1>4. /\ task'[pr][o].op = "idle"
      /\ \A qr \in Proc, w \in Owner : qr # pr \/ w # o => task'[qr][w] = task[qr][w]
  <2>1. Idle.op = "idle"
    BY DEF Idle
  <2> QED BY <2>1, TaskSet DEF ApplyRefresh, TypeOK
<1>5. now' = now
  BY DEF ApplyRefresh
<1>6. \A qr \in Proc, w \in Owner :
        task[qr][w].op = "refresh" /\ task[qr][w].lease = t.lease => qr = pr /\ w = o
  BY <1>1 DEF Structure, HeldWhileInFlight, registry
<1> SUFFICES ASSUME NEW w \in Owner, NEW l \in Lease, NEW p \in Path, NEW k \in Kind,
                    NEW qr \in Proc, NEW c \in Nat, Claim(w, l, p, k, qr, c)'
             PROVE  Claim(w, l, p, k, qr, c)
  BY DEF OldClaims
<1>e. k # "None"
  BY DEF Kind
<1>r. t.op = "refresh" /\ t = task[pr][o]
  BY <1>0
<1>x. l = t.lease /\ Usable(l)' /\ entries[l].cov[p] = k => now - entries[l].conf[p] < Validity
  <2> SUFFICES ASSUME l = t.lease, Usable(l)', entries[l].cov[p] = k
               PROVE  now - entries[l].conf[p] < Validity
    OBVIOUS
  <2>1. ~expired(entries[l])
    BY <1>2 DEF Usable
  <2>2. entries[l].conf[p] \in Nat /\ Validity \in Nat
    BY TimeAssumption DEF TypeOK, Entry
  <2>3. ~(now - entries[l].conf[p] >= Validity)
    BY <2>1, <1>e DEF expired, lock_paths
  <2> QED BY <2>2, <2>3, <1>0
<1> HIDE DEF t
<1>u. Usable(l)' => Usable(l)
  BY <1>2 DEF Usable, Published
<1>7. now - c < Validity
  BY <1>5 DEF Claim
<1>8. CASE EntryClaim(w, l, p, k, qr, c)' /\ ~(l = t.lease /\ t.result[p] = "ok")
  <2>1. EntryClaim(w, l, p, k, qr, c)
    BY <1>8, <1>2, <1>5, <1>u, <1>e DEF EntryClaim
  <2> QED BY <2>1, <1>7 DEF Claim
<1>9. CASE EntryClaim(w, l, p, k, qr, c)' /\ l = t.lease /\ t.result[p] = "ok"
  <2>1. c = t.started /\ entries[l].proc = qr /\ entries[l].owner = w /\ entries[l].cov[p] = k /\ Usable(l)
    BY <1>9, <1>2, <1>u DEF EntryClaim
  <2>2. qr = pr /\ w = o
    BY <2>1, <1>1, <1>9 DEF registry
  <2>3. now - entries[l].conf[p] < Validity
    BY <1>9, <1>x, <2>1 DEF EntryClaim
  <2>4. EntryClaim(w, l, p, k, qr, entries[l].conf[p])
    BY <2>1, <2>3, <1>e DEF EntryClaim
  <2>5. RefreshClaim(w, l, p, k, qr, c)
    BY <2>1, <2>2, <2>4, <1>9, <1>r DEF RefreshClaim
  <2> QED BY <2>5, <1>7 DEF Claim
<1>10. CASE RefreshClaim(w, l, p, k, qr, c)'
  <2>1. task'[qr][w] = task[qr][w]
    BY <1>10, <1>4 DEF RefreshClaim
  <2>2. l # t.lease
    BY <1>10, <2>1, <1>4, <1>6 DEF RefreshClaim
  <2>3. RefreshClaim(w, l, p, k, qr, c)
    BY <1>10, <2>1, <2>2, <1>2, <1>5, <1>u, <1>e DEF RefreshClaim, EntryClaim
  <2> QED BY <2>3, <1>7 DEF Claim
<1>11. CASE PublishClaim(w, l, p, k, qr, c)'
  <2>1. task'[qr][w] = task[qr][w]
    BY <1>11, <1>4 DEF PublishClaim
  <2>2. PublishClaim(w, l, p, k, qr, c)
    BY <1>11, <2>1 DEF PublishClaim
  <2> QED BY <2>2, <1>7 DEF Claim
<1> QED BY <1>8, <1>9, <1>10, <1>11 DEF Claim

\* A released path, or the revocation of a lease, confirms nothing, and no other lease changes.
LEMMA ReleaseUnconfirmed ==
  ASSUME TypeOK, NEW pr \in Proc, NEW o \in Owner, NEW ok, ReleasePath(pr, o, ok)
  PROVE  \A k \in Lease : EntryUnconfirmed(k) /\ (k # task[pr][o].lease => entries'[k] = entries[k])
<1> DEFINE t == task[pr][o]
<1>1. PICK p \in Path :
        entries' = [entries EXCEPT ![t.lease] =
                      IF ok THEN remove_path(@, p) ELSE invalidate(@, "ReleaseFailed")]
  BY DEF ReleasePath
<1>2. NoEntry.proc = NoProc
  BY DEF NoEntry
<1>3. ASSUME NEW e \in Entry
      PROVE  /\ remove_path(e, p) = NoEntry \/ /\ remove_path(e, p).proc = e.proc
                                               /\ remove_path(e, p).owner = e.owner
                                               /\ remove_path(e, p).pending_handoff = e.pending_handoff
                                               /\ remove_path(e, p).invalidation = e.invalidation
                                               /\ \A q \in Path : remove_path(e, p).cov[q] # "None" =>
                                                    /\ remove_path(e, p).cov[q] = e.cov[q]
                                                    /\ remove_path(e, p).conf[q] = e.conf[q]
             /\ invalidate(e, "ReleaseFailed").invalidation # "None"
  BY DEF remove_path, invalidate, Entry, Coverage
<1>4. \A k \in Lease : k # t.lease => entries'[k] = entries[k]
  BY <1>1 DEF TypeOK
<1>5. t.lease \in Lease => entries'[t.lease] \in {remove_path(entries[t.lease], p), invalidate(entries[t.lease], "ReleaseFailed")}
  BY <1>1 DEF TypeOK
<1> HIDE DEF t
<1> TAKE k \in Lease
<1>6. entries[k] \in Entry
  BY DEF TypeOK
<1>7. CASE k # t.lease
  BY <1>7, <1>4 DEF EntryUnconfirmed, Usable, Published, t
<1>8. CASE k = t.lease
  BY <1>2, <1>3, <1>5, <1>6, <1>8 DEF EntryUnconfirmed, Usable, Published, t
<1> QED BY <1>7, <1>8

\* Only the grant of a batch and the refresh of a path make a new claim.
LEMMA ClaimsStep ==
  ASSUME TypeOK, TypeOK', Structure, [Next]_vars
  PROVE  \/ OldClaims
         \/ \E pr \in Proc, o \in Owner : CommitAcquire(pr, o)
         \/ \E pr \in Proc, o \in Owner, ok \in Outcome : RefreshPath(pr, o, ok)
<1>n. now \in Nat /\ now <= now
  BY DEF TypeOK
<1>i. Idle.op = "idle"
  BY DEF Idle
<1>k. entries' = entries => \A l \in Lease : EntryUnconfirmed(l)
  BY DEF EntryUnconfirmed, Usable, Published
<1>g. NoEntry.proc = NoProc
  BY DEF NoEntry
<1>1. ASSUME NEW pr \in Proc, NEW o \in Owner, NEW l, NEW r, NEW s, NEW cap,
             start_acquire(pr, o, l, r, s, cap)
      PROVE  OldClaims
  <2> DEFINE u == [Idle EXCEPT !.op = "acquire", !.lease = l, !.req = r,
                               !.source = s, !.cap = cap, !.started = now]
  <2>1. EntriesKept
    BY <1>1, KeptBySweep DEF start_acquire
  <2>2. u.op = "acquire"
    BY DEF Idle
  <2>3. task' = [task EXCEPT ![pr][o] = u] /\ now' = now
    BY <1>1 DEF start_acquire
  <2> HIDE DEF u
  <2> QED BY <2>1, <2>2, <2>3, <1>n, KeptUnconfirmed, UnconfirmedOne
<1>2. ASSUME NEW pr \in Proc, NEW o \in Owner, RejectAcquire(pr, o)
      PROVE  OldClaims
  <2>1. task' = [task EXCEPT ![pr][o] = Idle] /\ now' = now /\ entries' = entries
    BY <1>2 DEF RejectAcquire
  <2> QED BY <2>1, <1>k, <1>n, <1>i, UnconfirmedOne
<1>3. ASSUME NEW pr \in Proc, NEW o \in Owner, RollbackLease(pr, o)
      PROVE  OldClaims
  <2> DEFINE u == [task[pr][o] EXCEPT !.op = "undo", !.result = todo_for(lock_paths(task[pr][o].req))]
  <2>1. EntriesKept
    BY <1>3, KeptBySweep DEF RollbackLease
  <2>2. u.op = "undo"
    BY TaskLease DEF TaskRecord
  <2>3. task' = [task EXCEPT ![pr][o] = u] /\ now' = now
    BY <1>3 DEF RollbackLease
  <2> HIDE DEF u
  <2> QED BY <2>1, <2>2, <2>3, <1>n, KeptUnconfirmed, UnconfirmedOne
<1>4. ASSUME NEW pr \in Proc, NEW o \in Owner, NEW ok \in Outcome, UndoPath(pr, o, ok)
      PROVE  OldClaims
  <2>1. PICK p \in Path :
          task' = [task EXCEPT ![pr][o] =
                     IF Todo(task[pr][o]) = {p} THEN Idle
                     ELSE [task[pr][o] EXCEPT !.result[p] = IF ok THEN "ok" ELSE "err"]]
    BY <1>4 DEF UndoPath
  <2> DEFINE u == IF Todo(task[pr][o]) = {p} THEN Idle
                  ELSE [task[pr][o] EXCEPT !.result[p] = IF ok THEN "ok" ELSE "err"]
  <2>2. u.op \notin {"refresh", "publish"}
    <3>1. task[pr][o].op = "undo" /\ task[pr][o] \in TaskRecord
      BY <1>4, TaskLease DEF UndoPath
    <3> QED BY <3>1, <1>i DEF TaskRecord
  <2>3. now' = now /\ entries' = entries
    BY <1>4 DEF UndoPath
  <2>4. task' = [task EXCEPT ![pr][o] = u]
    BY <2>1
  <2> HIDE DEF u
  <2> QED BY <2>2, <2>3, <2>4, <1>k, <1>n, UnconfirmedOne
<1>5. ASSUME NEW pr \in Proc, NEW l \in Lease, Unpark(pr, l)
      PROVE  OldClaims
  <2>1. \A k \in Lease : entries'[k] = entries[k] \/ entries'[k] = NoEntry
    BY <1>5 DEF Unpark, TypeOK
  <2>2. \A k \in Lease : EntryUnconfirmed(k)
    BY <2>1, <1>g DEF EntryUnconfirmed, Usable, Published
  <2> QED BY <1>5, <2>2, <1>n, UnconfirmedNone DEF Unpark
<1>6. ASSUME NEW pr \in Proc, NEW o \in Owner, NEW l \in Lease, StartRefresh(pr, o, l)
      PROVE  OldClaims
  <2> DEFINE u == [Idle EXCEPT !.op = "refresh", !.lease = l, !.started = now,
                     !.result = todo_for(lock_paths(invalidate_expired(entries, pr, o)[l].cov))]
  <2>1. \A k \in Lease : EntryUnconfirmed(k)
    BY <1>6, KeptBySweep, KeptUnconfirmed DEF StartRefresh
  <2>2. u.op = "refresh" /\ \A p \in Path : u.result[p] # "ok"
    BY DEF Idle, todo_for
  <2>3. (task' = task \/ task' = [task EXCEPT ![pr][o] = u]) /\ now' = now
    BY <1>6 DEF StartRefresh
  <2> HIDE DEF u
  <2> QED BY <2>1, <2>2, <2>3, <1>n, UnconfirmedOne, UnconfirmedNone
<1>7. ASSUME NEW pr \in Proc, NEW o \in Owner, NEW l, NEW S, start_release(pr, o, l, S)
      PROVE  OldClaims
  <2> DEFINE u == [Idle EXCEPT !.op = "release", !.lease = l, !.started = now, !.result = todo_for(S)]
  <2>1. u.op = "release"
    BY DEF Idle
  <2>2. task' = [task EXCEPT ![pr][o] = u] /\ now' = now /\ entries' = entries
    BY <1>7 DEF start_release
  <2> HIDE DEF u
  <2> QED BY <2>1, <2>2, <1>k, <1>n, UnconfirmedOne
<1>8. ASSUME NEW pr \in Proc, NEW o \in Owner, NEW l \in Lease, Forget(pr, o, l)
      PROVE  OldClaims
  <2>1. \A k \in Lease : entries'[k] = entries[k] \/ entries'[k] = NoEntry
    BY <1>8 DEF Forget, TypeOK
  <2>2. \A k \in Lease : EntryUnconfirmed(k)
    BY <2>1, <1>g DEF EntryUnconfirmed, Usable, Published
  <2> QED BY <1>8, <2>2, <1>n, UnconfirmedNone DEF Forget
<1>9. ASSUME NEW pr \in Proc, NEW o \in Owner, NEW ok \in Outcome, ReleasePath(pr, o, ok)
      PROVE  OldClaims
  <2> DEFINE t == task[pr][o]
  <2>1. PICK p \in Path :
          task' = [task EXCEPT ![pr][o] = IF Todo(t) = {p} THEN Idle ELSE [t EXCEPT !.result[p] = "ok"]]
    BY <1>9 DEF ReleasePath
  <2> DEFINE u == IF Todo(t) = {p} THEN Idle ELSE [t EXCEPT !.result[p] = "ok"]
  <2>2. u.op \notin {"refresh", "publish"}
    <3>1. t.op = "release" /\ t \in TaskRecord
      BY <1>9, TaskLease DEF ReleasePath
    <3> QED BY <3>1, <1>i DEF TaskRecord
  <2>3. now' = now /\ task' = [task EXCEPT ![pr][o] = u]
    BY <1>9, <2>1 DEF ReleasePath
  <2> HIDE DEF u
  <2> QED BY <1>9, <2>2, <2>3, <1>n, ReleaseUnconfirmed, UnconfirmedOne
<1>10. ASSUME NEW pr \in Proc, NEW o \in Owner, NEW l \in Lease, Handoff(pr, o, l)
       PROVE  OldClaims
  <2> DEFINE E == invalidate_expired(entries, pr, o)
  <2>1. E \in [Lease -> Entry]
    BY InvalidateExpiredType DEF TypeOK
  <2>2. \A k \in Lease :
          /\ E[k].proc = entries[k].proc /\ E[k].owner = entries[k].owner /\ E[k].cov = entries[k].cov
          /\ E[k].conf = entries[k].conf /\ E[k].pending_handoff = entries[k].pending_handoff
          /\ E[k].invalidation = "None" => entries[k].invalidation = "None"
    BY SweepKeeps DEF TypeOK
  <2>3. entries' = E \/ entries' = [E EXCEPT ![l].pending_handoff = TRUE]
    BY <1>10 DEF Handoff
  <2>4. \A k \in Lease : EntryUnconfirmed(k)
    <3> HIDE DEF E
    <3>1. \A k \in Lease : entries'[k] = E[k] \/ entries'[k].pending_handoff
      BY <2>1, <2>3 DEF Entry
    <3> QED BY <3>1, <2>2 DEF EntryUnconfirmed, Usable, Published
  <2> QED BY <1>10, <2>4, <1>n, UnconfirmedNone DEF Handoff
<1>11. ASSUME NEW pr \in Proc, NEW o \in Owner, Lookup(pr, o)
       PROVE  OldClaims
  BY <1>11, <1>n, KeptBySweep, KeptUnconfirmed, UnconfirmedNone DEF Lookup
<1>12. ASSUME NEW m \in handoffs, AckHandoff(m)
       PROVE  OldClaims
  BY <1>12, <1>n, <1>k, UnconfirmedNone DEF AckHandoff
<1>13. ASSUME Tick PROVE OldClaims
  <2>1. now <= now' /\ entries' = entries /\ task' = task
    BY <1>13, <1>n DEF Tick
  <2> QED BY <2>1, <1>k, UnconfirmedNone
<1>14. ASSUME NEW pr \in Crashing, Crash(pr)
       PROVE  OldClaims
  <2>1. \A k \in Lease : entries'[k] = entries[k] \/ entries'[k] = NoEntry
    BY <1>14 DEF Crash
  <2>2. \A k \in Lease : EntryUnconfirmed(k)
    BY <2>1, <1>g DEF EntryUnconfirmed, Usable, Published
  <2>3. \A qr \in Proc, w \in Owner : task'[qr][w] = task[qr][w] \/ task'[qr][w] = Idle
    BY <1>14, RequestAssumption DEF Crash, TypeOK
  <2>4. \A qr \in Proc, w \in Owner : TaskUnconfirmed(qr, w)
    BY <2>3, <1>i DEF TaskUnconfirmed
  <2> QED BY <1>14, <2>2, <2>4, <1>n, Unconfirmed DEF Crash
<1>15. ASSUME UNCHANGED vars PROVE OldClaims
  BY <1>15, <1>n, <1>k, UnconfirmedNone DEF vars
<1>16. ASSUME NEW pr \in Proc, NEW o \in Owner, Acquiring(pr, o) PROVE OldClaims
  BY <1>16, <1>1, <1>3, <1>4, PublishClaims
     DEF Acquiring, AcquireBatch, AcquireReentrant, ReacquireBatch, Adopt
<1>17. ASSUME NEW pr \in Proc, NEW o \in Owner, Holding(pr, o),
              ~ \E ok \in Outcome : RefreshPath(pr, o, ok)
       PROVE  OldClaims
  BY <1>17, <1>6, <1>7, <1>8, <1>9, <1>10, <1>11, ApplyClaims DEF Holding, Release, Cleanup
<1> QED BY <1>2, <1>5, <1>12, <1>13, <1>14, <1>15, <1>16, <1>17 DEF Next, Environment

-----------------------------------------------------------------------------
(* The holder behind a claim stays in the store. *)

\* The steps that write the store.
LEMMA TokensStep ==
  ASSUME [Next]_vars
  PROVE  \/ tokens' = tokens
         \/ \E pr \in Proc, o \in Owner : CommitAcquire(pr, o)
         \/ \E pr \in Proc, o \in Owner : RejectAcquire(pr, o)
         \/ \E pr \in Proc, o \in Owner, ok \in Outcome : RefreshPath(pr, o, ok)
         \/ \E pr \in Proc, o \in Owner, ok \in Outcome : UndoPath(pr, o, ok)
         \/ \E pr \in Proc, o \in Owner, ok \in Outcome : ReleasePath(pr, o, ok)
<1>1. ASSUME NEW pr \in Proc, NEW o \in Owner, Acquiring(pr, o)
      PROVE  tokens' = tokens \/ \E ok \in Outcome : UndoPath(pr, o, ok)
  BY <1>1 DEF Acquiring, AcquireBatch, AcquireReentrant, ReacquireBatch, Adopt, start_acquire,
              PublishLease, RollbackLease
<1>2. ASSUME NEW pr \in Proc, NEW o \in Owner, Holding(pr, o)
      PROVE  \/ tokens' = tokens
             \/ \E ok \in Outcome : RefreshPath(pr, o, ok)
             \/ \E ok \in Outcome : ReleasePath(pr, o, ok)
  BY <1>2 DEF Holding, StartRefresh, ApplyRefresh, Release, Cleanup, start_release, Forget,
              Handoff, Lookup
<1>3. ASSUME Environment PROVE tokens' = tokens
  BY <1>3 DEF Environment, AckHandoff, Tick, Crash
<1>4. ASSUME NEW pr \in Proc, NEW l \in Lease, Unpark(pr, l) PROVE tokens' = tokens
  BY <1>4 DEF Unpark
<1>5. ASSUME UNCHANGED vars PROVE tokens' = tokens
  BY <1>5 DEF vars
<1> QED BY <1>1, <1>2, <1>3, <1>4, <1>5 DEF Next

\* A failed attempt deletes only tokens that are stale for everybody.
LEMMA RejectHolders ==
  ASSUME TypeOK, Structure, NEW o \in Owner, NEW l \in Lease, NEW p \in Path, NEW k, NEW pr \in Proc,
         NEW c, Claim(o, l, p, k, pr, c), HolderIn(tokens[p], o, l, k, c + Skew[pr]),
         NEW qr \in Proc, NEW w \in Owner, RejectAcquire(qr, w)
  PROVE  HolderIn(tokens'[p], o, l, k, c + Skew[pr])
<1> DEFINE t  == task[qr][w]
           sb == stale_before_at(qr, t.started)
<1>1. t.started \in Nat /\ t.started <= now
  BY TaskLease DEF Structure, PastConfirmations
<1>2. c + Skew[pr] \in Int /\ sb \in Int /\ sb <= c + Skew[pr]
  BY <1>1, ClaimTime, FreshIsLive
<1>3. CASE tokens' = tokens
  BY <1>3
<1>4. CASE \E S \in SUBSET stale_in_way(tokens, t.req, w, sb) : tokens' = remove_stale(tokens, S)
  <2>1. PICK S \in SUBSET stale_in_way(tokens, t.req, w, sb) : tokens' = remove_stale(tokens, S)
    BY <1>4
  <2>2. tokens \in [Path -> Token]
    BY DEF TypeOK
  <2> HIDE DEF sb, t
  <2> QED BY <2>1, <2>2, <1>2, RemoveStaleKeeps
<1> QED BY <1>3, <1>4 DEF RejectAcquire

\* An undo takes away the holder of an attempt nobody claims any more.
LEMMA UndoHolders ==
  ASSUME TypeOK, Structure, NEW o \in Owner, NEW l \in Lease, NEW p \in Path, NEW k, NEW pr \in Proc,
         NEW c, Claim(o, l, p, k, pr, c), HolderIn(tokens[p], o, l, k, c + Skew[pr]),
         NEW qr \in Proc, NEW w \in Owner, NEW ok, UndoPath(qr, w, ok)
  PROVE  HolderIn(tokens'[p], o, l, k, c + Skew[pr])
<1> DEFINE t  == task[qr][w]
           sb == now_ns(qr) - TTL
<1>1. c \in Nat /\ now \in Nat /\ now - c < Validity /\ now <= now
  BY ClaimTime
<1>2. /\ c + Skew[pr] \in Int /\ 0 <= c + Skew[pr] /\ sb \in Int /\ sb <= c + Skew[pr]
  <2>1. /\ c + Skew[pr] \in Int /\ 0 <= c + Skew[pr]
        /\ stale_before_at(qr, now) \in Int /\ stale_before_at(qr, now) <= c + Skew[pr]
    BY <1>1, FreshIsLive
  <2>2. sb = stale_before_at(qr, now)
    BY <1>1, SkewAssumption, TimeAssumption DEF stale_before_at, now_ns
  <2> HIDE DEF sb
  <2> QED BY <2>1, <2>2
<1>3. t.lease # l
  BY ClaimedLease DEF UndoPath, IsAcquiring
<1>4. tokens \in [Path -> Token] /\ tokens[p] \in Token
  BY DEF TypeOK
<1>5. PICK q \in Path :
        tokens' = IF ~ok THEN tokens
                  ELSE [tokens EXCEPT ![q] =
                          IF t.replaced[q] # {}
                          THEN replace_holder(@, w, t.lease, t.replaced[q], sb)
                          ELSE mutate_holder_record(@, w, t.lease, now_ns(qr), 0, TRUE)]
  BY DEF UndoPath
<1>6. \/ tokens'[p] = tokens[p]
      \/ tokens'[p] = replace_holder(tokens[p], w, t.lease, t.replaced[q], sb)
      \/ tokens'[p] = mutate_holder_record(tokens[p], w, t.lease, now_ns(qr), 0, TRUE)
  BY <1>4, <1>5
<1> HIDE DEF t, sb
<1>7. HolderIn(replace_holder(tokens[p], w, t.lease, t.replaced[q], sb), o, l, k, c + Skew[pr])
  BY <1>2, <1>3, <1>4, ReplaceKeeps
<1>8. HolderIn(mutate_holder_record(tokens[p], w, t.lease, now_ns(qr), 0, TRUE), o, l, k, c + Skew[pr])
  BY <1>2, <1>3, <1>4, DropKeeps
<1> QED BY <1>6, <1>7, <1>8

\* A release takes away the holder of a path that is no longer claimed.
LEMMA ReleaseHolders ==
  ASSUME TypeOK, Structure, NEW o \in Owner, NEW l \in Lease, NEW p \in Path, NEW k \in Kind, NEW pr \in Proc,
         NEW c, Claim(o, l, p, k, pr, c), HolderIn(tokens[p], o, l, k, c + Skew[pr]),
         NEW qr \in Proc, NEW w \in Owner, NEW ok, ReleasePath(qr, w, ok),
         Claim(o, l, p, k, pr, c)'
  PROVE  HolderIn(tokens'[p], o, l, k, c + Skew[pr])
<1> DEFINE t == task[qr][w]
<1>1. c \in Nat /\ now \in Nat /\ now - c < Validity /\ now <= now
  BY ClaimTime
<1>2. c + Skew[pr] \in Int /\ 0 <= c + Skew[pr]
  BY <1>1, FreshIsLive
<1>3. tokens \in [Path -> Token] /\ tokens[p] \in Token
  BY DEF TypeOK
<1>4. PICK q \in Path :
        /\ tokens' = IF ~ok THEN tokens
                     ELSE [tokens EXCEPT ![q] =
                             mutate_holder_record(@, w, t.lease, now_ns(qr), 0, TRUE)]
        /\ entries' = [entries EXCEPT ![t.lease] =
                         IF ok THEN remove_path(@, q) ELSE invalidate(@, "ReleaseFailed")]
        /\ task' = [task EXCEPT ![qr][w] =
                      IF Todo(t) = {q} THEN Idle ELSE [t EXCEPT !.result[q] = "ok"]]
  BY DEF ReleasePath
<1>5. t.lease \in Lease /\ t.op = "release" /\ t.lease \in registry(entries, qr, w) /\ t \in TaskRecord
  BY TaskLease DEF ReleasePath, Structure, HeldWhileInFlight
<1>6. CASE t.lease # l
  <2>1. \/ tokens'[p] = tokens[p]
        \/ tokens'[p] = mutate_holder_record(tokens[p], w, t.lease, now_ns(qr), 0, TRUE)
    BY <1>3, <1>4
  <2> HIDE DEF t
  <2>2. HolderIn(mutate_holder_record(tokens[p], w, t.lease, now_ns(qr), 0, TRUE), o, l, k, c + Skew[pr])
    BY <1>2, <1>3, <1>6, DropKeeps
  <2> QED BY <2>1, <2>2
<1>7. CASE t.lease = l /\ ok /\ q = p
  <2>1. entries'[l] = remove_path(entries[l], p)
    BY <1>4, <1>7 DEF TypeOK
  <2>2. entries'[l].cov[p] = "None"
    <3>1. entries[l] \in Entry
      BY DEF TypeOK
    <3>2. NoEntry.cov[p] = "None"
      BY DEF NoEntry, NoCoverage
    <3> QED BY <2>1, <3>1, <3>2 DEF remove_path, Entry, Coverage
  <2>3. PublishClaim(o, l, p, k, pr, c)'
    BY <2>2 DEF Claim, EntryClaim, RefreshClaim, Kind
  <2>4. task'[pr][o].op = "publish" /\ task'[pr][o].lease = l
    BY <2>3 DEF PublishClaim
  <2>5. task'[qr][w].op # "publish"
    <3> DEFINE u == IF Todo(t) = {q} THEN Idle ELSE [t EXCEPT !.result[q] = "ok"]
    <3>1. u.op # "publish"
      BY <1>5 DEF Idle, TaskRecord
    <3>2. task' = [task EXCEPT ![qr][w] = u] /\ task \in [Proc -> [Owner -> Task]]
      BY <1>4 DEF TypeOK
    <3> HIDE DEF u
    <3> QED BY <3>1, <3>2, TaskSet
  <2>6. task'[pr][o] = task[pr][o]
    BY <2>4, <2>5, <1>4, TaskSet DEF TypeOK
  <2> QED BY <2>4, <2>6, <1>5, <1>7, RequestAssumption
          DEF Structure, UnpublishedWhileAcquiring, IsAcquiring, registry, Published
<1>8. CASE ~ok \/ q # p
  <2>1. tokens'[p] = tokens[p]
    BY <1>3, <1>4, <1>8
  <2> QED BY <2>1
<1> QED BY <1>6, <1>7, <1>8

\* A grant keeps the holders behind other claims.
LEMMA CommitHolders ==
  ASSUME TypeOK, Structure, NEW o \in Owner, NEW l \in Lease, NEW p \in Path, NEW k, NEW pr \in Proc,
         NEW c, Claim(o, l, p, k, pr, c), HolderIn(tokens[p], o, l, k, c + Skew[pr]),
         NEW qr \in Proc, NEW w \in Owner, CommitAcquire(qr, w)
  PROVE  HolderIn(tokens'[p], o, l, k, c + Skew[pr])
<1> DEFINE t  == task[qr][w]
           sb == stale_before_at(qr, t.started)
<1>1. t.started \in Nat /\ t.started <= now
  BY TaskLease DEF Structure, PastConfirmations
<1>2. c + Skew[pr] \in Int /\ sb \in Int /\ sb <= c + Skew[pr]
  BY <1>1, ClaimTime, FreshIsLive
<1>3. t.source # l
  BY ClaimedLease DEF CommitAcquire, IsAcquiring
<1>4. /\ ~has_conflict(tokens, t.req, w, sb)
      /\ tokens' = acquire_holder_records(tokens, t.req, w, t.lease, t.started + Skew[qr], sb, t.source)
  BY DEF CommitAcquire
<1>5. tokens \in [Path -> Token]
  BY DEF TypeOK
<1> HIDE DEF t, sb
<1> QED BY <1>2, <1>3, <1>4, <1>5, AcquireKeeps

\* A refresh keeps the holders behind claims.
LEMMA RefreshHolders ==
  ASSUME TypeOK, Structure, NEW o \in Owner, NEW l \in Lease, NEW p \in Path, NEW k, NEW pr \in Proc,
         NEW c, Claim(o, l, p, k, pr, c), HolderIn(tokens[p], o, l, k, c + Skew[pr]),
         NEW qr \in Proc, NEW w \in Owner, NEW ok, RefreshPath(qr, w, ok)
  PROVE  HolderIn(tokens'[p], o, l, k, c + Skew[pr])
<1> DEFINE t  == task[qr][w]
           sb == stale_before_at(qr, t.started)
           n  == t.started + Skew[qr]
<1>1. t.started \in Nat /\ t.started <= now /\ Skew[qr] \in Nat /\ Skew[pr] \in Nat
  BY TaskLease, SkewAssumption DEF Structure, PastConfirmations
<1>2. c \in Nat /\ c + Skew[pr] \in Int /\ sb \in Int /\ sb <= c + Skew[pr] /\ n \in Int
  BY <1>1, ClaimTime, FreshIsLive
<1>3. tokens \in [Path -> Token] /\ tokens[p] \in Token
  BY DEF TypeOK
<1>4. \/ tokens'[p] = tokens[p]
      \/ tokens'[p] = mutate_holder_record(tokens[p], w, t.lease, n, sb, FALSE)
  BY <1>3 DEF RefreshPath
<1>5. CASE t.lease # l
  <2> HIDE DEF t, sb, n
  <2>1. HolderIn(mutate_holder_record(tokens[p], w, t.lease, n, sb, FALSE), o, l, k, c + Skew[pr])
    BY <1>2, <1>3, <1>5, MutateKeeps
  <2> QED BY <2>1, <1>4
<1>6. CASE t.lease = l
  <2>1. t.op = "refresh" /\ entries[l].proc = qr /\ entries[l].owner = w
    BY <1>6 DEF RefreshPath, Structure, HeldWhileInFlight, registry
  <2>2. ~PublishClaim(o, l, p, k, pr, c)
    BY <2>1, RequestAssumption
       DEF PublishClaim, Structure, UnpublishedWhileAcquiring, IsAcquiring, Published
  <2>3. pr = qr /\ o = w /\ (c = entries[l].conf[p] \/ c = t.started)
    BY <2>1, <2>2 DEF Claim, EntryClaim, RefreshClaim
  <2>4. entries[l].conf[p] <= t.started
    BY <2>1, <1>6 DEF Structure, RefreshIsLater
  <2>5. c <= t.started
    BY <2>3, <2>4, <1>1
  <2>6. c + Skew[pr] <= n
    BY <2>5, <2>3, <1>1, <1>2
  <2> HIDE DEF t, sb, n
  <2>7. HolderIn(mutate_holder_record(tokens[p], w, l, n, sb, FALSE), o, l, k, c + Skew[pr])
    BY <1>2, <1>3, <2>3, <2>6, RefreshKeeps
  <2> QED BY <2>7, <1>4, <1>6
<1> QED BY <1>5, <1>6

-----------------------------------------------------------------------------
(* The two claims a step can add. *)

\* A grant adds the claims of the batch, and no others.
LEMMA CommitClaims ==
  ASSUME TypeOK, TypeOK', Structure, NEW qr \in Proc, NEW w \in Owner, CommitAcquire(qr, w),
         NEW o \in Owner, NEW l \in Lease, NEW p \in Path, NEW k \in Kind, NEW pr \in Proc, NEW c \in Nat,
         Claim(o, l, p, k, pr, c)'
  PROVE  \/ Claim(o, l, p, k, pr, c)
         \/ /\ pr = qr /\ o = w /\ l = task[qr][w].lease
            /\ task[qr][w].req[p] = k /\ c = task[qr][w].started
<1> DEFINE t == task[qr][w]
           v == [p_1 \in Path |-> {h \in tokens[p_1].holders : t.req[p_1] # "None" /\ h.id = t.source}]
           u == [t EXCEPT !.op = "publish", !.replaced = v]
<1>1. t \in TaskRecord
  BY TaskLease
<1>2. u.op = "publish" /\ u.lease = t.lease /\ u.req = t.req /\ u.started = t.started
  <2> HIDE DEF v
  <2> QED BY <1>1 DEF TaskRecord
<1>3. task' = [task EXCEPT ![qr][w] = u] /\ now' = now /\ entries' = entries
  BY DEF CommitAcquire
<1> HIDE DEF u
<1>4. /\ task'[qr][w] = u
      /\ \A xr \in Proc, x \in Owner : xr # qr \/ x # w => task'[xr][x] = task[xr][x]
  BY <1>3, TaskSet DEF TypeOK
<1>5. now - c < Validity
  BY <1>3 DEF Claim
<1>6. CASE EntryClaim(o, l, p, k, pr, c)'
  BY <1>3, <1>5, <1>6 DEF Claim, EntryClaim, Usable, Published
<1>7. CASE RefreshClaim(o, l, p, k, pr, c)'
  <2>1. task'[pr][o] = task[pr][o]
    BY <1>7, <1>2, <1>4 DEF RefreshClaim
  <2>2. RefreshClaim(o, l, p, k, pr, c)
    BY <1>7, <2>1, <1>3 DEF RefreshClaim, EntryClaim, Usable, Published
  <2> QED BY <1>5, <2>2 DEF Claim
<1>8. CASE PublishClaim(o, l, p, k, pr, c)' /\ (pr # qr \/ o # w)
  <2>1. PublishClaim(o, l, p, k, pr, c)
    BY <1>8, <1>4 DEF PublishClaim
  <2> QED BY <1>5, <2>1 DEF Claim
<1>9. CASE PublishClaim(o, l, p, k, pr, c)' /\ pr = qr /\ o = w
  BY <1>9, <1>2, <1>4 DEF PublishClaim
<1> QED BY <1>6, <1>7, <1>8, <1>9 DEF Claim

\* The refresh that pr and o run finds the holder behind an earlier claim and
\* moves its time to c.
Refreshed(o, l, p, k, pr, c) ==
  /\ Claim(o, l, p, k, pr, entries[l].conf[p]) /\ entries[l].conf[p] <= c
  /\ tokens'[p] = mutate_holder_record(tokens[p], o, l, c + Skew[pr], stale_before_at(pr, c), FALSE)
  /\ holder_found(tokens[p], o, l, stale_before_at(pr, c), FALSE)

\* A refreshed path adds a later claim to one that the lease already had.
LEMMA RefreshClaims ==
  ASSUME TypeOK, TypeOK', Structure, NEW qr \in Proc, NEW w \in Owner, NEW ok, RefreshPath(qr, w, ok),
         NEW o \in Owner, NEW l \in Lease, NEW p \in Path, NEW k \in Kind, NEW pr \in Proc, NEW c \in Nat,
         Claim(o, l, p, k, pr, c)'
  PROVE  \/ Claim(o, l, p, k, pr, c)
         \/ Refreshed(o, l, p, k, pr, c)
<1> DEFINE t  == task[qr][w]
           sb == stale_before_at(qr, t.started)
<1>1. t \in TaskRecord /\ t.op = "refresh"
  BY TaskLease DEF RefreshPath
<1>2. PICK q \in Path :
        /\ tokens' = IF ~ok THEN tokens
                     ELSE [tokens EXCEPT ![q] =
                             mutate_holder_record(@, w, t.lease, t.started + Skew[qr], sb, FALSE)]
        /\ task' = [task EXCEPT ![qr][w] =
                      [t EXCEPT !.result[q] =
                         IF ~ok THEN "err"
                         ELSE IF holder_found(tokens[q], w, t.lease, sb, FALSE)
                              THEN "ok" ELSE "lost"]]
  BY DEF RefreshPath
<1> DEFINE res == IF ~ok THEN "err"
                  ELSE IF holder_found(tokens[q], w, t.lease, sb, FALSE) THEN "ok" ELSE "lost"
           u   == [t EXCEPT !.result[q] = res]
<1>3. /\ u.op = "refresh" /\ u.lease = t.lease /\ u.started = t.started
      /\ \A x \in Path : u.result[x] = IF x = q THEN res ELSE t.result[x]
  <2> HIDE DEF res
  <2> QED BY <1>1 DEF TaskRecord
<1>4. task' = [task EXCEPT ![qr][w] = u] /\ now' = now /\ entries' = entries
  BY <1>2 DEF RefreshPath
<1>5. /\ task'[qr][w] = u
      /\ \A xr \in Proc, x \in Owner : xr # qr \/ x # w => task'[xr][x] = task[xr][x]
  <2> HIDE DEF u
  <2> QED BY <1>4, TaskSet DEF TypeOK
<1>6. res = "ok" => ok /\ holder_found(tokens[q], w, t.lease, sb, FALSE)
  OBVIOUS
<1>7. ok => tokens'[q] = mutate_holder_record(tokens[q], w, t.lease, t.started + Skew[qr], sb, FALSE)
  BY <1>2 DEF TypeOK
<1> HIDE DEF u, res
<1>8. now - c < Validity
  BY <1>4 DEF Claim
<1>9. CASE EntryClaim(o, l, p, k, pr, c)'
  BY <1>4, <1>8, <1>9 DEF Claim, EntryClaim, Usable, Published
<1>10. CASE PublishClaim(o, l, p, k, pr, c)'
  <2>1. task'[pr][o] = task[pr][o]
    BY <1>10, <1>3, <1>5 DEF PublishClaim
  <2>2. PublishClaim(o, l, p, k, pr, c)
    BY <1>10, <2>1 DEF PublishClaim
  <2> QED BY <1>8, <2>2 DEF Claim
<1>11. CASE RefreshClaim(o, l, p, k, pr, c)'
  <2>1. EntryClaim(o, l, p, k, pr, entries[l].conf[p])
    BY <1>4, <1>11 DEF RefreshClaim, EntryClaim, Usable, Published
  <2>2. /\ task'[pr][o].op = "refresh" /\ task'[pr][o].lease = l
        /\ task'[pr][o].result[p] = "ok" /\ c = task'[pr][o].started
    BY <1>11 DEF RefreshClaim
  <2>3. CASE pr # qr \/ o # w \/ (p # q)
    <3>1. /\ task[pr][o].op = "refresh" /\ task[pr][o].lease = l
          /\ task[pr][o].result[p] = "ok" /\ c = task[pr][o].started
      <4>1. CASE pr # qr \/ o # w
        BY <2>2, <4>1, <1>5
      <4>2. CASE pr = qr /\ o = w /\ p # q
        BY <2>2, <4>2, <1>3, <1>5, <1>1
      <4> QED BY <2>3, <4>1, <4>2
    <3>2. RefreshClaim(o, l, p, k, pr, c)
      BY <2>1, <3>1 DEF RefreshClaim
    <3> QED BY <1>8, <3>2 DEF Claim
  <2>4. CASE pr = qr /\ o = w /\ p = q
    <3>1. res = "ok" /\ l = t.lease /\ c = t.started
      BY <2>2, <2>4, <1>3, <1>5
    <3>2. Claim(o, l, p, k, pr, entries[l].conf[p])
      BY <2>1 DEF Claim, EntryClaim
    <3>3. entries[l].conf[p] <= c
      BY <3>1, <1>1 DEF Structure, RefreshIsLater
    <3> QED BY <2>4, <3>1, <3>2, <3>3, <1>6, <1>7 DEF Refreshed
  <2> QED BY <2>3, <2>4
<1> QED BY <1>9, <1>10, <1>11 DEF Claim

-----------------------------------------------------------------------------
\* Every claim stays grounded in a holder of the store.
LEMMA GroundedStep ==
  ASSUME TypeOK, TypeOK', Structure, Structure', Grounded, [Next]_vars
  PROVE  Grounded'
<1> SUFFICES ASSUME NEW o \in Owner, NEW l \in Lease, NEW p \in Path, NEW k \in Kind,
                    NEW pr \in Proc, NEW c \in Nat, Claim(o, l, p, k, pr, c)'
             PROVE  HolderIn(tokens'[p], o, l, k, c + Skew[pr])
  <2>1. \A c \in 0 .. now' : c \in Nat
    BY DEF TypeOK
  <2> QED BY <2>1 DEF Grounded
<1>0. tokens \in [Path -> Token] /\ tokens[p] \in Token
  BY DEF TypeOK
<1>1. ASSUME NEW d, Claim(o, l, p, k, pr, d) PROVE HolderIn(tokens[p], o, l, k, d + Skew[pr])
  BY <1>1, ClaimTime DEF Grounded
<1>2. CASE Claim(o, l, p, k, pr, c)
  <2>1. HolderIn(tokens[p], o, l, k, c + Skew[pr])
    BY <1>1, <1>2
  <2>2. CASE tokens' = tokens
    BY <2>1, <2>2
  <2>3. ASSUME NEW qr \in Proc, NEW w \in Owner, CommitAcquire(qr, w)
        PROVE  HolderIn(tokens'[p], o, l, k, c + Skew[pr])
    BY <1>2, <2>1, <2>3, CommitHolders
  <2>4. ASSUME NEW qr \in Proc, NEW w \in Owner, RejectAcquire(qr, w)
        PROVE  HolderIn(tokens'[p], o, l, k, c + Skew[pr])
    BY <1>2, <2>1, <2>4, RejectHolders
  <2>5. ASSUME NEW qr \in Proc, NEW w \in Owner, NEW ok \in Outcome, RefreshPath(qr, w, ok)
        PROVE  HolderIn(tokens'[p], o, l, k, c + Skew[pr])
    BY <1>2, <2>1, <2>5, RefreshHolders
  <2>6. ASSUME NEW qr \in Proc, NEW w \in Owner, NEW ok \in Outcome, UndoPath(qr, w, ok)
        PROVE  HolderIn(tokens'[p], o, l, k, c + Skew[pr])
    BY <1>2, <2>1, <2>6, UndoHolders
  <2>7. ASSUME NEW qr \in Proc, NEW w \in Owner, NEW ok \in Outcome, ReleasePath(qr, w, ok)
        PROVE  HolderIn(tokens'[p], o, l, k, c + Skew[pr])
    BY <1>2, <2>1, <2>7, ReleaseHolders
  <2> QED BY <2>2, <2>3, <2>4, <2>5, <2>6, <2>7, TokensStep
<1>3. ASSUME NEW qr \in Proc, NEW w \in Owner, CommitAcquire(qr, w),
             pr = qr, o = w, l = task[qr][w].lease, task[qr][w].req[p] = k, c = task[qr][w].started
      PROVE  HolderIn(tokens'[p], o, l, k, c + Skew[pr])
  <2> DEFINE t  == task[qr][w]
             sb == stale_before_at(qr, t.started)
             n  == t.started + Skew[qr]
  <2>1. t.req \in Coverage /\ t.req[p] # "None" /\ n \in Int
    BY <1>3, TaskLease, SkewAssumption DEF TaskRecord, Kind
  <2>2. tokens' = acquire_holder_records(tokens, t.req, w, t.lease, n, sb, t.source)
    BY <1>3 DEF CommitAcquire
  <2> HIDE DEF sb
  <2>3. HolderIn(tokens'[p], w, t.lease, t.req[p], n)
    <3> HIDE DEF t, n
    <3>1. t.lease \in Lease
      BY <1>3 DEF t
    <3> QED BY <1>0, <2>1, <2>2, <3>1, AcquireAdds
  <2> QED BY <2>3, <1>3
<1>4. CASE Refreshed(o, l, p, k, pr, c)
  <2> DEFINE d == entries[l].conf[p]
             a == d + Skew[pr]
             n == c + Skew[pr]
  <2>1. d \in Nat /\ Skew[pr] \in Nat /\ d <= c
    BY <1>4, SkewAssumption DEF Refreshed, TypeOK, Entry
  <2>2. a \in Int /\ n \in Int /\ a <= n
    BY <2>1
  <2>3. HolderIn(tokens[p], o, l, k, a)
    BY <1>1, <1>4 DEF Refreshed
  <2>4. /\ tokens'[p] = mutate_holder_record(tokens[p], o, l, n, stale_before_at(pr, c), FALSE)
        /\ holder_found(tokens[p], o, l, stale_before_at(pr, c), FALSE)
    BY <1>4 DEF Refreshed
  <2> HIDE DEF a, n
  <2>5. HolderIn(tokens'[p], o, l, k, n)
    BY <1>0, <2>2, <2>3, <2>4, RefreshKeeps
  <2> QED BY <2>5 DEF n
<1>5. CASE OldClaims
  BY <1>2, <1>5 DEF OldClaims
<1>6. ASSUME NEW qr \in Proc, NEW w \in Owner, CommitAcquire(qr, w)
      PROVE  HolderIn(tokens'[p], o, l, k, c + Skew[pr])
  BY <1>2, <1>3, <1>6, CommitClaims
<1>7. ASSUME NEW qr \in Proc, NEW w \in Owner, NEW ok \in Outcome, RefreshPath(qr, w, ok)
      PROVE  HolderIn(tokens'[p], o, l, k, c + Skew[pr])
  BY <1>2, <1>4, <1>7, RefreshClaims
<1> QED BY <1>5, <1>6, <1>7, ClaimsStep

-----------------------------------------------------------------------------
\* A batch that is granted meets no claim of another owner: the holder behind
\* such a claim would have been a conflict.
LEMMA GrantApart ==
  ASSUME TypeOK, Structure, Grounded, NEW qr \in Proc, NEW w \in Owner, CommitAcquire(qr, w),
         NEW q \in Path, NEW j \in Kind, task[qr][w].req[q] = j,
         NEW o \in Owner, NEW l \in Lease, NEW p \in Path, NEW k \in Kind, NEW pr \in Proc, NEW c,
         Claim(o, l, p, k, pr, c), o # w
  PROVE  Apart(p, k, q, j) /\ Apart(q, j, p, k)
<1> DEFINE t  == task[qr][w]
           sb == stale_before_at(qr, t.started)
<1>1. t.started \in Nat /\ t.started <= now
  BY TaskLease DEF Structure, PastConfirmations
<1>2. c + Skew[pr] \in Int /\ sb \in Int /\ sb <= c + Skew[pr]
  BY <1>1, ClaimTime, FreshIsLive
<1>3. HolderIn(tokens[p], o, l, k, c + Skew[pr]) /\ tokens[p] \in Token
  BY ClaimTime DEF Grounded, TypeOK
<1>4. ~has_conflict(tokens, t.req, w, sb) /\ q \in lock_paths(t.req)
  BY DEF CommitAcquire, lock_paths, Kind
<1>5. t.req[q] = j
  OBVIOUS
<1> HIDE DEF t, sb
<1>6. /\ live_kind(tokens[p], sb) # "None"
      /\ k = "Tree" => live_kind(tokens[p], sb) = "Tree"
  BY <1>2, <1>3, HolderIsLive
<1>7. foreign(tokens[p], w)
  BY <1>3 DEF HolderIn, foreign
<1>8. p # q
  BY <1>4, <1>6, <1>7 DEF has_conflict, conflict_at
<1>9. ~(k = "Tree" /\ p \in ancestor_paths[q])
  BY <1>4, <1>6, <1>7 DEF has_conflict, conflict_above
<1>10. ~(j = "Tree" /\ q \in ancestor_paths[p])
  BY <1>4, <1>5, <1>6, <1>7 DEF has_conflict, conflict_below, conflict_at
<1> QED BY <1>8, <1>9, <1>10 DEF Apart

\* Claims of different owners never come to meet.
LEMMA ExclusiveStep ==
  ASSUME TypeOK, TypeOK', Structure, Structure', Grounded, Exclusive, [Next]_vars
  PROVE  Exclusive'
<1> SUFFICES ASSUME NEW o \in Owner, NEW w \in Owner, NEW l \in Lease, NEW m \in Lease,
                    NEW p \in Path, NEW q \in Path, NEW k \in Kind, NEW j \in Kind,
                    NEW pr \in Proc, NEW qr \in Proc, NEW c \in Nat, NEW d \in Nat,
                    Claim(o, l, p, k, pr, c)', Claim(w, m, q, j, qr, d)', o # w
             PROVE  Apart(p, k, q, j)
  <2>1. \A c \in 0 .. now' : c \in Nat
    BY DEF TypeOK
  <2> QED BY <2>1 DEF Exclusive, Apart
<1>1. ASSUME NEW a, NEW b, Claim(o, l, p, k, pr, a), Claim(w, m, q, j, qr, b)
      PROVE  Apart(p, k, q, j)
  <2>1. a \in 0 .. now /\ b \in 0 .. now
    BY <1>1, ClaimTime
  <2> QED BY <1>1, <2>1 DEF Exclusive
<1>2. CASE OldClaims
  BY <1>1, <1>2 DEF OldClaims
<1>3. ASSUME NEW xr \in Proc, NEW x \in Owner, NEW ok \in Outcome, RefreshPath(xr, x, ok)
      PROVE  Apart(p, k, q, j)
  <2>1. \E a : Claim(o, l, p, k, pr, a)
    BY <1>3, RefreshClaims DEF Refreshed
  <2>2. \E b : Claim(w, m, q, j, qr, b)
    BY <1>3, RefreshClaims DEF Refreshed
  <2> QED BY <2>1, <2>2, <1>1
<1>4. ASSUME NEW xr \in Proc, NEW x \in Owner, CommitAcquire(xr, x)
      PROVE  Apart(p, k, q, j)
  <2>1. Claim(o, l, p, k, pr, c) \/ (o = x /\ task[xr][x].req[p] = k)
    BY <1>4, CommitClaims
  <2>2. Claim(w, m, q, j, qr, d) \/ (w = x /\ task[xr][x].req[q] = j)
    BY <1>4, CommitClaims
  <2>3. CASE Claim(o, l, p, k, pr, c) /\ Claim(w, m, q, j, qr, d)
    BY <2>3, <1>1
  <2>4. CASE Claim(o, l, p, k, pr, c) /\ w = x /\ task[xr][x].req[q] = j
    BY <2>4, <1>4, GrantApart
  <2>5. CASE o = x /\ task[xr][x].req[p] = k /\ Claim(w, m, q, j, qr, d)
    BY <2>5, <1>4, GrantApart
  <2> QED BY <2>1, <2>2, <2>3, <2>4, <2>5
<1> QED BY <1>2, <1>3, <1>4, ClaimsStep

-----------------------------------------------------------------------------
(* The theorems *)

\* At the start nobody claims anything.
LEMMA NoClaimsInit ==
  ASSUME Init, NEW o \in Owner, NEW l \in Lease, NEW p \in Path, NEW k, NEW pr \in Proc, NEW c
  PROVE  ~Claim(o, l, p, k, pr, c)
<1>1. NoEntry.proc = NoProc /\ Idle.op = "idle"
  BY DEF NoEntry, Idle
<1> QED BY <1>1 DEF Init, Claim, EntryClaim, RefreshClaim, PublishClaim, Usable, Published

\* The invariant that carries mutual exclusion: every claim has its holder in
\* the store, and claims of different owners do not meet.
THEOREM ClaimsCorrect == Spec => [](Grounded /\ Exclusive)
<1>1. Init => Grounded /\ Exclusive
  BY NoClaimsInit DEF Grounded, Exclusive
<1>2. TypeOK /\ TypeOK' /\ Structure /\ Structure' /\ Grounded /\ Exclusive /\ [Next]_vars
        => (Grounded /\ Exclusive)'
  BY GroundedStep, ExclusiveStep
<1> QED BY <1>1, <1>2, TypeCorrect, StructureCorrect, PTL DEF Spec

\* An authorization at a path is a claim.
LEMMA AuthorizedClaims ==
  ASSUME TypeOK, Structure, NEW l \in Lease, NEW p \in Path, AuthorizedAt(l, p)
  PROVE  /\ entries[l].owner \in Owner /\ entries[l].proc \in Proc /\ entries[l].cov[p] \in Kind
         /\ entries[l].conf[p] \in Nat
         /\ Claim(entries[l].owner, l, p, entries[l].cov[p], entries[l].proc, entries[l].conf[p])
<1>1. /\ entries[l].proc \in Proc /\ entries[l].cov[p] \in Kind /\ entries[l].conf[p] \in Nat
  BY DEF TypeOK, AuthorizedAt, Usable, Published, Entry, Coverage
<1>2. entries[l].owner \in Owner
  BY DEF AuthorizedAt, Usable, Structure, EntriesOwned
<1> QED BY <1>1, <1>2 DEF Claim, EntryClaim, AuthorizedAt

\* Exclusive claims make exclusive authorizations: an authorization is a claim at
\* every path of its lease.
LEMMA ClaimsExclude == TypeOK /\ Structure /\ Exclusive => MutualExclusion
<1> SUFFICES ASSUME TypeOK, Structure, Exclusive,
                    NEW l \in Lease, NEW m \in Lease, Authorized(l), Authorized(m),
                    entries[l].owner # entries[m].owner, NEW r \in Path,
                    covers(entries[l].cov, r, "Exact"), covers(entries[m].cov, r, "Exact")
             PROVE  FALSE
  BY DEF MutualExclusion
<1>1. PICK p \in lock_paths(entries[l].cov) :
        request_is_covered_by(p, entries[l].cov[p], r, "Exact")
  BY DEF covers
<1>2. PICK q \in lock_paths(entries[m].cov) :
        request_is_covered_by(q, entries[m].cov[q], r, "Exact")
  BY DEF covers
<1>3. \A i \in Lease : Authorized(i) => \A s \in lock_paths(entries[i].cov) : AuthorizedAt(i, s)
  <2>1. \A i \in Lease, s \in Path : now - entries[i].conf[s] < Validity \/ now - entries[i].conf[s] >= Validity
    BY TimeAssumption DEF TypeOK, Entry
  <2> QED BY <2>1 DEF Authorized, AuthorizedAt, expired, lock_paths
<1>4. Apart(p, entries[l].cov[p], q, entries[m].cov[q])
  <2>1. AuthorizedAt(l, p) /\ AuthorizedAt(m, q) /\ p \in Path /\ q \in Path
    BY <1>1, <1>2, <1>3 DEF lock_paths
  <2>2. /\ entries[l].conf[p] \in 0 .. now /\ entries[m].conf[q] \in 0 .. now
    BY <2>1, AuthorizedClaims, ClaimTime
  <2> QED BY <2>1, <2>2, AuthorizedClaims DEF Exclusive
<1>5. p \in Path /\ q \in Path
  BY <1>1, <1>2 DEF lock_paths
<1> QED BY <1>1, <1>2, <1>4, <1>5, PathTree DEF request_is_covered_by, Apart

\* Two owners are never both authorized to mutate one path: for any number of
\* processes, owners, leases and paths, wall clocks that disagree by no more
\* than the margin between local deadline and token expiry, and any schedule
\* of storage calls, failures and crashes.
THEOREM ExclusionCorrect == Spec => []MutualExclusion
BY ClaimsExclude, TypeCorrect, StructureCorrect, ClaimsCorrect, PTL

\* The holder behind the claim of an authorization is live for every process.
LEMMA ClaimsBacked == TypeOK /\ Structure /\ Grounded => HolderBacked
<1> SUFFICES ASSUME TypeOK, Structure, Grounded, NEW l \in Lease, NEW p \in Path, AuthorizedAt(l, p)
             PROVE  Backed(l, p)
  BY DEF HolderBacked
<1> DEFINE o  == entries[l].owner
           pr == entries[l].proc
           k  == entries[l].cov[p]
           c  == entries[l].conf[p]
<1>1. o \in Owner /\ pr \in Proc /\ k \in Kind /\ c \in Nat /\ Claim(o, l, p, k, pr, c)
  BY AuthorizedClaims
<1>2. c \in 0 .. now /\ now \in Nat /\ now - c < Validity /\ now <= now
  <2> HIDE DEF o, pr, k, c
  <2> QED BY <1>1, ClaimTime
<1>3. HolderIn(tokens[p], o, l, k, c + Skew[pr])
  <2> HIDE DEF o, pr, k, c
  <2> QED BY <1>1, <1>2 DEF Grounded
<1>4. ASSUME NEW qr \in Proc PROVE now_ns(qr) - TTL <= c + Skew[pr] /\ now_ns(qr) - TTL \in Int
  <2>1. stale_before_at(qr, now) <= c + Skew[pr] /\ stale_before_at(qr, now) \in Int
    <3> HIDE DEF o, pr, k, c
    <3> QED BY <1>1, <1>2, FreshIsLive
  <2>2. now_ns(qr) - TTL = stale_before_at(qr, now)
    BY <1>2, SkewAssumption, TimeAssumption DEF stale_before_at, now_ns
  <2> QED BY <2>1, <2>2
<1>5. PICK h \in tokens[p].holders : h.id = l /\ h.kind = k /\ h.time >= c + Skew[pr]
  BY <1>3 DEF HolderIn
<1>6. h.time \in Int /\ c + Skew[pr] \in Int
  BY <1>1, SkewAssumption DEF TypeOK, Token, Holder
<1>7. \A qr \in Proc : h.time >= now_ns(qr) - TTL
  BY <1>4, <1>5, <1>6
<1>8. tokens[p].owner = entries[l].owner
  BY <1>3 DEF HolderIn
<1> QED BY <1>5, <1>7, <1>8 DEF Backed

\* While a lease authorizes at a path, its holder is in the store with the kind
\* asked for, and no process's clock makes it stale.
THEOREM HoldersBacked == Spec => []HolderBacked
BY ClaimsBacked, TypeCorrect, StructureCorrect, ClaimsCorrect, PTL

\* A published lease that does not authorize at a path never does again: no
\* late refresh, adoption or sweep revives it.
THEOREM RevocationCorrect == Spec => RevocationIsFinal
<1> DEFINE Final == \A l \in Lease, p \in Path :
                      Published(l) /\ ~AuthorizedAt(l, p) => ~AuthorizedAt(l, p)'
<1>1. TypeOK /\ TypeOK' /\ Structure /\ Structure' /\ [Next]_vars => Final
  <2> SUFFICES ASSUME TypeOK, TypeOK', Structure, Structure', [Next]_vars,
                      NEW l \in Lease, NEW p \in Path, Published(l), AuthorizedAt(l, p)'
               PROVE  AuthorizedAt(l, p)
    OBVIOUS
  <2>1. CASE entries' = entries /\ now' = now
    BY <2>1 DEF AuthorizedAt, Usable, Published
  <2>2. CASE OldClaims
    <3>1. PICK o \in Owner, pr \in Proc, k \in Kind, c \in Nat :
            /\ o = entries'[l].owner /\ pr = entries'[l].proc
            /\ k = entries'[l].cov[p] /\ c = entries'[l].conf[p]
      <4>1. entries'[l].proc \in Proc /\ entries'[l].cov[p] \in Kind /\ entries'[l].conf[p] \in Nat
        BY DEF TypeOK, AuthorizedAt, Usable, Published, Entry, Coverage
      <4>2. entries'[l].owner \in Owner
        BY DEF AuthorizedAt, Usable, Structure, EntriesOwned
      <4> QED BY <4>1, <4>2
    <3>2. Claim(o, l, p, k, pr, c)'
      BY <3>1 DEF Claim, EntryClaim, AuthorizedAt, Kind
    <3>3. Claim(o, l, p, k, pr, c)
      BY <3>2, <2>2 DEF OldClaims
    <3>4. ~PublishClaim(o, l, p, k, pr, c)
      BY DEF PublishClaim, Structure, UnpublishedWhileAcquiring, IsAcquiring
    <3> QED BY <3>3, <3>4 DEF Claim, EntryClaim, RefreshClaim, AuthorizedAt
  <2> QED BY <2>1, <2>2, ClaimsStep DEF CommitAcquire, RefreshPath
<1>2. Final => [\A l \in Lease, p \in Path :
                  Published(l) /\ ~AuthorizedAt(l, p) => ~AuthorizedAt(l, p)']_vars
  OBVIOUS
<1> HIDE DEF Final
<1> QED BY <1>1, <1>2, TypeCorrect, StructureCorrect, PTL DEF Spec, RevocationIsFinal

-----------------------------------------------------------------------------
(* Other owners' tokens where a claim reaches *)

LEMMA MutateOwn ==
  ASSUME NEW tok \in Token, NEW o, OwnToken(tok, o), NEW w, NEW id, NEW n, NEW sb, NEW release
  PROVE  OwnToken(mutate_holder_record(tok, w, id, n, sb, release), o)
<1>1. \/ mutate_holder_record(tok, w, id, n, sb, release) = tok
      \/ /\ tok.holders # {}
         /\ \E H : mutate_holder_record(tok, w, id, n, sb, release) = recompute([tok EXCEPT !.holders = H])
  BY DEF mutate_holder_record, holder_found
<1>2. ASSUME NEW H PROVE tok.holders # {} => OwnToken(recompute([tok EXCEPT !.holders = H]), o)
  BY DEF recompute, OwnToken, NoToken, Token
<1> QED BY <1>1, <1>2

LEMMA ReplaceOwn ==
  ASSUME NEW tok \in Token, NEW o, OwnToken(tok, o), NEW w, NEW id, NEW back, NEW sb
  PROVE  OwnToken(replace_holder(tok, w, id, back, sb), o)
<1>1. \/ replace_holder(tok, w, id, back, sb) = tok
      \/ /\ tok.holders # {}
         /\ \E H : replace_holder(tok, w, id, back, sb) = recompute([tok EXCEPT !.holders = H])
  BY DEF replace_holder
<1>2. ASSUME NEW H PROVE tok.holders # {} => OwnToken(recompute([tok EXCEPT !.holders = H]), o)
  BY DEF recompute, OwnToken, NoToken, Token
<1> QED BY <1>1, <1>2

LEMMA RemoveOwn ==
  ASSUME NEW toks, NEW S, NEW q \in Path, NEW o, OwnToken(toks[q], o)
  PROVE  OwnToken(remove_stale(toks, S)[q], o)
BY DEF remove_stale, OwnToken, NoToken

LEMMA WithHolderOwn ==
  ASSUME NEW tok \in Token, NEW o, NEW id, NEW kind, NEW n, NEW sb, NEW src
  PROVE  OwnToken(with_holder(tok, o, id, kind, n, sb, src), o)
BY DEF with_holder, add_holder, held, OwnToken, Token

\* A grant leaves no other owner's token where it reaches.
LEMMA GrantClears ==
  ASSUME NEW toks \in [Path -> Token], NEW r, NEW w, NEW id, NEW n, NEW sb, NEW src,
         ~has_conflict(toks, r, w, sb), NEW p \in lock_paths(r), NEW q \in Path, Reaches(p, r[p], q)
  PROVE  OwnToken(acquire_holder_records(toks, r, w, id, n, sb, src)[q], w)
<1>0. p \in Path
  BY DEF lock_paths
<1> DEFINE kept == remove_stale(toks, stale_in_way(toks, r, w, sb))
<1>1. OwnToken(kept[q], w)
  <2>1. CASE foreign(toks[q], w)
    <3>1. live_kind(toks[q], sb) = "None"
      BY <1>0, <2>1 DEF has_conflict, conflict_at, conflict_below, Reaches
    <3>2. q \in stale_in_way(toks, r, w, sb)
      BY <1>0, <2>1, <3>1 DEF stale_in_way, Reaches
    <3> QED BY <3>2 DEF remove_stale, OwnToken, NoToken
  <2>2. CASE ~foreign(toks[q], w)
    BY <2>2, RemoveOwn DEF foreign, OwnToken
  <2> QED BY <2>1, <2>2
<1>2. kept[q] \in Token
  BY RemoveStaleType
<1> HIDE DEF kept
<1>3. acquire_holder_records(toks, r, w, id, n, sb, src)[q] =
        IF r[q] = "None" THEN kept[q] ELSE with_holder(kept[q], w, id, r[q], n, sb, src)
  BY DEF acquire_holder_records, kept
<1> QED BY <1>1, <1>2, <1>3, WithHolderOwn

\* Where a claim reaches no other owner comes to write a holder.
LEMMA ClearedStep ==
  ASSUME TypeOK, TypeOK', Structure, Grounded, Cleared, [Next]_vars
  PROVE  Cleared'
<1> SUFFICES ASSUME NEW o \in Owner, NEW l \in Lease, NEW p \in Path, NEW k \in Kind,
                    NEW pr \in Proc, NEW c \in Nat, Claim(o, l, p, k, pr, c)', NEW q \in Path,
                    Reaches(p, k, q)
             PROVE  OwnToken(tokens'[q], o)
  <2>1. \A c \in 0 .. now' : c \in Nat
    BY DEF TypeOK
  <2> QED BY <2>1 DEF Cleared, OwnToken
<1>0. tokens \in [Path -> Token] /\ tokens[q] \in Token
  BY DEF TypeOK
<1>1. ASSUME NEW d, Claim(o, l, p, k, pr, d) PROVE OwnToken(tokens'[q], o)
  <2>0. OwnToken(tokens[q], o)
    BY <1>1, ClaimTime DEF Cleared
  <2>1. ASSUME NEW qr \in Proc, NEW w \in Owner, CommitAcquire(qr, w) PROVE OwnToken(tokens'[q], o)
    <3>1. PICK r, n, sb, src, id : /\ r = task[qr][w].req
            /\ tokens' = acquire_holder_records(tokens, r, w, id, n, sb, src)
      BY <2>1 DEF CommitAcquire
    <3>2. PICK kept : /\ kept = remove_stale(tokens, stale_in_way(tokens, r, w, sb))
                      /\ tokens'[q] = IF r[q] = "None" THEN kept[q]
                                      ELSE with_holder(kept[q], w, id, r[q], n, sb, src)
      BY <3>1 DEF acquire_holder_records
    <3>3. OwnToken(kept[q], o) /\ kept[q] \in Token
      BY <1>0, <2>0, <3>2, RemoveOwn, RemoveStaleType
    <3>4. ASSUME r[q] # "None" PROVE w = o
      <4>1. r[q] \in Kind
        BY <3>1, <3>4, TaskLease DEF TaskRecord, Coverage
      <4>2. o # w => Apart(p, k, q, r[q])
        BY <1>1, <2>1, <3>1, <4>1, GrantApart
      <4> QED BY <4>2 DEF Apart, Reaches
    <3> QED BY <3>2, <3>3, <3>4, WithHolderOwn
  <2>2. ASSUME NEW qr \in Proc, NEW w \in Owner, RejectAcquire(qr, w) PROVE OwnToken(tokens'[q], o)
    <3>1. tokens' = tokens \/ \E S : tokens' = remove_stale(tokens, S)
      BY <2>2 DEF RejectAcquire
    <3> QED BY <2>0, <3>1, RemoveOwn
  <2>3. ASSUME NEW qr \in Proc, NEW w \in Owner, NEW ok \in Outcome, RefreshPath(qr, w, ok)
        PROVE  OwnToken(tokens'[q], o)
    <3>1. \/ tokens'[q] = tokens[q]
          \/ tokens'[q] = mutate_holder_record(tokens[q], w, task[qr][w].lease,
                             task[qr][w].started + Skew[qr], stale_before_at(qr, task[qr][w].started), FALSE)
      BY <1>0, <2>3 DEF RefreshPath
    <3> QED BY <1>0, <2>0, <3>1, MutateOwn
  <2>4. ASSUME NEW qr \in Proc, NEW w \in Owner, NEW ok \in Outcome, ReleasePath(qr, w, ok)
        PROVE  OwnToken(tokens'[q], o)
    <3>1. \/ tokens'[q] = tokens[q]
          \/ tokens'[q] = mutate_holder_record(tokens[q], w, task[qr][w].lease, now_ns(qr), 0, TRUE)
      BY <1>0, <2>4 DEF ReleasePath
    <3> QED BY <1>0, <2>0, <3>1, MutateOwn
  <2>5. ASSUME NEW qr \in Proc, NEW w \in Owner, NEW ok \in Outcome, UndoPath(qr, w, ok)
        PROVE  OwnToken(tokens'[q], o)
    <3>1. \/ tokens'[q] = tokens[q]
          \/ tokens'[q] = mutate_holder_record(tokens[q], w, task[qr][w].lease, now_ns(qr), 0, TRUE)
          \/ tokens'[q] = replace_holder(tokens[q], w, task[qr][w].lease, task[qr][w].replaced[q],
                                         now_ns(qr) - TTL)
      BY <1>0, <2>5 DEF UndoPath
    <3> QED BY <1>0, <2>0, <3>1, MutateOwn, ReplaceOwn
  <2> QED BY <2>0, <2>1, <2>2, <2>3, <2>4, <2>5, TokensStep
<1>2. CASE OldClaims
  BY <1>1, <1>2 DEF OldClaims
<1>3. ASSUME NEW qr \in Proc, NEW w \in Owner, NEW ok \in Outcome, RefreshPath(qr, w, ok)
      PROVE  OwnToken(tokens'[q], o)
  BY <1>1, <1>3, RefreshClaims DEF Refreshed
<1>4. ASSUME NEW qr \in Proc, NEW w \in Owner, CommitAcquire(qr, w) PROVE OwnToken(tokens'[q], o)
  <2>1. CASE o = w /\ task[qr][w].req[p] = k
    <3>1. PICK r, n, sb, src, id : /\ r = task[qr][w].req /\ ~has_conflict(tokens, r, w, sb)
            /\ tokens' = acquire_holder_records(tokens, r, w, id, n, sb, src)
      BY <1>4 DEF CommitAcquire
    <3>2. p \in lock_paths(r) /\ Reaches(p, r[p], q)
      BY <2>1, <3>1 DEF lock_paths, Kind
    <3> QED BY <1>0, <2>1, <3>1, <3>2, GrantClears
  <2> QED BY <1>1, <1>4, <2>1, CommitClaims
<1> QED BY <1>2, <1>3, <1>4, ClaimsStep

\* An authorized lease claims every path it has locked.
LEMMA AuthorizedEverywhere ==
  ASSUME TypeOK, NEW l \in Lease, Authorized(l), NEW p \in lock_paths(entries[l].cov)
  PROVE  p \in Path /\ AuthorizedAt(l, p)
<1>1. p \in Path /\ (now - entries[l].conf[p] < Validity \/ now - entries[l].conf[p] >= Validity)
  BY TimeAssumption DEF TypeOK, Entry, lock_paths
<1> QED BY <1>1 DEF Authorized, AuthorizedAt, expired, lock_paths

\* While a lease authorizes, no path it covers has a holder of another owner in the store:
\* a parked, revived or restored holder never stands where somebody else may write.
THEOREM AuthorityIsUndisputed == Spec => []Undisputed
<1>1. Init => Cleared
  <2> SUFFICES ASSUME Init, NEW o \in Owner, NEW l \in Lease, NEW p \in Path, NEW k \in Kind,
                      NEW pr \in Proc, NEW c
               PROVE  ~Claim(o, l, p, k, pr, c)
    BY DEF Cleared
  <2>1. NoEntry.proc = NoProc /\ Idle.op = "idle"
    BY DEF NoEntry, Idle
  <2> QED BY <2>1 DEF Init, Claim, EntryClaim, RefreshClaim, PublishClaim, Usable, Published
<1>2. TypeOK /\ TypeOK' /\ Structure /\ Grounded /\ Cleared /\ [Next]_vars => Cleared'
  BY ClearedStep
<1>3. TypeOK /\ Structure /\ Cleared => Undisputed
  <2> SUFFICES ASSUME TypeOK, Structure, Cleared, NEW l \in Lease, NEW q \in Path, Authorized(l),
                      covers(entries[l].cov, q, "Exact"), tokens[q].holders # {}
               PROVE  tokens[q].owner = entries[l].owner
    BY DEF Undisputed
  <2>1. PICK p \in lock_paths(entries[l].cov) : request_is_covered_by(p, entries[l].cov[p], q, "Exact")
    BY DEF covers
  <2>2. p \in Path /\ AuthorizedAt(l, p) /\ Reaches(p, entries[l].cov[p], q)
    BY <2>1, AuthorizedEverywhere DEF request_is_covered_by, Reaches
  <2>3. entries[l].conf[p] \in 0 .. now
    BY <2>2, AuthorizedClaims, ClaimTime
  <2>4. OwnToken(tokens[q], entries[l].owner)
    BY <2>2, <2>3, AuthorizedClaims DEF Cleared
  <2> QED BY <2>4 DEF OwnToken
<1> QED BY <1>1, <1>2, <1>3, TypeCorrect, StructureCorrect, ClaimsCorrect, PTL DEF Spec

-----------------------------------------------------------------------------
(* Refinement of LeaseLock *)

\* The lease authorizes what it did before the step, or nothing any more.
Fades(l) ==
  Authorized(l)' =>
    Authorized(l) /\ entries'[l].owner = entries[l].owner /\ entries'[l].cov = entries[l].cov

\* ... if its entry keeps its coverage and gains no confirmation.
LEMMA UnconfirmedFades ==
  ASSUME TypeOK, TypeOK', now <= now', NEW l \in Lease, EntryUnconfirmed(l),
         Usable(l)' => entries'[l].cov = entries[l].cov
  PROVE  Fades(l)
<1> SUFFICES ASSUME Authorized(l)' PROVE ~expired(entries[l])
  BY DEF Fades, Authorized, EntryUnconfirmed
<1> SUFFICES ASSUME NEW p \in lock_paths(entries[l].cov), now - entries[l].conf[p] >= Validity
             PROVE  FALSE
  BY DEF expired
<1>1. p \in Path /\ entries'[l].cov[p] # "None" /\ entries'[l].conf[p] = entries[l].conf[p]
  BY DEF Authorized, EntryUnconfirmed, lock_paths
<1>2. now' - entries[l].conf[p] >= Validity
  BY <1>1, TimeAssumption DEF TypeOK, Entry
<1> QED BY <1>1, <1>2 DEF Authorized, expired, lock_paths

\* Only a publication makes a lease authorize; a release at one path may restore the others.
LEMMA EntriesStep ==
  ASSUME TypeOK, TypeOK', Structure, [Next]_vars
  PROVE  \/ \A l \in Lease : Fades(l)
         \/ \E pr \in Proc, o \in Owner : PublishLease(pr, o)
         \/ \E pr \in Proc, o \in Owner, ok \in Outcome : ReleasePath(pr, o, ok)
<1>n. now \in Nat /\ now <= now
  BY DEF TypeOK
<1>1. ASSUME EntriesKept, now <= now' PROVE \A l \in Lease : Fades(l)
  BY <1>1, KeptUnconfirmed, UnconfirmedFades DEF EntriesKept
<1>2. ASSUME \A k \in Lease : entries'[k] = entries[k] \/ entries'[k] = NoEntry, now <= now'
      PROVE  \A l \in Lease : Fades(l)
  <2>1. NoEntry.proc = NoProc
    BY DEF NoEntry
  <2> TAKE l \in Lease
  <2>2. EntryUnconfirmed(l) /\ (Usable(l)' => entries'[l].cov = entries[l].cov)
    BY <1>2, <2>1 DEF EntryUnconfirmed, Usable, Published
  <2> QED BY <1>2, <2>2, UnconfirmedFades
<1>3. ASSUME entries' = entries, now <= now' PROVE \A l \in Lease : Fades(l)
  BY <1>2, <1>3
<1>4. ASSUME NEW pr \in Proc, NEW o \in Owner, Acquiring(pr, o), ~PublishLease(pr, o)
      PROVE  \A l \in Lease : Fades(l)
  <2>1. now' = now /\ (entries' = entries \/ entries' = invalidate_expired(entries, pr, o))
    BY <1>4 DEF Acquiring, AcquireBatch, AcquireReentrant, ReacquireBatch, Adopt, start_acquire,
                RollbackLease, UndoPath
  <2> QED BY <2>1, <1>1, <1>n, KeptBySweep
<1>5. ASSUME NEW pr \in Proc, NEW o \in Owner, CommitAcquire(pr, o) \/ RejectAcquire(pr, o)
      PROVE  \A l \in Lease : Fades(l)
  BY <1>3, <1>5, <1>n DEF CommitAcquire, RejectAcquire
<1>6. ASSUME NEW pr \in Proc, NEW o \in Owner, ApplyRefresh(pr, o)
      PROVE  \A l \in Lease : Fades(l)
  <2>1. PICK t : t = task[pr][o]
    OBVIOUS
  <2>2. /\ t.lease \in Lease /\ t.started \in Nat /\ t.lease \in registry(entries, pr, o) /\ now' = now
        /\ entries' = apply_refresh_results(entries, pr, o, t.lease, t.result, t.started)
    BY <1>6, <2>1, TaskLease DEF ApplyRefresh, Structure, HeldWhileInFlight
  <2> TAKE l \in Lease
  <2>3. /\ entries'[l].proc = entries[l].proc /\ entries'[l].owner = entries[l].owner
        /\ entries'[l].cov = entries[l].cov /\ entries'[l].pending_handoff = entries[l].pending_handoff
        /\ l # t.lease => \A p \in Path : entries'[l].conf[p] = entries[l].conf[p]
        /\ entries'[l].invalidation = "None" =>
             entries[l].invalidation = "None" /\ (l = t.lease => ~expired(entries[l]))
    <3>1. entries \in [Lease -> Entry]
      BY DEF TypeOK
    <3> QED BY <1>n, <2>2, <3>1, ApplyKeeps
  <2>4. CASE l = t.lease
    BY <2>3, <2>4 DEF Fades, Authorized, Usable, Published
  <2>5. CASE l # t.lease
    BY <1>n, <2>2, <2>3, <2>5, UnconfirmedFades DEF EntryUnconfirmed, Usable, Published
  <2> QED BY <2>4, <2>5
<1>7. ASSUME NEW pr \in Proc, NEW o \in Owner, NEW k \in Lease, Handoff(pr, o, k)
      PROVE  \A l \in Lease : Fades(l)
  <2>1. PICK E \in [Lease -> Entry] : E = invalidate_expired(entries, pr, o)
    BY InvalidateExpiredType DEF TypeOK
  <2>2. now' = now /\ (entries' = E \/ entries' = [E EXCEPT ![k].pending_handoff = TRUE])
    BY <1>7, <2>1 DEF Handoff
  <2> TAKE l \in Lease
  <2>3. /\ E[l].proc = entries[l].proc /\ E[l].owner = entries[l].owner /\ E[l].cov = entries[l].cov
        /\ E[l].conf = entries[l].conf /\ E[l].pending_handoff = entries[l].pending_handoff
        /\ E[l].invalidation = "None" => entries[l].invalidation = "None"
    BY <1>n, <2>1, SweepKeeps DEF TypeOK
  <2>4. entries'[l] = E[l] \/ entries'[l].pending_handoff
    BY <2>1, <2>2 DEF Entry
  <2> QED BY <1>n, <2>2, <2>3, <2>4, UnconfirmedFades DEF EntryUnconfirmed, Usable, Published
<1>8. ASSUME NEW pr \in Proc, NEW o \in Owner, Holding(pr, o), ~ \E ok \in Outcome : ReleasePath(pr, o, ok)
      PROVE  \A l \in Lease : Fades(l)
  <2>1. ASSUME NEW k \in Lease, Forget(pr, o, k) PROVE \A l \in Lease : Fades(l)
    BY <1>2, <1>n, <2>1 DEF Forget, TypeOK
  <2>2. ASSUME NEW k \in Lease, StartRefresh(pr, o, k) PROVE \A l \in Lease : Fades(l)
    BY <1>1, <1>n, <2>2, KeptBySweep DEF StartRefresh
  <2>3. ASSUME Lookup(pr, o) PROVE \A l \in Lease : Fades(l)
    BY <1>1, <1>n, <2>3, KeptBySweep DEF Lookup
  <2>4. ASSUME NEW k \in Lease, NEW S, Release(pr, o, k, S) \/ Cleanup(pr, o, k)
        PROVE  \A l \in Lease : Fades(l)
    BY <1>3, <1>n, <2>4 DEF Release, Cleanup, start_release
  <2>5. ASSUME NEW ok \in Outcome, RefreshPath(pr, o, ok) PROVE \A l \in Lease : Fades(l)
    BY <1>3, <1>n, <2>5 DEF RefreshPath
  <2> QED BY <1>6, <1>7, <1>8, <2>1, <2>2, <2>3, <2>4, <2>5 DEF Holding
<1>9. ASSUME NEW pr \in Proc, NEW l \in Lease, Unpark(pr, l) PROVE \A k \in Lease : Fades(k)
  BY <1>2, <1>n, <1>9 DEF Unpark, TypeOK
<1>10. ASSUME Environment PROVE \A l \in Lease : Fades(l)
  <2>1. now <= now' /\ \A k \in Lease : entries'[k] = entries[k] \/ entries'[k] = NoEntry
    BY <1>n, <1>10 DEF Environment, AckHandoff, Tick, Crash
  <2> QED BY <1>2, <2>1
<1>11. ASSUME UNCHANGED vars PROVE \A l \in Lease : Fades(l)
  BY <1>3, <1>n, <1>11 DEF vars
<1> QED BY <1>4, <1>5, <1>8, <1>9, <1>10, <1>11 DEF Next

\* What two owners are authorized to does not meet, path by path.
AuthorizedApart ==
  \A l, k \in Lease :
    Authorized(l) /\ Authorized(k) /\ entries[l].owner # entries[k].owner =>
      \A p \in lock_paths(entries[l].cov), q \in lock_paths(entries[k].cov) :
        Apart(p, entries[l].cov[p], q, entries[k].cov[q])

LEMMA ExclusiveApart ==
  ASSUME TypeOK, Structure, Exclusive
  PROVE  AuthorizedApart
<1> SUFFICES ASSUME NEW l \in Lease, NEW k \in Lease, Authorized(l), Authorized(k),
                    entries[l].owner # entries[k].owner,
                    NEW p \in lock_paths(entries[l].cov), NEW q \in lock_paths(entries[k].cov)
             PROVE  Apart(p, entries[l].cov[p], q, entries[k].cov[q])
  BY DEF AuthorizedApart
<1>1. p \in Path /\ AuthorizedAt(l, p) /\ q \in Path /\ AuthorizedAt(k, q)
  BY AuthorizedEverywhere
<1>2. /\ entries[l].owner \in Owner /\ entries[l].proc \in Proc /\ entries[l].cov[p] \in Kind
      /\ Claim(entries[l].owner, l, p, entries[l].cov[p], entries[l].proc, entries[l].conf[p])
      /\ entries[k].owner \in Owner /\ entries[k].proc \in Proc /\ entries[k].cov[q] \in Kind
      /\ Claim(entries[k].owner, k, q, entries[k].cov[q], entries[k].proc, entries[k].conf[q])
  BY <1>1, AuthorizedClaims
<1>3. entries[l].conf[p] \in 0 .. now /\ entries[k].conf[q] \in 0 .. now
  BY <1>1, <1>2, ClaimTime
<1> QED BY <1>1, <1>2, <1>3 DEF Exclusive

\* What Granted says of each lease, before and after a step.
LEMMA GrantedValue ==
  ASSUME NEW l \in Lease
  PROVE  /\ Granted[l] = IF Authorized(l) THEN [owner |-> entries[l].owner, cov |-> entries[l].cov]
                         ELSE Abstract!Nothing
         /\ Granted'[l] = IF Authorized(l)' THEN [owner |-> entries'[l].owner, cov |-> entries'[l].cov]
                          ELSE Abstract!Nothing
BY DEF Granted, Abstract!Nothing, NoCoverage

\* A step on which every lease keeps or loses coverage shrinks the grants.
LEMMA ShrinkStep ==
  ASSUME TypeOK',
         \A l \in Lease : Authorized(l)' =>
           /\ Authorized(l) /\ entries'[l].owner = entries[l].owner
           /\ \A p \in Path : entries'[l].cov[p] \in {entries[l].cov[p], "None"}
  PROVE  Abstract!Shrink
<1>1. ASSUME NEW l \in Lease
      PROVE  /\ entries'[l].owner \in Owner \cup {NoOwner} /\ entries'[l].cov \in Coverage
             /\ NoCoverage \in Coverage
  BY DEF TypeOK, Entry, NoCoverage, Coverage
<1>2. Granted' \in [Lease -> [owner : Owner \cup {NoOwner}, cov : Abstract!Coverage]]
  BY <1>1 DEF Granted, Abstract!Coverage, Abstract!Kind, Coverage, Kind
<1>3. ASSUME NEW l \in Lease
      PROVE  \/ Granted'[l] = Abstract!Nothing
             \/ /\ Granted'[l].owner = Granted[l].owner
                /\ \A p \in Path : Granted'[l].cov[p] \in {Granted[l].cov[p], "None"}
  <2>1. ASSUME Authorized(l)'
        PROVE  /\ Granted'[l].owner = entries'[l].owner /\ Granted'[l].cov = entries'[l].cov
               /\ Granted[l].owner = entries[l].owner /\ Granted[l].cov = entries[l].cov
    <3>1. /\ Granted'[l] = [owner |-> entries'[l].owner, cov |-> entries'[l].cov]
          /\ Granted[l] = [owner |-> entries[l].owner, cov |-> entries[l].cov]
      BY <2>1, GrantedValue
    <3> QED BY <3>1
  <2>2. ~Authorized(l)' => Granted'[l] = Abstract!Nothing
    BY GrantedValue
  <2> QED BY <2>1, <2>2
<1> QED BY <1>2, <1>3 DEF Abstract!Shrink

\* A step on which one lease starts to authorize, all others staying as they are, is a grant.
Stays(l) == Fades(l) /\ (Authorized(l) => Authorized(l)')

LEMMA GrantStep ==
  ASSUME TypeOK', EntriesOwned', AuthorizedApart', NEW l \in Lease, ~Authorized(l), Authorized(l)',
         \A k \in Lease : k # l => Stays(k)
  PROVE  Abstract!Next
<1>1. PICK o \in Owner, c \in Coverage : o = entries'[l].owner /\ c = entries'[l].cov
  BY DEF TypeOK, Entry, EntriesOwned, Authorized, Usable
<1>2. Granted[l] = Abstract!Nothing
  BY GrantedValue
<1>3. ASSUME NEW k \in Lease, Granted[k].owner # o, Granted[k].owner # NoOwner
      PROVE  Abstract!Compatible(Granted[k].cov, c)
  <2>0. Abstract!Nothing.owner = NoOwner
    BY DEF Abstract!Nothing
  <2>1. Authorized(k) /\ k # l
    BY <1>2, <1>3, <2>0, GrantedValue
  <2>2. /\ Authorized(k)' /\ entries'[k].owner = entries[k].owner /\ entries'[k].cov = entries[k].cov
    BY <2>1 DEF Stays, Fades
  <2>3. Granted[k].owner = entries'[k].owner /\ Granted[k].cov = entries'[k].cov
    <3>1. Granted[k] = [owner |-> entries[k].owner, cov |-> entries[k].cov]
      BY <2>1, GrantedValue
    <3> QED BY <2>2, <3>1
  <2>4. \A p \in lock_paths(entries'[k].cov), q \in lock_paths(c) :
          Apart(p, entries'[k].cov[p], q, c[q])
    BY <1>1, <1>3, <2>2, <2>3 DEF AuthorizedApart
  <2> QED BY <2>3, <2>4 DEF Apart, Abstract!Compatible, Abstract!lock_paths, lock_paths
<1>4. Granted' = [Granted EXCEPT ![l] = [owner |-> o, cov |-> c]]
  <2>1. \A k \in Lease : Granted'[k] = IF k = l THEN [owner |-> o, cov |-> c] ELSE Granted[k]
    BY <1>1, GrantedValue DEF Stays, Fades
  <2> QED BY <2>1 DEF Granted
<1>5. Abstract!Grant(l, o, c)
  BY <1>2, <1>3, <1>4 DEF Abstract!Grant
<1> QED BY <1>5 DEF Abstract!Next, Abstract!Coverage, Abstract!Kind, Coverage, Kind

\* A publication is a grant: the sweep before it ends only authorizations that are over.
LEMMA PublishGrants ==
  ASSUME TypeOK, TypeOK', Structure, Structure', AuthorizedApart', NEW pr \in Proc, NEW o \in Owner,
         PublishLease(pr, o)
  PROVE  Abstract!Next
<1>1. PICK t, E : t = task[pr][o] /\ E = invalidate_expired(entries, pr, o)
  OBVIOUS
<1>2. /\ t.op = "publish" /\ t.lease \in Lease /\ now' = now /\ now - t.started < Validity
      /\ t.req \in Coverage /\ t.started \in Nat
      /\ entries' = [E EXCEPT ![t.lease] =
                       [NoEntry EXCEPT !.proc = pr, !.owner = o, !.cov = t.req,
                                       !.conf = [p \in Path |-> IF t.req[p] = "None" THEN 0 ELSE t.started],
                                       !.source = t.source]]
  BY <1>1, TaskLease DEF PublishLease, acquired_in_time, TaskRecord
<1>3. PICK l \in Lease : l = t.lease
  BY <1>2
<1>4. ~Authorized(l)
  BY <1>1, <1>2, <1>3 DEF Structure, UnpublishedWhileAcquiring, IsAcquiring, Authorized, Usable
<1>5. E \in [Lease -> Entry]
  BY <1>1, InvalidateExpiredType DEF TypeOK
<1>6. Authorized(l)'
  <2>1. /\ entries'[l].proc = pr /\ entries'[l].cov = t.req /\ entries'[l].invalidation = "None"
        /\ entries'[l].pending_handoff = FALSE
        /\ \A p \in Path : t.req[p] # "None" => entries'[l].conf[p] = t.started
    BY <1>2, <1>3, <1>5 DEF NoEntry
  <2>2. Usable(l)'
    BY <2>1, RequestAssumption DEF Usable, Published
  <2>3. ~expired(entries[l])'
    <3> SUFFICES ASSUME NEW p \in lock_paths(t.req) PROVE ~(now - entries'[l].conf[p] >= Validity)
      BY <1>2, <2>1 DEF expired
    <3>1. entries'[l].conf[p] = t.started
      BY <2>1 DEF lock_paths
    <3> QED BY <1>2, <3>1, TimeAssumption DEF TypeOK
  <2> QED BY <2>2, <2>3 DEF Authorized
<1>7. ASSUME NEW k \in Lease, k # l PROVE Stays(k)
  <2>1. entries'[k] = E[k]
    BY <1>2, <1>3, <1>5, <1>7
  <2>2. entries'[k] = entries[k] \/ (expired(entries[k]) /\ entries'[k].invalidation # "None")
    BY <1>1, <2>1 DEF invalidate_expired, invalidate, TypeOK, Entry
  <2> QED BY <1>2, <2>2 DEF Stays, Fades, Authorized, Usable, Published, expired
<1> QED BY <1>3, <1>4, <1>6, <1>7, GrantStep DEF Structure

\* A release takes a path away; if that path was the one past its deadline, the lease is
\* back with the others, which is a grant like any other.
LEMMA ReleaseGrants ==
  ASSUME TypeOK, TypeOK', Structure, Structure', AuthorizedApart', NEW pr \in Proc, NEW o \in Owner,
         NEW ok \in Outcome, ReleasePath(pr, o, ok)
  PROVE  Abstract!Next
<1>1. PICK l \in Lease : l = task[pr][o].lease
  BY TaskLease DEF ReleasePath
<1>2. now' = now /\ \A k \in Lease : EntryUnconfirmed(k) /\ (k # l => entries'[k] = entries[k])
  <2>1. \A k \in Lease : EntryUnconfirmed(k) /\ (k # task[pr][o].lease => entries'[k] = entries[k])
    BY ReleaseUnconfirmed
  <2> QED BY <1>1, <2>1 DEF ReleasePath
<1>3. ASSUME NEW k \in Lease, k # l PROVE Stays(k)
  BY <1>2, <1>3 DEF Stays, Fades, Authorized, Usable, Published, expired
<1>4. CASE ~Authorized(l) /\ Authorized(l)'
  BY <1>3, <1>4, GrantStep DEF Structure
<1>5. CASE Authorized(l) \/ ~Authorized(l)'
  <2>1. ASSUME Authorized(l)'
        PROVE  /\ entries'[l].owner = entries[l].owner
               /\ \A p \in Path : entries'[l].cov[p] \in {entries[l].cov[p], "None"}
    BY <1>2, <2>1 DEF EntryUnconfirmed, Authorized
  <2>2. ASSUME NEW k \in Lease, Authorized(k)'
        PROVE  /\ Authorized(k) /\ entries'[k].owner = entries[k].owner
               /\ \A p \in Path : entries'[k].cov[p] \in {entries[k].cov[p], "None"}
    BY <1>3, <1>5, <2>1, <2>2 DEF Stays, Fades
  <2> QED BY <2>2, ShrinkStep DEF Abstract!Next
<1> QED BY <1>4, <1>5

\* The managers, the store, the clocks, failures and crashes together implement LeaseLock:
\* an owner comes to authorize coverage only while no other owner's authorized coverage
\* meets it, and authorizations otherwise only shrink.
THEOREM LeaseLockIsImplemented == Spec => ImplementsLeaseLock
<1>1. Init => Abstract!Init
  <2> SUFFICES ASSUME Init PROVE Granted = [l \in Lease |-> Abstract!Nothing]
    BY DEF Abstract!Init
  <2>1. \A l \in Lease : ~Authorized(l)
    BY DEF Init, NoEntry, Authorized, Usable, Published
  <2> QED BY <2>1 DEF Granted, Abstract!Nothing, NoCoverage
<1>2. TypeOK /\ Structure /\ Grounded /\ Exclusive => AuthorizedApart
  BY ExclusiveApart
<1>3. /\ TypeOK /\ TypeOK' /\ Structure /\ Structure' /\ AuthorizedApart' /\ [Next]_vars
      => [Abstract!Next]_Granted
  <2> SUFFICES ASSUME TypeOK, TypeOK', Structure, Structure', AuthorizedApart', [Next]_vars
               PROVE  Abstract!Next
    OBVIOUS
  <2>1. ASSUME \A l \in Lease : Fades(l) PROVE Abstract!Next
    BY <2>1, ShrinkStep DEF Fades, Abstract!Next
  <2> QED BY <2>1, EntriesStep, PublishGrants, ReleaseGrants
<1> QED BY <1>1, <1>2, <1>3, TypeCorrect, StructureCorrect, ClaimsCorrect, PTL
        DEF Spec, ImplementsLeaseLock, Abstract!Spec
=============================================================================
