------------------------ MODULE PathLockHandoffProofs -----------------------
(***************************************************************************)
(* What acquisitions, releases and handoffs leave in the store, for any    *)
(* number of processes, owners, leases and paths: where the holders of a   *)
(* lease can be and whose they are, so that a failed attempt and a lease   *)
(* that leaves its registry take all of them away.                         *)
(***************************************************************************)
EXTENDS PathLockExclusionProofs

-----------------------------------------------------------------------------
(* Where holders come from. *)

\* A token that keeps a holder keeps its owner, when one holder is refreshed or released.
LEMMA MutateKeepsOwner ==
  ASSUME NEW tok \in Token, NEW w, NEW id, NEW n \in Int, NEW sb, NEW release,
         mutate_holder_record(tok, w, id, n, sb, release).holders # {}
  PROVE  mutate_holder_record(tok, w, id, n, sb, release).owner = tok.owner
<1>1. PICK H : \/ mutate_holder_record(tok, w, id, n, sb, release) = tok
               \/ mutate_holder_record(tok, w, id, n, sb, release) = recompute([tok EXCEPT !.holders = H])
  BY DEF mutate_holder_record
<1>2. recompute([tok EXCEPT !.holders = H]).holders # {} =>
        recompute([tok EXCEPT !.holders = H]).owner = tok.owner
  BY DEF recompute, NoToken, Token
<1> QED BY <1>1, <1>2

\* ... and when a replaced holder is put back.
LEMMA ReplaceKeepsOwner ==
  ASSUME NEW tok \in Token, NEW w, NEW id, NEW back, NEW sb,
         replace_holder(tok, w, id, back, sb).holders # {}
  PROVE  replace_holder(tok, w, id, back, sb).owner = tok.owner
<1>1. PICK H : \/ replace_holder(tok, w, id, back, sb) = tok
               \/ replace_holder(tok, w, id, back, sb) = recompute([tok EXCEPT !.holders = H])
  BY DEF replace_holder
<1>2. recompute([tok EXCEPT !.holders = H]).holders # {} =>
        recompute([tok EXCEPT !.holders = H]).owner = tok.owner
  BY DEF recompute, NoToken, Token
<1> QED BY <1>1, <1>2

\* The owner's release of a holder takes it away...
LEMMA MutateDrops ==
  ASSUME NEW tok \in Token, NEW w, NEW id, NEW n, NEW sb,
         tok.owner = w \/ \A h \in tok.holders : h.id # id
  PROVE  \A h \in mutate_holder_record(tok, w, id, n, sb, TRUE).holders : h.id # id
<1>1. PICK others : others = {h \in tok.holders : h.id # id /\ h.time >= sb}
  OBVIOUS
<1>2. others \in SUBSET Holder /\ others \cup {} = others
  BY <1>1 DEF Token
<1>3. mutate_holder_record(tok, w, id, n, sb, TRUE) =
        IF holder_found(tok, w, id, sb, TRUE) THEN recompute([tok EXCEPT !.holders = others \cup {}]) ELSE tok
  BY <1>1 DEF mutate_holder_record
<1>4. recompute([tok EXCEPT !.holders = others]).holders \subseteq others
  BY <1>2 DEF recompute, NoToken, Token
<1>5. CASE holder_found(tok, w, id, sb, TRUE)
  BY <1>1, <1>2, <1>3, <1>4, <1>5
<1>6. CASE ~holder_found(tok, w, id, sb, TRUE)
  BY <1>3, <1>6 DEF holder_found
<1> QED BY <1>5, <1>6

\* ... and so does an undo that puts others back.
LEMMA ReplaceDrops ==
  ASSUME NEW tok \in Token, NEW w, NEW id, NEW back \in SUBSET Holder, NEW sb,
         tok.owner = w \/ \A h \in tok.holders : h.id # id, \A h \in back : h.id # id
  PROVE  \A h \in replace_holder(tok, w, id, back, sb).holders : h.id # id
<1>1. PICK others, rest : /\ others = {h \in tok.holders : h.id # id /\ h.time >= sb}
                          /\ rest = {r \in back : r.time >= sb /\ \A h \in others : h.id # r.id}
  OBVIOUS
<1>2. others \cup rest \in SUBSET Holder
  BY <1>1 DEF Token
<1>3. replace_holder(tok, w, id, back, sb) =
        IF tok.owner = w /\ \E h \in tok.holders : h.id = id
        THEN recompute([tok EXCEPT !.holders = others \cup rest]) ELSE tok
  BY <1>1 DEF replace_holder
<1>4. recompute([tok EXCEPT !.holders = others \cup rest]).holders \subseteq others \cup rest
  BY <1>2 DEF recompute, NoToken, Token
<1>5. CASE tok.owner = w /\ \E h \in tok.holders : h.id = id
  BY <1>1, <1>3, <1>4, <1>5
<1>6. CASE ~(tok.owner = w /\ \E h \in tok.holders : h.id = id)
  BY <1>3, <1>6
<1> QED BY <1>5, <1>6

\* A holder in a token after a grant was there, or is the grant's own; it is the owner's
\* that was there, or the grant's.
LEMMA AcquireHolders ==
  ASSUME NEW toks \in [Path -> Token], NEW r, NEW w, NEW id, NEW n, NEW sb, NEW src,
         NEW p \in Path
  PROVE  \A h \in acquire_holder_records(toks, r, w, id, n, sb, src)[p].holders :
           \/ /\ h \in toks[p].holders
              /\ acquire_holder_records(toks, r, w, id, n, sb, src)[p].owner = toks[p].owner
           \/ /\ h.id = id /\ r[p] # "None"
              /\ acquire_holder_records(toks, r, w, id, n, sb, src)[p].owner = w
<1>1. PICK kept : /\ kept = remove_stale(toks, stale_in_way(toks, r, w, sb))
                  /\ acquire_holder_records(toks, r, w, id, n, sb, src)[p] =
                       IF r[p] = "None" THEN kept[p]
                       ELSE with_holder(kept[p], w, id, r[p], n, sb, src)
  BY DEF acquire_holder_records
<1>2. kept[p] = NoToken \/ kept[p] = toks[p]
  BY <1>1 DEF remove_stale
<1>3. /\ kept[p] \in Token
      /\ \A h \in kept[p].holders : h \in toks[p].holders /\ kept[p].owner = toks[p].owner
  BY <1>2 DEF NoToken, Token
<1>4. CASE r[p] = "None"
  BY <1>1, <1>3, <1>4
<1>5. CASE r[p] # "None"
  <2>1. /\ with_holder(kept[p], w, id, r[p], n, sb, src).owner = w
        /\ \A h \in with_holder(kept[p], w, id, r[p], n, sb, src).holders :
             h.id = id \/ (h \in kept[p].holders /\ kept[p].owner = w)
    BY <1>3 DEF with_holder, add_holder, held, Token
  <2> QED BY <1>1, <1>3, <1>5, <2>1
<1> QED BY <1>4, <1>5

\* No holder of lease x stands at p after the step.
GoneNext(x, p) == \A h \in tokens'[p].holders : h.id # x

\* A holder of lease x at p was there before the step, under the same owner, or was written
\* by the grant of x, or put back by the undo of an adoption of x.
HolderKept(x, p) == ~Gone(x, p) /\ tokens'[p].owner = tokens[p].owner

HolderWritten(x, p) ==
  \E pr \in Proc, o \in Owner :
    /\ CommitAcquire(pr, o) /\ x = task[pr][o].lease
    /\ task[pr][o].req[p] # "None" /\ tokens'[p].owner = o

HolderPutBack(x, p) ==
  \E pr \in Proc, o \in Owner, ok \in Outcome :
    UndoPath(pr, o, ok) /\ IsAdopting(pr, o, x) /\ IsLast(p, Todo(task[pr][o]))

LEMMA HoldersArise ==
  ASSUME TypeOK, TypeOK', ReplacedIsSource, [Next]_vars, NEW x \in Lease, NEW p \in Path, ~Gone(x, p)'
  PROVE  HolderKept(x, p) \/ HolderWritten(x, p) \/ HolderPutBack(x, p)
<1>t. tokens \in [Path -> Token] /\ tokens[p] \in Token
  BY DEF TypeOK
<1>n. \A pr \in Proc : now_ns(pr) \in Int
  BY SkewAssumption DEF TypeOK, now_ns
<1>x. \E h \in tokens'[p].holders : h.id = x
  BY DEF Gone
<1>m. ASSUME NEW w, NEW id, NEW n \in Int, NEW sb, NEW release,
             tokens'[p] = mutate_holder_record(tokens[p], w, id, n, sb, release)
      PROVE  HolderKept(x, p)
  <2>1. tokens'[p].owner = tokens[p].owner
    BY <1>m, <1>t, <1>x, MutateKeepsOwner
  <2>2. \A h \in tokens'[p].holders : \E g \in tokens[p].holders : g.id = h.id
    BY <1>m, <1>t, MutatedHolders
  <2> QED BY <1>x, <2>1, <2>2 DEF HolderKept, Gone
<1>k. ASSUME tokens'[p] = tokens[p] PROVE HolderKept(x, p)
  BY <1>k, <1>x DEF HolderKept, Gone
<1>1. ASSUME NEW pr \in Proc, NEW o \in Owner, CommitAcquire(pr, o)
      PROVE  HolderKept(x, p) \/ HolderWritten(x, p)
  <2>1. PICK r, l, s, n, sb :
          /\ r = task[pr][o].req /\ l = task[pr][o].lease /\ s = task[pr][o].source
          /\ tokens' = acquire_holder_records(tokens, r, o, l, n, sb, s)
    BY <1>1 DEF CommitAcquire
  <2>2. \/ (\E h \in tokens[p].holders : h.id = x) /\ tokens'[p].owner = tokens[p].owner
        \/ x = l /\ r[p] # "None" /\ tokens'[p].owner = o
    <3>1. \A h \in acquire_holder_records(tokens, r, o, l, n, sb, s)[p].holders :
            \/ /\ h \in tokens[p].holders
               /\ acquire_holder_records(tokens, r, o, l, n, sb, s)[p].owner = tokens[p].owner
            \/ /\ h.id = l /\ r[p] # "None"
               /\ acquire_holder_records(tokens, r, o, l, n, sb, s)[p].owner = o
      BY <1>t, AcquireHolders
    <3> QED BY <1>x, <2>1, <3>1
  <2> QED BY <1>1, <2>1, <2>2 DEF HolderKept, HolderWritten, Gone
<1>2. ASSUME NEW pr \in Proc, NEW o \in Owner, RejectAcquire(pr, o) PROVE HolderKept(x, p)
  <2>1. tokens' = tokens \/ \E S : tokens' = remove_stale(tokens, S)
    BY <1>2 DEF RejectAcquire
  <2>2. tokens'[p] = tokens[p] \/ tokens'[p] = NoToken
    BY <2>1 DEF remove_stale
  <2> QED BY <1>k, <1>x, <2>2 DEF NoToken
<1>3. ASSUME NEW pr \in Proc, NEW o \in Owner, NEW ok \in Outcome, RefreshPath(pr, o, ok)
      PROVE  HolderKept(x, p)
  <2>0. PICK t, n, sb : /\ t = task[pr][o] /\ n = t.started + Skew[pr]
                        /\ sb = stale_before_at(pr, t.started)
    OBVIOUS
  <2>1. \E q \in Path :
          tokens' = IF ~ok THEN tokens
                    ELSE [tokens EXCEPT ![q] = mutate_holder_record(@, o, t.lease, n, sb, FALSE)]
    BY <1>3, <2>0 DEF RefreshPath
  <2>2. n \in Int
    BY <2>0, TaskLease, SkewAssumption
  <2>3. \/ tokens'[p] = tokens[p]
        \/ tokens'[p] = mutate_holder_record(tokens[p], o, t.lease, n, sb, FALSE)
    BY <1>t, <2>1
  <2> QED BY <1>k, <1>m, <2>2, <2>3
<1>4. ASSUME NEW pr \in Proc, NEW o \in Owner, NEW ok \in Outcome, ReleasePath(pr, o, ok)
      PROVE  HolderKept(x, p)
  <2>1. \/ tokens'[p] = tokens[p]
        \/ tokens'[p] = mutate_holder_record(tokens[p], o, task[pr][o].lease, now_ns(pr), 0, TRUE)
    BY <1>4, <1>t DEF ReleasePath
  <2> QED BY <1>k, <1>m, <1>n, <2>1
<1>5. ASSUME NEW pr \in Proc, NEW o \in Owner, NEW ok \in Outcome, UndoPath(pr, o, ok)
      PROVE  HolderKept(x, p) \/ HolderPutBack(x, p)
  <2>1. PICK t : t = task[pr][o] /\ t.op = "undo" /\ t \in TaskRecord
    BY <1>5, TaskLease DEF UndoPath
  <2>2. \/ tokens'[p] = tokens[p]
        \/ tokens'[p] = mutate_holder_record(tokens[p], o, t.lease, now_ns(pr), 0, TRUE)
        \/ /\ IsLast(p, Todo(t))
           /\ tokens'[p] = replace_holder(tokens[p], o, t.lease, t.replaced[p], now_ns(pr) - TTL)
    BY <1>5, <1>t, <2>1 DEF UndoPath
  <2>3. CASE /\ IsLast(p, Todo(t))
             /\ tokens'[p] = replace_holder(tokens[p], o, t.lease, t.replaced[p], now_ns(pr) - TTL)
    <3>1. PICK back, sb : back \in SUBSET Holder /\ back = t.replaced[p] /\ sb = now_ns(pr) - TTL
      BY <2>1 DEF TaskRecord
    <3>2. /\ tokens'[p] = replace_holder(tokens[p], o, t.lease, back, sb)
          /\ \A h \in tokens'[p].holders : h \in tokens[p].holders \/ h \in back
      BY <1>t, <2>3, <3>1, UndoneHolders
    <3>3. tokens'[p].owner = tokens[p].owner
      BY <1>t, <1>x, <3>2, ReplaceKeepsOwner
    <3>4. \A h \in back : h.id = t.source
      BY <2>1, <3>1 DEF ReplacedIsSource
    <3>5. CASE \E h \in tokens[p].holders : h.id = x
      BY <3>3, <3>5 DEF HolderKept, Gone
    <3>6. CASE ~ \E h \in tokens[p].holders : h.id = x
      <4>1. IsAdopting(pr, o, x)
        BY <1>x, <2>1, <3>2, <3>4, <3>6 DEF IsAdopting
      <4> QED BY <1>5, <2>1, <2>3, <4>1 DEF HolderPutBack
    <3> QED BY <3>5, <3>6
  <2> QED BY <1>k, <1>m, <1>n, <2>2, <2>3
<1> QED BY <1>1, <1>2, <1>3, <1>4, <1>5, <1>k, TokensStep

-----------------------------------------------------------------------------
(* Where attempts, entries and references come from. *)

\* A new attempt is about a fresh lease and, for an adoption, a queued reference.
AttemptStarts(pr, o) ==
  LET u == task'[pr][o] IN
  /\ u.op = "acquire" /\ u.lease \in Lease /\ FreshLease(u.lease) /\ tokens' = tokens
  /\ u.source # NoLease => \E m \in handoffs : m.lease = u.source /\ m.owner = o /\ m.cov = u.req
  /\ u.started = now /\ u.replaced = [p \in Path |-> {}]

\* What an attempt keeps from its start to its end.
AttemptGoesOn(pr, o) ==
  LET t == task[pr][o]
      u == task'[pr][o]
  IN  /\ IsAcquiring(pr, o) /\ u.lease = t.lease /\ u.req = t.req /\ u.source = t.source
      /\ u.started = t.started

LEMMA StartAcquireAttempt ==
  ASSUME TypeOK, NEW pr \in Proc, NEW o \in Owner, NEW l \in Lease, NEW r, NEW s, NEW cap,
         FreshLease(l), start_acquire(pr, o, l, r, s, cap),
         s # NoLease => \E m \in handoffs : m.lease = s /\ m.owner = o /\ m.cov = r
  PROVE  /\ AttemptStarts(pr, o)
         /\ \A qr \in Proc, w \in Owner : qr # pr \/ w # o => task'[qr][w] = task[qr][w]
<1>1. PICK u : /\ u = [Idle EXCEPT !.op = "acquire", !.lease = l, !.req = r,
                                   !.source = s, !.cap = cap, !.started = now]
               /\ task' = [task EXCEPT ![pr][o] = u] /\ tokens' = tokens
  BY DEF start_acquire
<1>2. /\ u.op = "acquire" /\ u.lease = l /\ u.req = r /\ u.source = s /\ u.started = now
      /\ u.replaced = [p \in Path |-> {}]
  BY <1>1 DEF Idle
<1>3. /\ task'[pr][o] = u
      /\ \A qr \in Proc, w \in Owner : qr # pr \/ w # o => task'[qr][w] = task[qr][w]
  <2>1. task' = [task EXCEPT ![pr][o] = u]
    BY <1>1
  <2> QED BY <2>1, TaskSet DEF TypeOK
<1> QED BY <1>1, <1>2, <1>3 DEF AttemptStarts

\* An attempt starts, is left alone, or takes its next step.
LEMMA AttemptsArise ==
  ASSUME TypeOK, [Next]_vars, NEW pr \in Proc, NEW o \in Owner, IsAcquiring(pr, o)'
  PROVE  \/ AttemptStarts(pr, o)
         \/ task'[pr][o] = task[pr][o]
         \/ CommitAcquire(pr, o) /\ AttemptGoesOn(pr, o) /\ task'[pr][o].op = "publish"
         \/ /\ RollbackLease(pr, o) /\ AttemptGoesOn(pr, o) /\ tokens' = tokens
            /\ task'[pr][o].op = "undo" /\ task'[pr][o].result = todo_for(lock_paths(task[pr][o].req))
            /\ task'[pr][o].replaced = task[pr][o].replaced
         \/ /\ \E ok \in Outcome : UndoPath(pr, o, ok)
            /\ AttemptGoesOn(pr, o) /\ task'[pr][o].op = "undo"
            /\ task'[pr][o].replaced = task[pr][o].replaced
<1>t. task \in [Proc -> [Owner -> Task]] /\ Idle.op = "idle"
  BY DEF TypeOK, Idle
<1>a. ASSUME NEW qr \in Proc, NEW w \in Owner, NEW l \in Lease, NEW r, NEW s, NEW cap,
             FreshLease(l), start_acquire(qr, w, l, r, s, cap),
             s # NoLease => \E m \in handoffs : m.lease = s /\ m.owner = w /\ m.cov = r
      PROVE  AttemptStarts(pr, o) \/ task'[pr][o] = task[pr][o]
  BY <1>a, StartAcquireAttempt
<1>u. ASSUME NEW qr \in Proc, NEW w \in Owner, NEW u, task' = [task EXCEPT ![qr][w] = u],
             u.op \notin {"acquire", "publish", "undo"}
      PROVE  task'[pr][o] = task[pr][o]
  <2>1. /\ task'[qr][w] = u /\ (qr # pr \/ w # o => task'[pr][o] = task[pr][o])
    BY <1>t, <1>u, TaskSet
  <2> QED BY <1>u, <2>1 DEF IsAcquiring
<1>1. ASSUME NEW qr \in Proc, NEW w \in Owner, NEW l \in Lease,
             \/ \E r \in Request : AcquireBatch(qr, w, l, r)
             \/ \E r \in Request, cap \in Lease : AcquireReentrant(qr, w, l, r, cap)
             \/ \E m \in handoffs : ReacquireBatch(qr, w, l, m)
      PROVE  AttemptStarts(pr, o) \/ task'[pr][o] = task[pr][o]
  <2>1. PICK r, cap : FreshLease(l) /\ start_acquire(qr, w, l, r, NoLease, cap)
    BY <1>1 DEF AcquireBatch, AcquireReentrant, ReacquireBatch
  <2> QED BY <1>a, <2>1
<1>2. ASSUME NEW qr \in Proc, NEW w \in Owner, NEW l \in Lease, NEW m \in handoffs, Adopt(qr, w, l, m)
      PROVE  AttemptStarts(pr, o) \/ task'[pr][o] = task[pr][o]
  <2>1. PICK s, r : /\ s = m.lease /\ r = m.cov /\ m.owner = w
                    /\ FreshLease(l) /\ start_acquire(qr, w, l, r, s, NoLease)
    BY <1>2 DEF Adopt
  <2> QED BY <1>a, <2>1
<1>3. ASSUME NEW qr \in Proc, NEW w \in Owner, PublishLease(qr, w) \/ RejectAcquire(qr, w)
      PROVE  task'[pr][o] = task[pr][o]
  <2>1. task' = [task EXCEPT ![qr][w] = Idle]
    BY <1>3 DEF PublishLease, RejectAcquire
  <2> QED BY <1>t, <1>u, <2>1
<1>4. ASSUME NEW qr \in Proc, NEW w \in Owner, RollbackLease(qr, w)
      PROVE  \/ task'[pr][o] = task[pr][o]
             \/ /\ RollbackLease(pr, o) /\ AttemptGoesOn(pr, o) /\ tokens' = tokens
                /\ task'[pr][o].op = "undo" /\ task'[pr][o].result = todo_for(lock_paths(task[pr][o].req))
                /\ task'[pr][o].replaced = task[pr][o].replaced
  <2>1. PICK t, u : /\ t = task[qr][w] /\ t.op = "publish"
                    /\ u = [t EXCEPT !.op = "undo", !.result = todo_for(lock_paths(t.req))]
                    /\ task' = [task EXCEPT ![qr][w] = u] /\ tokens' = tokens
    BY <1>4 DEF RollbackLease
  <2>2. t \in TaskRecord
    BY <2>1, TaskLease
  <2>3. /\ u.op = "undo" /\ u.lease = t.lease /\ u.req = t.req /\ u.source = t.source
        /\ u.started = t.started /\ u.replaced = t.replaced /\ u.result = todo_for(lock_paths(t.req))
    BY <2>1, <2>2 DEF TaskRecord
  <2>4. task'[qr][w] = u /\ (qr # pr \/ w # o => task'[pr][o] = task[pr][o])
    <3>1. task' = [task EXCEPT ![qr][w] = u]
      BY <2>1
    <3> QED BY <1>t, <3>1, TaskSet
  <2> QED BY <1>4, <2>1, <2>3, <2>4 DEF AttemptGoesOn, IsAcquiring
<1>5. ASSUME NEW qr \in Proc, NEW w \in Owner, NEW ok \in Outcome, UndoPath(qr, w, ok)
      PROVE  \/ task'[pr][o] = task[pr][o]
             \/ /\ \E k \in Outcome : UndoPath(pr, o, k)
                /\ AttemptGoesOn(pr, o) /\ task'[pr][o].op = "undo"
                /\ task'[pr][o].replaced = task[pr][o].replaced
  <2>1. PICK t : t = task[qr][w] /\ t.op = "undo" /\ t \in TaskRecord
    BY <1>5, TaskLease DEF UndoPath
  <2>2. PICK p \in Path :
          task' = [task EXCEPT ![qr][w] =
                     IF Todo(t) = {p} THEN Idle ELSE [t EXCEPT !.result[p] = IF ok THEN "ok" ELSE "err"]]
    BY <1>5, <2>1 DEF UndoPath
  <2>3. PICK u : /\ u = IF Todo(t) = {p} THEN Idle ELSE [t EXCEPT !.result[p] = IF ok THEN "ok" ELSE "err"]
                 /\ task' = [task EXCEPT ![qr][w] = u]
    BY <2>2
  <2>4. task'[qr][w] = u /\ (qr # pr \/ w # o => task'[pr][o] = task[pr][o])
    <3>1. task' = [task EXCEPT ![qr][w] = u]
      BY <2>3
    <3> QED BY <1>t, <3>1, TaskSet
  <2>5. u.op # "idle" =>
          /\ u.op = "undo" /\ u.lease = t.lease /\ u.req = t.req /\ u.source = t.source
          /\ u.started = t.started /\ u.replaced = t.replaced
    BY <1>t, <2>1, <2>3 DEF TaskRecord
  <2> QED BY <1>5, <2>1, <2>4, <2>5 DEF AttemptGoesOn, IsAcquiring
<1>6. ASSUME NEW qr \in Proc, NEW w \in Owner, CommitAcquire(qr, w)
      PROVE  \/ task'[pr][o] = task[pr][o]
             \/ CommitAcquire(pr, o) /\ AttemptGoesOn(pr, o) /\ task'[pr][o].op = "publish"
  <2>1. PICK t, R : /\ t = task[qr][w] /\ t.op = "acquire"
                    /\ task' = [task EXCEPT ![qr][w] = [t EXCEPT !.op = "publish", !.replaced = R]]
    BY <1>6 DEF CommitAcquire
  <2>2. PICK u : u = [t EXCEPT !.op = "publish", !.replaced = R] /\ task' = [task EXCEPT ![qr][w] = u]
    BY <2>1
  <2>3. t \in TaskRecord
    BY <2>1, TaskLease
  <2>4. /\ u.op = "publish" /\ u.lease = t.lease /\ u.req = t.req /\ u.source = t.source
        /\ u.started = t.started
    BY <2>1, <2>2, <2>3 DEF TaskRecord
  <2>5. task'[qr][w] = u /\ (qr # pr \/ w # o => task'[pr][o] = task[pr][o])
    <3>1. task' = [task EXCEPT ![qr][w] = u]
      BY <2>2
    <3> QED BY <1>t, <3>1, TaskSet
  <2> QED BY <1>6, <2>1, <2>4, <2>5 DEF AttemptGoesOn, IsAcquiring
<1>7. ASSUME NEW qr \in Proc, NEW w \in Owner, Acquiring(qr, w)
      PROVE  \/ AttemptStarts(pr, o)
             \/ task'[pr][o] = task[pr][o]
             \/ /\ RollbackLease(pr, o) /\ AttemptGoesOn(pr, o) /\ tokens' = tokens
                /\ task'[pr][o].op = "undo" /\ task'[pr][o].result = todo_for(lock_paths(task[pr][o].req))
                /\ task'[pr][o].replaced = task[pr][o].replaced
             \/ /\ \E ok \in Outcome : UndoPath(pr, o, ok)
                /\ AttemptGoesOn(pr, o) /\ task'[pr][o].op = "undo"
                /\ task'[pr][o].replaced = task[pr][o].replaced
  BY <1>1, <1>2, <1>3, <1>4, <1>5, <1>7 DEF Acquiring
<1>8. ASSUME NEW qr \in Proc, NEW w \in Owner, Holding(qr, w) PROVE task'[pr][o] = task[pr][o]
  <2>1. ASSUME NEW l \in Lease, StartRefresh(qr, w, l) PROVE task'[pr][o] = task[pr][o]
    <3>1. PICK E, u : /\ u = [Idle EXCEPT !.op = "refresh", !.lease = l, !.started = now,
                                          !.result = todo_for(lock_paths(E[l].cov))]
                      /\ (task' = task \/ task' = [task EXCEPT ![qr][w] = u])
      BY <2>1 DEF StartRefresh
    <3>2. u.op = "refresh"
      BY <3>1 DEF Idle
    <3> QED BY <1>u, <3>1, <3>2
  <2>2. ASSUME NEW ok \in Outcome, RefreshPath(qr, w, ok) PROVE task'[pr][o] = task[pr][o]
    <3>1. PICK t : t = task[qr][w] /\ t.op = "refresh" /\ t \in TaskRecord
      BY <2>2, TaskLease DEF RefreshPath
    <3>2. \E p \in Path : \E res : task' = [task EXCEPT ![qr][w] = [t EXCEPT !.result[p] = res]]
      BY <2>2, <3>1 DEF RefreshPath
    <3>3. PICK p, res, u : u = [t EXCEPT !.result[p] = res] /\ task' = [task EXCEPT ![qr][w] = u]
      BY <3>2
    <3>4. u.op = "refresh"
      BY <3>1, <3>3 DEF TaskRecord
    <3> QED BY <1>u, <3>3, <3>4
  <2>3. ASSUME NEW l, NEW S, start_release(qr, w, l, S) PROVE task'[pr][o] = task[pr][o]
    <3>1. PICK u : /\ u = [Idle EXCEPT !.op = "release", !.lease = l, !.started = now, !.result = todo_for(S)]
                   /\ task' = [task EXCEPT ![qr][w] = u]
      BY <2>3 DEF start_release
    <3>2. u.op = "release"
      BY <3>1 DEF Idle
    <3> QED BY <1>u, <3>1, <3>2
  <2>4. ASSUME NEW ok \in Outcome, ReleasePath(qr, w, ok) PROVE task'[pr][o] = task[pr][o]
    <3>1. PICK t : t = task[qr][w] /\ t.op = "release" /\ t \in TaskRecord
      BY <2>4, TaskLease DEF ReleasePath
    <3>2. PICK p, u : /\ u = IF Todo(t) = {p} THEN Idle ELSE [t EXCEPT !.result[p] = "ok"]
                      /\ task' = [task EXCEPT ![qr][w] = u]
      BY <2>4, <3>1 DEF ReleasePath
    <3>3. u.op \in {"idle", "release"}
      BY <1>t, <3>1, <3>2 DEF TaskRecord
    <3> QED BY <1>u, <3>2, <3>3
  <2>5. ASSUME ApplyRefresh(qr, w) PROVE task'[pr][o] = task[pr][o]
    <3>1. task' = [task EXCEPT ![qr][w] = Idle]
      BY <2>5 DEF ApplyRefresh
    <3> QED BY <1>t, <1>u, <3>1
  <2> QED BY <1>8, <2>1, <2>2, <2>3, <2>4, <2>5 DEF Holding, Release, Cleanup, Forget, Handoff, Lookup
<1>9. ASSUME Environment \/ (\E qr \in Proc, l \in Lease : Unpark(qr, l)) \/ UNCHANGED vars
      PROVE  task'[pr][o] = task[pr][o]
  <2>1. ASSUME NEW qr \in Crashing, Crash(qr) PROVE task'[pr][o] = task[pr][o] \/ task'[pr][o] = Idle
    BY <1>t, <2>1 DEF Crash
  <2>2. task' = task \/ \E qr \in Crashing : Crash(qr)
    BY <1>9 DEF Environment, AckHandoff, Tick, Unpark, vars
  <2> QED BY <1>t, <2>1, <2>2 DEF IsAcquiring
<1> QED BY <1>3, <1>6, <1>7, <1>8, <1>9 DEF Next

\* An entry that stays keeps all but its coverage of a released path; it is parked by a
\* handoff only.
EntryStays(l) ==
  /\ Published(l) /\ entries'[l].proc = entries[l].proc /\ entries'[l].owner = entries[l].owner
  /\ entries'[l].source = entries[l].source
  /\ entries[l].pending_handoff => entries'[l].pending_handoff
  /\ \A p \in Path : entries'[l].cov[p] \in {entries[l].cov[p], "None"}
  /\ entries'[l].cov = entries[l].cov \/ \E pr \in Proc, o \in Owner, ok \in Outcome : ReleasePath(pr, o, ok)

EntryPublished(l) ==
  \E pr \in Proc, o \in Owner :
    /\ PublishLease(pr, o) /\ l = task[pr][o].lease
    /\ entries'[l].proc = pr /\ entries'[l].owner = o /\ entries'[l].cov = task[pr][o].req
    /\ ~entries'[l].pending_handoff /\ entries'[l].source = task[pr][o].source

\* An entry was published before the step or is published by it.
LEMMA EntriesArise ==
  ASSUME TypeOK, TypeOK', Structure, [Next]_vars, NEW l \in Lease, Published(l)'
  PROVE  EntryStays(l) \/ EntryPublished(l)
<1>e. entries \in [Lease -> Entry] /\ entries[l] \in Entry /\ now \in Nat
  BY DEF TypeOK
<1>k. ASSUME EntriesKept PROVE EntryStays(l)
  BY <1>k DEF EntriesKept, EntryStays, Published
<1>s. ASSUME entries'[l] = entries[l] \/ entries'[l] = NoEntry PROVE EntryStays(l)
  BY <1>s DEF EntryStays, Published, NoEntry
<1>1. ASSUME NEW pr \in Proc, NEW o \in Owner, PublishLease(pr, o) PROVE EntryStays(l) \/ EntryPublished(l)
  <2>1. PICK t, E, conf : /\ t = task[pr][o] /\ E = invalidate_expired(entries, pr, o)
                          /\ entries' = [E EXCEPT ![t.lease] =
                               [NoEntry EXCEPT !.proc = pr, !.owner = o, !.cov = t.req,
                                               !.conf = conf, !.source = t.source]]
    BY <1>1 DEF PublishLease
  <2>2. E \in [Lease -> Entry]
    BY <1>e, <2>1, InvalidateExpiredType
  <2>3. CASE l = t.lease
    <3>1. entries'[l] = [NoEntry EXCEPT !.proc = pr, !.owner = o, !.cov = t.req,
                                        !.conf = conf, !.source = t.source]
      BY <2>1, <2>2, <2>3
    <3>2. entries'[l].proc = pr /\ entries'[l].owner = o /\ entries'[l].cov = t.req
          /\ ~entries'[l].pending_handoff /\ entries'[l].source = t.source
      BY <3>1 DEF NoEntry
    <3> QED BY <1>1, <2>1, <2>3, <3>2 DEF EntryPublished
  <2>4. CASE l # t.lease
    <3>1. entries'[l] = E[l]
      BY <2>1, <2>2, <2>4
    <3>2. /\ E[l].proc = entries[l].proc /\ E[l].owner = entries[l].owner /\ E[l].cov = entries[l].cov
          /\ E[l].pending_handoff = entries[l].pending_handoff /\ E[l].source = entries[l].source
      BY <1>e, <2>1, SweepKeeps
    <3> QED BY <3>1, <3>2 DEF EntryStays, Published
  <2> QED BY <2>3, <2>4
<1>2. ASSUME NEW pr \in Proc, NEW o \in Owner, Acquiring(pr, o), ~PublishLease(pr, o)
      PROVE  EntryStays(l)
  <2>1. entries' = entries \/ entries' = invalidate_expired(entries, pr, o)
    BY <1>2 DEF Acquiring, AcquireBatch, AcquireReentrant, ReacquireBatch, Adopt, start_acquire,
                RollbackLease, UndoPath
  <2> QED BY <1>k, <2>1, KeptBySweep
<1>3. ASSUME NEW pr \in Proc, NEW o \in Owner, CommitAcquire(pr, o) \/ RejectAcquire(pr, o)
      PROVE  EntryStays(l)
  BY <1>3, <1>s DEF CommitAcquire, RejectAcquire
<1>4. ASSUME NEW pr \in Proc, NEW o \in Owner, ApplyRefresh(pr, o) PROVE EntryStays(l)
  <2>1. PICK t : t = task[pr][o]
    OBVIOUS
  <2>2. /\ t.lease \in Lease /\ t.started \in Nat /\ t.lease \in registry(entries, pr, o)
        /\ entries' = apply_refresh_results(entries, pr, o, t.lease, t.result, t.started)
    BY <1>4, <2>1, TaskLease DEF ApplyRefresh, Structure, HeldWhileInFlight
  <2>3. /\ entries'[l].proc = entries[l].proc /\ entries'[l].owner = entries[l].owner
        /\ entries'[l].cov = entries[l].cov /\ entries'[l].pending_handoff = entries[l].pending_handoff
        /\ entries'[l].source = entries[l].source
    BY <1>e, <2>2, ApplyKeeps
  <2> QED BY <2>3 DEF EntryStays, Published
<1>5. ASSUME NEW pr \in Proc, NEW o \in Owner, NEW k \in Lease, Handoff(pr, o, k) PROVE EntryStays(l)
  <2>1. PICK E \in [Lease -> Entry] : E = invalidate_expired(entries, pr, o)
    BY InvalidateExpiredType DEF TypeOK
  <2>2. entries' = E \/ entries' = [E EXCEPT ![k].pending_handoff = TRUE]
    BY <1>5, <2>1 DEF Handoff
  <2>3. /\ E[l].proc = entries[l].proc /\ E[l].owner = entries[l].owner /\ E[l].cov = entries[l].cov
        /\ E[l].pending_handoff = entries[l].pending_handoff /\ E[l].source = entries[l].source
    BY <1>e, <2>1, SweepKeeps
  <2>4. /\ entries'[l].proc = E[l].proc /\ entries'[l].owner = E[l].owner /\ entries'[l].cov = E[l].cov
        /\ E[l].pending_handoff => entries'[l].pending_handoff
        /\ entries'[l].source = E[l].source
    BY <2>1, <2>2 DEF Entry
  <2> QED BY <2>3, <2>4 DEF EntryStays, Published
<1>6. ASSUME NEW pr \in Proc, NEW o \in Owner, NEW ok \in Outcome, ReleasePath(pr, o, ok) PROVE EntryStays(l)
  <2>1. PICK t, p : /\ t = task[pr][o] /\ t.op = "release" /\ p \in Path
                    /\ entries' = [entries EXCEPT ![t.lease] =
                                     IF ok THEN remove_path(@, p) ELSE invalidate(@, "ReleaseFailed")]
    BY <1>6 DEF ReleasePath
  <2>2. CASE l # t.lease
    <3>1. entries'[l] = entries[l]
      BY <1>e, <2>1, <2>2
    <3> QED BY <1>s, <3>1
  <2>3. CASE l = t.lease
    <3>0. entries'[l] \in {remove_path(entries[l], p), invalidate(entries[l], "ReleaseFailed")}
      BY <1>e, <2>1, <2>3
    <3>1. PICK e, f : e \in Entry /\ e = entries[l] /\ f = entries'[l]
      BY <1>e
    <3>2. CASE f = invalidate(e, "ReleaseFailed")
      <4>1. f.proc = e.proc /\ f.owner = e.owner /\ f.cov = e.cov /\ f.pending_handoff = e.pending_handoff
        BY <3>2 DEF invalidate, Entry
      <4>2. f.source = e.source
        BY <3>2 DEF invalidate, Entry
      <4> QED BY <3>1, <4>1, <4>2 DEF EntryStays, Published
    <3>3. CASE f = remove_path(e, p)
      <4>1. f = [e EXCEPT !.cov[p] = "None", !.conf[p] = 0]
        BY <3>1, <3>3 DEF remove_path, NoEntry, Published
      <4>2. /\ f.proc = e.proc /\ f.owner = e.owner /\ f.pending_handoff = e.pending_handoff
            /\ \A q \in Path : f.cov[q] \in {e.cov[q], "None"}
            /\ f.source = e.source
        BY <4>1 DEF Entry, Coverage
      <4> QED BY <1>6, <3>1, <4>2 DEF EntryStays, Published
    <3> QED BY <3>0, <3>1, <3>2, <3>3
  <2> QED BY <2>2, <2>3
<1>7. ASSUME NEW pr \in Proc, NEW o \in Owner, Holding(pr, o) PROVE EntryStays(l)
  <2>1. ASSUME NEW k \in Lease, Forget(pr, o, k) PROVE EntryStays(l)
    BY <1>e, <1>s, <2>1 DEF Forget
  <2>2. ASSUME NEW k \in Lease, StartRefresh(pr, o, k) PROVE EntryStays(l)
    BY <1>k, <2>2, KeptBySweep DEF StartRefresh
  <2>3. ASSUME Lookup(pr, o) PROVE EntryStays(l)
    BY <1>k, <2>3, KeptBySweep DEF Lookup
  <2>4. ASSUME NEW k \in Lease, NEW S, Release(pr, o, k, S) \/ Cleanup(pr, o, k) PROVE EntryStays(l)
    BY <1>s, <2>4 DEF Release, Cleanup, start_release
  <2>5. ASSUME NEW ok \in Outcome, RefreshPath(pr, o, ok) PROVE EntryStays(l)
    BY <1>s, <2>5 DEF RefreshPath
  <2> QED BY <1>4, <1>5, <1>6, <1>7, <2>1, <2>2, <2>3, <2>4, <2>5 DEF Holding
<1>8. ASSUME Environment \/ (\E pr \in Proc, k \in Lease : Unpark(pr, k)) \/ UNCHANGED vars
      PROVE  EntryStays(l)
  <2>1. entries'[l] = entries[l] \/ entries'[l] = NoEntry
    BY <1>8, <1>e DEF Environment, AckHandoff, Tick, Crash, Unpark, vars
  <2> QED BY <1>s, <2>1
<1> QED BY <1>1, <1>2, <1>3, <1>7, <1>8 DEF Next

\* A reference was there before the step or is made by a handoff.
LEMMA ReferencesArise ==
  ASSUME TypeOK, [Next]_vars, NEW m \in handoffs', m \notin handoffs
  PROVE  \E pr \in Proc, o \in Owner, l \in Lease :
           /\ Handoff(pr, o, l) /\ m.lease = l /\ m.owner = o /\ m.cov = entries[l].cov
           /\ l \in registry(entries, pr, o) /\ ~entries[l].pending_handoff
           /\ tokens' = tokens /\ task' = task /\ unparking' = unparking
<1>1. PICK pr \in Proc, o \in Owner, l \in Lease : Handoff(pr, o, l)
  <2>1. ASSUME NEW pr \in Proc, NEW o \in Owner, Acquiring(pr, o) PROVE handoffs' = handoffs
    BY <2>1 DEF Acquiring, AcquireBatch, AcquireReentrant, ReacquireBatch, Adopt, start_acquire,
                PublishLease, RollbackLease, UndoPath
  <2>2. ASSUME NEW pr \in Proc, NEW o \in Owner, Holding(pr, o)
        PROVE  handoffs' = handoffs \/ \E l \in Lease : Handoff(pr, o, l)
    BY <2>2 DEF Holding, StartRefresh, RefreshPath, ApplyRefresh, Release, Cleanup, start_release,
                Forget, ReleasePath, Lookup
  <2>3. ASSUME Environment \/ (\E pr \in Proc, k \in Lease : Unpark(pr, k)) \/ UNCHANGED vars
        PROVE  handoffs' \subseteq handoffs
    BY <2>3 DEF Environment, AckHandoff, Tick, Crash, Unpark, vars
  <2>4. ASSUME NEW pr \in Proc, NEW o \in Owner, CommitAcquire(pr, o) \/ RejectAcquire(pr, o)
        PROVE  handoffs' = handoffs
    BY <2>4 DEF CommitAcquire, RejectAcquire
  <2> QED BY <2>1, <2>2, <2>3, <2>4 DEF Next
<1>2. PICK E : /\ E = invalidate_expired(entries, pr, o) /\ capability_matches(E, pr, l)
               /\ handoffs' = handoffs \cup {[lease |-> l, owner |-> o, cov |-> E[l].cov]}
               /\ tokens' = tokens /\ task' = task /\ unparking' = unparking
               /\ l \in registry(entries, pr, o)
  BY <1>1 DEF Handoff
<1>3. E[l].cov = entries[l].cov /\ E[l].pending_handoff = entries[l].pending_handoff
  BY <1>2, SweepKeeps DEF TypeOK
<1>4. m = [lease |-> l, owner |-> o, cov |-> E[l].cov]
  BY <1>2
<1>5. m.lease = l /\ m.owner = o /\ m.cov = entries[l].cov
  BY <1>3, <1>4
<1> QED BY <1>1, <1>2, <1>3, <1>5 DEF capability_matches

\* A lease is referenced for the first time by the handoff that parks it.
LEMMA FirstReference ==
  ASSUME TypeOK, [Next]_vars, NEW s \in Lease, NEW c, Referenced(s, c)', ~Referenced(s, c)
  PROVE  \E pr \in Proc, o \in Owner :
           /\ c = entries[s].cov /\ s \in registry(entries, pr, o)
           /\ ~entries[s].pending_handoff /\ tokens' = tokens
<1>1. ASSUME NEW pr \in Proc, NEW o \in Owner, IsAcquiring(pr, o)', task'[pr][o].source = s,
             task'[pr][o].req = c
      PROVE  FALSE
  <2>1. CASE AttemptStarts(pr, o)
    BY <1>1, <2>1, Sentinels DEF AttemptStarts, Referenced
  <2>2. CASE task'[pr][o] = task[pr][o] \/ AttemptGoesOn(pr, o)
    BY <1>1, <2>2 DEF AttemptGoesOn, Referenced, IsAcquiring
  <2> QED BY <1>1, <2>1, <2>2, AttemptsArise
<1>2. PICK m \in handoffs' : m.lease = s /\ m.cov = c
  BY <1>1 DEF Referenced
<1>3. m \notin handoffs
  BY <1>2 DEF Referenced
<1> QED BY <1>2, <1>3, ReferencesArise

\* A source waits to leave its registry since the publication of the lease adopted from it.
LEMMA UnparkingsArise ==
  ASSUME [Next]_vars, NEW u \in unparking', u \notin unparking
  PROVE  \E pr \in Proc, o \in Owner :
           PublishLease(pr, o) /\ task[pr][o].source # NoLease /\ u = <<pr, task[pr][o].source>>
<1>1. ASSUME NEW pr \in Proc, NEW o \in Owner, Acquiring(pr, o), ~PublishLease(pr, o)
      PROVE  unparking' = unparking
  BY <1>1 DEF Acquiring, AcquireBatch, AcquireReentrant, ReacquireBatch, Adopt, start_acquire,
              RollbackLease, UndoPath
<1>2. ASSUME NEW pr \in Proc, NEW o \in Owner, Holding(pr, o) PROVE unparking' = unparking
  BY <1>2 DEF Holding, StartRefresh, RefreshPath, ApplyRefresh, Release, Cleanup, start_release,
              Forget, ReleasePath, Lookup, Handoff
<1>3. ASSUME Environment \/ (\E pr \in Proc, k \in Lease : Unpark(pr, k)) \/ UNCHANGED vars
      PROVE  unparking' \subseteq unparking
  BY <1>3 DEF Environment, AckHandoff, Tick, Crash, Unpark, vars
<1>4. ASSUME NEW pr \in Proc, NEW o \in Owner, CommitAcquire(pr, o) \/ RejectAcquire(pr, o)
      PROVE  unparking' = unparking
  BY <1>4 DEF CommitAcquire, RejectAcquire
<1>5. PICK pr \in Proc, o \in Owner : PublishLease(pr, o)
  BY <1>1, <1>2, <1>3, <1>4 DEF Next
<1>6. unparking' = IF task[pr][o].source = NoLease THEN unparking
                   ELSE unparking \cup {<<pr, task[pr][o].source>>}
  BY <1>5 DEF PublishLease
<1> QED BY <1>5, <1>6

-----------------------------------------------------------------------------
(* Leftovers *)

\* An undo that the store carries out takes the attempt's own holder away.
LEMMA UndoDrops ==
  ASSUME TypeOK, Structure, ReplacedIsSource, NEW pr \in Proc, NEW o \in Owner, NEW ok \in Outcome,
         UndoPath(pr, o, ok)
  PROVE  \E q \in Path :
           /\ IsLast(q, Todo(task[pr][o]))
           /\ task'[pr][o] = IF Todo(task[pr][o]) = {q} THEN Idle
                             ELSE [task[pr][o] EXCEPT !.result[q] = IF ok THEN "ok" ELSE "err"]
           /\ (ok /\ tokens[q].owner = o) => GoneNext(task[pr][o].lease, q)
           /\ (ok /\ Gone(task[pr][o].lease, q)) => GoneNext(task[pr][o].lease, q)
<1>1. PICK t, l : t = task[pr][o] /\ t.op = "undo" /\ l = t.lease
  BY DEF UndoPath
<1>2. PICK q \in Path :
        /\ IsLast(q, Todo(t))
        /\ tokens' = IF ~ok THEN tokens
                     ELSE [tokens EXCEPT ![q] =
                             IF t.replaced[q] # {}
                             THEN replace_holder(@, o, l, t.replaced[q], now_ns(pr) - TTL)
                             ELSE mutate_holder_record(@, o, l, now_ns(pr), 0, TRUE)]
        /\ task' = [task EXCEPT ![pr][o] =
                      IF Todo(t) = {q} THEN Idle
                      ELSE [t EXCEPT !.result[q] = IF ok THEN "ok" ELSE "err"]]
  BY <1>1 DEF UndoPath
<1>3. task'[pr][o] = IF Todo(t) = {q} THEN Idle ELSE [t EXCEPT !.result[q] = IF ok THEN "ok" ELSE "err"]
  BY <1>2 DEF TypeOK
<1>4. /\ tokens \in [Path -> Token] /\ t.replaced[q] \in SUBSET Holder /\ l \in Lease
      /\ t.source \in Lease \cup {NoLease} /\ IsAcquiring(pr, o)
  BY <1>1, TaskLease DEF TypeOK, TaskRecord, IsAcquiring
<1>5. \A h \in t.replaced[q] : h.id # l
  <2>1. \A h \in t.replaced[q] : h.id = t.source /\ h.id \in Lease
    BY <1>1, <1>4 DEF ReplacedIsSource, Holder
  <2>2. t.source \in Lease => t.source # l
    BY <1>1, <1>4 DEF Structure, SourcesTransferable, Transferable
  <2> QED BY <2>1, <2>2
<1>6. ASSUME ok, tokens[q].owner = o \/ \A h \in tokens[q].holders : h.id # l PROVE GoneNext(l, q)
  <2>1. PICK tok \in Token, back \in SUBSET Holder : tok = tokens[q] /\ back = t.replaced[q]
    BY <1>4
  <2>2. \A n, sb : /\ \A h \in replace_holder(tok, o, l, back, sb).holders : h.id # l
                   /\ \A h \in mutate_holder_record(tok, o, l, n, sb, TRUE).holders : h.id # l
    BY <1>5, <1>6, <2>1, MutateDrops, ReplaceDrops
  <2>3. \/ tokens'[q] = replace_holder(tok, o, l, back, now_ns(pr) - TTL)
        \/ tokens'[q] = mutate_holder_record(tok, o, l, now_ns(pr), 0, TRUE)
    BY <1>2, <1>4, <1>6, <2>1
  <2> QED BY <2>2, <2>3 DEF GoneNext
<1> QED BY <1>1, <1>2, <1>3, <1>6 DEF Gone

\* A release gives up a path only with the holder.
LEMMA ReleaseDrops ==
  ASSUME TypeOK, Structure, NEW pr \in Proc, NEW o \in Owner, NEW ok \in Outcome,
         ReleasePath(pr, o, ok), NEW l \in Lease, NEW p \in Path, entries'[l].cov[p] # entries[l].cov[p],
         tokens[p].owner = entries[l].owner \/ Gone(l, p)
  PROVE  Gone(l, p)'
<1>1. PICK t : t = task[pr][o] /\ t.op = "release"
  BY DEF ReleasePath
<1>2. PICK q \in Path :
        /\ IsFirst(q, Todo(t))
        /\ tokens' = IF ~ok THEN tokens
                     ELSE [tokens EXCEPT ![q] = mutate_holder_record(@, o, t.lease, now_ns(pr), 0, TRUE)]
        /\ entries' = [entries EXCEPT ![t.lease] =
                         IF ok THEN remove_path(@, q) ELSE invalidate(@, "ReleaseFailed")]
  BY <1>1 DEF ReleasePath
<1>3. /\ tokens \in [Path -> Token] /\ entries \in [Lease -> Entry] /\ entries[l] \in Entry
      /\ t.lease \in Lease /\ entries[t.lease].owner = o
  BY <1>1, TaskLease DEF TypeOK, Structure, HeldWhileInFlight, registry
<1>4. l = t.lease
  BY <1>2, <1>3
<1>5. ok
  <2> SUFFICES ASSUME ~ok PROVE FALSE
    OBVIOUS
  <2>1. entries'[l] = invalidate(entries[l], "ReleaseFailed")
    BY <1>2, <1>3, <1>4
  <2>2. entries'[l].cov = entries[l].cov
    BY <1>3, <2>1 DEF invalidate, Entry
  <2> QED BY <2>2
<1>6. p = q
  <2> SUFFICES ASSUME p # q PROVE FALSE
    OBVIOUS
  <2>1. entries'[l] = remove_path(entries[l], q)
    BY <1>2, <1>3, <1>4, <1>5
  <2>2. CASE lock_paths(entries[l].cov) \subseteq {q}
    <3>1. entries[l].cov[p] = "None" /\ entries'[l].cov[p] = "None"
      BY <2>1, <2>2 DEF lock_paths, remove_path, NoEntry, NoCoverage
    <3> QED BY <3>1
  <2>3. CASE ~(lock_paths(entries[l].cov) \subseteq {q})
    <3>1. entries'[l] = [entries[l] EXCEPT !.cov[q] = "None", !.conf[q] = 0]
      BY <2>1, <2>3 DEF remove_path
    <3>2. entries'[l].cov[p] = entries[l].cov[p]
      BY <1>3, <3>1 DEF Entry, Coverage
    <3> QED BY <3>2
  <2> QED BY <2>2, <2>3
<1>7. tokens'[p] = mutate_holder_record(tokens[p], o, l, now_ns(pr), 0, TRUE)
  BY <1>2, <1>3, <1>4, <1>5, <1>6
<1>8. PICK tok, n, sb : tok = tokens[p] /\ n = now_ns(pr) /\ sb = 0 /\ tok \in Token
  BY <1>3
<1>9. tok.owner = o \/ \A h \in tok.holders : h.id # l
  BY <1>3, <1>4, <1>8 DEF Gone
<1>10. \A h \in mutate_holder_record(tok, o, l, n, sb, TRUE).holders : h.id # l
  BY <1>8, <1>9, MutateDrops
<1> QED BY <1>7, <1>8, <1>10 DEF Gone

\* What a reference, an attempt or an adopted lease names stays out of use.
LEMMA TransferableStays ==
  ASSUME TypeOK, TypeOK', Structure, [Next]_vars, NEW s \in Lease, Transferable(s), ~FreshLease(s)
  PROVE  Transferable(s)'
<1>1. ASSUME Published(s)' PROVE entries'[s].pending_handoff
  <2>1. CASE EntryStays(s)
    BY <2>1 DEF EntryStays, Transferable
  <2>2. CASE EntryPublished(s)
    BY <2>2 DEF EntryPublished, PublishLease, Transferable, IsAcquiring
  <2> QED BY <1>1, <2>1, <2>2, EntriesArise
<1>2. ASSUME NEW pr \in Proc, NEW o \in Owner, IsAcquiring(pr, o)' PROVE task'[pr][o].lease # s
  <2>1. CASE AttemptStarts(pr, o)
    BY <2>1 DEF AttemptStarts
  <2>2. CASE task'[pr][o] = task[pr][o] \/ AttemptGoesOn(pr, o)
    BY <1>2, <2>2 DEF AttemptGoesOn, Transferable, IsAcquiring
  <2> QED BY <1>2, <2>1, <2>2, AttemptsArise
<1> QED BY <1>1, <1>2 DEF Transferable

\* A lease that may be adopted, or was, appears in the store only as the source put back.
LEMMA TransferableHolders ==
  ASSUME TypeOK, TypeOK', ReplacedIsSource, [Next]_vars, NEW s \in Lease, Transferable(s),
         NEW p \in Path, Gone(s, p), ~Gone(s, p)'
  PROVE  HolderPutBack(s, p)
<1>1. ~HolderWritten(s, p)
  BY DEF HolderWritten, CommitAcquire, Transferable, IsAcquiring
<1> QED BY <1>1, HoldersArise DEF HolderKept

\* The lease of an attempt appears in the store only by the grant of that attempt.
LEMMA AttemptHolderArises ==
  ASSUME TypeOK, TypeOK', Structure, ReplacedIsSource, [Next]_vars, NEW pr \in Proc, NEW o \in Owner,
         IsAcquiring(pr, o), NEW p \in Path, ~GoneNext(task[pr][o].lease, p)
  PROVE  \/ HolderKept(task[pr][o].lease, p)
         \/ CommitAcquire(pr, o) /\ task[pr][o].req[p] # "None" /\ tokens'[p].owner = o
<1>1. PICK x \in Lease : x = task[pr][o].lease /\ ~Gone(x, p)'
  BY TaskLease DEF IsAcquiring, Gone, GoneNext
<1>2. ~Transferable(x)
  BY <1>1 DEF Transferable
<1>3. ~HolderPutBack(x, p)
  BY <1>2 DEF HolderPutBack, IsAdopting, IsAcquiring, Structure, SourcesTransferable
<1>4. HolderWritten(x, p) => CommitAcquire(pr, o) /\ task[pr][o].req[p] # "None" /\ tokens'[p].owner = o
  <2>1. \A qr \in Proc, w \in Owner :
          CommitAcquire(qr, w) /\ x = task[qr][w].lease => qr = pr /\ w = o
    <3>1. \A qr \in Proc, w \in Owner : CommitAcquire(qr, w) => IsAcquiring(qr, w)
      BY DEF CommitAcquire, IsAcquiring
    <3> QED BY <1>1, <3>1 DEF Structure, OneAcquisitionPerLease
  <2> QED BY <2>1 DEF HolderWritten
<1> QED BY <1>1, <1>3, <1>4, HoldersArise

\* But for its grant an attempt keeps its holders its own, where it has not undone them.
LEMMA AttemptHoldersKept ==
  ASSUME TypeOK, TypeOK', Structure, ReplacedIsSource, AttemptHolders, [Next]_vars,
         NEW pr \in Proc, NEW o \in Owner, NEW p \in Path,
         ~CommitAcquire(pr, o), IsAcquiring(pr, o)', ~GoneNext(task'[pr][o].lease, p)
  PROVE  /\ IsAcquiring(pr, o) /\ ~Gone(task[pr][o].lease, p)
         /\ tokens'[p].owner = o /\ task'[pr][o].req[p] # "None"
         /\ task'[pr][o].op = "undo" => task'[pr][o].result[p] \in {"todo", "err"}
         /\ task'[pr][o].op = "acquire" => task'[pr][o] = task[pr][o]
<1>1. PICK t, u : t = task[pr][o] /\ u = task'[pr][o] /\ t \in TaskRecord
  BY TaskLease
<1>2. ~AttemptStarts(pr, o)
  BY DEF AttemptStarts, FreshLease, GoneNext
<1>3. /\ IsAcquiring(pr, o) /\ u.lease = t.lease /\ u.req = t.req
      /\ u.op = "acquire" => u = t
  BY <1>1, <1>2, AttemptsArise DEF AttemptGoesOn, IsAcquiring
<1>4. ~Gone(t.lease, p) /\ tokens'[p].owner = tokens[p].owner
  BY <1>1, <1>3, AttemptHolderArises DEF HolderKept
<1>5. /\ tokens[p].owner = o /\ t.req[p] # "None"
      /\ t.op = "undo" => t.result[p] \in {"todo", "err"}
  BY <1>1, <1>3, <1>4 DEF AttemptHolders
<1>6. CASE u = t
  BY <1>1, <1>3, <1>4, <1>5, <1>6
<1>7. CASE u.op # "acquire" /\ u.result = todo_for(lock_paths(t.req))
  BY <1>1, <1>3, <1>4, <1>5, <1>7 DEF todo_for, lock_paths
<1>8. ASSUME NEW ok \in Outcome, UndoPath(pr, o, ok), u.op = "undo"
      PROVE  u.result[p] \in {"todo", "err"}
  <2>0. PICK q \in Path :
          /\ task'[pr][o] = IF Todo(task[pr][o]) = {q} THEN Idle
                            ELSE [task[pr][o] EXCEPT !.result[q] = IF ok THEN "ok" ELSE "err"]
          /\ (ok /\ tokens[q].owner = o) => GoneNext(task[pr][o].lease, q)
    BY <1>8, UndoDrops
  <2>1. /\ u = IF Todo(t) = {q} THEN Idle ELSE [t EXCEPT !.result[q] = IF ok THEN "ok" ELSE "err"]
        /\ (ok /\ tokens[q].owner = o) => GoneNext(t.lease, q)
    BY <1>1, <2>0
  <2>2. t.op = "undo"
    BY <1>1, <1>8 DEF UndoPath
  <2>3. u = [t EXCEPT !.result[q] = IF ok THEN "ok" ELSE "err"]
    BY <1>8, <2>1 DEF Idle
  <2>4. CASE p = q
    <3>1. ~ok
      BY <1>1, <1>3, <1>5, <2>1, <2>4
    <3> QED BY <1>1, <2>3, <2>4, <3>1 DEF TaskRecord
  <2>5. CASE p # q
    <3>1. u.result[p] = t.result[p]
      BY <1>1, <2>3, <2>5 DEF TaskRecord
    <3> QED BY <1>5, <2>2, <3>1
  <2> QED BY <2>4, <2>5
<1> QED BY <1>1, <1>2, <1>3, <1>4, <1>5, <1>6, <1>7, <1>8, AttemptsArise

LEMMA LeftoversStep ==
  ASSUME TypeOK, TypeOK', Structure, Structure', Adoptions, Leftovers, [Next]_vars
  PROVE  Leftovers'
<1>r. ReplacedIsSource
  BY DEF Adoptions
<1> USE <1>r
<1>a. ASSUME NEW pr \in Proc, NEW o \in Owner, AttemptStarts(pr, o), NEW p \in Path
      PROVE  GoneNext(task'[pr][o].lease, p)
  BY <1>a DEF AttemptStarts, FreshLease, GoneNext
<1>1. NothingWrittenYet'
  <2> SUFFICES ASSUME NEW pr \in Proc, NEW o \in Owner, NEW p \in Path,
                      task'[pr][o].op = "acquire", ~GoneNext(task'[pr][o].lease, p)
               PROVE  FALSE
    BY DEF NothingWrittenYet, Gone, GoneNext
  <2>1. task'[pr][o] = task[pr][o]
    BY <1>a, AttemptsArise DEF IsAcquiring
  <2>2. IsAcquiring(pr, o) /\ Gone(task[pr][o].lease, p)
    BY <2>1 DEF IsAcquiring, Leftovers, NothingWrittenYet
  <2>3. CommitAcquire(pr, o)
    BY <2>1, <2>2, AttemptHolderArises DEF HolderKept
  <2>4. PICK R : task' = [task EXCEPT ![pr][o] = [task[pr][o] EXCEPT !.op = "publish", !.replaced = R]]
    BY <2>3 DEF CommitAcquire
  <2>5. task[pr][o] \in TaskRecord /\ task \in [Proc -> [Owner -> Task]]
    BY TaskLease DEF TypeOK
  <2>6. task'[pr][o] = [task[pr][o] EXCEPT !.op = "publish", !.replaced = R]
    BY <2>4, <2>5
  <2>7. task'[pr][o].op = "publish"
    BY <2>5, <2>6 DEF TaskRecord
  <2> QED BY <2>7
<1>2. AttemptHolders'
  <2> SUFFICES ASSUME NEW pr \in Proc, NEW o \in Owner, NEW p \in Path, IsAcquiring(pr, o)',
                      ~GoneNext(task'[pr][o].lease, p)
               PROVE  /\ tokens'[p].owner = o /\ task'[pr][o].req[p] # "None"
                      /\ task'[pr][o].op = "undo" => task'[pr][o].result[p] \in {"todo", "err"}
    BY DEF AttemptHolders, Gone, GoneNext
  <2>1. PICK t, u : t = task[pr][o] /\ u = task'[pr][o] /\ t \in TaskRecord
    BY TaskLease
  <2>2. ~AttemptStarts(pr, o)
    BY <1>a
  <2>3. IsAcquiring(pr, o) /\ u.lease = t.lease /\ u.req = t.req
    BY <2>1, <2>2, AttemptsArise DEF AttemptGoesOn, IsAcquiring
  <2>4. CASE CommitAcquire(pr, o)
    <3>1. u.op # "undo"
      BY <2>1, <2>2, <2>4, AttemptsArise DEF CommitAcquire, RollbackLease, UndoPath
    <3>2. Gone(t.lease, p)
      BY <2>1, <2>4 DEF CommitAcquire, Leftovers, NothingWrittenYet
    <3>3. t.req[p] # "None" /\ tokens'[p].owner = o
      BY <2>1, <2>3, <3>2, AttemptHolderArises DEF HolderKept
    <3> QED BY <2>1, <2>3, <3>1, <3>3
  <2>5. CASE ~CommitAcquire(pr, o)
    BY <2>5, AttemptHoldersKept DEF Leftovers
  <2> QED BY <2>4, <2>5
<1>3. HeldWhereCovered'
  <2> SUFFICES ASSUME NEW l \in Lease, NEW p \in Path, Published(l)', ~entries'[l].pending_handoff,
                      ~Gone(l, p)'
               PROVE  entries'[l].cov[p] # "None" /\ tokens'[p].owner = entries'[l].owner
    BY DEF HeldWhereCovered, lock_paths
  <2>1. CASE EntryPublished(l)
    <3>1. PICK pr \in Proc, o \in Owner :
            /\ PublishLease(pr, o) /\ l = task[pr][o].lease
            /\ entries'[l].owner = o /\ entries'[l].cov = task[pr][o].req
      BY <2>1 DEF EntryPublished
    <3>2. IsAcquiring(pr, o) /\ tokens' = tokens
      BY <3>1 DEF PublishLease, IsAcquiring
    <3>3. ~Gone(l, p)
      BY <3>2 DEF Gone
    <3> QED BY <3>1, <3>2, <3>3 DEF Leftovers, AttemptHolders
  <2>2. CASE EntryStays(l)
    <3>1. Published(l) /\ ~entries[l].pending_handoff /\ entries'[l].owner = entries[l].owner
      BY <2>2 DEF EntryStays
    <3>2. ~Transferable(l)
      BY <3>1 DEF Transferable
    <3>3. ~HolderPutBack(l, p)
      BY <3>2 DEF HolderPutBack, IsAdopting, IsAcquiring, Structure, SourcesTransferable
    <3>4. ~HolderWritten(l, p)
      BY <3>1 DEF HolderWritten, CommitAcquire, IsAcquiring, Structure, UnpublishedWhileAcquiring
    <3>5. ~Gone(l, p) /\ tokens'[p].owner = tokens[p].owner
      BY <3>3, <3>4, HoldersArise DEF HolderKept
    <3>6. entries[l].cov[p] # "None" /\ tokens[p].owner = entries[l].owner
      BY <3>1, <3>5 DEF Leftovers, HeldWhereCovered, lock_paths
    <3>7. entries'[l].cov[p] = entries[l].cov[p]
      BY <2>2, <3>6, ReleaseDrops DEF EntryStays
    <3> QED BY <3>1, <3>5, <3>6, <3>7
  <2> QED BY <2>1, <2>2, EntriesArise
<1>4. ReferenceCovers'
  <2> SUFFICES ASSUME NEW s \in Lease, NEW c \in Coverage, NEW p \in Path, Referenced(s, c)', ~Gone(s, p)'
               PROVE  p \in lock_paths(c)
    BY DEF ReferenceCovers
  <2>1. CASE Referenced(s, c)
    <3>1. Transferable(s)
      BY <2>1 DEF Referenced, Structure, SourcesTransferable
    <3>2. CASE ~Gone(s, p)
      BY <2>1, <3>2 DEF Leftovers, ReferenceCovers
    <3>3. CASE Gone(s, p)
      <4>1. PICK pr \in Proc, o \in Owner, ok \in Outcome :
              UndoPath(pr, o, ok) /\ IsAdopting(pr, o, s) /\ p \in Todo(task[pr][o])
        BY <3>1, <3>3, TransferableHolders DEF HolderPutBack, IsLast
      <4>2. p \in lock_paths(task[pr][o].req)
        BY <4>1 DEF UndoPath, Adoptions, SourceWithheld, Withheld
      <4>3. Referenced(s, task[pr][o].req) /\ task[pr][o].req \in Coverage
        BY <4>1, TaskLease DEF Referenced, IsAdopting, IsAcquiring, TaskRecord
      <4>4. task[pr][o].req = c
        BY <2>1, <4>3 DEF Adoptions, OneCoverage
      <4> QED BY <4>2, <4>4
    <3> QED BY <3>2, <3>3
  <2>2. CASE ~Referenced(s, c)
    <3>1. PICK pr \in Proc, o \in Owner : /\ c = entries[s].cov /\ s \in registry(entries, pr, o)
                                          /\ ~entries[s].pending_handoff /\ tokens' = tokens
      BY <2>2, FirstReference
    <3>2. Published(s) /\ ~Gone(s, p)
      BY <3>1, RequestAssumption DEF registry, Published, Gone
    <3> QED BY <3>1, <3>2 DEF Leftovers, HeldWhereCovered
  <2> QED BY <2>1, <2>2
<1>5. AdoptedIsGone'
  <2> SUFFICES ASSUME NEW u \in unparking'
               PROVE  /\ Transferable(u[2])'
                      /\ \A pr \in Proc, o \in Owner : ~IsAdopting(pr, o, u[2])'
                      /\ \A p \in Path : Gone(u[2], p)'
    BY DEF AdoptedIsGone
  <2>0. PICK s \in Lease : s = u[2]
    BY DEF TypeOK
  <2>1. CASE u \in unparking
    <3>1. /\ Transferable(s) /\ ~FreshLease(s)
          /\ \A pr \in Proc, o \in Owner : ~IsAdopting(pr, o, s)
          /\ \A p \in Path : Gone(s, p)
      BY <2>0, <2>1 DEF Leftovers, AdoptedIsGone, FreshLease
    <3>2. ASSUME NEW p \in Path PROVE Gone(s, p)'
      BY <3>1, TransferableHolders DEF HolderPutBack
    <3>3. ASSUME NEW pr \in Proc, NEW o \in Owner PROVE ~IsAdopting(pr, o, s)'
      <4> SUFFICES ASSUME IsAdopting(pr, o, s)' PROVE FALSE
        OBVIOUS
      <4>1. IsAcquiring(pr, o)' /\ task'[pr][o].op \in {"publish", "undo"} /\ task'[pr][o].source = s
        BY DEF IsAdopting, IsAcquiring
      <4>2. task'[pr][o] # task[pr][o]
        BY <3>1, <4>1 DEF IsAdopting
      <4>3. ~RollbackLease(pr, o) \/ ~AttemptGoesOn(pr, o)
        BY <3>1, <4>1 DEF IsAdopting, RollbackLease, AttemptGoesOn
      <4>4. ASSUME NEW ok \in Outcome PROVE ~UndoPath(pr, o, ok) \/ ~AttemptGoesOn(pr, o)
        BY <3>1, <4>1 DEF IsAdopting, UndoPath, AttemptGoesOn
      <4>5. CommitAcquire(pr, o) /\ AttemptGoesOn(pr, o)
        BY <4>1, <4>2, <4>3, <4>4, AttemptsArise DEF AttemptStarts
      <4>6. PICK t, sb : /\ t = task[pr][o] /\ t.op = "acquire" /\ t.source = s
                         /\ sources_valid(tokens, t.req, o, s, sb)
        BY <4>1, <4>5 DEF CommitAcquire, AttemptGoesOn
      <4>7. PICK p \in lock_paths(t.req) : p \in Path
        BY <4>6 DEF Adoptions, BatchesNonEmpty, IsAcquiring, lock_paths
      <4>8. ~Gone(s, p)
        BY <4>6, <4>7, Sentinels DEF sources_valid, validate_handoff_source, Gone
      <4> QED BY <3>1, <4>7, <4>8
    <3> QED BY <2>0, <3>1, <3>2, <3>3, TransferableStays
  <2>2. CASE u \notin unparking
    <3>1. PICK pr \in Proc, o \in Owner : PublishLease(pr, o) /\ task[pr][o].source = s
      BY <2>0, <2>2, UnparkingsArise
    <3>2. /\ IsAcquiring(pr, o) /\ IsAdopting(pr, o, s) /\ tokens' = tokens
          /\ task' = [task EXCEPT ![pr][o] = Idle] /\ task[pr][o].op = "publish"
      BY <3>1 DEF PublishLease, IsAcquiring, IsAdopting
    <3>3. Transferable(s) /\ ~FreshLease(s)
      BY <3>1, <3>2 DEF Structure, SourcesTransferable, FreshLease
    <3>4. ASSUME NEW p \in Path PROVE Gone(s, p)'
      <4>1. CASE p \in lock_paths(task[pr][o].req)
        <5>1. Gone(s, p)
          BY <3>2, <4>1 DEF Adoptions, SourceWithheld, Withheld
        <5> QED BY <3>2, <5>1 DEF Gone
      <4>2. CASE p \notin lock_paths(task[pr][o].req)
        <5>1. Referenced(s, task[pr][o].req) /\ task[pr][o].req \in Coverage
          BY <3>1, <3>2, TaskLease DEF Referenced, TaskRecord
        <5>2. Gone(s, p)
          BY <4>2, <5>1 DEF Leftovers, ReferenceCovers
        <5> QED BY <3>2, <5>2 DEF Gone
      <4> QED BY <4>1, <4>2
    <3>5. ASSUME NEW qr \in Proc, NEW w \in Owner PROVE ~IsAdopting(qr, w, s)'
      <4>1. CASE qr = pr /\ w = o
        <5>1. task'[qr][w] = Idle
          BY <3>2, <4>1, TaskSet DEF TypeOK
        <5> QED BY <5>1 DEF IsAdopting, Idle
      <4>2. CASE qr # pr \/ w # o
        <5>1. task'[qr][w] = task[qr][w]
          BY <3>2, <4>2, TaskSet DEF TypeOK
        <5>2. ~IsAdopting(qr, w, s)
          BY <3>2, <4>2 DEF Adoptions, OneAdoption
        <5> QED BY <5>1, <5>2 DEF IsAdopting
      <4> QED BY <4>1, <4>2
    <3> QED BY <2>0, <3>3, <3>4, <3>5, TransferableStays
  <2> QED BY <2>1, <2>2
<1> QED BY <1>1, <1>2, <1>3, <1>4, <1>5 DEF Leftovers

\* In every reachable state what is known of adoptions holds.
THEOREM AdoptionsCorrect == Spec => []Adoptions
<1>1. Init => Adoptions
  <2> SUFFICES ASSUME Init PROVE Adoptions
    OBVIOUS
  <2>1. /\ handoffs = {} /\ \A l \in Lease : ~Published(l)
        /\ \A pr \in Proc, o \in Owner : task[pr][o].op = "idle"
    BY DEF Init, NoEntry, Idle, Published
  <2> QED BY <2>1 DEF Adoptions, BatchesNonEmpty, OneCoverage, SourceWithheld, ReplacedIsSource,
                      OneAdoption, AdoptedForGood, AdoptedOnce, IsAdopting, IsAcquiring, Referenced
<1>2. TypeOK /\ TypeOK' /\ Structure /\ Structure' /\ Adoptions /\ [Next]_vars => Adoptions'
  BY AdoptionsStep
<1> QED BY <1>1, <1>2, TypeCorrect, StructureCorrect, PTL DEF Spec

\* In every reachable state the holders of a lease are its owner's and stand where it, or
\* the attempt that is about to publish it, asked for them.
THEOREM LeftoversCorrect == Spec => []Leftovers
<1>1. Init => Leftovers
  <2> SUFFICES ASSUME Init PROVE Leftovers
    OBVIOUS
  <2>1. /\ handoffs = {} /\ unparking = {} /\ \A l \in Lease : ~Published(l)
        /\ \A pr \in Proc, o \in Owner : task[pr][o].op = "idle"
    BY DEF Init, NoEntry, Idle, Published
  <2> QED BY <2>1 DEF Leftovers, NothingWrittenYet, AttemptHolders, HeldWhereCovered, ReferenceCovers,
                      AdoptedIsGone, IsAcquiring, Referenced
<1>2. /\ TypeOK /\ TypeOK' /\ Structure /\ Structure' /\ Adoptions /\ Leftovers /\ [Next]_vars
      => Leftovers'
  BY LeftoversStep
<1> QED BY <1>1, <1>2, TypeCorrect, StructureCorrect, AdoptionsCorrect, PTL DEF Spec

\* A rollback ends with its own step or with its process.
LEMMA UndoEnds ==
  ASSUME TypeOK, [Next]_vars, NEW pr \in Proc, NEW o \in Owner,
         task[pr][o].op = "undo", task'[pr][o] # task[pr][o]
  PROVE  (\E ok \in Outcome : UndoPath(pr, o, ok)) \/ Crash(pr)
<1>t. task \in [Proc -> [Owner -> Task]]
  BY DEF TypeOK
<1>s. ASSUME NEW qr \in Proc, NEW w \in Owner, NEW u, task' = [task EXCEPT ![qr][w] = u]
      PROVE  qr = pr /\ w = o
  BY <1>s, <1>t, TaskSet
<1>1. ASSUME NEW qr \in Proc, NEW w \in Owner, Acquiring(qr, w)
      PROVE  \E ok \in Outcome : UndoPath(pr, o, ok)
  <2>1. ASSUME NEW l, NEW r, NEW s, NEW cap, start_acquire(qr, w, l, r, s, cap) PROVE FALSE
    BY <1>s, <2>1 DEF start_acquire
  <2>2. ASSUME PublishLease(qr, w) \/ RollbackLease(qr, w) PROVE FALSE
    BY <1>s, <2>2 DEF PublishLease, RollbackLease
  <2>3. ASSUME NEW ok \in Outcome, UndoPath(qr, w, ok) PROVE qr = pr /\ w = o
    BY <1>s, <2>3 DEF UndoPath
  <2> QED BY <1>1, <2>1, <2>2, <2>3 DEF Acquiring, AcquireBatch, AcquireReentrant, ReacquireBatch, Adopt
<1>2. ASSUME NEW qr \in Proc, NEW w \in Owner, Holding(qr, w) PROVE FALSE
  <2>1. ASSUME NEW l \in Lease, StartRefresh(qr, w, l) PROVE FALSE
    <3>1. \E u : task' = task \/ task' = [task EXCEPT ![qr][w] = u]
      BY <2>1 DEF StartRefresh
    <3> QED BY <1>s, <2>1, <3>1 DEF StartRefresh
  <2>2. ASSUME NEW ok \in Outcome, RefreshPath(qr, w, ok) PROVE FALSE
    <3>1. \E u : task' = [task EXCEPT ![qr][w] = u]
      BY <2>2 DEF RefreshPath
    <3>2. task[qr][w].op = "refresh"
      BY <2>2 DEF RefreshPath
    <3> QED BY <1>s, <3>1, <3>2
  <2>3. ASSUME NEW l, NEW S, task[qr][w].op = "idle", start_release(qr, w, l, S) PROVE FALSE
    BY <1>s, <2>3 DEF start_release
  <2>4. ASSUME NEW ok \in Outcome, ReleasePath(qr, w, ok) PROVE FALSE
    <3>1. \E u : task' = [task EXCEPT ![qr][w] = u]
      BY <2>4 DEF ReleasePath
    <3>2. task[qr][w].op = "release"
      BY <2>4 DEF ReleasePath
    <3> QED BY <1>s, <3>1, <3>2
  <2>5. ASSUME ApplyRefresh(qr, w) PROVE FALSE
    BY <1>s, <2>5 DEF ApplyRefresh
  <2> QED BY <1>2, <2>1, <2>2, <2>3, <2>4, <2>5 DEF Holding, Release, Cleanup, Forget, Handoff, Lookup
<1>3. ASSUME NEW qr \in Proc, NEW w \in Owner, CommitAcquire(qr, w) \/ RejectAcquire(qr, w) PROVE FALSE
  <2>1. \E u : task' = [task EXCEPT ![qr][w] = u]
    BY <1>3 DEF CommitAcquire, RejectAcquire
  <2>2. task[qr][w].op = "acquire"
    BY <1>3 DEF CommitAcquire, RejectAcquire
  <2> QED BY <1>s, <2>1, <2>2
<1>4. ASSUME Environment \/ (\E qr \in Proc, l \in Lease : Unpark(qr, l)) \/ UNCHANGED vars
      PROVE  Crash(pr)
  <2>1. PICK qr \in Crashing : Crash(qr)
    BY <1>4 DEF Environment, AckHandoff, Tick, Unpark, vars
  <2>2. qr = pr
    BY <1>t, <2>1 DEF Crash
  <2> QED BY <2>1, <2>2
<1> QED BY <1>1, <1>2, <1>3, <1>4 DEF Next

\* A rollback that ends has taken its holder away wherever its undo did not fail.
LEMMA UndoneIsGone ==
  ASSUME TypeOK, TypeOK', Structure, ReplacedIsSource, AttemptHolders, [Next]_vars,
         NEW pr \in Proc, NEW o \in Owner, NEW p \in Path, UndoneAt(pr, o, p),
         task[pr][o].op = "undo"
  PROVE  GoneNext(task[pr][o].lease, p)
<1> SUFFICES ASSUME ~GoneNext(task[pr][o].lease, p) PROVE FALSE
  OBVIOUS
<1>1. /\ IsAcquiring(pr, o) /\ task'[pr][o].op = "idle" /\ ~Crash(pr) /\ task[pr][o].result[p] # "err"
      /\ ~(Todo(task[pr][o]) = {p} /\ UndoPath(pr, o, FALSE))
  BY DEF UndoneAt, IsAcquiring
<1>2. ~Gone(task[pr][o].lease, p)
  BY <1>1, AttemptHolderArises DEF HolderKept, CommitAcquire
<1>3. tokens[p].owner = o /\ task[pr][o].result[p] = "todo"
  BY <1>1, <1>2 DEF AttemptHolders
<1>4. PICK ok \in Outcome : UndoPath(pr, o, ok)
  BY <1>1, UndoEnds
<1>5. PICK q \in Path :
        /\ task'[pr][o] = IF Todo(task[pr][o]) = {q} THEN Idle
                          ELSE [task[pr][o] EXCEPT !.result[q] = IF ok THEN "ok" ELSE "err"]
        /\ (ok /\ tokens[q].owner = o) => GoneNext(task[pr][o].lease, q)
  BY <1>4, UndoDrops
<1>6. Todo(task[pr][o]) = {q}
  <2>1. task[pr][o] \in TaskRecord
    BY TaskLease
  <2> QED BY <1>1, <1>5, <2>1 DEF TaskRecord
<1>7. p = q
  BY <1>3, <1>6 DEF Todo
<1>8. ok
  BY <1>1, <1>4, <1>6, <1>7, RequestAssumption
<1> QED BY <1>3, <1>5, <1>7, <1>8

\* An acquisition that fails, after a conflict or in the rollback of what it wrote, leaves
\* none of its holders at the paths the store let it undo.
THEOREM AcquisitionIsAllOrNothing == Spec => AllOrNothing
<1>1. /\ TypeOK /\ TypeOK' /\ Structure /\ Adoptions /\ Leftovers /\ [Next]_vars
      => \A pr \in Proc, o \in Owner, p \in Path :
           UndoneAt(pr, o, p) => \A h \in tokens'[p].holders : h.id # task[pr][o].lease
  <2> SUFFICES ASSUME TypeOK, TypeOK', Structure, Adoptions, Leftovers, [Next]_vars,
                      NEW pr \in Proc, NEW o \in Owner, NEW p \in Path, UndoneAt(pr, o, p)
               PROVE  GoneNext(task[pr][o].lease, p)
    BY DEF GoneNext
  <2>1. ReplacedIsSource /\ AttemptHolders
    BY DEF Adoptions, Leftovers
  <2>2. CASE task[pr][o].op = "undo"
    BY <2>1, <2>2, UndoneIsGone
  <2>3. CASE task[pr][o].op = "acquire"
    <3>1. IsAcquiring(pr, o) /\ Gone(task[pr][o].lease, p) /\ task'[pr][o].op = "idle"
      BY <2>3 DEF UndoneAt, IsAcquiring, Leftovers, NothingWrittenYet
    <3>2. ~CommitAcquire(pr, o)
      <4> SUFFICES ASSUME CommitAcquire(pr, o) PROVE FALSE
        OBVIOUS
      <4>1. PICK R : task' = [task EXCEPT ![pr][o] = [task[pr][o] EXCEPT !.op = "publish", !.replaced = R]]
        BY DEF CommitAcquire
      <4>2. task[pr][o] \in TaskRecord /\ task \in [Proc -> [Owner -> Task]]
        BY TaskLease DEF TypeOK
      <4>3. task'[pr][o] = [task[pr][o] EXCEPT !.op = "publish", !.replaced = R]
        BY <4>1, <4>2
      <4>4. task'[pr][o].op = "publish"
        BY <4>2, <4>3 DEF TaskRecord
      <4> QED BY <3>1, <4>4
    <3> QED BY <2>1, <3>1, <3>2, AttemptHolderArises DEF HolderKept
  <2> QED BY <2>2, <2>3 DEF UndoneAt
<1>2. TypeOK /\ TypeOK' /\ Structure /\ Adoptions /\ Leftovers /\ [Next]_vars
      => [\A pr \in Proc, o \in Owner, p \in Path :
            UndoneAt(pr, o, p) => \A h \in tokens'[p].holders : h.id # task[pr][o].lease]_vars
  BY <1>1
<1> QED BY <1>2, TypeCorrect, StructureCorrect, AdoptionsCorrect, LeftoversCorrect, PTL
    DEF Spec, AllOrNothing

\* How a lease leaves its registry.
LEMMA EntriesLeave ==
  ASSUME TypeOK, TypeOK', Structure, [Next]_vars, NEW l \in Lease, Published(l), ~Published(l)'
  PROVE  \/ \E pr \in Proc : Crash(pr)
         \/ \E pr \in Proc, o \in Owner : Forget(pr, o, l)
         \/ \E pr \in Proc : Unpark(pr, l)
         \/ \E pr \in Proc, o \in Owner :
               ReleasePath(pr, o, TRUE) /\ TRUE \in Outcome /\ entries'[l] = NoEntry
<1>e. entries \in [Lease -> Entry] /\ entries[l] \in Entry /\ now \in Nat
  BY DEF TypeOK
<1>k. ASSUME EntriesKept PROVE FALSE
  BY <1>k DEF EntriesKept, Published
<1>s. ASSUME entries'[l] = entries[l] PROVE FALSE
  BY <1>s DEF Published
<1>1. ASSUME NEW pr \in Proc, NEW o \in Owner, PublishLease(pr, o) PROVE FALSE
  <2>1. PICK t, E, e : /\ t = task[pr][o] /\ E = invalidate_expired(entries, pr, o)
                       /\ e.proc = pr /\ entries' = [E EXCEPT ![t.lease] = e]
    <3>1. PICK t, E, conf, e :
            /\ t = task[pr][o] /\ E = invalidate_expired(entries, pr, o)
            /\ e = [NoEntry EXCEPT !.proc = pr, !.owner = o, !.cov = t.req,
                                   !.conf = conf, !.source = t.source]
            /\ entries' = [E EXCEPT ![t.lease] = e]
      BY <1>1 DEF PublishLease
    <3>2. e.proc = pr
      BY <3>1 DEF NoEntry
    <3> QED BY <3>1, <3>2
  <2>2. E \in [Lease -> Entry] /\ E[l].proc = entries[l].proc
    BY <1>e, <2>1, SweepKeeps, InvalidateExpiredType
  <2>3. entries'[l] = e \/ entries'[l] = E[l]
    BY <2>1, <2>2
  <2> QED BY <2>1, <2>2, <2>3, RequestAssumption DEF Published
<1>2. ASSUME NEW pr \in Proc, NEW o \in Owner, Acquiring(pr, o) PROVE FALSE
  <2>1. PublishLease(pr, o) \/ entries' = entries \/ entries' = invalidate_expired(entries, pr, o)
    BY <1>2 DEF Acquiring, AcquireBatch, AcquireReentrant, ReacquireBatch, Adopt, start_acquire,
                RollbackLease, UndoPath
  <2> QED BY <1>1, <1>k, <2>1, KeptBySweep
<1>3. ASSUME NEW pr \in Proc, NEW o \in Owner, CommitAcquire(pr, o) \/ RejectAcquire(pr, o) PROVE FALSE
  BY <1>3, <1>s DEF CommitAcquire, RejectAcquire
<1>4. ASSUME NEW pr \in Proc, NEW o \in Owner, ApplyRefresh(pr, o) PROVE FALSE
  <2>1. PICK t : t = task[pr][o]
    OBVIOUS
  <2>2. /\ t.lease \in Lease /\ t.started \in Nat /\ t.lease \in registry(entries, pr, o)
        /\ entries' = apply_refresh_results(entries, pr, o, t.lease, t.result, t.started)
    BY <1>4, <2>1, TaskLease DEF ApplyRefresh, Structure, HeldWhileInFlight
  <2>3. entries'[l].proc = entries[l].proc
    BY <1>e, <2>2, ApplyKeeps
  <2> QED BY <2>3 DEF Published
<1>5. ASSUME NEW pr \in Proc, NEW o \in Owner, NEW k \in Lease, Handoff(pr, o, k) PROVE FALSE
  <2>1. PICK E \in [Lease -> Entry] : E = invalidate_expired(entries, pr, o)
    BY InvalidateExpiredType DEF TypeOK
  <2>2. entries' = E \/ entries' = [E EXCEPT ![k].pending_handoff = TRUE]
    BY <1>5, <2>1 DEF Handoff
  <2>3. E[l].proc = entries[l].proc
    BY <1>e, <2>1, SweepKeeps
  <2>4. entries'[l].proc = E[l].proc
    BY <2>1, <2>2 DEF Entry
  <2> QED BY <2>3, <2>4 DEF Published
<1>6. ASSUME NEW pr \in Proc, NEW o \in Owner, NEW ok \in Outcome, ReleasePath(pr, o, ok)
      PROVE  ReleasePath(pr, o, TRUE) /\ TRUE \in Outcome /\ entries'[l] = NoEntry
  <2>1. PICK t, p : /\ t = task[pr][o] /\ t.op = "release" /\ p \in Path
                    /\ entries' = [entries EXCEPT ![t.lease] =
                                     IF ok THEN remove_path(@, p) ELSE invalidate(@, "ReleaseFailed")]
    BY <1>6 DEF ReleasePath
  <2>2. l = t.lease
    BY <1>e, <1>s, <2>1
  <2>3. entries'[l] = IF ok THEN remove_path(entries[l], p) ELSE invalidate(entries[l], "ReleaseFailed")
    BY <1>e, <2>1, <2>2
  <2>4. invalidate(entries[l], "ReleaseFailed").proc = entries[l].proc
    BY <1>e DEF invalidate, Entry
  <2>5. ok
    BY <2>3, <2>4 DEF Published
  <2>6. \/ remove_path(entries[l], p) = NoEntry
        \/ remove_path(entries[l], p).proc = entries[l].proc
    BY <1>e DEF remove_path, Entry
  <2>7. entries'[l] = NoEntry
    BY <2>3, <2>5, <2>6 DEF Published
  <2>8. ok = TRUE
    BY <2>5, RequestAssumption
  <2> QED BY <1>6, <2>7, <2>8
<1>7. ASSUME NEW pr \in Proc, NEW o \in Owner, Holding(pr, o)
      PROVE  \/ Forget(pr, o, l)
             \/ ReleasePath(pr, o, TRUE) /\ TRUE \in Outcome /\ entries'[l] = NoEntry
  <2>1. ASSUME NEW k \in Lease, Forget(pr, o, k) PROVE k = l
    BY <1>e, <1>s, <2>1 DEF Forget
  <2>2. ASSUME NEW k \in Lease, StartRefresh(pr, o, k) PROVE FALSE
    BY <1>k, <2>2, KeptBySweep DEF StartRefresh
  <2>3. ASSUME Lookup(pr, o) PROVE FALSE
    BY <1>k, <2>3, KeptBySweep DEF Lookup
  <2>4. ASSUME NEW k \in Lease, NEW S, Release(pr, o, k, S) \/ Cleanup(pr, o, k) PROVE FALSE
    BY <1>s, <2>4 DEF Release, Cleanup, start_release
  <2>5. ASSUME NEW ok \in Outcome, RefreshPath(pr, o, ok) PROVE FALSE
    BY <1>s, <2>5 DEF RefreshPath
  <2> QED BY <1>4, <1>5, <1>6, <1>7, <2>1, <2>2, <2>3, <2>4, <2>5 DEF Holding
<1>8. ASSUME NEW pr \in Proc, NEW k \in Lease, Unpark(pr, k) PROVE k = l
  BY <1>e, <1>s, <1>8 DEF Unpark
<1>9. ASSUME Environment PROVE \E pr \in Proc : Crash(pr)
  BY <1>s, <1>9, RequestAssumption DEF Environment, AckHandoff, Tick
<1>10. ~UNCHANGED vars
  BY <1>s DEF vars
<1> QED BY <1>2, <1>3, <1>7, <1>8, <1>9, <1>10 DEF Next

\* A lease that leaves its registry by a release, or because it was adopted, leaves no
\* holder behind, however its release was retried, split or interleaved.
THEOREM ReleasesLeaveNothing == Spec => NoHolderLeftBehind
<1> DEFINE Left(l) ==
      /\ Published(l) /\ ~Published(l)'
      /\ ~(\E pr \in Proc : Crash(pr))
      /\ ~(\E pr \in Proc, o \in Owner : Forget(pr, o, l))
      /\ ~(entries[l].pending_handoff /\ \E pr \in Proc, o \in Owner : ReleasePath(pr, o, TRUE))
<1>1. ASSUME TypeOK, TypeOK', Structure, Adoptions, Leftovers, [Next]_vars, NEW l \in Lease, Left(l),
             NEW p \in Path
      PROVE  GoneNext(l, p)
  <2>1. CASE \E pr \in Proc : Unpark(pr, l)
    <3>1. PICK pr \in Proc : <<pr, l>> \in unparking /\ tokens' = tokens
      BY <2>1 DEF Unpark
    <3>2. PICK u \in unparking : u = <<pr, l>> /\ u[2] = l
      BY <3>1
    <3>3. Gone(l, p)
      BY <1>1, <3>2 DEF Leftovers, AdoptedIsGone
    <3> QED BY <3>1, <3>3 DEF Gone, GoneNext
  <2>2. ASSUME NEW pr \in Proc, NEW o \in Owner, ReleasePath(pr, o, TRUE), TRUE \in Outcome,
               entries'[l] = NoEntry, ~GoneNext(l, p)
        PROVE  FALSE
    <3>1. Published(l) /\ ~entries[l].pending_handoff /\ ~Gone(l, p)'
      BY <1>1, <2>2 DEF Gone, GoneNext
    <3>2. ~Transferable(l)
      BY <3>1 DEF Transferable
    <3>3. ~HolderPutBack(l, p)
      BY <1>1, <3>2 DEF HolderPutBack, IsAdopting, IsAcquiring, Structure, SourcesTransferable
    <3>4. ~HolderWritten(l, p)
      BY <1>1, <3>1 DEF HolderWritten, CommitAcquire, IsAcquiring, Structure, UnpublishedWhileAcquiring
    <3>5. ~Gone(l, p)
      BY <1>1, <3>1, <3>3, <3>4, HoldersArise DEF HolderKept, Adoptions
    <3>6. entries[l].cov[p] # "None" /\ tokens[p].owner = entries[l].owner
      BY <1>1, <3>1, <3>5 DEF Leftovers, HeldWhereCovered, lock_paths
    <3>7. entries'[l].cov[p] = "None"
      BY <2>2 DEF NoEntry, NoCoverage
    <3>8. Gone(l, p)'
      BY <1>1, <2>2, <3>6, <3>7, ReleaseDrops
    <3> QED BY <3>1, <3>8
  <2> QED BY <1>1, <2>1, <2>2, EntriesLeave
<1>2. /\ TypeOK /\ TypeOK' /\ Structure /\ Adoptions /\ Leftovers /\ [Next]_vars
      => [\A l \in Lease : Left(l) => \A p \in Path : \A h \in tokens'[p].holders : h.id # l]_vars
  BY <1>1 DEF GoneNext
<1>3. NoHolderLeftBehind <=>
        [][\A l \in Lease : Left(l) => \A p \in Path : \A h \in tokens'[p].holders : h.id # l]_vars
  BY DEF NoHolderLeftBehind
<1> HIDE DEF Left
<1> QED BY <1>2, <1>3, TypeCorrect, StructureCorrect, AdoptionsCorrect, LeftoversCorrect, PTL DEF Spec
=============================================================================
