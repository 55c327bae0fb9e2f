----------------------- MODULE PathLockStructureProofs ----------------------
(***************************************************************************)
(* The first layers under mutual exclusion, for any number of processes,   *)
(* owners, leases and paths: type correctness, how operations in flight    *)
(* relate to the registries, and that a handoff is adopted once.           *)
(***************************************************************************)
EXTENDS PathLockInductive, TLAPS

-----------------------------------------------------------------------------
(* The token functions stay within their types. *)

\* A token with a holder added or started afresh is a token.
LEMMA WithHolderType ==
  ASSUME NEW tok \in Token, NEW o \in Owner, NEW l \in Lease, NEW k \in Kind,
         NEW n \in Int, NEW sb, NEW src
  PROVE  with_holder(tok, o, l, k, n, sb, src) \in Token
BY DEF with_holder, add_holder, held, Token, Holder

\* Refreshing or releasing one holder of a token gives a token.
LEMMA MutateType ==
  ASSUME NEW tok \in Token, NEW o, NEW l, NEW n \in Int, NEW sb,
         NEW release \in BOOLEAN
  PROVE  mutate_holder_record(tok, o, l, n, sb, release) \in Token
<1> DEFINE mine   == {h \in tok.holders : h.id = l}
           others == {h \in tok.holders : h.id # l /\ h.time >= sb}
           kept   == IF release THEN {} ELSE {[h EXCEPT !.time = n] : h \in mine}
<1>1. others \in SUBSET Holder /\ mine \in SUBSET Holder
  BY DEF Token
<1>2. \A h \in mine : [h EXCEPT !.time = n] \in Holder
  BY <1>1 DEF Holder
<1>3. kept \in SUBSET Holder
  BY <1>2
<1>4. recompute([tok EXCEPT !.holders = others \cup kept]) \in Token
  BY <1>1, <1>3 DEF recompute, NoToken, Token
<1> QED BY <1>4 DEF mutate_holder_record

\* Undoing a handoff gives a token.
LEMMA ReplaceType ==
  ASSUME NEW tok \in Token, NEW o, NEW l, NEW back \in SUBSET Holder, NEW sb
  PROVE  replace_holder(tok, o, l, back, sb) \in Token
BY DEF replace_holder, recompute, NoToken, Token

\* Deleting stale tokens keeps the store well typed.
LEMMA RemoveStaleType ==
  ASSUME NEW toks \in [Path -> Token], NEW S
  PROVE  remove_stale(toks, S) \in [Path -> Token]
BY DEF remove_stale, NoToken, Token

\* So does the acquisition of a batch.
LEMMA AcquireType ==
  ASSUME NEW toks \in [Path -> Token], NEW r \in Coverage, NEW o \in Owner,
         NEW l \in Lease, NEW n \in Int, NEW sb, NEW src
  PROVE  acquire_holder_records(toks, r, o, l, n, sb, src) \in [Path -> Token]
<1> DEFINE kept == remove_stale(toks, stale_in_way(toks, r, o, sb))
<1>1. kept \in [Path -> Token]
  BY RemoveStaleType
<1>2. \A q \in Path : r[q] # "None" => r[q] \in Kind
  BY DEF Coverage
<1>3. \A q \in Path : r[q] # "None" =>
         with_holder(kept[q], o, l, r[q], n, sb, src) \in Token
  BY <1>1, <1>2, WithHolderType
<1> QED BY <1>1, <1>3 DEF acquire_holder_records

-----------------------------------------------------------------------------
(* The registry functions stay within their types. *)

\* Invalidation keeps an entry an entry.
LEMMA InvalidateType ==
  ASSUME NEW e \in Entry, NEW r \in Reason, now \in Nat
  PROVE  invalidate(e, r) \in Entry
BY DEF invalidate, Entry

\* So does the sweep over one owner's registry.
LEMMA InvalidateExpiredType ==
  ASSUME NEW E \in [Lease -> Entry], NEW pr, NEW o, now \in Nat
  PROVE  invalidate_expired(E, pr, o) \in [Lease -> Entry]
<1>1. "ConfirmationDeadlineExceeded" \in Reason
  BY DEF Reason
<1> QED BY <1>1, InvalidateType DEF invalidate_expired

\* The entry of an unpublished lease is well typed.
LEMMA NoEntryType == NoEntry \in Entry
BY DEF NoEntry, Entry, NoCoverage, Coverage

\* So is the task of a free owner mutex...
LEMMA IdleType == Idle \in Task
BY DEF Idle, Task, TaskRecord, NoCoverage, Coverage, NoResult

\* ... and the result map an operation starts with.
LEMMA TodoForType ==
  ASSUME NEW S
  PROVE  todo_for(S) \in [Path -> {"none", "todo", "ok", "lost", "err"}]
BY DEF todo_for

\* Dropping a path keeps an entry an entry.
LEMMA RemovePathType ==
  ASSUME NEW e \in Entry, NEW p \in Path
  PROVE  remove_path(e, p) \in Entry
<1>1. CASE lock_paths(e.cov) \subseteq {p}
  BY <1>1, NoEntryType DEF remove_path
<1>2. CASE ~(lock_paths(e.cov) \subseteq {p})
  BY <1>2 DEF remove_path, Entry, Coverage
<1> QED BY <1>1, <1>2

\* Applying the results of a refresh keeps the registries well typed.
LEMMA ApplyType ==
  ASSUME NEW E \in [Lease -> Entry], NEW pr, NEW o, NEW l \in Lease,
         NEW result, NEW started \in Nat, now \in Nat
  PROVE  apply_refresh_results(E, pr, o, l, result, started) \in [Lease -> Entry]
<1> DEFINE first  == invalidate_expired(E, pr, o)
           conf   == [p \in Path |-> IF result[p] = "ok" THEN started ELSE first[l].conf[p]]
           kept   == [first[l] EXCEPT !.conf = conf]
           second == [first EXCEPT ![l] =
                        IF \E p \in Path : result[p] = "lost"
                        THEN invalidate(kept, "TokenLost") ELSE kept]
<1>1. first \in [Lease -> Entry]
  BY InvalidateExpiredType
<1>2. conf \in [Path -> Nat]
  BY <1>1 DEF Entry
<1>3. kept \in Entry
  <2> HIDE DEF first, conf
  <2> QED BY <1>1, <1>2 DEF Entry
<1>4. "TokenLost" \in Reason
  BY DEF Reason
<1>5. invalidate(kept, "TokenLost") \in Entry
  <2> HIDE DEF kept
  <2> QED BY <1>3, <1>4, InvalidateType
<1>6. second \in [Lease -> Entry]
  <2> HIDE DEF first, kept
  <2> QED BY <1>1, <1>3, <1>5
<1>7. invalidate_expired(second, pr, o) \in [Lease -> Entry]
  <2> HIDE DEF second
  <2> QED BY <1>6, InvalidateExpiredType
<1> QED BY <1>7 DEF apply_refresh_results

-----------------------------------------------------------------------------
(* Type correctness *)

\* An acquisition starts well typed.
LEMMA StartAcquireType ==
  ASSUME TypeOK, NEW pr \in Proc, NEW o \in Owner, NEW l \in Lease,
         NEW r \in Coverage, NEW s \in Lease \cup {NoLease},
         NEW cap \in Lease \cup {NoLease}, start_acquire(pr, o, l, r, s, cap)
  PROVE  TypeOK'
<1>1. entries' \in [Lease -> Entry]
  BY InvalidateExpiredType DEF TypeOK, start_acquire
<1>2. [Idle EXCEPT !.op = "acquire", !.lease = l, !.req = r, !.source = s,
                   !.cap = cap, !.started = now] \in Task
  BY IdleType DEF Task, TaskRecord, TypeOK
<1>3. task' \in [Proc -> [Owner -> Task]]
  BY <1>2 DEF TypeOK, start_acquire
<1> QED BY <1>1, <1>3 DEF TypeOK, start_acquire

\* A release starts well typed.
LEMMA StartReleaseType ==
  ASSUME TypeOK, NEW pr \in Proc, NEW o \in Owner, NEW l \in Lease, NEW S,
         start_release(pr, o, l, S)
  PROVE  TypeOK'
<1>1. [Idle EXCEPT !.op = "release", !.lease = l, !.started = now,
                   !.result = todo_for(S)] \in Task
  BY IdleType, TodoForType DEF Task, TaskRecord, TypeOK
<1>2. task' \in [Proc -> [Owner -> Task]]
  BY <1>1 DEF TypeOK, start_release
<1> QED BY <1>2 DEF TypeOK, start_release

\* Every step of every process keeps the state well typed.
LEMMA TypeStep == TypeOK /\ [Next]_vars => TypeOK'
<1> SUFFICES ASSUME TypeOK, [Next]_vars PROVE TypeOK'
  OBVIOUS
<1>a. ASSUME NEW pr \in Proc, NEW o \in Owner
      PROVE  /\ task[pr][o] \in Task
             /\ task[pr] \in [Owner -> Task]
             /\ \A u \in Task : [task EXCEPT ![pr][o] = u] \in [Proc -> [Owner -> Task]]
  BY DEF TypeOK
<1>b. Request \subseteq Coverage
  BY RequestAssumption
<1>1. ASSUME NEW pr \in Proc, NEW o \in Owner, NEW l \in Lease, NEW r \in Request,
             AcquireBatch(pr, o, l, r)
      PROVE  TypeOK'
  BY <1>1, <1>b, StartAcquireType DEF AcquireBatch
<1>2. ASSUME NEW pr \in Proc, NEW o \in Owner, NEW l \in Lease, NEW r \in Request,
             NEW cap \in Lease, AcquireReentrant(pr, o, l, r, cap)
      PROVE  TypeOK'
  BY <1>2, <1>b, StartAcquireType DEF AcquireReentrant
<1>3. ASSUME NEW pr \in Proc, NEW o \in Owner, NEW l \in Lease, NEW m \in handoffs,
             ReacquireBatch(pr, o, l, m)
      PROVE  TypeOK'
  <2>1. m.cov \in Coverage
    BY DEF TypeOK
  <2> QED BY <1>3, <2>1, StartAcquireType DEF ReacquireBatch
<1>4. ASSUME NEW pr \in Proc, NEW o \in Owner, NEW l \in Lease, NEW m \in handoffs,
             Adopt(pr, o, l, m)
      PROVE  TypeOK'
  <2>1. m.cov \in Coverage /\ m.lease \in Lease
    BY DEF TypeOK
  <2> QED BY <1>4, <2>1, StartAcquireType DEF Adopt
<1>5. ASSUME NEW pr \in Proc, NEW o \in Owner, CommitAcquire(pr, o)
      PROVE  TypeOK'
  <2> DEFINE t  == task[pr][o]
             sb == stale_before_at(pr, t.started)
             old == [p \in Path |-> {h \in tokens[p].holders :
                                       t.req[p] # "None" /\ h.id = t.source}]
  <2>1. t \in TaskRecord /\ t.lease \in Lease /\ t.req \in Coverage /\ t.started + Skew[pr] \in Int
    BY <1>5, <1>a, SkewAssumption DEF CommitAcquire, Task, TaskRecord
  <2>2. tokens' \in [Path -> Token]
    <3> HIDE DEF t
    <3> QED BY <1>5, <2>1, AcquireType DEF CommitAcquire, TypeOK, t
  <2>3. old \in [Path -> SUBSET Holder]
    BY DEF TypeOK, Token
  <2>4. [t EXCEPT !.op = "publish", !.replaced = old] \in Task
    <3> HIDE DEF t, old
    <3> QED BY <2>1, <2>3 DEF Task, TaskRecord
  <2>5. task' \in [Proc -> [Owner -> Task]]
    BY <1>5, <2>4, <1>a DEF CommitAcquire
  <2> QED BY <1>5, <2>2, <2>5 DEF CommitAcquire, TypeOK
<1>6. ASSUME NEW pr \in Proc, NEW o \in Owner, RejectAcquire(pr, o)
      PROVE  TypeOK'
  <2>1. tokens' \in [Path -> Token]
    BY <1>6, RemoveStaleType DEF RejectAcquire, TypeOK
  <2>2. task' \in [Proc -> [Owner -> Task]]
    BY <1>6, <1>a, IdleType DEF RejectAcquire
  <2> QED BY <1>6, <2>1, <2>2 DEF RejectAcquire, TypeOK
<1>7. ASSUME NEW pr \in Proc, NEW o \in Owner, PublishLease(pr, o)
      PROVE  TypeOK'
  <2> DEFINE t == task[pr][o]
             E == invalidate_expired(entries, pr, o)
             conf == [p \in Path |-> IF t.req[p] = "None" THEN 0 ELSE t.started]
             e == [NoEntry EXCEPT !.proc = pr, !.owner = o, !.cov = t.req,
                                  !.conf = conf, !.source = t.source]
  <2>1. /\ t \in TaskRecord /\ t.lease \in Lease /\ t.req \in Coverage
        /\ t.started \in Nat /\ t.source \in Lease \cup {NoLease}
    BY <1>7, <1>a DEF PublishLease, Task, TaskRecord
  <2>2. E \in [Lease -> Entry]
    BY InvalidateExpiredType DEF TypeOK
  <2>3. conf \in [Path -> Nat]
    BY <2>1
  <2>4. e \in Entry
    <3> HIDE DEF t, conf
    <3> QED BY <2>1, <2>3, NoEntryType DEF Entry
  <2>5. entries' \in [Lease -> Entry]
    <3>1. entries' = [E EXCEPT ![t.lease] = e]
      BY <1>7 DEF PublishLease
    <3> HIDE DEF E, e, t
    <3> QED BY <2>2, <2>4, <3>1
  <2>6. task' \in [Proc -> [Owner -> Task]]
    BY <1>7, <1>a, IdleType DEF PublishLease
  <2>7. unparking' \subseteq Proc \X Lease
    BY <1>7, <2>1 DEF PublishLease, TypeOK
  <2> QED BY <1>7, <2>5, <2>6, <2>7 DEF PublishLease, TypeOK
<1>8. ASSUME NEW pr \in Proc, NEW o \in Owner, RollbackLease(pr, o)
      PROVE  TypeOK'
  <2> DEFINE t == task[pr][o]
  <2>1. entries' \in [Lease -> Entry]
    BY <1>8, InvalidateExpiredType DEF RollbackLease, TypeOK
  <2>2. [t EXCEPT !.op = "undo", !.result = todo_for(lock_paths(t.req))] \in Task
    <3>1. t \in TaskRecord /\ t.lease \in Lease
      BY <1>8, <1>a DEF RollbackLease, Task
    <3> HIDE DEF t
    <3> QED BY <3>1, TodoForType DEF Task, TaskRecord
  <2>3. task' \in [Proc -> [Owner -> Task]]
    BY <1>8, <2>2, <1>a DEF RollbackLease
  <2> QED BY <1>8, <2>1, <2>3 DEF RollbackLease, TypeOK
<1>9. ASSUME NEW pr \in Proc, NEW o \in Owner, NEW ok \in Outcome, UndoPath(pr, o, ok)
      PROVE  TypeOK'
  <2> DEFINE t == task[pr][o]
  <2>0. PICK p \in Path :
          /\ tokens' = IF ~ok THEN tokens
                       ELSE [tokens EXCEPT ![p] =
                            IF t.replaced[p] # {}
                            THEN replace_holder(@, o, t.lease, t.replaced[p], now_ns(pr) - TTL)
                            ELSE mutate_holder_record(@, o, t.lease, now_ns(pr), 0, TRUE)]
          /\ task' = [task EXCEPT ![pr][o] =
                        IF Todo(t) = {p} THEN Idle
                        ELSE [t EXCEPT !.result[p] = IF ok THEN "ok" ELSE "err"]]
    BY <1>9 DEF UndoPath
  <2>1. t \in TaskRecord /\ t.lease \in Lease /\ t.replaced[p] \in SUBSET Holder
    BY <1>9, <1>a DEF UndoPath, Task, TaskRecord
  <2>2. tokens[p] \in Token /\ now_ns(pr) \in Int
    BY SkewAssumption DEF TypeOK, now_ns
  <2>3. /\ replace_holder(tokens[p], o, t.lease, t.replaced[p], now_ns(pr) - TTL) \in Token
        /\ mutate_holder_record(tokens[p], o, t.lease, now_ns(pr), 0, TRUE) \in Token
    BY <2>1, <2>2, ReplaceType, MutateType
  <2>4. tokens' \in [Path -> Token]
    BY <2>0, <2>3 DEF TypeOK
  <2>5. [t EXCEPT !.result[p] = IF ok THEN "ok" ELSE "err"] \in Task
    <3> HIDE DEF t
    <3> QED BY <2>1 DEF Task, TaskRecord
  <2>6. task' \in [Proc -> [Owner -> Task]]
    BY <2>0, <2>5, IdleType, <1>a
  <2> QED BY <1>9, <2>4, <2>6 DEF UndoPath, TypeOK
<1>10. ASSUME NEW pr \in Proc, NEW l \in Lease, Unpark(pr, l)
       PROVE  TypeOK'
  BY <1>10, NoEntryType DEF Unpark, TypeOK
<1>11. ASSUME NEW pr \in Proc, NEW o \in Owner, NEW l \in Lease, StartRefresh(pr, o, l)
       PROVE  TypeOK'
  <2> DEFINE E == invalidate_expired(entries, pr, o)
             u == [Idle EXCEPT !.op = "refresh", !.lease = l, !.started = now,
                               !.result = todo_for(lock_paths(E[l].cov))]
  <2>1. E \in [Lease -> Entry]
    BY InvalidateExpiredType DEF TypeOK
  <2>2. u \in Task
    BY IdleType, TodoForType DEF Task, TaskRecord, TypeOK
  <2>3. task' \in [Proc -> [Owner -> Task]]
    BY <1>11, <2>2, <1>a DEF StartRefresh, TypeOK
  <2> QED BY <1>11, <2>1, <2>3 DEF StartRefresh, TypeOK
<1>12. ASSUME NEW pr \in Proc, NEW o \in Owner, NEW ok \in Outcome, RefreshPath(pr, o, ok)
       PROVE  TypeOK'
  <2> DEFINE t  == task[pr][o]
             sb == stale_before_at(pr, t.started)
             res(p) == IF ~ok THEN "err"
                       ELSE IF holder_found(tokens[p], o, t.lease, sb, FALSE)
                            THEN "ok" ELSE "lost"
  <2>0. PICK p \in Path :
          /\ tokens' = IF ~ok THEN tokens
                       ELSE [tokens EXCEPT ![p] =
                               mutate_holder_record(@, o, t.lease, t.started + Skew[pr], sb, FALSE)]
          /\ task' = [task EXCEPT ![pr][o] = [t EXCEPT !.result[p] = res(p)]]
    BY <1>12 DEF RefreshPath
  <2>1. t \in TaskRecord /\ t.lease \in Lease /\ t.started + Skew[pr] \in Int
    BY <1>12, <1>a, SkewAssumption DEF RefreshPath, Task, TaskRecord
  <2>2. mutate_holder_record(tokens[p], o, t.lease, t.started + Skew[pr], sb, FALSE) \in Token
    BY <2>1, MutateType DEF TypeOK
  <2>3. tokens' \in [Path -> Token]
    BY <2>0, <2>2 DEF TypeOK
  <2>4. [t EXCEPT !.result[p] = res(p)] \in Task
    <3>1. res(p) \in {"ok", "lost", "err"}
      OBVIOUS
    <3> HIDE DEF t, res
    <3> QED BY <2>1, <3>1 DEF Task, TaskRecord
  <2>5. task' \in [Proc -> [Owner -> Task]]
    BY <2>0, <2>4, <1>a
  <2> QED BY <1>12, <2>3, <2>5 DEF RefreshPath, TypeOK
<1>13. ASSUME NEW pr \in Proc, NEW o \in Owner, ApplyRefresh(pr, o)
       PROVE  TypeOK'
  <2> DEFINE t == task[pr][o]
  <2>1. t.lease \in Lease /\ t.started \in Nat
    BY <1>13, <1>a DEF ApplyRefresh, Task, TaskRecord
  <2>2. task' \in [Proc -> [Owner -> Task]]
    BY <1>13, <1>a, IdleType DEF ApplyRefresh
  <2> QED BY <1>13, <2>2, <2>1, ApplyType DEF ApplyRefresh, TypeOK
<1>14. ASSUME NEW pr \in Proc, NEW o \in Owner, NEW l \in Lease, NEW S \in SUBSET Path,
              Release(pr, o, l, S)
       PROVE  TypeOK'
  BY <1>14, StartReleaseType DEF Release
<1>15. ASSUME NEW pr \in Proc, NEW o \in Owner, NEW l \in Lease, Cleanup(pr, o, l)
       PROVE  TypeOK'
  BY <1>15, StartReleaseType DEF Cleanup
<1>16. ASSUME NEW pr \in Proc, NEW o \in Owner, NEW l \in Lease, Forget(pr, o, l)
       PROVE  TypeOK'
  BY <1>16, NoEntryType DEF Forget, TypeOK
<1>17. ASSUME NEW pr \in Proc, NEW o \in Owner, NEW ok \in Outcome, ReleasePath(pr, o, ok)
       PROVE  TypeOK'
  <2> DEFINE t == task[pr][o]
  <2>0. PICK p \in Path :
          /\ tokens' = IF ~ok THEN tokens
                       ELSE [tokens EXCEPT ![p] =
                            mutate_holder_record(@, o, t.lease, now_ns(pr), 0, TRUE)]
          /\ entries' = [entries EXCEPT ![t.lease] =
                        IF ok THEN remove_path(@, p) ELSE invalidate(@, "ReleaseFailed")]
          /\ task' = [task EXCEPT ![pr][o] =
                        IF Todo(t) = {p} THEN Idle ELSE [t EXCEPT !.result[p] = "ok"]]
    BY <1>17 DEF ReleasePath
  <2>1. t \in TaskRecord /\ t.lease \in Lease
    BY <1>17, <1>a DEF ReleasePath, Task
  <2>2. mutate_holder_record(tokens[p], o, t.lease, now_ns(pr), 0, TRUE) \in Token
    <3>1. tokens[p] \in Token /\ now_ns(pr) \in Int
      BY SkewAssumption DEF TypeOK, now_ns
    <3> QED BY <3>1, MutateType
  <2>3. tokens' \in [Path -> Token]
    BY <2>0, <2>2 DEF TypeOK
  <2>4. remove_path(entries[t.lease], p) \in Entry /\ invalidate(entries[t.lease], "ReleaseFailed") \in Entry
    BY <2>1, RemovePathType, InvalidateType DEF TypeOK, Reason
  <2>5. entries' \in [Lease -> Entry]
    BY <2>0, <2>1, <2>4 DEF TypeOK
  <2>6. [t EXCEPT !.result[p] = "ok"] \in Task
    <3> HIDE DEF t
    <3> QED BY <2>1 DEF Task, TaskRecord
  <2>7. task' \in [Proc -> [Owner -> Task]]
    BY <2>0, <2>6, IdleType, <1>a
  <2> QED BY <1>17, <2>3, <2>5, <2>7 DEF ReleasePath, TypeOK
<1>18. ASSUME NEW pr \in Proc, NEW o \in Owner, NEW l \in Lease, Handoff(pr, o, l)
       PROVE  TypeOK'
  <2> DEFINE E == invalidate_expired(entries, pr, o)
  <2>1. E \in [Lease -> Entry]
    BY InvalidateExpiredType DEF TypeOK
  <2>2. [E[l] EXCEPT !.pending_handoff = TRUE] \in Entry
    <3> HIDE DEF E
    <3> QED BY <2>1 DEF Entry
  <2>3. [E EXCEPT ![l].pending_handoff = TRUE] \in [Lease -> Entry]
    <3> HIDE DEF E
    <3> QED BY <2>1, <2>2
  <2>4. [lease |-> l, owner |-> o, cov |-> E[l].cov] \in [lease : Lease, owner : Owner, cov : Coverage]
    <3> HIDE DEF E
    <3> QED BY <2>1 DEF Entry
  <2> HIDE DEF E
  <2>5. entries' \in [Lease -> Entry]
    BY <1>18, <2>1, <2>3 DEF Handoff, E
  <2>6. handoffs' \subseteq [lease : Lease, owner : Owner, cov : Coverage]
    BY <1>18, <2>4 DEF Handoff, E, TypeOK
  <2> QED BY <1>18, <2>5, <2>6 DEF Handoff, TypeOK
<1>19. ASSUME NEW pr \in Proc, NEW o \in Owner, Lookup(pr, o)
       PROVE  TypeOK'
  BY <1>19, InvalidateExpiredType DEF Lookup, TypeOK
<1>20. ASSUME NEW m \in handoffs, AckHandoff(m)
       PROVE  TypeOK'
  BY <1>20 DEF AckHandoff, TypeOK
<1>21. ASSUME Tick PROVE TypeOK'
  BY <1>21 DEF Tick, TypeOK
<1>22. ASSUME NEW pr \in Crashing, Crash(pr)
       PROVE  TypeOK'
  BY <1>22, NoEntryType, IdleType, RequestAssumption DEF Crash, TypeOK
<1>23. ASSUME UNCHANGED vars PROVE TypeOK'
  BY <1>23 DEF vars, TypeOK
<1> QED
  BY <1>1, <1>2, <1>3, <1>4, <1>5, <1>6, <1>7, <1>8, <1>9, <1>10, <1>11, <1>12,
     <1>13, <1>14, <1>15, <1>16, <1>17, <1>18, <1>19, <1>20, <1>21, <1>22, <1>23
     DEF Next, Acquiring, Holding, Environment

\* At the start everything is of its type.
LEMMA TypeInit == Init => TypeOK
BY NoEntryType, IdleType DEF Init, TypeOK, NoToken, Token

\* The type invariant holds of every reachable state.
THEOREM TypeCorrect == Spec => []TypeOK
BY TypeInit, TypeStep, PTL DEF Spec

-----------------------------------------------------------------------------
(* How the registries and the operations in flight change. *)

\* The sweep over expired leases changes nothing but their invalidation.
LEMMA SweepKeeps ==
  ASSUME NEW E \in [Lease -> Entry], NEW pr, NEW o, NEW l \in Lease, now \in Nat
  PROVE  LET F == invalidate_expired(E, pr, o) IN
         /\ F[l].proc = E[l].proc /\ F[l].owner = E[l].owner /\ F[l].cov = E[l].cov
         /\ F[l].conf = E[l].conf /\ F[l].pending_handoff = E[l].pending_handoff
         /\ F[l].source = E[l].source
         /\ F[l].invalidation = "None" => E[l].invalidation = "None"
BY DEF invalidate_expired, invalidate, Entry

\* Applying refresh results sets confirmations where a holder was found, and
\* never revives a lease that was past its deadline.
LEMMA ApplyKeeps ==
  ASSUME NEW E \in [Lease -> Entry], NEW pr, NEW o, NEW l \in Lease, NEW result,
         NEW started \in Nat, now \in Nat, l \in registry(E, pr, o), NEW k \in Lease
  PROVE  LET F == apply_refresh_results(E, pr, o, l, result, started) IN
         /\ F[k].proc = E[k].proc /\ F[k].owner = E[k].owner /\ F[k].cov = E[k].cov
         /\ F[k].pending_handoff = E[k].pending_handoff /\ F[k].source = E[k].source
         /\ \A p \in Path : F[k].conf[p] =
              IF k = l /\ result[p] = "ok" THEN started ELSE E[k].conf[p]
         /\ F[k].invalidation = "None" =>
              E[k].invalidation = "None" /\ (k = l => ~expired(E[l]))
<1> DEFINE first  == invalidate_expired(E, pr, o)
           conf   == [p \in Path |-> IF result[p] = "ok" THEN started ELSE first[l].conf[p]]
           kept   == [first[l] EXCEPT !.conf = conf]
           second == [first EXCEPT ![l] =
                        IF \E p \in Path : result[p] = "lost"
                        THEN invalidate(kept, "TokenLost") ELSE kept]
           F == invalidate_expired(second, pr, o)
<1>1. /\ first \in [Lease -> Entry]
      /\ first[k].proc = E[k].proc /\ first[k].owner = E[k].owner /\ first[k].cov = E[k].cov
      /\ first[k].conf = E[k].conf /\ first[k].pending_handoff = E[k].pending_handoff
      /\ first[k].source = E[k].source
      /\ first[k].invalidation = "None" => E[k].invalidation = "None"
  BY SweepKeeps, InvalidateExpiredType
<1>2. first[l].invalidation = "None" => ~expired(E[l])
  BY DEF invalidate_expired, invalidate, Entry, Reason
<1>3. conf \in [Path -> Nat] /\ kept \in Entry
  <2>1. conf \in [Path -> Nat]
    BY <1>1 DEF Entry
  <2> HIDE DEF first, conf
  <2> QED BY <1>1, <2>1 DEF Entry
<1>4. /\ kept.proc = first[l].proc /\ kept.owner = first[l].owner /\ kept.cov = first[l].cov
      /\ kept.pending_handoff = first[l].pending_handoff /\ kept.conf = conf
      /\ kept.invalidation = first[l].invalidation /\ kept.source = first[l].source
  <2> HIDE DEF first, conf
  <2> QED BY <1>1 DEF Entry
<1>5. LET e == IF \E p \in Path : result[p] = "lost" THEN invalidate(kept, "TokenLost") ELSE kept IN
      /\ e \in Entry /\ e.proc = kept.proc /\ e.owner = kept.owner /\ e.cov = kept.cov
      /\ e.pending_handoff = kept.pending_handoff /\ e.conf = kept.conf /\ e.source = kept.source
      /\ e.invalidation = "None" => kept.invalidation = "None"
  <2> HIDE DEF kept
  <2> QED BY <1>3, InvalidateType DEF invalidate, Entry, Reason
<1>6. /\ second \in [Lease -> Entry]
      /\ k # l => second[k] = first[k]
      /\ second[l].proc = kept.proc /\ second[l].owner = kept.owner /\ second[l].cov = kept.cov
      /\ second[l].pending_handoff = kept.pending_handoff /\ second[l].conf = kept.conf
      /\ second[l].source = kept.source
      /\ second[l].invalidation = "None" => kept.invalidation = "None"
  <2> HIDE DEF first, kept
  <2> QED BY <1>1, <1>5
<1>7. /\ F[k].proc = second[k].proc /\ F[k].owner = second[k].owner /\ F[k].cov = second[k].cov
      /\ F[k].conf = second[k].conf /\ F[k].pending_handoff = second[k].pending_handoff
      /\ F[k].source = second[k].source
      /\ F[k].invalidation = "None" => second[k].invalidation = "None"
  <2> HIDE DEF second
  <2> QED BY <1>6, SweepKeeps
<1>8. \A p \in Path : F[k].conf[p] = IF k = l /\ result[p] = "ok" THEN started ELSE E[k].conf[p]
  <2>1. CASE k = l
    <3>1. F[k].conf = conf /\ first[l].conf = E[k].conf
      BY <1>1, <1>4, <1>6, <1>7, <2>1
    <3> HIDE DEF F, first
    <3> QED BY <3>1, <2>1
  <2>2. CASE k # l
    <3>1. F[k].conf = E[k].conf
      BY <1>1, <1>6, <1>7, <2>2
    <3> QED BY <3>1, <2>2
  <2> QED BY <2>1, <2>2
<1>9. F = apply_refresh_results(E, pr, o, l, result, started)
  BY DEF apply_refresh_results
<1> HIDE DEF F, second, kept, conf, first
<1> QED BY <1>1, <1>2, <1>4, <1>6, <1>7, <1>8, <1>9

\* Setting the task of one process and owner leaves the others alone.
LEMMA TaskSet ==
  ASSUME task \in [Proc -> [Owner -> Task]], NEW pr \in Proc, NEW o \in Owner, NEW u,
         task' = [task EXCEPT ![pr][o] = u]
  PROVE  /\ task'[pr][o] = u
         /\ \A qr \in Proc, w \in Owner : qr # pr \/ w # o => task'[qr][w] = task[qr][w]
OBVIOUS

\* The registries keep everything but invalidations.
EntriesKept ==
  \A l \in Lease :
    /\ entries'[l].proc = entries[l].proc /\ entries'[l].owner = entries[l].owner
    /\ entries'[l].cov = entries[l].cov /\ entries'[l].conf = entries[l].conf
    /\ entries'[l].pending_handoff = entries[l].pending_handoff /\ entries'[l].source = entries[l].source
    /\ entries'[l].invalidation = "None" => entries[l].invalidation = "None"

\* A sweep, or no change, keeps the registries.
LEMMA KeptBySweep ==
  ASSUME TypeOK, NEW pr, NEW o,
         entries' = invalidate_expired(entries, pr, o) \/ entries' = entries
  PROVE  EntriesKept
<1>1. now \in Nat /\ entries \in [Lease -> Entry]
  BY DEF TypeOK
<1>2. CASE entries' = invalidate_expired(entries, pr, o)
  BY <1>1, <1>2, SweepKeeps DEF EntriesKept
<1>3. CASE entries' = entries
  BY <1>3 DEF EntriesKept
<1> QED BY <1>2, <1>3

\* An operation in flight is about a lease.
LEMMA TaskLease ==
  ASSUME TypeOK, NEW pr \in Proc, NEW o \in Owner
  PROVE  /\ task[pr][o] \in TaskRecord
         /\ task[pr][o].op # "idle" => task[pr][o].lease \in Lease
         /\ task[pr][o].started \in Nat
         /\ task[pr][o].source \in Lease \cup {NoLease}
BY DEF TypeOK, Task, TaskRecord

-----------------------------------------------------------------------------
(* Structure *)

\* A new acquisition of a fresh lease keeps the structure.
LEMMA StructureStartAcquire ==
  ASSUME TypeOK, Structure, NEW pr \in Proc, NEW o \in Owner, NEW l \in Lease,
         NEW r, NEW s, NEW cap, FreshLease(l), start_acquire(pr, o, l, r, s, cap),
         s # NoLease => s \in Lease /\ s # l /\ Transferable(s)
  PROVE  Structure'
<1> DEFINE u == [Idle EXCEPT !.op = "acquire", !.lease = l, !.req = r,
                             !.source = s, !.cap = cap, !.started = now]
<1>1. EntriesKept
  BY KeptBySweep DEF start_acquire
<1>2. /\ task'[pr][o] = u
      /\ \A qr \in Proc, w \in Owner : qr # pr \/ w # o => task'[qr][w] = task[qr][w]
  BY TaskSet DEF start_acquire, TypeOK
<1>3. u.op = "acquire" /\ u.lease = l /\ u.source = s /\ u.started = now
  BY DEF Idle
<1>4. /\ now' = now /\ handoffs' = handoffs /\ now \in Nat
  BY DEF start_acquire, TypeOK
<1>f. /\ ~Published(l)
      /\ \A qr \in Proc, w \in Owner : task[qr][w].lease # l /\ task[qr][w].source # l
      /\ \A m \in handoffs : m.lease # l
  BY DEF FreshLease
<1> HIDE DEF u
<1>5. EntriesOwned'
  BY <1>1 DEF Structure, EntriesOwned, EntriesKept, Published
<1>6. PastConfirmations'
  BY <1>1, <1>2, <1>3, <1>4 DEF Structure, PastConfirmations, EntriesKept
<1>7. UnpublishedWhileAcquiring'
  BY <1>1, <1>2, <1>3, <1>f, TaskLease DEF Structure, UnpublishedWhileAcquiring, EntriesKept, Published, IsAcquiring
<1>8. OneAcquisitionPerLease'
  BY <1>1, <1>2, <1>3, <1>f DEF Structure, OneAcquisitionPerLease, IsAcquiring
<1>9. ASSUME NEW k \in Lease, Transferable(k), k # l PROVE Transferable(k)'
  BY <1>9, <1>1, <1>2, <1>3 DEF Transferable, EntriesKept, Published, IsAcquiring, TypeOK
<1>10. SourcesTransferable'
  <2> SUFFICES ASSUME NEW k \in Lease,
                      \/ \E m \in handoffs' : m.lease = k
                      \/ \E qr \in Proc, w \in Owner : IsAcquiring(qr, w)' /\ task'[qr][w].source = k
               PROVE  Transferable(k)'
    BY DEF SourcesTransferable
  <2>1. \/ k = s
        \/ \E m \in handoffs : m.lease = k
        \/ \E qr \in Proc, w \in Owner : IsAcquiring(qr, w) /\ task[qr][w].source = k
    BY <1>2, <1>3, <1>4 DEF IsAcquiring
  <2>2. Transferable(k) /\ k # l
    BY <2>1, <1>f, Sentinels DEF Structure, SourcesTransferable
  <2> QED BY <1>9, <2>2
<1>11. HeldWhileInFlight'
  BY <1>1, <1>2, <1>3 DEF Structure, HeldWhileInFlight, registry, EntriesKept
<1>12. RefreshIsLater'
  BY <1>1, <1>2, <1>3, <1>11 DEF Structure, RefreshIsLater, HeldWhileInFlight, registry, EntriesKept
<1>13. ReleaseCovered'
  BY <1>1, <1>2, <1>3, TaskLease DEF Structure, ReleaseCovered, EntriesKept, Todo
<1> QED BY <1>5, <1>6, <1>7, <1>8, <1>10, <1>11, <1>12, <1>13 DEF Structure

\* What every other step but the publication of a lease does to the
\* registries and the operations in flight: nothing new is published, parked
\* leases stay parked, and what goes on goes on about the same lease.
TaskWinds(pr, o) ==
  LET t == task[pr][o]
      u == task'[pr][o]
  IN  /\ u.started <= now'
      /\ u.op \in {"acquire", "publish", "undo"} =>
           t.op \in {"acquire", "publish", "undo"} /\ u.lease = t.lease /\ u.source = t.source
      /\ u.op \in {"refresh", "release"} =>
           entries'[u.lease].proc = pr /\ entries'[u.lease].owner = o
      /\ u.op = "refresh" => \A p \in Path : entries'[u.lease].conf[p] <= u.started
      /\ u.op = "release" => Todo(u) \subseteq lock_paths(entries'[u.lease].cov)

Winding ==
  /\ now \in Nat /\ now' \in Nat /\ now <= now'
  /\ \A l \in Lease :
       \/ entries'[l].proc = NoProc
       \/ /\ entries'[l].proc = entries[l].proc /\ entries'[l].owner = entries[l].owner
          /\ entries[l].pending_handoff => entries'[l].pending_handoff
  /\ \A l \in Lease, p \in Path : entries'[l].conf[p] <= now'
  /\ \A m \in handoffs' :
       m \in handoffs \/ (Published(m.lease) /\ entries'[m.lease].pending_handoff)
  /\ \A pr \in Proc, o \in Owner : TaskWinds(pr, o)

\* An operation the step leaves alone goes on, if its lease is left alone.
LEMMA TaskOutlives ==
  ASSUME TypeOK, Structure, now' \in Nat, now <= now',
         NEW pr \in Proc, NEW o \in Owner, task'[pr][o] = task[pr][o],
         task[pr][o].op \in {"refresh", "release"} =>
           LET l == task[pr][o].lease IN
           /\ entries'[l].proc = entries[l].proc /\ entries'[l].owner = entries[l].owner
           /\ entries'[l].conf = entries[l].conf /\ entries'[l].cov = entries[l].cov
  PROVE  TaskWinds(pr, o)
<1> DEFINE t == task[pr][o]
<1>1. t.started \in Nat /\ t.started <= now /\ now \in Nat
  BY TaskLease DEF Structure, PastConfirmations, TypeOK
<1>2. t.started <= now'
  BY <1>1
<1>3. t.op \in {"refresh", "release"} =>
        entries'[t.lease].proc = pr /\ entries'[t.lease].owner = o
  BY DEF Structure, HeldWhileInFlight, registry
<1>4. t.op = "refresh" => \A p \in Path : entries'[t.lease].conf[p] <= t.started
  BY DEF Structure, RefreshIsLater
<1>5. t.op = "release" => Todo(t) \subseteq lock_paths(entries'[t.lease].cov)
  <2>1. t.op = "release" => Todo(t) \subseteq lock_paths(entries[t.lease].cov)
    BY DEF Structure, ReleaseCovered
  <2> QED BY <2>1
<1>6. task'[pr][o] = t
  OBVIOUS
<1> HIDE DEF t
<1> QED BY <1>2, <1>3, <1>4, <1>5, <1>6 DEF TaskWinds, t

\* An operation that ends.
LEMMA TaskEnds ==
  ASSUME now' \in Nat, NEW pr, NEW o, task'[pr][o] = Idle
  PROVE  TaskWinds(pr, o)
<1>1. Idle.op = "idle" /\ Idle.started = 0
  BY DEF Idle
<1> QED BY <1>1 DEF TaskWinds

\* Such a step keeps the structure.
LEMMA StructureWinding ==
  ASSUME TypeOK, TypeOK', Structure, Winding
  PROVE  Structure'
<1>l. /\ \A pr \in Proc, o \in Owner : task[pr][o].op # "idle" => task[pr][o].lease \in Lease
      /\ \A pr \in Proc, o \in Owner : task'[pr][o].op # "idle" => task'[pr][o].lease \in Lease
      /\ \A pr \in Proc, o \in Owner : task'[pr][o].source \in Lease \cup {NoLease}
  BY DEF TypeOK, Task, TaskRecord
<1>1. EntriesOwned'
  BY DEF Structure, EntriesOwned, Winding, Published
<1>2. PastConfirmations'
  BY DEF Winding, TaskWinds, PastConfirmations
<1>3. UnpublishedWhileAcquiring'
  BY <1>l DEF Structure, Winding, TaskWinds, UnpublishedWhileAcquiring, Published, IsAcquiring
<1>4. OneAcquisitionPerLease'
  BY DEF Structure, Winding, TaskWinds, OneAcquisitionPerLease, IsAcquiring
<1>5. ASSUME NEW k \in Lease, Transferable(k) PROVE Transferable(k)'
  BY <1>5 DEF Transferable, Winding, TaskWinds, Published, IsAcquiring
<1>6. ASSUME NEW k \in Lease, Published(k), entries'[k].pending_handoff PROVE Transferable(k)'
  BY <1>6, <1>l DEF Transferable, Winding, TaskWinds, Published, IsAcquiring, Structure, UnpublishedWhileAcquiring
<1>7. SourcesTransferable'
  <2> SUFFICES ASSUME NEW k \in Lease,
                      \/ \E m \in handoffs' : m.lease = k
                      \/ \E pr \in Proc, o \in Owner : IsAcquiring(pr, o)' /\ task'[pr][o].source = k
               PROVE  Transferable(k)'
    BY DEF SourcesTransferable
  <2>1. \/ Published(k) /\ entries'[k].pending_handoff
        \/ \E m \in handoffs : m.lease = k
        \/ \E pr \in Proc, o \in Owner : IsAcquiring(pr, o) /\ task[pr][o].source = k
    BY DEF Winding, TaskWinds, IsAcquiring
  <2> QED BY <2>1, <1>5, <1>6 DEF Structure, SourcesTransferable
<1>8. HeldWhileInFlight'
  BY <1>l DEF Winding, TaskWinds, HeldWhileInFlight, registry
<1>9. RefreshIsLater'
  BY DEF Winding, TaskWinds, RefreshIsLater
<1>10. ReleaseCovered'
  BY DEF Winding, TaskWinds, ReleaseCovered
<1> QED BY <1>1, <1>2, <1>3, <1>4, <1>7, <1>8, <1>9, <1>10 DEF Structure

\* Publishing a lease keeps the structure.
LEMMA StructurePublish ==
  ASSUME TypeOK, TypeOK', Structure, NEW pr \in Proc, NEW o \in Owner, PublishLease(pr, o)
  PROVE  Structure'
<1> DEFINE t == task[pr][o]
           E == invalidate_expired(entries, pr, o)
<1>0. t \in TaskRecord /\ t.lease \in Lease /\ t.started \in Nat /\ IsAcquiring(pr, o)
  BY TaskLease DEF PublishLease, IsAcquiring
<1>1. \A l \in Lease : l # t.lease =>
        /\ entries'[l].proc = entries[l].proc /\ entries'[l].owner = entries[l].owner
        /\ entries'[l].conf = entries[l].conf /\ entries'[l].cov = entries[l].cov
        /\ entries'[l].pending_handoff = entries[l].pending_handoff
  <2>1. E \in [Lease -> Entry]
    BY InvalidateExpiredType DEF TypeOK
  <2>2. \A l \in Lease : l # t.lease => entries'[l] = E[l]
    BY <2>1 DEF PublishLease
  <2> QED BY <2>2, SweepKeeps DEF TypeOK
<1>2. /\ entries'[t.lease].owner = o /\ entries'[t.lease].proc = pr
      /\ \A p \in Path : entries'[t.lease].conf[p] <= now
  <2>1. E \in [Lease -> Entry]
    BY InvalidateExpiredType DEF TypeOK
  <2>2. entries'[t.lease] =
         [NoEntry EXCEPT !.proc = pr, !.owner = o, !.cov = t.req,
                         !.conf = [p \in Path |-> IF t.req[p] = "None" THEN 0 ELSE t.started],
                         !.source = t.source]
    BY <1>0, <2>1 DEF PublishLease
  <2>3. t.started <= now /\ now \in Nat
    BY DEF Structure, PastConfirmations, TypeOK
  <2> QED BY <2>2, <2>3 DEF NoEntry
<1>3. /\ task'[pr][o] = Idle
      /\ \A qr \in Proc, w \in Owner : qr # pr \/ w # o => task'[qr][w] = task[qr][w]
  BY TaskSet DEF PublishLease, TypeOK
<1>4. Idle.op = "idle" /\ Idle.started = 0
  BY DEF Idle
<1>5. now' = now /\ now \in Nat /\ handoffs' = handoffs
  BY DEF PublishLease, TypeOK
<1>l. /\ \A qr \in Proc, w \in Owner : task[qr][w].op # "idle" => task[qr][w].lease \in Lease
      /\ \A qr \in Proc, w \in Owner : task[qr][w].source \in Lease \cup {NoLease}
      /\ \A m \in handoffs : m.lease \in Lease
  BY DEF TypeOK, Task, TaskRecord
<1> HIDE DEF t
<1>6. EntriesOwned'
  BY <1>1, <1>2 DEF Structure, EntriesOwned, Published
<1>7. PastConfirmations'
  BY <1>1, <1>2, <1>3, <1>4, <1>5 DEF Structure, PastConfirmations
<1>8. UnpublishedWhileAcquiring'
  BY <1>1, <1>3, <1>4, <1>0, <1>l DEF Structure, UnpublishedWhileAcquiring, OneAcquisitionPerLease, Published, IsAcquiring, t
<1>9. OneAcquisitionPerLease'
  BY <1>3, <1>4 DEF Structure, OneAcquisitionPerLease, IsAcquiring
<1>10. ASSUME NEW k \in Lease, Transferable(k) PROVE Transferable(k)'
  <2>1. k # t.lease
    BY <1>10, <1>0 DEF Transferable, t
  <2> QED BY <1>10, <2>1, <1>1, <1>3, <1>4 DEF Transferable, Published, IsAcquiring
<1>11. SourcesTransferable'
  <2> SUFFICES ASSUME NEW k \in Lease,
                      \/ \E m \in handoffs' : m.lease = k
                      \/ \E qr \in Proc, w \in Owner : IsAcquiring(qr, w)' /\ task'[qr][w].source = k
               PROVE  Transferable(k)'
    BY DEF SourcesTransferable
  <2>1. \/ \E m \in handoffs : m.lease = k
        \/ \E qr \in Proc, w \in Owner : IsAcquiring(qr, w) /\ task[qr][w].source = k
    BY <1>3, <1>4, <1>5 DEF IsAcquiring
  <2> QED BY <2>1, <1>10 DEF Structure, SourcesTransferable
<1>12. \A qr \in Proc, w \in Owner :
         task[qr][w].op \in {"refresh", "release"} => task[qr][w].lease # t.lease
  BY <1>0, RequestAssumption DEF Structure, HeldWhileInFlight, registry, UnpublishedWhileAcquiring, Published, t
<1>13. HeldWhileInFlight'
  BY <1>1, <1>3, <1>4, <1>12, <1>l DEF Structure, HeldWhileInFlight, registry
<1>14. RefreshIsLater'
  BY <1>1, <1>3, <1>4, <1>12, <1>l DEF Structure, RefreshIsLater
<1>15. ReleaseCovered'
  BY <1>1, <1>3, <1>4, <1>12, <1>l DEF Structure, ReleaseCovered, Todo
<1> QED BY <1>6, <1>7, <1>8, <1>9, <1>11, <1>13, <1>14, <1>15 DEF Structure

\* A step that moves one operation on and at most sweeps the registries.
LEMMA WindingOne ==
  ASSUME TypeOK, Structure, EntriesKept, now' = now, handoffs' = handoffs,
         NEW pr \in Proc, NEW o \in Owner, NEW u, task' = [task EXCEPT ![pr][o] = u],
         u.started <= now,
         u.op \in {"acquire", "publish", "undo"} =>
           /\ task[pr][o].op \in {"acquire", "publish", "undo"}
           /\ u.lease = task[pr][o].lease /\ u.source = task[pr][o].source,
         u.op \in {"refresh", "release"} => u.lease \in registry(entries, pr, o),
         u.op = "refresh" => \A p \in Path : entries[u.lease].conf[p] <= u.started,
         u.op = "release" => Todo(u) \subseteq lock_paths(entries[u.lease].cov)
  PROVE  Winding
<1>1. /\ task'[pr][o] = u
      /\ \A qr \in Proc, w \in Owner : qr # pr \/ w # o => task'[qr][w] = task[qr][w]
  BY TaskSet DEF TypeOK
<1>2. now \in Nat
  BY DEF TypeOK
<1>3. \A l \in Lease, p \in Path : entries'[l].conf[p] <= now
  BY DEF EntriesKept, Structure, PastConfirmations
<1>4. ASSUME NEW qr \in Proc, NEW w \in Owner PROVE TaskWinds(qr, w)
  <2>1. CASE qr = pr /\ w = o
    <3>1. u.op = "release" => Todo(u) \subseteq lock_paths(entries'[u.lease].cov)
      BY DEF EntriesKept, registry
    <3> QED BY <1>1, <2>1, <3>1 DEF EntriesKept, registry, TaskWinds
  <2>2. CASE qr # pr \/ w # o
    BY <1>1, <1>2, <2>2, TaskOutlives, TaskLease DEF EntriesKept
  <2> QED BY <2>1, <2>2
<1> QED BY <1>2, <1>3, <1>4 DEF Winding, EntriesKept

\* A step that leaves the operations in flight alone.
LEMMA WindingNone ==
  ASSUME TypeOK, TypeOK', Structure, EntriesKept, now <= now', handoffs' \subseteq handoffs,
         task' = task
  PROVE  Winding
<1>1. now \in Nat /\ now' \in Nat
  BY DEF TypeOK
<1>2. \A l \in Lease, p \in Path : entries'[l].conf[p] <= now'
  <2> SUFFICES ASSUME NEW l \in Lease, NEW p \in Path PROVE entries'[l].conf[p] <= now'
    OBVIOUS
  <2>1. entries'[l].conf[p] <= now /\ entries'[l].conf[p] \in Nat
    BY DEF EntriesKept, Structure, PastConfirmations, TypeOK, Entry
  <2> QED BY <1>1, <2>1
<1>3. \A pr \in Proc, o \in Owner : TaskWinds(pr, o)
  BY <1>1, TaskOutlives, TaskLease DEF EntriesKept
<1> QED BY <1>1, <1>2, <1>3 DEF Winding, EntriesKept

\* Every step keeps the structure.
LEMMA StructureStep ==
  ASSUME TypeOK, TypeOK', Structure, [Next]_vars
  PROVE  Structure'
<1>s. Winding => Structure'
  BY StructureWinding
<1>n. now \in Nat /\ now <= now /\ 0 <= now
  BY DEF TypeOK
<1>h. \A m \in handoffs : m.lease \in Lease
  BY DEF TypeOK
<1>i. Idle.op = "idle" /\ Idle.started = 0
  BY DEF Idle
<1>j. \A l \in Lease : NoEntry.proc = NoProc /\ \A p \in Path : NoEntry.conf[p] = 0
  BY DEF NoEntry
<1>1. ASSUME NEW pr \in Proc, NEW o \in Owner, NEW l \in Lease, NEW r \in Request,
             AcquireBatch(pr, o, l, r)
      PROVE  Structure'
  BY <1>1, StructureStartAcquire DEF AcquireBatch
<1>2. ASSUME NEW pr \in Proc, NEW o \in Owner, NEW l \in Lease, NEW r \in Request,
             NEW cap \in Lease, AcquireReentrant(pr, o, l, r, cap)
      PROVE  Structure'
  BY <1>2, StructureStartAcquire DEF AcquireReentrant
<1>3. ASSUME NEW pr \in Proc, NEW o \in Owner, NEW l \in Lease, NEW m \in handoffs,
             ReacquireBatch(pr, o, l, m)
      PROVE  Structure'
  BY <1>3, StructureStartAcquire DEF ReacquireBatch
<1>4. ASSUME NEW pr \in Proc, NEW o \in Owner, NEW l \in Lease, NEW m \in handoffs,
             Adopt(pr, o, l, m)
      PROVE  Structure'
  <2>1. m.lease \in Lease /\ m.lease # l /\ Transferable(m.lease)
    BY <1>4, <1>h DEF Adopt, FreshLease, Structure, SourcesTransferable
  <2> QED BY <1>4, <2>1, StructureStartAcquire DEF Adopt
<1>5. ASSUME NEW pr \in Proc, NEW o \in Owner, CommitAcquire(pr, o)
      PROVE  Structure'
  <2> DEFINE t == task[pr][o]
             old == [p \in Path |-> {h \in tokens[p].holders :
                                       t.req[p] # "None" /\ h.id = t.source}]
             u == [t EXCEPT !.op = "publish", !.replaced = old]
  <2>1. t \in TaskRecord /\ t.op = "acquire" /\ t.started <= now
    BY <1>5, TaskLease DEF CommitAcquire, Structure, PastConfirmations
  <2>2. u.op = "publish" /\ u.lease = t.lease /\ u.source = t.source /\ u.started = t.started
    <3> HIDE DEF t, old
    <3> QED BY <2>1 DEF TaskRecord
  <2>3. EntriesKept /\ now' = now /\ handoffs' = handoffs /\ task' = [task EXCEPT ![pr][o] = u]
    BY <1>5 DEF CommitAcquire, EntriesKept
  <2> HIDE DEF u
  <2> QED BY <1>s, <2>1, <2>2, <2>3, WindingOne
<1>6. ASSUME NEW pr \in Proc, NEW o \in Owner, RejectAcquire(pr, o)
      PROVE  Structure'
  <2>1. EntriesKept /\ now' = now /\ handoffs' = handoffs /\ task' = [task EXCEPT ![pr][o] = Idle]
    BY <1>6 DEF RejectAcquire, EntriesKept
  <2> QED BY <1>s, <1>n, <1>i, <2>1, WindingOne
<1>7. ASSUME NEW pr \in Proc, NEW o \in Owner, PublishLease(pr, o)
      PROVE  Structure'
  BY <1>7, StructurePublish
<1>8. ASSUME NEW pr \in Proc, NEW o \in Owner, RollbackLease(pr, o)
      PROVE  Structure'
  <2> DEFINE t == task[pr][o]
             u == [t EXCEPT !.op = "undo", !.result = todo_for(lock_paths(t.req))]
  <2>1. t \in TaskRecord /\ t.op = "publish" /\ t.started <= now
    BY <1>8, TaskLease DEF RollbackLease, Structure, PastConfirmations
  <2>2. u.op = "undo" /\ u.lease = t.lease /\ u.source = t.source /\ u.started = t.started
    <3> HIDE DEF t
    <3> QED BY <2>1 DEF TaskRecord
  <2>3. EntriesKept
    BY <1>8, KeptBySweep DEF RollbackLease
  <2>4. now' = now /\ handoffs' = handoffs /\ task' = [task EXCEPT ![pr][o] = u]
    BY <1>8 DEF RollbackLease
  <2> HIDE DEF u
  <2> QED BY <1>s, <2>1, <2>2, <2>3, <2>4, WindingOne
<1>9. ASSUME NEW pr \in Proc, NEW o \in Owner, NEW ok \in Outcome, UndoPath(pr, o, ok)
      PROVE  Structure'
  <2> DEFINE t == task[pr][o]
             u(p) == IF Todo(t) = {p} THEN Idle
                     ELSE [t EXCEPT !.result[p] = IF ok THEN "ok" ELSE "err"]
  <2>1. t \in TaskRecord /\ t.op = "undo" /\ t.started <= now
    BY <1>9, TaskLease DEF UndoPath, Structure, PastConfirmations
  <2>2. PICK p \in Path : task' = [task EXCEPT ![pr][o] = u(p)]
    BY <1>9 DEF UndoPath
  <2>3. \/ u(p).op = "idle" /\ u(p).started = 0
        \/ u(p).op = "undo" /\ u(p).lease = t.lease /\ u(p).source = t.source /\ u(p).started = t.started
    <3> HIDE DEF t
    <3> QED BY <2>1, <1>i DEF TaskRecord
  <2>4. EntriesKept /\ now' = now /\ handoffs' = handoffs
    BY <1>9 DEF UndoPath, EntriesKept
  <2> HIDE DEF u
  <2> QED BY <1>s, <1>n, <2>1, <2>2, <2>3, <2>4, WindingOne
<1>10. ASSUME NEW pr \in Proc, NEW l \in Lease, Unpark(pr, l)
       PROVE  Structure'
  <2>1. \/ entries' = entries
        \/ entries[l].proc = pr /\ task[pr][entries[l].owner].op = "idle"
             /\ entries' = [entries EXCEPT ![l] = NoEntry]
    BY <1>10 DEF Unpark, TypeOK
  <2>2. now' = now /\ handoffs' = handoffs /\ task' = task
    BY <1>10 DEF Unpark
  <2>3. CASE entries' = entries
    BY <2>2, <2>3, <1>s, <1>n, WindingNone DEF EntriesKept
  <2>4. CASE /\ entries[l].proc = pr /\ task[pr][entries[l].owner].op = "idle"
             /\ entries' = [entries EXCEPT ![l] = NoEntry]
    <3>1. \A k \in Lease : k # l => entries'[k] = entries[k]
      BY <2>4 DEF TypeOK
    <3>2. entries'[l] = NoEntry
      BY <2>4 DEF TypeOK
    <3>3. \A qr \in Proc, w \in Owner :
            task[qr][w].op \in {"refresh", "release"} => task[qr][w].lease # l
      BY <2>4 DEF Structure, HeldWhileInFlight, registry
    <3>4. \A qr \in Proc, w \in Owner : TaskWinds(qr, w)
      BY <2>2, <3>1, <3>3, <1>n, TaskOutlives, TaskLease
    <3>5. Winding
      BY <2>2, <3>1, <3>2, <3>4, <1>n, <1>j DEF Winding, Structure, PastConfirmations
    <3> QED BY <3>5, <1>s
  <2> QED BY <2>1, <2>3, <2>4
<1>11. ASSUME NEW pr \in Proc, NEW o \in Owner, NEW l \in Lease, StartRefresh(pr, o, l)
       PROVE  Structure'
  <2> DEFINE E == invalidate_expired(entries, pr, o)
             u == [Idle EXCEPT !.op = "refresh", !.lease = l, !.started = now,
                               !.result = todo_for(lock_paths(E[l].cov))]
  <2>1. EntriesKept
    BY <1>11, KeptBySweep DEF StartRefresh
  <2>2. u.op = "refresh" /\ u.lease = l /\ u.started = now
    BY DEF Idle
  <2>3. now' = now /\ handoffs' = handoffs /\ l \in registry(entries, pr, o)
    BY <1>11 DEF StartRefresh
  <2>4. task' = task \/ task' = [task EXCEPT ![pr][o] = u]
    BY <1>11 DEF StartRefresh
  <2> HIDE DEF u
  <2>5. CASE task' = task
    BY <2>1, <2>3, <2>5, <1>s, <1>n, WindingNone
  <2>6. CASE task' = [task EXCEPT ![pr][o] = u]
    BY <2>1, <2>2, <2>3, <2>6, <1>s, <1>n, WindingOne DEF Structure, PastConfirmations
  <2> QED BY <2>4, <2>5, <2>6
<1>12. ASSUME NEW pr \in Proc, NEW o \in Owner, NEW ok \in Outcome, RefreshPath(pr, o, ok)
       PROVE  Structure'
  <2> DEFINE t == task[pr][o]
             u(p) == [t EXCEPT !.result[p] =
                        IF ~ok THEN "err"
                        ELSE IF holder_found(tokens[p], o, t.lease, stale_before_at(pr, t.started), FALSE)
                             THEN "ok" ELSE "lost"]
  <2>1. t \in TaskRecord /\ t.op = "refresh" /\ t.started <= now
    BY <1>12, TaskLease DEF RefreshPath, Structure, PastConfirmations
  <2>2. PICK p \in Path : task' = [task EXCEPT ![pr][o] = u(p)]
    BY <1>12 DEF RefreshPath
  <2>3. u(p).op = "refresh" /\ u(p).lease = t.lease /\ u(p).started = t.started
    <3> HIDE DEF t
    <3> QED BY <2>1 DEF TaskRecord
  <2>4. EntriesKept /\ now' = now /\ handoffs' = handoffs
    BY <1>12 DEF RefreshPath, EntriesKept
  <2>5. t.lease \in registry(entries, pr, o) /\ \A q \in Path : entries[t.lease].conf[q] <= t.started
    BY <2>1 DEF Structure, HeldWhileInFlight, RefreshIsLater
  <2> HIDE DEF u
  <2> QED BY <1>s, <2>1, <2>2, <2>3, <2>4, <2>5, WindingOne
<1>13. ASSUME NEW pr \in Proc, NEW o \in Owner, ApplyRefresh(pr, o)
       PROVE  Structure'
  <2> DEFINE t == task[pr][o]
  <2>1. t.op = "refresh" /\ t.lease \in Lease /\ t.started \in Nat /\ t.started <= now
    BY <1>13, TaskLease DEF ApplyRefresh, Structure, PastConfirmations
  <2>2. t.lease \in registry(entries, pr, o) /\ entries \in [Lease -> Entry]
    BY <2>1 DEF Structure, HeldWhileInFlight, TypeOK
  <2>3. entries' = apply_refresh_results(entries, pr, o, t.lease, t.result, t.started)
    BY <1>13 DEF ApplyRefresh
  <2>4. \A k \in Lease :
          /\ entries'[k].proc = entries[k].proc /\ entries'[k].owner = entries[k].owner
          /\ entries'[k].pending_handoff = entries[k].pending_handoff /\ entries'[k].cov = entries[k].cov
          /\ \A p \in Path : (entries'[k].conf[p] = t.started /\ k = t.lease)
                             \/ entries'[k].conf[p] = entries[k].conf[p]
    BY <2>1, <2>2, <2>3, <1>n, ApplyKeeps
  <2>5. now' = now /\ handoffs' = handoffs
    BY <1>13 DEF ApplyRefresh
  <2>6. /\ task'[pr][o] = Idle
        /\ \A qr \in Proc, w \in Owner : qr # pr \/ w # o => task'[qr][w] = task[qr][w]
    BY <1>13, TaskSet DEF ApplyRefresh, TypeOK
  <2>7. \A qr \in Proc, w \in Owner : qr # pr \/ w # o =>
          (task[qr][w].op \in {"refresh", "release"} => task[qr][w].lease # t.lease)
    BY <2>2 DEF Structure, HeldWhileInFlight, registry
  <2>8. \A k \in Lease, p \in Path : entries'[k].conf[p] <= now
    BY <2>1, <2>4 DEF Structure, PastConfirmations
  <2> HIDE DEF t
  <2>9. ASSUME NEW qr \in Proc, NEW w \in Owner PROVE TaskWinds(qr, w)
    <3>1. CASE qr = pr /\ w = o
      BY <2>5, <2>6, <3>1, <1>n, TaskEnds
    <3>2. CASE qr # pr \/ w # o
      <4>1. \A k \in Lease : k # t.lease => entries'[k].conf = entries[k].conf
        <5> SUFFICES ASSUME NEW k \in Lease, k # t.lease PROVE entries'[k].conf = entries[k].conf
          OBVIOUS
        <5>1. entries'[k].conf \in [Path -> Nat] /\ entries[k].conf \in [Path -> Nat]
          BY DEF TypeOK, Entry
        <5> QED BY <5>1, <2>4
      <4> QED BY <2>4, <2>5, <2>6, <2>7, <3>2, <4>1, <1>n, TaskOutlives, TaskLease
    <3> QED BY <3>1, <3>2
  <2>10. Winding
    BY <2>4, <2>5, <2>8, <2>9, <1>n DEF Winding
  <2> QED BY <2>10, <1>s
<1>14. ASSUME NEW pr \in Proc, NEW o \in Owner, NEW l \in Lease, NEW S,
              task[pr][o].op = "idle", l \in registry(entries, pr, o),
              S \subseteq lock_paths(entries[l].cov), start_release(pr, o, l, S)
       PROVE  Structure'
  <2> DEFINE u == [Idle EXCEPT !.op = "release", !.lease = l, !.started = now,
                               !.result = todo_for(S)]
  <2>1. u.op = "release" /\ u.lease = l /\ u.started = now /\ Todo(u) \subseteq S
    BY DEF Idle, Todo, todo_for
  <2>2. EntriesKept /\ now' = now /\ handoffs' = handoffs /\ task' = [task EXCEPT ![pr][o] = u]
    BY <1>14 DEF start_release, EntriesKept
  <2> HIDE DEF u
  <2> QED BY <1>14, <2>1, <2>2, <1>s, <1>n, WindingOne
<1>15. ASSUME NEW pr \in Proc, NEW o \in Owner, NEW l \in Lease, NEW S \in SUBSET Path,
              Release(pr, o, l, S) \/ Cleanup(pr, o, l)
       PROVE  Structure'
  BY <1>14, <1>15 DEF Release, Cleanup
<1>16. ASSUME NEW pr \in Proc, NEW o \in Owner, NEW l \in Lease, Forget(pr, o, l)
       PROVE  Structure'
  <2>1. \A k \in Lease : k # l => entries'[k] = entries[k]
    BY <1>16 DEF Forget, TypeOK
  <2>2. entries'[l] = NoEntry /\ now' = now /\ handoffs' = handoffs /\ task' = task
    BY <1>16 DEF Forget, TypeOK
  <2>3. \A qr \in Proc, w \in Owner :
          task[qr][w].op \in {"refresh", "release"} => task[qr][w].lease # l
    BY <1>16 DEF Forget, Structure, HeldWhileInFlight, registry
  <2>4. \A qr \in Proc, w \in Owner : TaskWinds(qr, w)
    BY <2>1, <2>2, <2>3, <1>n, TaskOutlives, TaskLease
  <2>5. Winding
    BY <2>1, <2>2, <2>4, <1>n, <1>j DEF Winding, Structure, PastConfirmations
  <2> QED BY <2>5, <1>s
<1>17. ASSUME NEW pr \in Proc, NEW o \in Owner, NEW ok \in Outcome, ReleasePath(pr, o, ok)
       PROVE  Structure'
  <2> DEFINE t == task[pr][o]
             e == entries[t.lease]
  <2>1. t \in TaskRecord /\ t.lease \in Lease /\ t.op = "release" /\ t.started <= now
    BY <1>17, TaskLease DEF ReleasePath, Structure, PastConfirmations
  <2>2. e \in Entry /\ e.proc = pr /\ e.owner = o
    BY <2>1 DEF TypeOK, Structure, HeldWhileInFlight, registry
  <2>3. PICK p \in Path :
          /\ entries' = [entries EXCEPT ![t.lease] =
                           IF ok THEN remove_path(@, p) ELSE invalidate(@, "ReleaseFailed")]
          /\ task' = [task EXCEPT ![pr][o] =
                        IF Todo(t) = {p} THEN Idle ELSE [t EXCEPT !.result[p] = "ok"]]
          /\ IsFirst(p, Todo(t))
    BY <1>17 DEF ReleasePath
  <2> DEFINE f == IF ok THEN remove_path(e, p) ELSE invalidate(e, "ReleaseFailed")
             u == IF Todo(t) = {p} THEN Idle ELSE [t EXCEPT !.result[p] = "ok"]
  <2>4. entries'[t.lease] = f /\ \A k \in Lease : k # t.lease => entries'[k] = entries[k]
    BY <2>1, <2>3 DEF TypeOK
  <2>5. \/ f = NoEntry
        \/ /\ f.proc = pr /\ f.owner = o /\ f.pending_handoff = e.pending_handoff
           /\ \A q \in Path : f.conf[q] = 0 \/ f.conf[q] = e.conf[q]
           /\ \A q \in Path : q # p => f.cov[q] = e.cov[q]
    <3> HIDE DEF e
    <3> QED BY <2>2 DEF remove_path, invalidate, Entry, Coverage
  <2>6. /\ task'[pr][o] = u
        /\ \A qr \in Proc, w \in Owner : qr # pr \/ w # o => task'[qr][w] = task[qr][w]
    BY <2>3, TaskSet DEF TypeOK
  <2>7. \A qr \in Proc, w \in Owner : qr # pr \/ w # o =>
          (task[qr][w].op \in {"refresh", "release"} => task[qr][w].lease # t.lease)
    BY <2>2 DEF Structure, HeldWhileInFlight, registry
  <2>8. now' = now /\ handoffs' = handoffs
    BY <1>17 DEF ReleasePath
  <2>9. Todo(t) \subseteq lock_paths(e.cov)
    BY <2>1 DEF Structure, ReleaseCovered
  <2>0. u = Idle \/ (/\ u.op = "release" /\ u.lease = t.lease /\ u.started = t.started
                     /\ f # NoEntry /\ Todo(u) \subseteq Todo(t) \ {p})
    <3>1. CASE Todo(t) = {p}
      BY <3>1
    <3>2. CASE Todo(t) # {p}
      <4>1. PICK q \in Todo(t) : q # p
        BY <3>2, <2>3 DEF IsFirst
      <4>2. ~(lock_paths(e.cov) \subseteq {p})
        BY <4>1, <2>9
      <4>3. f.proc = pr
        <5> HIDE DEF e
        <5> QED BY <4>2, <2>2 DEF remove_path, invalidate, Entry
      <4>4. f # NoEntry
        BY <4>3, RequestAssumption DEF NoEntry
      <4>5. [t EXCEPT !.result[p] = "ok"].op = "release" /\ [t EXCEPT !.result[p] = "ok"].lease = t.lease
            /\ [t EXCEPT !.result[p] = "ok"].started = t.started
            /\ Todo([t EXCEPT !.result[p] = "ok"]) \subseteq Todo(t) \ {p}
        <5> HIDE DEF t
        <5> QED BY <2>1 DEF TaskRecord, Todo
      <4> QED BY <3>2, <4>4, <4>5
    <3> QED BY <3>1, <3>2
  <2> HIDE DEF f, u, t
  <2>10. \A k \in Lease, q \in Path : entries'[k].conf[q] <= now
    BY <2>4, <2>5, <1>n, <1>j DEF Structure, PastConfirmations
  <2>11. ASSUME NEW qr \in Proc, NEW w \in Owner PROVE TaskWinds(qr, w)
    <3>1. CASE qr = pr /\ w = o
      <4>1. CASE u = Idle
        BY <4>1, <2>6, <2>8, <3>1, <1>n, TaskEnds
      <4>2. CASE u # Idle
        <5>1. u.op = "release" /\ u.lease = t.lease /\ u.started <= now
              /\ f # NoEntry /\ Todo(u) \subseteq Todo(t) \ {p}
          BY <4>2, <2>0, <2>1
        <5>2. Todo(u) \subseteq lock_paths(f.cov)
          BY <5>1, <2>5, <2>9 DEF lock_paths
        <5> QED BY <5>1, <5>2, <2>4, <2>5, <2>6, <2>8, <3>1 DEF TaskWinds
      <4> QED BY <4>1, <4>2
    <3>2. CASE qr # pr \/ w # o
      BY <2>4, <2>6, <2>7, <2>8, <3>2, <1>n, TaskOutlives, TaskLease
    <3> QED BY <3>1, <3>2
  <2>12. Winding
    BY <2>2, <2>4, <2>5, <2>8, <2>10, <2>11, <1>n, <1>j DEF Winding
  <2> QED BY <2>12, <1>s
<1>18. ASSUME NEW pr \in Proc, NEW o \in Owner, NEW l \in Lease, Handoff(pr, o, l)
       PROVE  Structure'
  <2> DEFINE E == invalidate_expired(entries, pr, o)
  <2>1. E \in [Lease -> Entry]
    BY InvalidateExpiredType DEF TypeOK
  <2>2. \A k \in Lease :
          /\ E[k].proc = entries[k].proc /\ E[k].owner = entries[k].owner /\ E[k].cov = entries[k].cov
          /\ E[k].conf = entries[k].conf /\ E[k].pending_handoff = entries[k].pending_handoff
    BY SweepKeeps DEF TypeOK
  <2>3. entries' = E \/ entries' = [E EXCEPT ![l].pending_handoff = TRUE]
    BY <1>18 DEF Handoff
  <2>4. \A k \in Lease :
          /\ entries'[k].proc = entries[k].proc /\ entries'[k].owner = entries[k].owner
          /\ entries'[k].conf = entries[k].conf /\ entries'[k].cov = entries[k].cov
          /\ entries[k].pending_handoff => entries'[k].pending_handoff
    <3> HIDE DEF E
    <3> QED BY <2>1, <2>2, <2>3 DEF Entry
  <2>5. now' = now /\ task' = task
    BY <1>18 DEF Handoff
  <2>6. \A m \in handoffs' :
          m \in handoffs \/ (Published(m.lease) /\ entries'[m.lease].pending_handoff)
    <3>1. CASE handoffs' = handoffs
      BY <3>1
    <3>2. CASE capability_matches(E, pr, l)
      <4>1. entries' = [E EXCEPT ![l].pending_handoff = TRUE]
        BY <1>18, <3>2 DEF Handoff
      <4>2. entries'[l].pending_handoff /\ Published(l)
        <5>1. E[l].proc = pr
          BY <3>2 DEF capability_matches
        <5> HIDE DEF E
        <5> QED BY <4>1, <2>1, <2>2, <5>1, RequestAssumption DEF Entry, Published
      <4>3. \A m \in handoffs' : m \in handoffs \/ m.lease = l
        BY <1>18, <3>2 DEF Handoff
      <4> QED BY <4>2, <4>3
    <3> QED BY <1>18, <3>1, <3>2 DEF Handoff
  <2>7. \A qr \in Proc, w \in Owner : TaskWinds(qr, w)
    BY <2>4, <2>5, <1>n, TaskOutlives, TaskLease
  <2>8. Winding
    BY <2>4, <2>5, <2>6, <2>7, <1>n DEF Winding, Structure, PastConfirmations
  <2> QED BY <2>8, <1>s
<1>19. ASSUME NEW pr \in Proc, NEW o \in Owner, Lookup(pr, o)
       PROVE  Structure'
  <2>1. EntriesKept
    BY <1>19, KeptBySweep DEF Lookup
  <2> QED BY <1>19, <2>1, <1>s, <1>n, WindingNone DEF Lookup
<1>20. ASSUME NEW m \in handoffs, AckHandoff(m)
       PROVE  Structure'
  BY <1>20, <1>s, <1>n, WindingNone DEF AckHandoff, EntriesKept
<1>21. ASSUME Tick PROVE Structure'
  <2>1. now <= now' /\ EntriesKept /\ handoffs' = handoffs /\ task' = task
    BY <1>21, <1>n DEF Tick, EntriesKept
  <2> QED BY <2>1, <1>s, WindingNone
<1>22. ASSUME NEW pr \in Crashing, Crash(pr)
       PROVE  Structure'
  <2>0. pr \in Proc
    BY RequestAssumption
  <2>1. \A k \in Lease : entries'[k] = IF entries[k].proc = pr THEN NoEntry ELSE entries[k]
    BY <1>22 DEF Crash
  <2>2. \A qr \in Proc, w \in Owner :
          task'[qr][w] = IF qr = pr THEN Idle ELSE task[qr][w]
    BY <1>22, <2>0 DEF Crash, TypeOK
  <2>3. now' = now /\ handoffs' = handoffs
    BY <1>22 DEF Crash
  <2>4. ASSUME NEW qr \in Proc, NEW w \in Owner PROVE TaskWinds(qr, w)
    <3>1. CASE qr = pr
      BY <2>2, <2>3, <3>1, <1>n, TaskEnds
    <3>2. CASE qr # pr
      <4>1. task[qr][w].op \in {"refresh", "release"} =>
              entries'[task[qr][w].lease] = entries[task[qr][w].lease]
        BY <2>1, <3>2 DEF Structure, HeldWhileInFlight, registry
      <4> QED BY <2>2, <2>3, <3>2, <4>1, <1>n, TaskOutlives
    <3> QED BY <3>1, <3>2
  <2>5. Winding
    BY <2>1, <2>3, <2>4, <1>n, <1>j DEF Winding, Structure, PastConfirmations
  <2> QED BY <2>5, <1>s
<1>23. ASSUME UNCHANGED vars PROVE Structure'
  <2>1. EntriesKept /\ now' = now /\ handoffs' = handoffs /\ task' = task
    BY <1>23 DEF vars, EntriesKept
  <2> QED BY <2>1, <1>s, <1>n, WindingNone
<1> QED
  BY <1>1, <1>2, <1>3, <1>4, <1>5, <1>6, <1>7, <1>8, <1>9, <1>10, <1>11, <1>12,
     <1>13, <1>15, <1>16, <1>17, <1>18, <1>19, <1>20, <1>21, <1>22, <1>23
     DEF Next, Acquiring, Holding, Environment

-----------------------------------------------------------------------------
\* At the start nothing is in flight and nothing is published.
LEMMA StructureInit == Init => Structure
<1> SUFFICES ASSUME Init PROVE Structure
  OBVIOUS
<1>1. /\ now = 0 /\ handoffs = {} /\ \A l \in Lease : entries[l] = NoEntry
      /\ \A pr \in Proc, o \in Owner : task[pr][o] = Idle
  BY DEF Init
<1>2. /\ NoEntry.proc = NoProc /\ \A p \in Path : NoEntry.conf[p] = 0
      /\ Idle.op = "idle" /\ Idle.started = 0
  BY DEF NoEntry, Idle
<1> QED BY <1>1, <1>2
        DEF Structure, EntriesOwned, PastConfirmations, UnpublishedWhileAcquiring,
            OneAcquisitionPerLease, SourcesTransferable, HeldWhileInFlight, RefreshIsLater,
            ReleaseCovered, IsAcquiring, Published

\* In every reachable state an operation in flight is about a lease that is in
\* its own registry (refresh, release) or in none (acquisition), and nothing
\* that a handoff reference names is usable.
THEOREM StructureCorrect == Spec => []Structure
<1>1. TypeOK /\ TypeOK' /\ Structure /\ [Next]_vars => Structure'
  BY StructureStep
<1> QED BY <1>1, StructureInit, TypeCorrect, PTL DEF Spec

-----------------------------------------------------------------------------
(* Adoption *)

\* What most steps do to adoptions: no lease, reference or holder comes to be, entries keep
\* their source and their parking, and attempts go on as they are or end.
EntryKeepsSource(l) ==
  Published(l)' =>
    /\ Published(l) /\ entries'[l].source = entries[l].source
    /\ entries[l].pending_handoff => entries'[l].pending_handoff
    /\ lock_paths(entries'[l].cov) # {}

AttemptKept(pr, o) ==
  IsAcquiring(pr, o)' =>
    LET t == task[pr][o]
        u == task'[pr][o]
    IN  /\ IsAcquiring(pr, o) /\ u.lease = t.lease /\ u.req = t.req /\ u.source = t.source
        /\ u.op \in {"publish", "undo"} =>
             /\ t.op \in {"publish", "undo"}
             /\ Withheld(u) = Withheld(t) /\ u.replaced = t.replaced

HoldersLeave == \A p \in Path : \A h \in tokens'[p].holders : \E g \in tokens[p].holders : g.id = h.id

Unadopting ==
  /\ \A l \in Lease : EntryKeepsSource(l)
  /\ \A pr \in Proc, o \in Owner : AttemptKept(pr, o)
  /\ HoldersLeave
  /\ handoffs' \subseteq handoffs

LEMMA AdoptionsUnadopting ==
  ASSUME TypeOK, TypeOK', Structure, Adoptions, Unadopting
  PROVE  Adoptions'
<1>1. ASSUME NEW s, NEW p \in Path, Gone(s, p) PROVE Gone(s, p)'
  BY <1>1 DEF Gone, Unadopting, HoldersLeave
<1>2. ASSUME NEW s, NEW c, Referenced(s, c)' PROVE Referenced(s, c)
  BY <1>2 DEF Referenced, Unadopting, AttemptKept
<1>3. ASSUME NEW pr \in Proc, NEW o \in Owner, NEW s, IsAdopting(pr, o, s)'
      PROVE  /\ IsAdopting(pr, o, s) /\ Withheld(task'[pr][o]) = Withheld(task[pr][o])
             /\ task'[pr][o].replaced = task[pr][o].replaced
  BY <1>3 DEF IsAdopting, Unadopting, AttemptKept, IsAcquiring
<1>4. ASSUME NEW s \in Lease, Transferable(s) PROVE Transferable(s)'
  BY <1>4 DEF Transferable, Unadopting, AttemptKept, EntryKeepsSource
<1>5. \A t : Withheld(t) \subseteq Path
  BY DEF Withheld, lock_paths, Todo
<1>6. BatchesNonEmpty'
  BY DEF Adoptions, BatchesNonEmpty, Unadopting, EntryKeepsSource, AttemptKept
<1>7. OneCoverage'
  BY <1>2 DEF Adoptions, OneCoverage
<1>8. SourceWithheld'
  <2>1. ASSUME NEW pr \in Proc, NEW o \in Owner, NEW s, IsAdopting(pr, o, s)'
        PROVE  task'[pr][o].req = task[pr][o].req
    BY <2>1 DEF IsAdopting, Unadopting, AttemptKept, IsAcquiring
  <2> QED BY <1>1, <1>3, <1>5, <2>1 DEF Adoptions, SourceWithheld
<1>9. ReplacedIsSource'
  BY DEF Adoptions, ReplacedIsSource, Unadopting, AttemptKept, IsAcquiring
<1>10. OneAdoption'
  BY <1>3 DEF Adoptions, OneAdoption
<1>11. AdoptedForGood'
  <2> SUFFICES ASSUME NEW k \in Lease, NEW s \in Lease, Published(k)', entries'[k].source = s
               PROVE  /\ Transferable(s)'
                      /\ \A pr \in Proc, o \in Owner : ~IsAdopting(pr, o, s)'
                      /\ \A c \in Coverage : Referenced(s, c)' => \A p \in lock_paths(c) : Gone(s, p)'
    BY DEF AdoptedForGood
  <2>1. Published(k) /\ entries[k].source = s
    BY DEF Unadopting, EntryKeepsSource
  <2>2. /\ Transferable(s)
        /\ \A pr \in Proc, o \in Owner : ~IsAdopting(pr, o, s)
        /\ \A c \in Coverage : Referenced(s, c) => \A p \in lock_paths(c) : Gone(s, p)
    BY <2>1 DEF Adoptions, AdoptedForGood
  <2>3. \A c : lock_paths(c) \subseteq Path
    BY DEF lock_paths
  <2> QED BY <1>1, <1>2, <1>3, <1>4, <2>2, <2>3
<1>12. AdoptedOnce'
  BY DEF Adoptions, AdoptedOnce, Unadopting, EntryKeepsSource
<1> QED BY <1>6, <1>7, <1>8, <1>9, <1>10, <1>11, <1>12 DEF Adoptions

\* A sweep, or no change, keeps the sources.
LEMMA SweepKeepsSource ==
  ASSUME TypeOK, Adoptions, NEW pr, NEW o,
         entries' = invalidate_expired(entries, pr, o) \/ entries' = entries
  PROVE  \A l \in Lease : EntryKeepsSource(l)
<1> TAKE l \in Lease
<1>1. EntriesKept
  BY KeptBySweep
<1>2. entries'[l].source = entries[l].source
  BY DEF invalidate_expired, invalidate, TypeOK, Entry
<1>3. Published(l) => lock_paths(entries[l].cov) # {}
  BY DEF Adoptions, BatchesNonEmpty
<1> QED BY <1>1, <1>2, <1>3 DEF EntryKeepsSource, EntriesKept, Published

\* A new attempt keeps what holds of adoptions.
LEMMA AdoptionsStartAcquire ==
  ASSUME TypeOK, TypeOK', Structure, Structure', Adoptions, NEW pr \in Proc, NEW o \in Owner,
         NEW l \in Lease, NEW r \in Coverage, NEW s, NEW cap, FreshLease(l),
         start_acquire(pr, o, l, r, s, cap), lock_paths(r) # {},
         s # NoLease => s \in Lease /\ Referenced(s, r)
  PROVE  Adoptions'
<1>1. PICK u : /\ u.op = "acquire" /\ u.lease = l /\ u.req = r /\ u.source = s
               /\ task' = [task EXCEPT ![pr][o] = u] /\ task[pr][o].op = "idle"
  <2>1. PICK u : /\ u = [Idle EXCEPT !.op = "acquire", !.lease = l, !.req = r,
                                     !.source = s, !.cap = cap, !.started = now]
                 /\ task' = [task EXCEPT ![pr][o] = u] /\ task[pr][o].op = "idle"
    BY DEF start_acquire
  <2>2. u.op = "acquire" /\ u.lease = l /\ u.req = r /\ u.source = s
    BY <2>1 DEF Idle
  <2> QED BY <2>1, <2>2
<1>2. /\ task'[pr][o] = u
      /\ \A qr \in Proc, w \in Owner : qr # pr \/ w # o => task'[qr][w] = task[qr][w]
  BY <1>1, TaskSet DEF TypeOK
<1>3. /\ \A k \in Lease : EntryKeepsSource(k)
      /\ tokens' = tokens /\ handoffs' = handoffs
  BY SweepKeepsSource DEF start_acquire
<1>4. /\ \A k \in Lease : entries[k].source # l
  BY DEF FreshLease
<1>5. ASSUME NEW k \in Lease, NEW c, Referenced(k, c)' PROVE Referenced(k, c)
  <2>1. CASE k = s /\ c = r
    BY <2>1, Sentinels
  <2>2. CASE ~(k = s /\ c = r)
    BY <1>1, <1>2, <1>3, <1>5, <2>2 DEF Referenced, IsAcquiring
  <2> QED BY <2>1, <2>2
<1>6. ASSUME NEW qr \in Proc, NEW w \in Owner, NEW k, IsAdopting(qr, w, k)'
      PROVE  IsAdopting(qr, w, k) /\ task'[qr][w] = task[qr][w]
  BY <1>1, <1>2, <1>6 DEF IsAdopting
<1>7. ASSUME NEW k \in Lease, k # l, Transferable(k) PROVE Transferable(k)'
  BY <1>1, <1>2, <1>3, <1>7 DEF Transferable, EntryKeepsSource, IsAcquiring
<1>g. \A k, p : Gone(k, p)' = Gone(k, p)
  BY <1>3 DEF Gone
<1>8. BatchesNonEmpty'
  BY <1>1, <1>2, <1>3 DEF Adoptions, BatchesNonEmpty, EntryKeepsSource, IsAcquiring
<1>9. OneCoverage'
  BY <1>5 DEF Adoptions, OneCoverage
<1>10. SourceWithheld'
  BY <1>6, <1>g DEF Adoptions, SourceWithheld
<1>11. ReplacedIsSource'
  BY <1>1, <1>2 DEF Adoptions, ReplacedIsSource
<1>12. OneAdoption'
  BY <1>6 DEF Adoptions, OneAdoption
<1>13. AdoptedForGood'
  <2> SUFFICES ASSUME NEW k \in Lease, NEW j \in Lease, Published(k)', entries'[k].source = j
               PROVE  /\ Transferable(j)'
                      /\ \A qr \in Proc, w \in Owner : ~IsAdopting(qr, w, j)'
                      /\ \A c \in Coverage : Referenced(j, c)' => \A p \in lock_paths(c) : Gone(j, p)'
    BY DEF AdoptedForGood
  <2>1. Published(k) /\ entries[k].source = j /\ j # l
    BY <1>3, <1>4 DEF EntryKeepsSource
  <2>2. /\ Transferable(j)
        /\ \A qr \in Proc, w \in Owner : ~IsAdopting(qr, w, j)
        /\ \A c \in Coverage : Referenced(j, c) => \A p \in lock_paths(c) : Gone(j, p)
    BY <2>1 DEF Adoptions, AdoptedForGood
  <2> QED BY <1>5, <1>6, <1>7, <1>g, <2>1, <2>2
<1>14. AdoptedOnce'
  BY <1>3 DEF Adoptions, AdoptedOnce, EntryKeepsSource
<1> QED BY <1>8, <1>9, <1>10, <1>11, <1>12, <1>13, <1>14 DEF Adoptions

\* A grant brings in no holder but its own, and takes its source out.
LEMMA AcquireGone ==
  ASSUME NEW toks \in [Path -> Token], NEW r, NEW w, NEW id, NEW n, NEW sb, NEW src,
         NEW p \in Path, NEW s, s # id,
         (\A h \in toks[p].holders : h.id # s) \/ (s = src /\ r[p] # "None")
  PROVE  \A h \in acquire_holder_records(toks, r, w, id, n, sb, src)[p].holders : h.id # s
<1>1. PICK kept : /\ kept = remove_stale(toks, stale_in_way(toks, r, w, sb))
                  /\ acquire_holder_records(toks, r, w, id, n, sb, src)[p] =
                       IF r[p] = "None" THEN kept[p]
                       ELSE with_holder(kept[p], w, id, r[p], n, sb, src)
  BY DEF acquire_holder_records
<1>2. kept[p] = NoToken \/ kept[p] = toks[p]
  BY <1>1 DEF remove_stale
<1>3. kept[p] \in Token /\ \A h \in kept[p].holders : h \in toks[p].holders
  BY <1>2 DEF NoToken, Token
<1>4. CASE r[p] = "None"
  BY <1>1, <1>3, <1>4
<1>5. CASE r[p] # "None"
  <2>1. \A h \in with_holder(kept[p], w, id, r[p], n, sb, src).holders :
          h.id = id \/ (h \in kept[p].holders /\ h.id # src)
    BY <1>3 DEF with_holder, add_holder, held, Token
  <2> QED BY <1>1, <1>3, <1>5, <2>1
<1> QED BY <1>4, <1>5

\* A commit finds its source at every path, so no other attempt from that source is
\* about to publish or has published, and it takes the source out at every path.
LEMMA AdoptionsCommit ==
  ASSUME TypeOK, TypeOK', Structure, Structure', Adoptions, NEW pr \in Proc, NEW o \in Owner,
         CommitAcquire(pr, o)
  PROVE  Adoptions'
<1>1. PICK t, r, l, s, n, sb :
        /\ t = task[pr][o] /\ t.op = "acquire" /\ r = t.req /\ l = t.lease /\ s = t.source
        /\ sources_valid(tokens, r, o, s, sb)
        /\ tokens' = acquire_holder_records(tokens, r, o, l, n, sb, s)
  BY DEF CommitAcquire
<1>2. PICK u : /\ u = [t EXCEPT !.op = "publish",
                                !.replaced = [p \in Path |-> {h \in tokens[p].holders :
                                                t.req[p] # "None" /\ h.id = t.source}]]
               /\ task' = [task EXCEPT ![pr][o] = u]
  BY <1>1 DEF CommitAcquire
<1>3. /\ t \in TaskRecord /\ l \in Lease /\ s \in Lease \cup {NoLease} /\ r \in Coverage
      /\ IsAcquiring(pr, o) /\ tokens \in [Path -> Token]
  BY <1>1, TaskLease DEF TypeOK, IsAcquiring, TaskRecord
<1>4. /\ u.op = "publish" /\ u.lease = l /\ u.req = r /\ u.source = s
      /\ \A p \in Path : \A h \in u.replaced[p] : h.id = s
  BY <1>1, <1>2, <1>3 DEF TaskRecord
<1>5. /\ task'[pr][o] = u
      /\ \A qr \in Proc, w \in Owner : qr # pr \/ w # o => task'[qr][w] = task[qr][w]
  <2>1. task' = [task EXCEPT ![pr][o] = u]
    BY <1>2
  <2> QED BY <2>1, TaskSet DEF TypeOK
<1>6. entries' = entries /\ handoffs' = handoffs
  BY DEF CommitAcquire
<1>7. ASSUME NEW j \in Lease, Transferable(j) PROVE j # l /\ Transferable(j)'
  BY <1>1, <1>3, <1>4, <1>5, <1>6, <1>7 DEF Transferable, IsAcquiring, Published
<1>8. s # NoLease => s \in Lease /\ Transferable(s) /\ Referenced(s, r)
  BY <1>1, <1>3 DEF Structure, SourcesTransferable, Referenced
<1>9. ASSUME s # NoLease, NEW p \in lock_paths(r) PROVE ~Gone(s, p)
  BY <1>1, <1>9 DEF sources_valid, validate_handoff_source, Gone
<1>10. lock_paths(r) # {} /\ \A c : lock_paths(c) \subseteq Path
  BY <1>1, <1>3 DEF Adoptions, BatchesNonEmpty, lock_paths
<1>11. ASSUME s # NoLease, NEW qr \in Proc, NEW w \in Owner PROVE ~IsAdopting(qr, w, s)
  <2> SUFFICES ASSUME IsAdopting(qr, w, s) PROVE FALSE
    OBVIOUS
  <2>1. task[qr][w].req \in Coverage /\ Referenced(s, task[qr][w].req)
    BY TaskLease DEF Referenced, IsAdopting, IsAcquiring, TaskRecord
  <2>2. task[qr][w].req = r
    BY <1>3, <1>8, <1>11, <2>1 DEF Adoptions, OneCoverage
  <2>3. PICK p \in lock_paths(task[qr][w].req) : Gone(s, p)
    BY <1>8, <1>11 DEF Adoptions, SourceWithheld
  <2> QED BY <1>9, <1>11, <2>2, <2>3
<1>12. ASSUME s # NoLease, NEW k \in Lease, Published(k) PROVE entries[k].source # s
  BY <1>3, <1>8, <1>9, <1>10, <1>12 DEF Adoptions, AdoptedForGood
<1>13. ASSUME NEW j \in Lease, Transferable(j), NEW p \in Path, Gone(j, p) \/ (j = s /\ r[p] # "None")
       PROVE  Gone(j, p)'
  <2>1. j # l /\ ((\A h \in tokens[p].holders : h.id # j) \/ (j = s /\ r[p] # "None"))
    BY <1>7, <1>13 DEF Gone
  <2>2. \A h \in acquire_holder_records(tokens, r, o, l, n, sb, s)[p].holders : h.id # j
    BY <1>3, <2>1, AcquireGone
  <2> QED BY <1>1, <2>2 DEF Gone
<1>14. ASSUME NEW j \in Lease, NEW c PROVE Referenced(j, c)' <=> Referenced(j, c)
  BY <1>1, <1>3, <1>4, <1>5, <1>6 DEF Referenced, IsAcquiring
<1>15. ASSUME NEW qr \in Proc, NEW w \in Owner, NEW j, IsAdopting(qr, w, j)', qr # pr \/ w # o
       PROVE  IsAdopting(qr, w, j) /\ task'[qr][w] = task[qr][w]
  BY <1>5, <1>15 DEF IsAdopting
<1>16. BatchesNonEmpty'
  BY <1>1, <1>3, <1>4, <1>5, <1>6 DEF Adoptions, BatchesNonEmpty, IsAcquiring, Published
<1>17. OneCoverage'
  BY <1>14 DEF Adoptions, OneCoverage
<1>18. SourceWithheld'
  <2> SUFFICES ASSUME NEW qr \in Proc, NEW w \in Owner, NEW j \in Lease, IsAdopting(qr, w, j)'
               PROVE  /\ Withheld(task'[qr][w]) # {}
                      /\ Withheld(task'[qr][w]) \subseteq lock_paths(task'[qr][w].req)
                      /\ \A p \in Withheld(task'[qr][w]) : Gone(j, p)'
    BY DEF SourceWithheld
  <2>1. CASE qr = pr /\ w = o
    <3>1. j = s /\ Withheld(u) = lock_paths(r)
      BY <1>4, <1>5, <2>1 DEF IsAdopting, Withheld
    <3>2. \A p \in lock_paths(r) : p \in Path /\ r[p] # "None"
      BY DEF lock_paths
    <3>3. Transferable(j)
      BY <1>8, <3>1, Sentinels
    <3> QED BY <1>4, <1>5, <1>10, <1>13, <2>1, <3>1, <3>2, <3>3
  <2>2. CASE qr # pr \/ w # o
    <3>1. IsAdopting(qr, w, j) /\ task'[qr][w] = task[qr][w]
      BY <1>15, <2>2
    <3>2. Transferable(j)
      BY <3>1 DEF IsAdopting, IsAcquiring, Structure, SourcesTransferable
    <3>3. Withheld(task[qr][w]) \subseteq Path
      BY DEF Withheld, lock_paths, Todo
    <3>4. /\ Withheld(task[qr][w]) # {} /\ Withheld(task[qr][w]) \subseteq lock_paths(task[qr][w].req)
          /\ \A p \in Withheld(task[qr][w]) : Gone(j, p)
      BY <3>1 DEF Adoptions, SourceWithheld
    <3> QED BY <1>13, <3>1, <3>2, <3>3, <3>4
  <2> QED BY <2>1, <2>2
<1>19. ReplacedIsSource'
  BY <1>4, <1>5 DEF Adoptions, ReplacedIsSource
<1>20. OneAdoption'
  <2>1. \A qr \in Proc, w \in Owner, j \in Lease :
          IsAdopting(qr, w, j)' => \/ (qr = pr /\ w = o /\ j = s)
                                   \/ (IsAdopting(qr, w, j) /\ j # s)
    BY <1>4, <1>5, <1>11, <1>15, Sentinels DEF IsAdopting
  <2> QED BY <2>1 DEF Adoptions, OneAdoption
<1>21. AdoptedForGood'
  <2> SUFFICES ASSUME NEW k \in Lease, NEW j \in Lease, Published(k), entries[k].source = j
               PROVE  /\ Transferable(j)'
                      /\ \A qr \in Proc, w \in Owner : ~IsAdopting(qr, w, j)'
                      /\ \A c \in Coverage : Referenced(j, c)' => \A p \in lock_paths(c) : Gone(j, p)'
    BY <1>6 DEF AdoptedForGood, Published
  <2>1. /\ Transferable(j) /\ j # s
        /\ \A qr \in Proc, w \in Owner : ~IsAdopting(qr, w, j)
        /\ \A c \in Coverage : Referenced(j, c) => \A p \in lock_paths(c) : Gone(j, p)
    BY <1>12, Sentinels DEF Adoptions, AdoptedForGood
  <2>2. ASSUME NEW qr \in Proc, NEW w \in Owner PROVE ~IsAdopting(qr, w, j)'
    BY <1>4, <1>5, <1>15, <2>1 DEF IsAdopting
  <2> QED BY <1>7, <1>10, <1>13, <1>14, <2>1, <2>2
<1>22. AdoptedOnce'
  BY <1>6 DEF Adoptions, AdoptedOnce, Published
<1> QED BY <1>16, <1>17, <1>18, <1>19, <1>20, <1>21, <1>22 DEF Adoptions

\* A publication ends the only attempt from its source, which is out of the store.
LEMMA AdoptionsPublish ==
  ASSUME TypeOK, TypeOK', Structure, Structure', Adoptions, NEW pr \in Proc, NEW o \in Owner,
         PublishLease(pr, o)
  PROVE  Adoptions'
<1>1. PICK t, r, l, s, E :
        /\ t = task[pr][o] /\ t.op = "publish" /\ r = t.req /\ l = t.lease /\ s = t.source
        /\ E = invalidate_expired(entries, pr, o)
        /\ entries' = [E EXCEPT ![l] =
                         [NoEntry EXCEPT !.proc = pr, !.owner = o, !.cov = r,
                                         !.conf = [p \in Path |-> IF r[p] = "None" THEN 0 ELSE t.started],
                                         !.source = s]]
        /\ task' = [task EXCEPT ![pr][o] = Idle]
  BY DEF PublishLease
<1>2. /\ t \in TaskRecord /\ l \in Lease /\ s \in Lease \cup {NoLease} /\ r \in Coverage
      /\ IsAcquiring(pr, o) /\ IsAdopting(pr, o, s)
  BY <1>1, TaskLease DEF IsAcquiring, IsAdopting, TaskRecord
<1>3. tokens' = tokens /\ handoffs' = handoffs /\ Idle.op = "idle"
  BY DEF PublishLease, Idle
<1>4. /\ task'[pr][o] = Idle
      /\ \A qr \in Proc, w \in Owner : qr # pr \/ w # o => task'[qr][w] = task[qr][w]
  BY <1>1, TaskSet DEF TypeOK
<1>5. E \in [Lease -> Entry]
  BY <1>1, InvalidateExpiredType DEF TypeOK
<1>6. entries'[l].source = s /\ entries'[l].cov = r /\ ~Published(l)
  BY <1>1, <1>2, <1>5 DEF NoEntry, Structure, UnpublishedWhileAcquiring
<1>7. ASSUME NEW k \in Lease, k # l
      PROVE  /\ entries'[k].source = entries[k].source /\ entries'[k].cov = entries[k].cov
             /\ entries'[k].proc = entries[k].proc
             /\ entries'[k].pending_handoff = entries[k].pending_handoff
  <2>1. entries'[k] = E[k]
    BY <1>1, <1>2, <1>5, <1>7
  <2>2. E = invalidate_expired(entries, pr, o) /\ now \in Nat /\ entries \in [Lease -> Entry]
    BY <1>1 DEF TypeOK
  <2>3. E[k].source = entries[k].source
    BY <2>2 DEF invalidate_expired, invalidate, Entry
  <2>4. /\ E[k].cov = entries[k].cov /\ E[k].proc = entries[k].proc
        /\ E[k].pending_handoff = entries[k].pending_handoff
    BY <2>2, SweepKeeps
  <2> QED BY <2>1, <2>3, <2>4
<1>8. ASSUME NEW j \in Lease, Transferable(j) PROVE j # l /\ Transferable(j)'
  BY <1>1, <1>2, <1>3, <1>4, <1>7, <1>8 DEF Transferable, IsAcquiring, Published
<1>9. ASSUME NEW j, NEW c, Referenced(j, c)' PROVE Referenced(j, c)
  BY <1>3, <1>4, <1>9 DEF Referenced, IsAcquiring
<1>10. ASSUME NEW qr \in Proc, NEW w \in Owner, NEW j, IsAdopting(qr, w, j)'
       PROVE  IsAdopting(qr, w, j) /\ task'[qr][w] = task[qr][w] /\ (qr # pr \/ w # o)
  BY <1>3, <1>4, <1>10 DEF IsAdopting
<1>g. \A k, p : Gone(k, p)' = Gone(k, p)
  BY <1>3 DEF Gone
<1>11. ASSUME NEW k \in Lease, Published(k), s # NoLease PROVE entries[k].source # s
  BY <1>2, <1>11 DEF Adoptions, AdoptedForGood
<1>12. BatchesNonEmpty'
  <2>1. lock_paths(r) # {}
    BY <1>1, <1>2 DEF Adoptions, BatchesNonEmpty
  <2>2. \A k \in Lease : Published(k)' => lock_paths(entries'[k].cov) # {}
    BY <1>6, <1>7, <2>1 DEF Adoptions, BatchesNonEmpty, Published
  <2>3. \A qr \in Proc, w \in Owner : IsAcquiring(qr, w)' => lock_paths(task'[qr][w].req) # {}
    BY <1>3, <1>4 DEF Adoptions, BatchesNonEmpty, IsAcquiring
  <2> QED BY <1>3, <2>2, <2>3 DEF Adoptions, BatchesNonEmpty
<1>13. OneCoverage'
  BY <1>9 DEF Adoptions, OneCoverage
<1>14. SourceWithheld'
  BY <1>10, <1>g DEF Adoptions, SourceWithheld
<1>15. ReplacedIsSource'
  BY <1>3, <1>4 DEF Adoptions, ReplacedIsSource
<1>16. OneAdoption'
  BY <1>10 DEF Adoptions, OneAdoption
<1>17. AdoptedForGood'
  <2> SUFFICES ASSUME NEW k \in Lease, NEW j \in Lease, Published(k)', entries'[k].source = j
               PROVE  /\ Transferable(j)'
                      /\ \A qr \in Proc, w \in Owner : ~IsAdopting(qr, w, j)'
                      /\ \A c \in Coverage : Referenced(j, c)' => \A p \in lock_paths(c) : Gone(j, p)'
    BY DEF AdoptedForGood
  <2>1. CASE k = l
    <3>1. j = s /\ s \in Lease
      BY <1>6, <2>1
    <3>2. Transferable(s)
      BY <1>1, <1>2, <3>1 DEF Structure, SourcesTransferable
    <3>3. \A p \in lock_paths(r) : Gone(s, p)
      BY <1>1, <1>2, <3>1 DEF Adoptions, SourceWithheld, Withheld
    <3>4. Referenced(s, r)
      BY <1>1, <1>2 DEF Referenced
    <3>5. \A c \in Coverage : Referenced(s, c) => c = r
      BY <1>2, <3>1, <3>4 DEF Adoptions, OneCoverage
    <3>6. \A qr \in Proc, w \in Owner : ~IsAdopting(qr, w, s)'
      BY <1>2, <1>10, <3>1 DEF Adoptions, OneAdoption
    <3> QED BY <1>8, <1>9, <1>g, <3>1, <3>2, <3>3, <3>5, <3>6
  <2>2. CASE k # l
    <3>1. Published(k) /\ entries[k].source = j
      BY <1>7, <2>2 DEF Published
    <3>2. /\ Transferable(j)
          /\ \A qr \in Proc, w \in Owner : ~IsAdopting(qr, w, j)
          /\ \A c \in Coverage : Referenced(j, c) => \A p \in lock_paths(c) : Gone(j, p)
      BY <3>1 DEF Adoptions, AdoptedForGood
    <3> QED BY <1>8, <1>9, <1>10, <1>g, <3>2
  <2> QED BY <2>1, <2>2
<1>18. AdoptedOnce'
  <2> SUFFICES ASSUME NEW k \in Lease, NEW j \in Lease, Published(k)', Published(j)',
                      entries'[k].source # NoLease, entries'[k].source = entries'[j].source
               PROVE  k = j
    BY DEF AdoptedOnce
  <2>1. CASE k = l \/ j = l
    BY <1>6, <1>7, <1>11, <2>1 DEF Published
  <2>2. CASE k # l /\ j # l
    BY <1>7, <2>2 DEF Adoptions, AdoptedOnce, Published
  <2> QED BY <2>1, <2>2
<1> QED BY <1>12, <1>13, <1>14, <1>15, <1>16, <1>17, <1>18 DEF Adoptions

\* What an undo leaves in a token: holders that were there, and the holders it puts back.
LEMMA UndoneHolders ==
  ASSUME NEW tok \in Token, NEW w, NEW id, NEW back \in SUBSET Holder, NEW n, NEW sb
  PROVE  /\ \A h \in replace_holder(tok, w, id, back, sb).holders : h \in tok.holders \/ h \in back
         /\ \A h \in mutate_holder_record(tok, w, id, n, sb, TRUE).holders : h \in tok.holders
<1>1. ASSUME NEW H \in SUBSET Holder PROVE recompute([tok EXCEPT !.holders = H]).holders \subseteq H
  BY DEF recompute, NoToken, Token
<1>2. \A h \in replace_holder(tok, w, id, back, sb).holders : h \in tok.holders \/ h \in back
  <2>1. PICK others, rest : /\ others = {h \in tok.holders : h.id # id /\ h.time >= sb}
                            /\ rest = {r \in back : r.time >= sb /\ \A h \in others : h.id # r.id}
    OBVIOUS
  <2>2. others \cup rest \in SUBSET Holder
    BY <2>1 DEF Token
  <2>3. \/ replace_holder(tok, w, id, back, sb) = tok
        \/ replace_holder(tok, w, id, back, sb) = recompute([tok EXCEPT !.holders = others \cup rest])
    BY <2>1 DEF replace_holder
  <2> QED BY <1>1, <2>1, <2>2, <2>3
<1>3. \A h \in mutate_holder_record(tok, w, id, n, sb, TRUE).holders : h \in tok.holders
  <2>1. PICK others : others = {h \in tok.holders : h.id # id /\ h.time >= sb}
    OBVIOUS
  <2>2. others \in SUBSET Holder /\ others \cup {} = others
    BY <2>1 DEF Token
  <2>3. \/ mutate_holder_record(tok, w, id, n, sb, TRUE) = tok
        \/ mutate_holder_record(tok, w, id, n, sb, TRUE) = recompute([tok EXCEPT !.holders = others \cup {}])
    BY <2>1 DEF mutate_holder_record
  <2> QED BY <1>1, <2>1, <2>2, <2>3
<1> QED BY <1>2, <1>3

\* An undo puts its own source back, at the path where it stops standing in for it.
LEMMA AdoptionsUndo ==
  ASSUME TypeOK, TypeOK', Structure, Structure', Adoptions, NEW pr \in Proc, NEW o \in Owner,
         NEW ok \in Outcome, UndoPath(pr, o, ok)
  PROVE  Adoptions'
<1>1. PICK t, s : t = task[pr][o] /\ t.op = "undo" /\ s = t.source
  BY DEF UndoPath
<1>2. PICK p \in Path :
        /\ IsLast(p, Todo(t))
        /\ tokens' = IF ~ok THEN tokens
                     ELSE [tokens EXCEPT ![p] =
                             IF t.replaced[p] # {}
                             THEN replace_holder(@, o, t.lease, t.replaced[p], now_ns(pr) - TTL)
                             ELSE mutate_holder_record(@, o, t.lease, now_ns(pr), 0, TRUE)]
        /\ task' = [task EXCEPT ![pr][o] =
                      IF Todo(t) = {p} THEN Idle
                      ELSE [t EXCEPT !.result[p] = IF ok THEN "ok" ELSE "err"]]
  BY <1>1 DEF UndoPath
<1>3. PICK u : /\ u = IF Todo(t) = {p} THEN Idle
                      ELSE [t EXCEPT !.result[p] = IF ok THEN "ok" ELSE "err"]
               /\ task' = [task EXCEPT ![pr][o] = u]
  BY <1>2
<1>4. /\ t \in TaskRecord /\ s \in Lease \cup {NoLease} /\ IsAcquiring(pr, o) /\ IsAdopting(pr, o, s)
      /\ tokens \in [Path -> Token] /\ t.replaced[p] \in SUBSET Holder
  BY <1>1, TaskLease DEF TypeOK, IsAcquiring, IsAdopting, TaskRecord
<1>5. u.op = "undo" =>
        /\ u.lease = t.lease /\ u.req = t.req /\ u.source = s /\ u.replaced = t.replaced
        /\ Todo(u) = Todo(t) \ {p} /\ Todo(t) # {p}
  BY <1>1, <1>3, <1>4 DEF TaskRecord, Idle, Todo
<1>6. u.op \in {"idle", "undo"}
  BY <1>1, <1>3, <1>4 DEF TaskRecord, Idle
<1>7. /\ task'[pr][o] = u
      /\ \A qr \in Proc, w \in Owner : qr # pr \/ w # o => task'[qr][w] = task[qr][w]
  <2>1. task' = [task EXCEPT ![pr][o] = u]
    BY <1>3
  <2> QED BY <2>1, TaskSet DEF TypeOK
<1>8. entries' = entries /\ handoffs' = handoffs
  BY DEF UndoPath
<1>9. ASSUME NEW j, NEW q \in Path, Gone(j, q), j # s \/ q # p PROVE Gone(j, q)'
  <2>1. CASE tokens'[q] = tokens[q]
    BY <1>9, <2>1 DEF Gone
  <2>2. CASE q = p /\ tokens'[q] = replace_holder(tokens[q], o, t.lease, t.replaced[q], now_ns(pr) - TTL)
    <3>1. \A h \in t.replaced[q] : h.id = s
      BY <1>1 DEF Adoptions, ReplacedIsSource
    <3>2. \A h \in tokens'[q].holders : h \in tokens[q].holders \/ h \in t.replaced[q]
      <4>1. PICK tok \in Token, back \in SUBSET Holder, sb \in {now_ns(pr) - TTL} :
              tok = tokens[q] /\ back = t.replaced[q] /\ sb = now_ns(pr) - TTL
        BY <1>4, <2>2
      <4>2. \A h \in replace_holder(tok, o, t.lease, back, sb).holders : h \in tok.holders \/ h \in back
        BY UndoneHolders
      <4> QED BY <2>2, <4>1, <4>2
    <3> QED BY <1>9, <2>2, <3>1, <3>2 DEF Gone
  <2>3. CASE tokens'[q] = mutate_holder_record(tokens[q], o, t.lease, now_ns(pr), 0, TRUE)
    <3>1. \A h \in tokens'[q].holders : h \in tokens[q].holders
      BY <1>4, <2>3, UndoneHolders
    <3> QED BY <1>9, <3>1 DEF Gone
  <2> QED BY <1>2, <1>4, <2>1, <2>2, <2>3
<1>10. ASSUME NEW j, NEW c, Referenced(j, c)' PROVE Referenced(j, c)
  BY <1>1, <1>4, <1>5, <1>6, <1>7, <1>8, <1>10 DEF Referenced, IsAcquiring
<1>11. ASSUME NEW qr \in Proc, NEW w \in Owner, NEW j, IsAdopting(qr, w, j)' PROVE IsAdopting(qr, w, j)
  BY <1>1, <1>4, <1>5, <1>6, <1>7, <1>11 DEF IsAdopting
<1>12. ASSUME NEW j \in Lease, Transferable(j) PROVE Transferable(j)'
  BY <1>1, <1>4, <1>5, <1>6, <1>7, <1>8, <1>12 DEF Transferable, IsAcquiring, Published
<1>13. BatchesNonEmpty'
  BY <1>1, <1>4, <1>5, <1>6, <1>7, <1>8 DEF Adoptions, BatchesNonEmpty, IsAcquiring, Published
<1>14. OneCoverage'
  BY <1>10 DEF Adoptions, OneCoverage
<1>15. SourceWithheld'
  <2> SUFFICES ASSUME NEW qr \in Proc, NEW w \in Owner, NEW j \in Lease, IsAdopting(qr, w, j)'
               PROVE  /\ Withheld(task'[qr][w]) # {}
                      /\ Withheld(task'[qr][w]) \subseteq lock_paths(task'[qr][w].req)
                      /\ \A q \in Withheld(task'[qr][w]) : Gone(j, q)'
    BY DEF SourceWithheld
  <2>0. \A v : Withheld(v) \subseteq Path
    BY DEF Withheld, lock_paths, Todo
  <2>1. /\ Withheld(task[qr][w]) # {} /\ Withheld(task[qr][w]) \subseteq lock_paths(task[qr][w].req)
        /\ \A q \in Withheld(task[qr][w]) : Gone(j, q)
    BY <1>11 DEF Adoptions, SourceWithheld
  <2>2. CASE qr = pr /\ w = o
    <3>1. u.op = "undo" /\ j = s
      BY <1>5, <1>6, <1>7, <2>2 DEF IsAdopting
    <3>2. Withheld(t) = Todo(t) /\ Withheld(u) = Todo(t) \ {p} /\ u.req = t.req
      BY <1>1, <1>5, <3>1 DEF Withheld
    <3>3. Todo(t) \ {p} # {}
      BY <1>2, <1>5, <3>1 DEF IsLast
    <3> QED BY <1>1, <1>7, <1>9, <2>0, <2>1, <2>2, <3>2, <3>3
  <2>3. CASE qr # pr \/ w # o
    <3>1. j # s
      BY <1>4, <1>11, <2>3 DEF Adoptions, OneAdoption
    <3> QED BY <1>7, <1>9, <2>0, <2>1, <2>3, <3>1
  <2> QED BY <2>2, <2>3
<1>16. ReplacedIsSource'
  BY <1>1, <1>5, <1>6, <1>7 DEF Adoptions, ReplacedIsSource
<1>17. OneAdoption'
  BY <1>11 DEF Adoptions, OneAdoption
<1>18. AdoptedForGood'
  <2> SUFFICES ASSUME NEW k \in Lease, NEW j \in Lease, Published(k), entries[k].source = j
               PROVE  /\ Transferable(j)'
                      /\ \A qr \in Proc, w \in Owner : ~IsAdopting(qr, w, j)'
                      /\ \A c \in Coverage : Referenced(j, c)' => \A q \in lock_paths(c) : Gone(j, q)'
    BY <1>8 DEF AdoptedForGood, Published
  <2>1. /\ Transferable(j) /\ j # s
        /\ \A qr \in Proc, w \in Owner : ~IsAdopting(qr, w, j)
        /\ \A c \in Coverage : Referenced(j, c) => \A q \in lock_paths(c) : Gone(j, q)
    BY <1>4 DEF Adoptions, AdoptedForGood
  <2>2. \A c : lock_paths(c) \subseteq Path
    BY DEF lock_paths
  <2> QED BY <1>9, <1>10, <1>11, <1>12, <2>1, <2>2
<1>19. AdoptedOnce'
  BY <1>8 DEF Adoptions, AdoptedOnce, Published
<1> QED BY <1>13, <1>14, <1>15, <1>16, <1>17, <1>18, <1>19 DEF Adoptions

\* A lease handed off is nobody's source yet: its reference is the first.
LEMMA AdoptionsHandoff ==
  ASSUME TypeOK, TypeOK', Structure, Structure', Adoptions, NEW pr \in Proc, NEW o \in Owner,
         NEW l \in Lease, Handoff(pr, o, l)
  PROVE  Adoptions'
<1>1. PICK E \in [Lease -> Entry] : E = invalidate_expired(entries, pr, o)
  BY InvalidateExpiredType DEF TypeOK
<1>2. tokens' = tokens /\ task' = task
  BY DEF Handoff
<1>3. CASE entries' = E /\ handoffs' = handoffs
  <2>1. \A k \in Lease : EntryKeepsSource(k)
    BY <1>1, <1>3, SweepKeepsSource
  <2>2. Unadopting
    BY <1>2, <1>3, <2>1 DEF Unadopting, AttemptKept, HoldersLeave, IsAcquiring
  <2> QED BY <2>2, AdoptionsUnadopting
<1>4. CASE /\ capability_matches(E, pr, l) /\ entries' = [E EXCEPT ![l].pending_handoff = TRUE]
           /\ handoffs' = handoffs \cup {[lease |-> l, owner |-> o, cov |-> E[l].cov]}
  <2>1. ASSUME NEW k \in Lease
        PROVE  /\ E[k].proc = entries[k].proc /\ E[k].cov = entries[k].cov
               /\ E[k].source = entries[k].source
               /\ E[k].pending_handoff = entries[k].pending_handoff
    <3>1. E[k].source = entries[k].source
      BY <1>1 DEF invalidate_expired, invalidate, TypeOK, Entry
    <3> QED BY <1>1, <3>1, SweepKeeps DEF TypeOK
  <2>2. ASSUME NEW k \in Lease
        PROVE  /\ entries'[k].proc = entries[k].proc /\ entries'[k].cov = entries[k].cov
               /\ entries'[k].source = entries[k].source
               /\ entries[k].pending_handoff => entries'[k].pending_handoff
    BY <1>1, <1>4, <2>1 DEF Entry
  <2>3. Published(l) /\ ~entries[l].pending_handoff
    BY <1>4, <2>1, RequestAssumption DEF capability_matches, Published
  <2>4. ~Transferable(l)
    BY <2>3 DEF Transferable
  <2>5. /\ \A c : ~Referenced(l, c)
        /\ \A k \in Lease : Published(k) => entries[k].source # l
    BY <2>4 DEF Structure, SourcesTransferable, Referenced, Adoptions, AdoptedForGood
  <2>6. PICK c0 : c0 = entries[l].cov /\ lock_paths(c0) # {}
    BY <2>3 DEF Adoptions, BatchesNonEmpty
  <2>7. \A m \in handoffs' : m \in handoffs \/ (m.lease = l /\ m.cov = c0)
    BY <1>4, <2>1, <2>6
  <2>8. ASSUME NEW j \in Lease, NEW c, Referenced(j, c)'
        PROVE  (j = l /\ c = c0) \/ (j # l /\ Referenced(j, c))
    BY <1>2, <2>5, <2>7, <2>8 DEF Referenced, IsAcquiring
  <2>9. ASSUME NEW j \in Lease, Transferable(j) PROVE Transferable(j)'
    BY <1>2, <2>2, <2>9 DEF Transferable, IsAcquiring, Published
  <2>10. BatchesNonEmpty'
    BY <1>2, <2>2, <2>6, <2>7 DEF Adoptions, BatchesNonEmpty, IsAcquiring, Published
  <2>11. OneCoverage'
    BY <2>8 DEF Adoptions, OneCoverage
  <2>12. SourceWithheld' /\ ReplacedIsSource' /\ OneAdoption'
    BY <1>2 DEF Adoptions, SourceWithheld, ReplacedIsSource, OneAdoption, IsAdopting, Gone
  <2>13. AdoptedForGood'
    <3> SUFFICES ASSUME NEW k \in Lease, NEW j \in Lease, Published(k)', entries'[k].source = j
                 PROVE  /\ Transferable(j)'
                        /\ \A qr \in Proc, w \in Owner : ~IsAdopting(qr, w, j)'
                        /\ \A c \in Coverage : Referenced(j, c)' => \A p \in lock_paths(c) : Gone(j, p)'
      BY DEF AdoptedForGood
    <3>1. Published(k) /\ entries[k].source = j /\ j # l
      BY <2>2, <2>5 DEF Published
    <3>2. /\ Transferable(j)
          /\ \A qr \in Proc, w \in Owner : ~IsAdopting(qr, w, j)
          /\ \A c \in Coverage : Referenced(j, c) => \A p \in lock_paths(c) : Gone(j, p)
      BY <3>1 DEF Adoptions, AdoptedForGood
    <3> QED BY <1>2, <2>8, <2>9, <3>1, <3>2 DEF IsAdopting, Gone
  <2>14. AdoptedOnce'
    BY <2>2 DEF Adoptions, AdoptedOnce, Published
  <2> QED BY <2>10, <2>11, <2>12, <2>13, <2>14 DEF Adoptions
<1> QED BY <1>1, <1>3, <1>4 DEF Handoff

\* A refresh or release of a holder brings in no other.
LEMMA MutatedHolders ==
  ASSUME NEW tok \in Token, NEW w, NEW id, NEW n \in Int, NEW sb, NEW release
  PROVE  \A h \in mutate_holder_record(tok, w, id, n, sb, release).holders :
           \E g \in tok.holders : g.id = h.id
<1>1. PICK mine, others : /\ mine = {h \in tok.holders : h.id = id}
                          /\ others = {h \in tok.holders : h.id # id /\ h.time >= sb}
  OBVIOUS
<1>2. PICK kept : kept = IF release THEN {} ELSE {[h EXCEPT !.time = n] : h \in mine}
  OBVIOUS
<1>3. \A h \in kept : h \in Holder /\ \E g \in tok.holders : g.id = h.id
  BY <1>1, <1>2 DEF Token, Holder
<1>4. \A h \in others : h \in Holder /\ h \in tok.holders
  BY <1>1 DEF Token
<1>5. recompute([tok EXCEPT !.holders = others \cup kept]).holders \subseteq others \cup kept
  BY <1>3, <1>4 DEF recompute, NoToken, Token
<1>6. \/ mutate_holder_record(tok, w, id, n, sb, release) = tok
      \/ mutate_holder_record(tok, w, id, n, sb, release) = recompute([tok EXCEPT !.holders = others \cup kept])
  BY <1>1, <1>2 DEF mutate_holder_record
<1> QED BY <1>3, <1>4, <1>5, <1>6

LEMMA HoldersStay ==
  ASSUME tokens' = tokens
  PROVE  HoldersLeave
BY DEF HoldersLeave

\* A step that sets one operation to one that acquires nothing.
LEMMA AttemptsKept ==
  ASSUME TypeOK, NEW pr \in Proc, NEW o \in Owner, NEW u, task' = [task EXCEPT ![pr][o] = u],
         u.op \notin {"acquire", "publish", "undo"}
  PROVE  \A qr \in Proc, w \in Owner : AttemptKept(qr, w)
<1>1. /\ task'[pr][o] = u
      /\ \A qr \in Proc, w \in Owner : qr # pr \/ w # o => task'[qr][w] = task[qr][w]
  BY TaskSet DEF TypeOK
<1> QED BY <1>1 DEF AttemptKept, IsAcquiring

\* The steps of the heartbeat, releases and lookups.
LEMMA HoldingUnadopting ==
  ASSUME TypeOK, TypeOK', Structure, Adoptions, NEW pr \in Proc, NEW o \in Owner, Holding(pr, o),
         ~ \E l \in Lease : Handoff(pr, o, l)
  PROVE  Unadopting
<1>i. Idle.op = "idle"
  BY DEF Idle
<1>s. (task' = task) => \A qr \in Proc, w \in Owner : AttemptKept(qr, w)
  BY DEF AttemptKept, IsAcquiring
<1>e. (entries' = entries) => \A k \in Lease : EntryKeepsSource(k)
  BY SweepKeepsSource
<1>1. ASSUME NEW l \in Lease, StartRefresh(pr, o, l) PROVE Unadopting
  <2>1. PICK u : /\ u.op = "refresh" /\ (task' = task \/ task' = [task EXCEPT ![pr][o] = u])
    <3>1. PICK E, u : /\ u = [Idle EXCEPT !.op = "refresh", !.lease = l, !.started = now,
                                          !.result = todo_for(lock_paths(E[l].cov))]
                      /\ (task' = task \/ task' = [task EXCEPT ![pr][o] = u])
      BY <1>1 DEF StartRefresh
    <3>2. u.op = "refresh"
      BY <3>1 DEF Idle
    <3> QED BY <3>1, <3>2
  <2>2. \A k \in Lease : EntryKeepsSource(k)
    BY <1>1, SweepKeepsSource DEF StartRefresh
  <2>3. \A qr \in Proc, w \in Owner : AttemptKept(qr, w)
    BY <1>s, <2>1, AttemptsKept
  <2>4. HoldersLeave /\ handoffs' = handoffs
    BY <1>1, HoldersStay DEF StartRefresh
  <2> QED BY <2>2, <2>3, <2>4 DEF Unadopting
<1>2. ASSUME NEW ok \in Outcome, RefreshPath(pr, o, ok) PROVE Unadopting
  <2>0. PICK t, n, sb : /\ t = task[pr][o] /\ t.op = "refresh" /\ n = t.started + Skew[pr]
                        /\ sb = stale_before_at(pr, t.started)
    BY <1>2 DEF RefreshPath
  <2>1. \E p \in Path : \E res :
          /\ tokens' = IF ~ok THEN tokens
                       ELSE [tokens EXCEPT ![p] = mutate_holder_record(@, o, t.lease, n, sb, FALSE)]
          /\ task' = [task EXCEPT ![pr][o] = [t EXCEPT !.result[p] = res]]
    BY <1>2, <2>0 DEF RefreshPath
  <2>2. t \in TaskRecord /\ n \in Int /\ tokens \in [Path -> Token]
    <3>1. t \in TaskRecord /\ t.started \in Nat /\ Skew[pr] \in Nat
      BY <2>0, TaskLease, SkewAssumption
    <3> QED BY <2>0, <3>1 DEF TypeOK
  <2>3. \A qr \in Proc, w \in Owner : AttemptKept(qr, w)
    <3>1. PICK p, res, u : u = [t EXCEPT !.result[p] = res] /\ task' = [task EXCEPT ![pr][o] = u]
      BY <2>1
    <3>2. u.op = "refresh"
      BY <2>0, <2>2, <3>1 DEF TaskRecord
    <3> QED BY <3>1, <3>2, AttemptsKept
  <2>4. HoldersLeave
    <3>1. \A q \in Path : \/ tokens'[q] = tokens[q]
                          \/ tokens'[q] = mutate_holder_record(tokens[q], o, t.lease, n, sb, FALSE)
      BY <2>1, <2>2
    <3>2. ASSUME NEW q \in Path
          PROVE  \A h \in mutate_holder_record(tokens[q], o, t.lease, n, sb, FALSE).holders :
                   \E g \in tokens[q].holders : g.id = h.id
      <4>1. PICK tok \in Token, m \in Int : tok = tokens[q] /\ m = n
        BY <2>2
      <4>0. PICK id, before, release : id = t.lease /\ before = sb /\ release = FALSE
        OBVIOUS
      <4>2. \A h \in mutate_holder_record(tok, o, id, m, before, release).holders :
              \E g \in tok.holders : g.id = h.id
        BY MutatedHolders
      <4> QED BY <4>0, <4>1, <4>2
    <3> QED BY <3>1, <3>2 DEF HoldersLeave
  <2>5. entries' = entries /\ handoffs' = handoffs
    BY <1>2 DEF RefreshPath
  <2> QED BY <1>e, <2>3, <2>4, <2>5 DEF Unadopting
<1>3. ASSUME ApplyRefresh(pr, o) PROVE Unadopting
  <2>1. PICK t : /\ t = task[pr][o] /\ t.op = "refresh" /\ t.lease \in Lease /\ t.started \in Nat
    BY <1>3, TaskLease DEF ApplyRefresh
  <2>2. /\ t.lease \in registry(entries, pr, o) /\ entries \in [Lease -> Entry] /\ now \in Nat
        /\ entries' = apply_refresh_results(entries, pr, o, t.lease, t.result, t.started)
    BY <1>3, <2>1 DEF Structure, HeldWhileInFlight, TypeOK, ApplyRefresh
  <2>3. ASSUME NEW k \in Lease
        PROVE  /\ entries'[k].proc = entries[k].proc /\ entries'[k].cov = entries[k].cov
               /\ entries'[k].pending_handoff = entries[k].pending_handoff
               /\ entries'[k].source = entries[k].source
    BY <2>1, <2>2, ApplyKeeps
  <2>5. \A k \in Lease : EntryKeepsSource(k)
    BY <2>3 DEF EntryKeepsSource, Published, Adoptions, BatchesNonEmpty
  <2>6. task' = [task EXCEPT ![pr][o] = Idle] /\ tokens' = tokens /\ handoffs' = handoffs
    BY <1>3 DEF ApplyRefresh
  <2>7. \A qr \in Proc, w \in Owner : AttemptKept(qr, w)
    BY <1>i, <2>6, AttemptsKept
  <2> QED BY <2>5, <2>6, <2>7, HoldersStay DEF Unadopting
<1>4. ASSUME NEW l \in Lease, NEW S, start_release(pr, o, l, S) PROVE Unadopting
  <2>1. PICK u : /\ u = [Idle EXCEPT !.op = "release", !.lease = l, !.started = now, !.result = todo_for(S)]
                 /\ task' = [task EXCEPT ![pr][o] = u]
    BY <1>4 DEF start_release
  <2>2. u.op = "release"
    BY <2>1 DEF Idle
  <2>3. \A qr \in Proc, w \in Owner : AttemptKept(qr, w)
    BY <2>1, <2>2, AttemptsKept
  <2>4. entries' = entries /\ handoffs' = handoffs /\ tokens' = tokens
    BY <1>4 DEF start_release
  <2> QED BY <1>e, <2>3, <2>4, HoldersStay DEF Unadopting
<1>5. ASSUME NEW l \in Lease, Forget(pr, o, l) PROVE Unadopting
  <2>1. \A k \in Lease : entries'[k] = entries[k] \/ entries'[k] = NoEntry
    BY <1>5 DEF Forget, TypeOK
  <2>2. \A k \in Lease : EntryKeepsSource(k)
    BY <2>1 DEF EntryKeepsSource, Published, NoEntry, Adoptions, BatchesNonEmpty
  <2>3. task' = task /\ tokens' = tokens /\ handoffs' = handoffs
    BY <1>5 DEF Forget
  <2> QED BY <1>s, <2>2, <2>3, HoldersStay DEF Unadopting
<1>6. ASSUME NEW ok \in Outcome, ReleasePath(pr, o, ok) PROVE Unadopting
  <2>0. PICK t : t = task[pr][o] /\ t.op = "release"
    BY <1>6 DEF ReleasePath
  <2>1. PICK p \in Path :
          /\ tokens' = IF ~ok THEN tokens
                       ELSE [tokens EXCEPT ![p] = mutate_holder_record(@, o, t.lease, now_ns(pr), 0, TRUE)]
          /\ entries' = [entries EXCEPT ![t.lease] =
                           IF ok THEN remove_path(@, p) ELSE invalidate(@, "ReleaseFailed")]
          /\ task' = [task EXCEPT ![pr][o] =
                        IF Todo(t) = {p} THEN Idle ELSE [t EXCEPT !.result[p] = "ok"]]
    BY <1>6, <2>0 DEF ReleasePath
  <2>2. t \in TaskRecord /\ tokens \in [Path -> Token] /\ now_ns(pr) \in Int
    <3>1. t \in TaskRecord /\ now \in Nat /\ Skew[pr] \in Nat
      BY <2>0, TaskLease, SkewAssumption DEF TypeOK
    <3> QED BY <3>1 DEF TypeOK, now_ns
  <2>3. \A qr \in Proc, w \in Owner : AttemptKept(qr, w)
    <3>1. PICK u : /\ u = IF Todo(t) = {p} THEN Idle ELSE [t EXCEPT !.result[p] = "ok"]
                   /\ task' = [task EXCEPT ![pr][o] = u]
      BY <2>1
    <3>2. u.op \in {"idle", "release"}
      BY <1>i, <2>0, <2>2, <3>1 DEF TaskRecord
    <3> QED BY <3>1, <3>2, AttemptsKept
  <2>4. HoldersLeave
    <3>1. \A q \in Path : \/ tokens'[q] = tokens[q]
                          \/ tokens'[q] = mutate_holder_record(tokens[q], o, t.lease, now_ns(pr), 0, TRUE)
      BY <2>1, <2>2
    <3>2. ASSUME NEW q \in Path
          PROVE  \A h \in mutate_holder_record(tokens[q], o, t.lease, now_ns(pr), 0, TRUE).holders :
                   \E g \in tokens[q].holders : g.id = h.id
      <4>1. PICK tok \in Token, m \in Int : tok = tokens[q] /\ m = now_ns(pr)
        BY <2>2
      <4>0. PICK id, before, release : id = t.lease /\ before = 0 /\ release = TRUE
        OBVIOUS
      <4>2. \A h \in mutate_holder_record(tok, o, id, m, before, release).holders :
              \E g \in tok.holders : g.id = h.id
        BY MutatedHolders
      <4> QED BY <4>0, <4>1, <4>2
    <3> QED BY <3>1, <3>2 DEF HoldersLeave
  <2>5. ASSUME NEW e \in Entry, NEW f, f \in {remove_path(e, p), invalidate(e, "ReleaseFailed")},
               f.proc # NoProc, lock_paths(e.cov) # {}
        PROVE  /\ f.source = e.source /\ e.proc # NoProc /\ f.pending_handoff = e.pending_handoff
               /\ lock_paths(f.cov) # {}
    <3>1. CASE f = invalidate(e, "ReleaseFailed")
      BY <2>5, <3>1 DEF invalidate, Entry
    <3>2. CASE f = remove_path(e, p)
      <4>1. ~(lock_paths(e.cov) \subseteq {p}) /\ f = [e EXCEPT !.cov[p] = "None", !.conf[p] = 0]
        BY <2>5, <3>2 DEF remove_path, NoEntry
      <4>2. PICK q \in lock_paths(e.cov) : q # p
        BY <4>1
      <4>3. f.cov[q] # "None" /\ f.source = e.source /\ f.proc = e.proc /\ f.pending_handoff = e.pending_handoff
        BY <4>1, <4>2 DEF Entry, Coverage, lock_paths
      <4> QED BY <2>5, <4>2, <4>3 DEF lock_paths
    <3> QED BY <2>5, <3>1, <3>2
  <2>6. ASSUME NEW k \in Lease PROVE EntryKeepsSource(k)
    <3>1. entries[k] \in Entry /\ entries \in [Lease -> Entry]
      BY DEF TypeOK
    <3>2. \/ entries'[k] = entries[k]
          \/ entries'[k] \in {remove_path(entries[k], p), invalidate(entries[k], "ReleaseFailed")}
      BY <2>1, <3>1
    <3>3. CASE ~Published(k)
      <4>1. k # t.lease
        BY <2>0, <3>3, RequestAssumption DEF Structure, HeldWhileInFlight, registry, Published
      <4>2. entries'[k] = entries[k]
        BY <2>1, <3>1, <4>1
      <4> QED BY <3>3, <4>2 DEF EntryKeepsSource, Published
    <3>4. CASE Published(k)
      <4>1. lock_paths(entries[k].cov) # {}
        BY <3>4 DEF Adoptions, BatchesNonEmpty
      <4> QED BY <2>5, <3>1, <3>2, <3>4, <4>1 DEF EntryKeepsSource, Published
    <3> QED BY <3>3, <3>4
  <2>7. handoffs' = handoffs
    BY <1>6 DEF ReleasePath
  <2> QED BY <2>3, <2>4, <2>6, <2>7 DEF Unadopting
<1>7. ASSUME Lookup(pr, o) PROVE Unadopting
  <2>1. \A k \in Lease : EntryKeepsSource(k)
    BY <1>7, SweepKeepsSource DEF Lookup
  <2>2. task' = task /\ tokens' = tokens /\ handoffs' = handoffs
    BY <1>7 DEF Lookup
  <2> QED BY <1>s, <2>1, <2>2, HoldersStay DEF Unadopting
<1> QED BY <1>1, <1>2, <1>3, <1>4, <1>5, <1>6, <1>7 DEF Holding, Release, Cleanup

\* Every step keeps what holds of adoptions.
LEMMA AdoptionsStep ==
  ASSUME TypeOK, TypeOK', Structure, Structure', Adoptions, [Next]_vars
  PROVE  Adoptions'
<1>i. Idle.op = "idle" /\ NoEntry.proc = NoProc
  BY DEF Idle, NoEntry
<1>s. (task' = task) => \A qr \in Proc, w \in Owner : AttemptKept(qr, w)
  BY DEF AttemptKept, IsAcquiring
<1>e. (entries' = entries) => \A k \in Lease : EntryKeepsSource(k)
  BY SweepKeepsSource
<1>f. ASSUME \A k \in Lease : entries'[k] = entries[k] \/ entries'[k] = NoEntry
      PROVE  \A k \in Lease : EntryKeepsSource(k)
  BY <1>f, <1>i DEF EntryKeepsSource, Published, Adoptions, BatchesNonEmpty
<1>h. \A m \in handoffs : m.lease \in Lease /\ m.cov \in Coverage /\ lock_paths(m.cov) # {}
  BY DEF TypeOK, Adoptions, BatchesNonEmpty
<1>1. ASSUME NEW pr \in Proc, NEW o \in Owner, NEW l \in Lease, NEW r \in Request,
             \/ AcquireBatch(pr, o, l, r)
             \/ \E cap \in Lease : AcquireReentrant(pr, o, l, r, cap)
      PROVE  Adoptions'
  <2>1. r \in Coverage /\ lock_paths(r) # {}
    BY RequestAssumption
  <2>2. PICK cap : FreshLease(l) /\ start_acquire(pr, o, l, r, NoLease, cap)
    BY <1>1 DEF AcquireBatch, AcquireReentrant
  <2> QED BY <2>1, <2>2, AdoptionsStartAcquire
<1>2. ASSUME NEW pr \in Proc, NEW o \in Owner, NEW l \in Lease, NEW m \in handoffs,
             ReacquireBatch(pr, o, l, m)
      PROVE  Adoptions'
  BY <1>2, <1>h, AdoptionsStartAcquire DEF ReacquireBatch
<1>3. ASSUME NEW pr \in Proc, NEW o \in Owner, NEW l \in Lease, NEW m \in handoffs, Adopt(pr, o, l, m)
      PROVE  Adoptions'
  <2>1. PICK s \in Lease, c \in Coverage : s = m.lease /\ c = m.cov /\ lock_paths(c) # {}
    BY <1>h
  <2>2. Referenced(s, c)
    BY <2>1 DEF Referenced
  <2>3. FreshLease(l) /\ start_acquire(pr, o, l, c, s, NoLease)
    BY <1>3, <2>1 DEF Adopt
  <2> QED BY <2>1, <2>2, <2>3, AdoptionsStartAcquire
<1>4. ASSUME NEW pr \in Proc, NEW o \in Owner, RollbackLease(pr, o) PROVE Adoptions'
  <2>1. PICK t, u : /\ t = task[pr][o] /\ t.op = "publish"
                    /\ u = [t EXCEPT !.op = "undo", !.result = todo_for(lock_paths(t.req))]
                    /\ task' = [task EXCEPT ![pr][o] = u]
    BY <1>4 DEF RollbackLease
  <2>2. t \in TaskRecord
    BY <2>1, TaskLease
  <2>3. /\ u.op = "undo" /\ u.lease = t.lease /\ u.req = t.req /\ u.source = t.source
        /\ u.replaced = t.replaced /\ Todo(u) = lock_paths(t.req)
    BY <2>1, <2>2 DEF TaskRecord, Todo, todo_for, lock_paths
  <2>4. /\ task'[pr][o] = u
        /\ \A qr \in Proc, w \in Owner : qr # pr \/ w # o => task'[qr][w] = task[qr][w]
    <3>1. task' = [task EXCEPT ![pr][o] = u]
      BY <2>1
    <3> QED BY <3>1, TaskSet DEF TypeOK
  <2>5. Withheld(u) = Withheld(t)
    BY <2>1, <2>3 DEF Withheld
  <2>6. \A qr \in Proc, w \in Owner : AttemptKept(qr, w)
    BY <2>1, <2>3, <2>4, <2>5 DEF AttemptKept, IsAcquiring
  <2>7. \A k \in Lease : EntryKeepsSource(k)
    BY <1>4, SweepKeepsSource DEF RollbackLease
  <2>8. tokens' = tokens /\ handoffs' = handoffs
    BY <1>4 DEF RollbackLease
  <2>9. Unadopting
    BY <2>6, <2>7, <2>8, HoldersStay DEF Unadopting
  <2> QED BY <2>9, AdoptionsUnadopting
<1>5. ASSUME NEW pr \in Proc, NEW o \in Owner, Acquiring(pr, o) PROVE Adoptions'
  BY <1>1, <1>2, <1>3, <1>4, <1>5, AdoptionsPublish, AdoptionsUndo DEF Acquiring
<1>6. ASSUME NEW pr \in Proc, NEW o \in Owner, RejectAcquire(pr, o) PROVE Adoptions'
  <2>1. HoldersLeave
    <3>1. tokens' = tokens \/ \E S : tokens' = remove_stale(tokens, S)
      BY <1>6 DEF RejectAcquire
    <3> QED BY <3>1 DEF HoldersLeave, remove_stale, NoToken
  <2>2. task' = [task EXCEPT ![pr][o] = Idle] /\ entries' = entries /\ handoffs' = handoffs
    BY <1>6 DEF RejectAcquire
  <2>3. \A qr \in Proc, w \in Owner : AttemptKept(qr, w)
    BY <1>i, <2>2, AttemptsKept
  <2>4. Unadopting
    BY <1>e, <2>1, <2>2, <2>3 DEF Unadopting
  <2> QED BY <2>4, AdoptionsUnadopting
<1>7. ASSUME NEW pr \in Proc, NEW o \in Owner, Holding(pr, o) PROVE Adoptions'
  BY <1>7, AdoptionsHandoff, HoldingUnadopting, AdoptionsUnadopting
<1>8. ASSUME NEW pr \in Proc, NEW l \in Lease, Unpark(pr, l) PROVE Adoptions'
  <2>1. \A k \in Lease : entries'[k] = entries[k] \/ entries'[k] = NoEntry
    BY <1>8 DEF Unpark, TypeOK
  <2>2. task' = task /\ tokens' = tokens /\ handoffs' = handoffs
    BY <1>8 DEF Unpark
  <2>3. Unadopting
    BY <1>f, <1>s, <2>1, <2>2, HoldersStay DEF Unadopting
  <2> QED BY <2>3, AdoptionsUnadopting
<1>9. ASSUME Environment PROVE Adoptions'
  <2>1. tokens' = tokens /\ handoffs' \subseteq handoffs
    BY <1>9 DEF Environment, AckHandoff, Tick, Crash
  <2>2. \A k \in Lease : entries'[k] = entries[k] \/ entries'[k] = NoEntry
    BY <1>9 DEF Environment, AckHandoff, Tick, Crash
  <2>3. \A qr \in Proc, w \in Owner : task'[qr][w] = task[qr][w] \/ task'[qr][w] = Idle
    BY <1>9, RequestAssumption DEF Environment, AckHandoff, Tick, Crash, TypeOK
  <2>4. \A qr \in Proc, w \in Owner : AttemptKept(qr, w)
    BY <1>i, <2>3 DEF AttemptKept, IsAcquiring
  <2>5. Unadopting
    BY <1>f, <2>1, <2>2, <2>4, HoldersStay DEF Unadopting
  <2> QED BY <2>5, AdoptionsUnadopting
<1>10. ASSUME UNCHANGED vars PROVE Adoptions'
  <2>1. task' = task /\ tokens' = tokens /\ handoffs' = handoffs /\ entries' = entries
    BY <1>10 DEF vars
  <2>2. Unadopting
    BY <1>e, <1>s, <2>1, HoldersStay DEF Unadopting
  <2> QED BY <2>2, AdoptionsUnadopting
<1> QED BY <1>5, <1>6, <1>7, <1>8, <1>9, <1>10, AdoptionsCommit DEF Next

\* A handoff reference that is delivered again, adopted by several processes at once, or
\* adopted while an earlier attempt is being rolled back yields one adopted lease.
THEOREM ReferencesAreAdoptedOnce == Spec => []AdoptedOnce
<1>1. Init => Adoptions
  <2> SUFFICES ASSUME Init PROVE Adoptions
    OBVIOUS
  <2>1. /\ handoffs = {} /\ \A l \in Lease : ~Published(l)
        /\ \A pr \in Proc, o \in Owner : task[pr][o].op = "idle"
    BY DEF Init, NoEntry, Idle, Published
  <2> QED BY <2>1 DEF Adoptions, BatchesNonEmpty, OneCoverage, SourceWithheld, ReplacedIsSource,
                      OneAdoption, AdoptedForGood, AdoptedOnce, IsAdopting, IsAcquiring, Referenced
<1>2. TypeOK /\ TypeOK' /\ Structure /\ Structure' /\ Adoptions /\ [Next]_vars => Adoptions'
  BY AdoptionsStep
<1>3. Adoptions => AdoptedOnce
  BY DEF Adoptions
<1> QED BY <1>1, <1>2, <1>3, TypeCorrect, StructureCorrect, PTL DEF Spec
=============================================================================
