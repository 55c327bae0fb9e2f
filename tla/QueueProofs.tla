----------------------------- MODULE QueueProofs -----------------------------
(***************************************************************************)
(* What QueueFs guarantees for any queues, messages and instances and both  *)
(* backends, and what wait_complete does beside it.  The argument: a        *)
(* message has one place, with its payload, from its enqueue until it is    *)
(* acknowledged or cleared.  A delivery of an instance that never lost its  *)
(* heartbeat holds the claim of its message, or the message is gone for     *)
(* good, so a message that is pending is at no such instance.               *)
(***************************************************************************)
EXTENDS QueueCompletion, FiniteSetTheorems, SequenceTheorems, TLAPS

-----------------------------------------------------------------------------
(* The inductive invariant *)

\* A queue by itself: every id is pending once or claimed once, with its payload.
placed(q) ==
  /\ unacked(q) = payload[q] /\ payload[q] \subseteq Range(sent)
  /\ Range(pending[q]) \cap claimed(q) = {} /\ IsInjective(pending[q])
  /\ \A c, d \in processing[q] : c.id = d.id => c = d

Apart == \A q, r \in Queue : q # r => payload[q] \cap payload[r] = {}

Kept == \A m \in Range(sent) \ (handled \cup cleared) : \E q \in Queue : m \in payload[q]

StoreInv == (\A q \in Queue : placed(q)) /\ Apart /\ Kept

gone(m) == \A q \in Queue : m \notin payload[q]

\* Only open instances have deliveries, and they have a heartbeat unless it lapsed.
Alive ==
  \A i \in Instance :
    /\ deliveries[i] # {} => i \in Open
    /\ Backend = "cache" /\ i \in Open /\ i \notin lapsed => i \in heartbeat
    /\ round[i] # {} \/ i \in renewed => Backend = "cache"

\* A delivery has its claim, unless its message is gone or its instance lapsed.
holds(i, d) == [id |-> d.id, by |-> i] \in processing[d.queue]

owned(i) ==
  \A d \in deliveries[i] :
    /\ d.id \in Range(sent) /\ (d.phase = "settled" => d.id \in handled)
    /\ i \in lapsed \/ holds(i, d) \/ gone(d.id)

WorkerInv == Alive /\ (\A i \in Instance : owned(i)) /\ SingleDelivery

QInv == QTypeOK /\ StoreInv /\ WorkerInv

-----------------------------------------------------------------------------
(* Sequences *)

LEMMA Indices ==
  ASSUME NEW S, NEW s \in Seq(S)
  PROVE  Len(s) \in Nat /\ DOMAIN s = 1 .. Len(s) /\ Range(s) \subseteq S
BY LenProperties, RangeOfSeq

LEMMA Appended ==
  ASSUME NEW S, NEW s \in Seq(S), NEW m \in S
  PROVE  /\ Append(s, m) \in Seq(S) /\ Range(Append(s, m)) = Range(s) \cup {m}
         /\ IsInjective(s) /\ m \notin Range(s) => IsInjective(Append(s, m))
<1> DEFINE t == Append(s, m)
<1>1. /\ t \in Seq(S) /\ Len(t) = Len(s) + 1 /\ t[Len(s) + 1] = m
      /\ \A i \in 1 .. Len(s) : t[i] = s[i]
  BY AppendProperties
<1> HIDE DEF t
<1>2. Len(s) \in Nat /\ DOMAIN s = 1 .. Len(s) /\ DOMAIN t = 1 .. Len(s) + 1
  BY <1>1, Indices
<1>3. \A i \in DOMAIN t : i \in DOMAIN s \/ i = Len(s) + 1
  BY <1>2
<1>4. DOMAIN s \subseteq DOMAIN t /\ Len(s) + 1 \in DOMAIN t
  BY <1>2
<1>5. Range(t) = Range(s) \cup {m}
  BY <1>1, <1>2, <1>3, <1>4 DEF Range
<1>6. ASSUME IsInjective(s), m \notin Range(s) PROVE IsInjective(t)
  BY <1>1, <1>2, <1>3, <1>6 DEF IsInjective, Range
<1> QED BY <1>1, <1>5, <1>6 DEF t

LEMMA Taken ==
  ASSUME NEW S, NEW s \in Seq(S), s # << >>
  PROVE  /\ Head(s) \in S /\ Tail(s) \in Seq(S) /\ Range(s) = Range(Tail(s)) \cup {Head(s)}
         /\ IsInjective(s) => IsInjective(Tail(s)) /\ Head(s) \notin Range(Tail(s))
<1> DEFINE t == Tail(s)
<1>1. /\ Head(s) \in S /\ t \in Seq(S) /\ Len(t) = Len(s) - 1 /\ Head(s) = s[1]
      /\ \A i \in 1 .. Len(t) : t[i] = s[i + 1]
  BY HeadTailProperties
<1> HIDE DEF t
<1>2. /\ Len(s) \in Nat \ {0} /\ DOMAIN s = 1 .. Len(s) /\ DOMAIN t = 1 .. Len(s) - 1
  BY <1>1, Indices, EmptySeq
<1>3. 1 \in DOMAIN s /\ \A i \in DOMAIN t : i + 1 \in DOMAIN s /\ t[i] = s[i + 1] /\ i + 1 # 1
  BY <1>1, <1>2
<1>4. \A i \in DOMAIN s : i = 1 \/ (i - 1 \in DOMAIN t /\ t[i - 1] = s[i])
  <2> TAKE i \in DOMAIN s
  <2>1. i = 1 \/ (i - 1 \in DOMAIN t /\ (i - 1) + 1 = i)
    BY <1>2
  <2> QED BY <1>3, <2>1
<1>5. Range(s) = Range(t) \cup {Head(s)}
  <2>1. Range(t) \cup {Head(s)} \subseteq Range(s)
    BY <1>1, <1>3 DEF Range
  <2>2. Range(s) \subseteq Range(t) \cup {Head(s)}
    BY <1>1, <1>4 DEF Range
  <2> QED BY <2>1, <2>2
<1>6. ASSUME IsInjective(s) PROVE IsInjective(t) /\ Head(s) \notin Range(t)
  <2>1. ASSUME NEW a \in DOMAIN t, NEW b \in DOMAIN t, t[a] = t[b] PROVE a = b
    <3>1. a + 1 = b + 1
      BY <1>3, <1>6, <2>1 DEF IsInjective
    <3> QED BY <1>2, <3>1
  <2>2. Head(s) \notin Range(t)
    BY <1>1, <1>3, <1>6 DEF IsInjective, Range
  <2> QED BY <2>1, <2>2 DEF IsInjective
<1> QED BY <1>1, <1>5, <1>6 DEF t

LEMMA Joined ==
  ASSUME NEW S, NEW s \in Seq(S), NEW t \in Seq(S)
  PROVE  /\ s \o t \in Seq(S) /\ Range(s \o t) = Range(s) \cup Range(t)
         /\ IsInjective(s) /\ IsInjective(t) /\ Range(s) \cap Range(t) = {} => IsInjective(s \o t)
<1> DEFINE u == s \o t
<1>1. /\ u \in Seq(S) /\ Len(u) = Len(s) + Len(t)
      /\ \A i \in 1 .. Len(s) + Len(t) : u[i] = IF i <= Len(s) THEN s[i] ELSE t[i - Len(s)]
  BY ConcatProperties
<1>2. Range(u) = Range(s) \cup Range(t)
  BY RangeConcatenation
<1> HIDE DEF u
<1>3. /\ Len(s) \in Nat /\ Len(t) \in Nat /\ DOMAIN s = 1 .. Len(s) /\ DOMAIN t = 1 .. Len(t)
      /\ DOMAIN u = 1 .. Len(s) + Len(t)
  BY <1>1, Indices
<1>4. \A i \in DOMAIN u :
        \/ i \in DOMAIN s /\ u[i] = s[i] /\ u[i] \in Range(s)
        \/ i - Len(s) \in DOMAIN t /\ u[i] = t[i - Len(s)] /\ u[i] \in Range(t)
  <2> TAKE i \in DOMAIN u
  <2>1. CASE i <= Len(s)
    <3>1. i \in DOMAIN s /\ u[i] = s[i]
      BY <1>1, <1>3, <2>1
    <3> QED BY <3>1 DEF Range
  <2>2. CASE ~(i <= Len(s))
    <3>1. i - Len(s) \in DOMAIN t /\ u[i] = t[i - Len(s)]
      BY <1>1, <1>3, <2>2
    <3> QED BY <3>1 DEF Range
  <2> QED BY <2>1, <2>2
<1>5. ASSUME IsInjective(s), IsInjective(t), Range(s) \cap Range(t) = {}, NEW a \in DOMAIN u,
             NEW b \in DOMAIN u, u[a] = u[b]
      PROVE  a = b
  <2>1. \/ a \in DOMAIN s /\ b \in DOMAIN s /\ s[a] = s[b]
        \/ /\ a - Len(s) \in DOMAIN t /\ b - Len(s) \in DOMAIN t
           /\ t[a - Len(s)] = t[b - Len(s)]
    BY <1>4, <1>5
  <2>2. a = b \/ a - Len(s) = b - Len(s)
    BY <1>5, <2>1 DEF IsInjective
  <2> QED BY <1>3, <2>2
<1> QED BY <1>1, <1>2, <1>5 DEF u, IsInjective

\* What has been sent is finite, and so is every part of it.
LEMMA Ordered ==
  ASSUME NEW S, NEW s \in Seq(S), NEW T \in SUBSET Range(s), NEW f \in Orders(T)
  PROVE  f \in Seq(T) /\ Range(f) = T /\ IsInjective(f)
<1>1. s \in Surjection(1 .. Len(s), Range(s)) /\ Len(s) \in Nat
  BY Indices, LenProperties DEF Surjection, Range
<1>2. IsFiniteSet(1 .. Len(s))
  BY <1>1, FS_Interval
<1>3. IsFiniteSet(Range(s))
  BY <1>1, <1>2, FS_Surjection
<1>4. IsFiniteSet(T) /\ Cardinality(T) \in Nat
  BY <1>3, FS_Subset, FS_CardinalityType
<1>5. /\ f \in [1 .. Cardinality(T) -> T] /\ IsInjective(f)
      /\ \A t \in T : \E i \in 1 .. Cardinality(T) : f[i] = t
  BY DEF Orders, Bijection, Injection, Surjection
<1>6. f \in Seq(T)
  BY <1>4, <1>5
<1>7. Range(f) = T
  BY <1>5 DEF Range
<1> QED BY <1>5, <1>6, <1>7

-----------------------------------------------------------------------------
(* Steps that leave the messages where they are *)

LEMMA StoreKept ==
  ASSUME StoreInv, UNCHANGED <<payload, sent, cleared>>, handled \subseteq handled',
         \A q \in Queue : placed(q)'
  PROVE  StoreInv'
<1>1. Apart'
  BY DEF StoreInv, Apart
<1>2. Kept'
  BY DEF StoreInv, Kept
<1> QED BY <1>1, <1>2 DEF StoreInv

LEMMA PlacedSame ==
  ASSUME NEW q \in Queue, placed(q), pending'[q] = pending[q], processing'[q] = processing[q],
         payload'[q] = payload[q], Range(sent) \subseteq Range(sent)'
  PROVE  placed(q)'
<1>1. claimed(q)' = claimed(q) /\ unacked(q)' = unacked(q)
  BY DEF claimed, unacked
<1> QED BY <1>1 DEF placed

\* Storage and messages are as they were; deliveries may have ended.
Rests ==
  /\ UNCHANGED <<pending, processing, payload, sent, cleared>> /\ handled \subseteq handled'
  /\ lapsed \subseteq lapsed' /\ \A i \in Instance : deliveries'[i] \subseteq deliveries[i]

LEMMA RestsKeeps ==
  ASSUME QInv, Rests, QTypeOK', Alive'
  PROVE  QInv'
<1>1. \A q \in Queue : placed(q)'
  BY PlacedSame DEF QInv, StoreInv, Rests
<1>2. StoreInv'
  BY <1>1, StoreKept DEF QInv, Rests
<1>3. ASSUME NEW i \in Instance PROVE owned(i)'
  <2> SUFFICES ASSUME NEW d \in deliveries'[i]
               PROVE  /\ d.id \in Range(sent)' /\ (d.phase = "settled" => d.id \in handled')
                      /\ i \in lapsed' \/ holds(i, d)' \/ gone(d.id)'
    BY DEF owned
  <2>1. d \in deliveries[i] /\ owned(i)
    BY DEF Rests, QInv, WorkerInv
  <2>2. /\ d.id \in Range(sent) /\ (d.phase = "settled" => d.id \in handled)
        /\ i \in lapsed \/ holds(i, d) \/ gone(d.id)
    BY <2>1 DEF owned
  <2>3. holds(i, d)' <=> holds(i, d)
    BY DEF holds, Rests
  <2>4. gone(d.id)' <=> gone(d.id)
    BY DEF gone, Rests
  <2> QED BY <2>2, <2>3, <2>4 DEF Rests
<1>4. SingleDelivery'
  BY DEF QInv, WorkerInv, SingleDelivery, Rests
<1> QED BY <1>2, <1>3, <1>4 DEF QInv, WorkerInv

LEMMA KeysKeep ==
  ASSUME QInv, NEW i \in Instance,
         RefreshHeartbeat(i) \/ HeartbeatExpires(i) \/ StartRound(i) \/ RenewLeader(i) \/ BreakOff(i)
         \/ LeaderExpires
  PROVE  QInv'
<1>0. QTypeOK /\ Alive
  BY DEF QInv, WorkerInv
<1>1. UNCHANGED <<pending, processing, payload, inst, deliveries, sent, handled, cleared>>
  BY DEF RefreshHeartbeat, HeartbeatExpires, StartRound, RenewLeader, BreakOff, LeaderExpires, store, audit
<1>2. Open' = Open
  BY <1>1 DEF Open
<1>3. heartbeat' \subseteq Instance /\ lapsed \subseteq lapsed' /\ lapsed' \subseteq Instance
  BY <1>0 DEF QTypeOK, RefreshHeartbeat, HeartbeatExpires, StartRound, RenewLeader, BreakOff, LeaderExpires, audit
<1>4. leader' \in Instance \cup {NoInstance} /\ renewed' \subseteq Instance
  BY <1>0 DEF QTypeOK, RefreshHeartbeat, HeartbeatExpires, StartRound, RenewLeader, BreakOff, LeaderExpires
<1>5. round' \in [Instance -> SUBSET Queue]
  BY <1>0 DEF QTypeOK, RefreshHeartbeat, HeartbeatExpires, StartRound, RenewLeader, BreakOff, LeaderExpires
<1>6. QTypeOK'
  BY <1>0, <1>1, <1>3, <1>4, <1>5 DEF QTypeOK
<1>7. ASSUME NEW j \in Instance, Backend = "cache", j \in Open, j \notin lapsed' PROVE j \in heartbeat'
  <2>1. j \in heartbeat
    BY <1>0, <1>3, <1>7 DEF Alive
  <2> QED BY <1>7, <2>1 DEF RefreshHeartbeat, HeartbeatExpires, StartRound, RenewLeader, BreakOff, LeaderExpires
<1>8. ASSUME NEW j \in Instance, round'[j] # {} \/ j \in renewed' PROVE Backend = "cache"
  <2>1. round[j] # {} \/ j \in renewed => Backend = "cache"
    BY <1>0 DEF Alive
  <2>2. round[i] # {} \/ i \in renewed => Backend = "cache"
    BY <1>0 DEF Alive
  <2>3. CASE StartRound(i) \/ RenewLeader(i)
    BY <1>8, <2>1, <2>2, <2>3 DEF StartRound, RenewLeader
  <2>4. CASE BreakOff(i)
    BY <1>0, <1>8, <2>1, <2>4 DEF BreakOff, QTypeOK
  <2>5. CASE RefreshHeartbeat(i) \/ HeartbeatExpires(i) \/ LeaderExpires
    BY <1>8, <2>1, <2>5 DEF RefreshHeartbeat, HeartbeatExpires, LeaderExpires
  <2> QED BY <2>3, <2>4, <2>5
<1>9. Alive'
  BY <1>0, <1>1, <1>2, <1>7, <1>8 DEF Alive
<1>10. Rests
  BY <1>1, <1>3 DEF Rests
<1> QED BY <1>6, <1>9, <1>10, RestsKeeps

\* Instances end, and deliveries without an acknowledgement.
LEMMA EndsKeep ==
  ASSUME QInv, NEW i \in Instance,
         \/ Stop(i) \/ Crash(i) \/ (\E ok \in Outcome : Shutdown(i, ok))
         \/ \E d \in deliveries[i] : Cancel(i, d) \/ Raise(i, d)
  PROVE  QInv'
<1>0. QTypeOK /\ Alive
  BY DEF QInv, WorkerInv
<1>1. UNCHANGED <<pending, processing, payload, sent, handled, cleared, lapsed>>
  BY DEF Stop, Crash, Shutdown, Cancel, Raise, store, audit
<1>2. /\ deliveries' \in [Instance -> SUBSET Delivery]
      /\ \A j \in Instance : deliveries'[j] \subseteq deliveries[j]
  BY <1>0 DEF QTypeOK, Stop, Crash, Shutdown, Cancel, Raise
<1>3. /\ inst' \in [Instance -> {"new", "running", "stopping", "closed", "dead"}]
      /\ \A j \in Instance : j # i => inst'[j] = inst[j]
      /\ inst'[i] \in {"running", "stopping"} => inst[i] \in {"running", "stopping"}
  BY <1>0 DEF QTypeOK, Stop, Crash, Shutdown, Cancel, Raise
<1>4. /\ heartbeat' \subseteq heartbeat /\ renewed' \subseteq renewed
      /\ \A j \in Instance : j # i /\ j \in heartbeat => j \in heartbeat'
      /\ leader' \in Instance \cup {NoInstance}
  BY <1>0 DEF QTypeOK, Stop, Crash, Shutdown, Cancel, Raise, keys
<1>5. round' \in [Instance -> SUBSET Queue] /\ \A j \in Instance : round'[j] \subseteq round[j]
  BY <1>0 DEF QTypeOK, Stop, Crash, Shutdown, Cancel, Raise, keys
<1>6. QTypeOK'
  BY <1>0, <1>1, <1>2, <1>3, <1>4, <1>5 DEF QTypeOK
<1>7. Open' \subseteq Open /\ \A j \in Open : j # i => j \in Open'
  BY <1>3 DEF Open
<1>8. i \in Open' => i \in heartbeat' \/ i \notin heartbeat
  <2>1. CASE \E ok \in Outcome : Shutdown(i, ok)
    BY <1>0, <2>1 DEF Shutdown, Open, QTypeOK
  <2>2. CASE ~\E ok \in Outcome : Shutdown(i, ok)
    BY <2>2 DEF Stop, Crash, Cancel, Raise, keys
  <2> QED BY <2>1, <2>2
<1>9. deliveries'[i] # {} => i \in Open'
  <2>1. CASE Stop(i)
    BY <1>0, <2>1 DEF Stop, Open, QTypeOK
  <2>2. CASE Crash(i)
    BY <1>0, <2>2 DEF Crash, QTypeOK
  <2>3. CASE \E ok \in Outcome : Shutdown(i, ok)
    BY <2>3 DEF Shutdown
  <2>4. CASE \E d \in deliveries[i] : Cancel(i, d) \/ Raise(i, d)
    BY <1>0, <2>4 DEF Cancel, Raise, Alive, Open
  <2> QED BY <2>1, <2>2, <2>3, <2>4
<1>10. Alive'
  BY <1>0, <1>1, <1>2, <1>4, <1>5, <1>7, <1>8, <1>9 DEF Alive
<1>11. Rests
  BY <1>1, <1>2 DEF Rests
<1> QED BY <1>6, <1>10, <1>11, RestsKeeps

\* The handler has returned: the same delivery in its next phase.
LEMMA SettleKeeps ==
  ASSUME QInv, NEW i \in Instance, NEW d \in deliveries[i], Settle(i, d)
  PROVE  QInv'
<1>0. QTypeOK /\ Alive /\ StoreInv /\ SingleDelivery /\ \A j \in Instance : owned(j)
  BY DEF QInv, WorkerInv
<1>1. UNCHANGED <<pending, processing, payload, heartbeat, leader, round, renewed, inst, sent, cleared, lapsed>>
  BY DEF Settle, store, keys
<1>2. PICK e : e = [d EXCEPT !.phase = "settled"]
  OBVIOUS
<1>3. d \in Delivery /\ e \in Delivery /\ e.id = d.id /\ e.queue = d.queue /\ d.id \in Message
  <2>1. d \in Delivery
    BY <1>0 DEF QTypeOK
  <2> QED BY <1>2, <2>1 DEF Delivery
<1>4. /\ deliveries' \in [Instance -> SUBSET Delivery] /\ deliveries'[i] = (deliveries[i] \ {d}) \cup {e}
      /\ \A j \in Instance \ {i} : deliveries'[j] = deliveries[j]
  <2>1. deliveries' = [deliveries EXCEPT ![i] = (deliveries[i] \ {d}) \cup {e}]
    BY <1>2 DEF Settle
  <2> QED BY <1>0, <1>3, <2>1 DEF QTypeOK
<1>5. handled' = handled \cup {d.id}
  BY DEF Settle
<1>6. QTypeOK'
  BY <1>0, <1>1, <1>3, <1>4, <1>5 DEF QTypeOK
<1>7. StoreInv'
  <2>1. \A q \in Queue : placed(q)'
    BY <1>0, <1>1, PlacedSame DEF StoreInv
  <2> QED BY <1>0, <1>1, <1>5, <2>1, StoreKept
<1>8. Alive'
  <2>1. Open' = Open
    BY <1>1 DEF Open
  <2> QED BY <1>0, <1>1, <1>4, <2>1 DEF Alive
<1>9. ASSUME NEW j \in Instance PROVE owned(j)'
  <2> SUFFICES ASSUME NEW f \in deliveries'[j]
               PROVE  /\ f.id \in Range(sent)' /\ (f.phase = "settled" => f.id \in handled')
                      /\ j \in lapsed' \/ holds(j, f)' \/ gone(f.id)'
    BY DEF owned
  <2>1. holds(j, f)' <=> holds(j, f)
    BY <1>1 DEF holds
  <2>2. gone(f.id)' <=> gone(f.id)
    BY <1>1 DEF gone
  <2>3. CASE f \in deliveries[j]
    BY <1>0, <1>1, <1>5, <2>1, <2>2, <2>3 DEF owned
  <2>4. CASE f \notin deliveries[j]
    <3>1. j = i /\ f = e
      BY <1>4, <2>4
    <3>2. d.id \in Range(sent) /\ (i \in lapsed \/ holds(i, d) \/ gone(d.id))
      BY <1>0 DEF owned
    <3>3. holds(i, e) <=> holds(i, d)
      BY <1>3 DEF holds
    <3> QED BY <1>1, <1>3, <1>5, <2>1, <2>2, <3>1, <3>2, <3>3
  <2> QED BY <2>3, <2>4
<1>10. SingleDelivery'
  <2> SUFFICES ASSUME NEW j \in Instance \ lapsed, NEW k \in Instance \ lapsed,
                      NEW f \in deliveries'[j], NEW g \in deliveries'[k], f.id = g.id
               PROVE  j = k /\ f = g
    BY <1>1 DEF SingleDelivery
  <2>1. /\ (f \in deliveries[j] /\ (j = i => f # d)) \/ (j = i /\ f = e)
        /\ (g \in deliveries[k] /\ (k = i => g # d)) \/ (k = i /\ g = e)
    BY <1>4
  <2> QED BY <1>0, <1>3, <2>1 DEF SingleDelivery
<1> QED BY <1>6, <1>7, <1>8, <1>9, <1>10 DEF QInv, WorkerInv

-----------------------------------------------------------------------------
(* Steps that add, move or remove messages *)

LEMMA EnqueueKeeps ==
  ASSUME QInv, NEW q \in Queue, NEW m \in Message, enqueue(q, m)
  PROVE  QInv'
<1>0. QTypeOK /\ Alive /\ StoreInv /\ SingleDelivery /\ \A j \in Instance : owned(j)
  BY DEF QInv, WorkerInv
<1>1. /\ UNCHANGED <<processing, heartbeat, leader, round, renewed, inst, deliveries, handled, cleared, lapsed>>
      /\ m \notin Range(sent)
  BY DEF enqueue, keys
<1>2. sent' \in Seq(Message) /\ Range(sent') = Range(sent) \cup {m}
  BY <1>0, Appended DEF QTypeOK, enqueue
<1>3. /\ pending' \in [Queue -> Seq(Message)] /\ Range(pending'[q]) = Range(pending[q]) \cup {m}
      /\ \A r \in Queue \ {q} : pending'[r] = pending[r]
      /\ IsInjective(pending[q]) /\ m \notin Range(pending[q]) => IsInjective(pending'[q])
  <2>1. pending[q] \in Seq(Message)
    BY <1>0 DEF QTypeOK
  <2>2. /\ Append(pending[q], m) \in Seq(Message)
        /\ Range(Append(pending[q], m)) = Range(pending[q]) \cup {m}
        /\ IsInjective(pending[q]) /\ m \notin Range(pending[q]) => IsInjective(Append(pending[q], m))
    BY <2>1, Appended
  <2>3. pending' = [pending EXCEPT ![q] = Append(pending[q], m)]
    BY DEF enqueue
  <2> QED BY <1>0, <2>2, <2>3 DEF QTypeOK
<1>4. /\ payload' \in [Queue -> SUBSET Message] /\ payload'[q] = payload[q] \cup {m}
      /\ \A r \in Queue \ {q} : payload'[r] = payload[r]
  BY <1>0 DEF QTypeOK, enqueue
<1>5. QTypeOK'
  BY <1>0, <1>1, <1>2, <1>3, <1>4 DEF QTypeOK
<1>6. \A r \in Queue : payload[r] \subseteq Range(sent)
  BY <1>0 DEF StoreInv, placed
<1>7. ASSUME NEW r \in Queue PROVE placed(r)'
  <2>1. CASE r # q
    BY <1>0, <1>1, <1>2, <1>3, <1>4, <2>1, PlacedSame DEF StoreInv
  <2>2. CASE r = q
    <3>1. placed(q)
      BY <1>0 DEF StoreInv
    <3>2. claimed(q)' = claimed(q) /\ unacked(q)' = unacked(q) \cup {m}
      BY <1>1, <1>3 DEF claimed, unacked
    <3>3. m \notin unacked(q)
      BY <1>1, <1>6, <3>1 DEF placed
    <3>4. placed(q)'
      BY <1>1, <1>2, <1>3, <1>4, <3>1, <3>2, <3>3 DEF placed, unacked
    <3> QED BY <2>2, <3>4
  <2> QED BY <2>1, <2>2
<1>8. Apart'
  BY <1>0, <1>1, <1>4, <1>6 DEF StoreInv, Apart
<1>9. Kept'
  BY <1>0, <1>1, <1>2, <1>4 DEF StoreInv, Kept
<1>10. Alive'
  <2>1. Open' = Open
    BY <1>1 DEF Open
  <2> QED BY <1>0, <1>1, <2>1 DEF Alive
<1>11. ASSUME NEW j \in Instance PROVE owned(j)'
  <2> SUFFICES ASSUME NEW f \in deliveries[j]
               PROVE  /\ f.id \in Range(sent)' /\ (f.phase = "settled" => f.id \in handled')
                      /\ j \in lapsed' \/ holds(j, f)' \/ gone(f.id)'
    BY <1>1 DEF owned
  <2>1. /\ f.id \in Range(sent) /\ (f.phase = "settled" => f.id \in handled)
        /\ j \in lapsed \/ holds(j, f) \/ gone(f.id)
    BY <1>0 DEF owned
  <2>2. gone(f.id) => gone(f.id)'
    BY <1>1, <1>4, <2>1 DEF gone
  <2>3. holds(j, f)' <=> holds(j, f)
    BY <1>1 DEF holds
  <2> QED BY <1>1, <1>2, <2>1, <2>2, <2>3
<1>12. SingleDelivery'
  BY <1>0, <1>1 DEF SingleDelivery
<1> QED BY <1>5, <1>7, <1>8, <1>9, <1>10, <1>11, <1>12 DEF QInv, StoreInv, WorkerInv

\* A delivery that holds its claim keeps its message from being pending.
LEMMA PendingIsFree ==
  ASSUME StoreInv, NEW q \in Queue, NEW m \in Range(pending[q]), NEW j, NEW f, f.id = m, f.queue \in Queue
  PROVE  ~holds(j, f) /\ ~gone(m)
<1>1. m \in payload[q] /\ m \notin claimed(q)
  BY DEF StoreInv, placed, unacked
<1>2. ASSUME holds(j, f) PROVE FALSE
  <2>1. m \in claimed(f.queue)
    BY <1>2 DEF holds, claimed
  <2>2. m \in payload[f.queue]
    BY <2>1 DEF StoreInv, placed, unacked
  <2> QED BY <1>1, <2>1, <2>2 DEF StoreInv, Apart
<1> QED BY <1>1, <1>2 DEF gone

LEMMA DequeueKeeps ==
  ASSUME QInv, NEW i \in Instance, NEW q \in Queue, NEW ok, Dequeue(i, q, ok)
  PROVE  QInv'
<1>0. /\ QTypeOK /\ Alive /\ StoreInv /\ SingleDelivery /\ (\A j \in Instance : owned(j))
      /\ placed(q) /\ pending[q] # << >> /\ i \in Open
  BY DEF QInv, WorkerInv, StoreInv, Dequeue, Open
<1>1. UNCHANGED <<payload, heartbeat, leader, round, renewed, inst, sent, handled, cleared, lapsed>>
  BY DEF Dequeue, keys, audit
<1>2. PICK h : h = Head(pending[q])
  OBVIOUS
<1>3. /\ pending' \in [Queue -> Seq(Message)] /\ h \in Message
      /\ Range(pending[q]) = Range(pending'[q]) \cup {h} /\ h \notin Range(pending'[q])
      /\ IsInjective(pending'[q])
      /\ \A r \in Queue \ {q} : pending'[r] = pending[r]
  <2>1. pending[q] \in Seq(Message)
    BY <1>0 DEF QTypeOK
  <2>2. /\ h \in Message /\ Tail(pending[q]) \in Seq(Message)
        /\ Range(pending[q]) = Range(Tail(pending[q])) \cup {h}
        /\ IsInjective(Tail(pending[q])) /\ h \notin Range(Tail(pending[q]))
    BY <1>0, <1>2, <2>1, Taken DEF placed
  <2>3. pending' = [pending EXCEPT ![q] = Tail(pending[q])]
    BY DEF Dequeue
  <2> QED BY <1>0, <2>2, <2>3 DEF QTypeOK
<1>4. PICK c : c = [id |-> h, by |-> i]
  OBVIOUS
<1>5. /\ processing' \in [Queue -> SUBSET Claim] /\ processing'[q] = processing[q] \cup {c}
      /\ \A r \in Queue \ {q} : processing'[r] = processing[r]
      /\ c.id = h
  <2>1. c \in Claim /\ c.id = h
    BY <1>3, <1>4 DEF Claim
  <2>2. processing' = [processing EXCEPT ![q] = processing[q] \cup {c}]
    BY <1>2, <1>4 DEF Dequeue
  <2> QED BY <1>0, <2>1, <2>2 DEF QTypeOK
<1>6. PICK s \in slots : deliveries' =
            IF ~ok THEN deliveries
            ELSE [deliveries EXCEPT ![i] =
                    @ \cup {[queue |-> q, slot |-> s, id |-> Head(pending[q]), phase |-> "handling"]}]
  BY DEF Dequeue
<1>7. PICK e : e = [queue |-> q, slot |-> s, id |-> h, phase |-> "handling"]
  OBVIOUS
<1>8. /\ deliveries' \in [Instance -> SUBSET Delivery] /\ deliveries[i] \subseteq deliveries'[i]
      /\ deliveries'[i] \subseteq deliveries[i] \cup {e}
      /\ \A j \in Instance \ {i} : deliveries'[j] = deliveries[j]
      /\ e.id = h /\ e.queue = q /\ e.phase = "handling"
  <2>1. e \in Delivery /\ e.id = h /\ e.queue = q /\ e.phase = "handling"
    BY <1>3, <1>7 DEF Delivery, slots
  <2>2. deliveries' = deliveries \/ deliveries' = [deliveries EXCEPT ![i] = deliveries[i] \cup {e}]
    BY <1>2, <1>6, <1>7
  <2>3. CASE deliveries' = deliveries
    BY <1>0, <2>1, <2>3 DEF QTypeOK
  <2>4. CASE deliveries' = [deliveries EXCEPT ![i] = deliveries[i] \cup {e}]
    BY <1>0, <2>1, <2>4 DEF QTypeOK
  <2> QED BY <2>2, <2>3, <2>4
<1>9. QTypeOK'
  BY <1>0, <1>1, <1>3, <1>5, <1>8 DEF QTypeOK
<1>10. ASSUME NEW r \in Queue PROVE placed(r)'
  <2>1. CASE r # q
    BY <1>0, <1>1, <1>3, <1>5, <2>1, PlacedSame DEF StoreInv
  <2>2. placed(q)'
    <3>1. claimed(q)' = claimed(q) \cup {h}
      BY <1>5 DEF claimed
    <3>2. h \in Range(pending[q]) /\ h \notin claimed(q)
      BY <1>0, <1>3 DEF placed
    <3>3. unacked(q)' = unacked(q)
      BY <1>3, <3>1 DEF unacked
    <3>4. \A a, b \in processing'[q] : a.id = b.id => a = b
      BY <1>0, <1>5, <3>2 DEF placed, claimed
    <3>5. Range(pending'[q]) \cap claimed(q)' = {}
      BY <1>0, <1>3, <3>1 DEF placed
    <3> QED BY <1>0, <1>1, <1>3, <3>3, <3>4, <3>5 DEF placed
  <2> QED BY <2>1, <2>2
<1>11. StoreInv'
  BY <1>0, <1>1, <1>10, StoreKept
<1>12. Alive'
  <2>1. Open' = Open
    BY <1>1 DEF Open
  <2> QED BY <1>0, <1>1, <1>8, <2>1 DEF Alive
<1>13. ASSUME NEW j \in Instance PROVE owned(j)'
  <2> SUFFICES ASSUME NEW f \in deliveries'[j]
               PROVE  /\ f.id \in Range(sent)' /\ (f.phase = "settled" => f.id \in handled')
                      /\ j \in lapsed' \/ holds(j, f)' \/ gone(f.id)'
    BY DEF owned
  <2>1. CASE f \in deliveries[j]
    <3>1. /\ f.id \in Range(sent) /\ (f.phase = "settled" => f.id \in handled)
          /\ j \in lapsed \/ holds(j, f) \/ gone(f.id)
      BY <1>0, <2>1 DEF owned
    <3>2. f.queue \in Queue
      BY <1>0, <2>1 DEF QTypeOK, Delivery
    <3>3. holds(j, f) => holds(j, f)'
      BY <1>5, <3>2 DEF holds
    <3>4. gone(f.id) => gone(f.id)'
      BY <1>1 DEF gone
    <3> QED BY <1>1, <3>1, <3>3, <3>4
  <2>2. CASE f \notin deliveries[j]
    <3>1. j = i /\ f = e
      BY <1>8, <2>2
    <3>2. h \in Range(sent)
      BY <1>0, <1>3 DEF placed, unacked
    <3>3. holds(i, e)'
      BY <1>4, <1>5, <1>8 DEF holds
    <3> QED BY <1>1, <1>8, <3>1, <3>2, <3>3
  <2> QED BY <2>1, <2>2
<1>14. SingleDelivery'
  <2>1. ASSUME NEW j \in Instance \ lapsed, NEW f \in deliveries[j], f.id = h PROVE FALSE
    <3>1. f.queue \in Queue /\ h \in Range(pending[q])
      BY <1>0, <1>3, <2>1 DEF QTypeOK, Delivery
    <3>2. holds(j, f) \/ gone(h)
      BY <1>0, <2>1 DEF owned
    <3> QED BY <1>0, <2>1, <3>1, <3>2, PendingIsFree
  <2> SUFFICES ASSUME NEW j \in Instance \ lapsed, NEW k \in Instance \ lapsed,
                      NEW f \in deliveries'[j], NEW g \in deliveries'[k], f.id = g.id
               PROVE  j = k /\ f = g
    BY <1>1 DEF SingleDelivery
  <2>2. /\ f \in deliveries[j] \/ (j = i /\ f = e)
        /\ g \in deliveries[k] \/ (k = i /\ g = e)
    BY <1>8
  <2> QED BY <1>0, <1>8, <2>1, <2>2 DEF SingleDelivery
<1> QED BY <1>9, <1>11, <1>12, <1>13, <1>14 DEF QInv, WorkerInv

\* The messages D leave the queue q, whether pending or claimed, with their payloads.
Leave(q, D) ==
  /\ D \subseteq payload[q] /\ QTypeOK' /\ Alive'
  /\ UNCHANGED <<sent, handled, lapsed>> /\ cleared \subseteq cleared'
  /\ payload'[q] = payload[q] \ D /\ claimed(q)' = claimed(q) \ D
  /\ processing'[q] \subseteq processing[q] /\ \A c \in processing[q] : c.id \notin D => c \in processing'[q]
  /\ Range(pending'[q]) = Range(pending[q]) \ D /\ IsInjective(pending'[q])
  /\ \A r \in Queue \ {q} :
       pending'[r] = pending[r] /\ processing'[r] = processing[r] /\ payload'[r] = payload[r]
  /\ \A i \in Instance : deliveries'[i] \subseteq deliveries[i]
  /\ D \subseteq handled' \cup cleared'

LEMMA LeaveKeeps ==
  ASSUME QInv, NEW q \in Queue, NEW D, Leave(q, D)
  PROVE  QInv'
<1>0. /\ QTypeOK /\ StoreInv /\ SingleDelivery /\ (\A j \in Instance : owned(j)) /\ placed(q)
  BY DEF QInv, WorkerInv, StoreInv
<1>1. ASSUME NEW r \in Queue PROVE placed(r)'
  <2>1. CASE r # q
    BY <1>0, <2>1, PlacedSame DEF StoreInv, Leave
  <2>2. placed(q)'
    <3>1. unacked(q)' = unacked(q) \ D
      BY DEF unacked, Leave
    <3>2. \A a, b \in processing'[q] : a.id = b.id => a = b
      BY <1>0 DEF placed, Leave
    <3>3. Range(pending'[q]) \cap claimed(q)' = {}
      BY <1>0 DEF placed, Leave
    <3>4. unacked(q)' = payload'[q] /\ payload'[q] \subseteq Range(sent)'
      BY <1>0, <3>1 DEF placed, Leave
    <3> QED BY <3>2, <3>3, <3>4 DEF placed, Leave
  <2> QED BY <2>1, <2>2
<1>2. \A r \in Queue : payload'[r] \subseteq payload[r]
  BY DEF Leave
<1>3. Apart'
  BY <1>0, <1>2 DEF StoreInv, Apart
<1>4. Kept'
  <2> SUFFICES ASSUME NEW m \in Range(sent), m \notin handled, m \notin cleared'
               PROVE  \E r \in Queue : m \in payload'[r]
    BY DEF Kept, Leave
  <2>1. PICK r \in Queue : m \in payload[r]
    BY <1>0 DEF StoreInv, Kept, Leave
  <2>2. m \notin D
    BY DEF Leave
  <2> QED BY <2>1, <2>2 DEF Leave
<1>5. ASSUME NEW j \in Instance PROVE owned(j)'
  <2> SUFFICES ASSUME NEW f \in deliveries'[j]
               PROVE  /\ f.id \in Range(sent)' /\ (f.phase = "settled" => f.id \in handled')
                      /\ j \in lapsed' \/ holds(j, f)' \/ gone(f.id)'
    BY DEF owned
  <2>1. f \in deliveries[j] /\ f.queue \in Queue
    BY <1>0 DEF QTypeOK, Delivery, Leave
  <2>2. /\ f.id \in Range(sent) /\ (f.phase = "settled" => f.id \in handled)
        /\ j \in lapsed \/ holds(j, f) \/ gone(f.id)
    BY <1>0, <2>1 DEF owned
  <2>3. gone(f.id) => gone(f.id)'
    BY <1>2 DEF gone
  <2>4. ASSUME holds(j, f) PROVE holds(j, f)' \/ gone(f.id)'
    <3>1. CASE f.queue # q
      BY <2>1, <2>4, <3>1 DEF holds, Leave
    <3>2. CASE f.queue = q /\ f.id \notin D
      <4>1. PICK c : c = [id |-> f.id, by |-> j]
        OBVIOUS
      <4>2. c \in processing'[q]
        BY <2>4, <3>2, <4>1 DEF holds, Leave
      <4> QED BY <3>2, <4>1, <4>2 DEF holds
    <3>3. CASE f.id \in D
      <4>1. \A r \in Queue : f.id \notin payload'[r]
        BY <1>0, <3>3 DEF StoreInv, Apart, Leave
      <4> QED BY <4>1 DEF gone
    <3> QED BY <3>1, <3>2, <3>3
  <2> QED BY <2>2, <2>3, <2>4 DEF Leave
<1>6. SingleDelivery'
  BY <1>0 DEF SingleDelivery, Leave
<1> QED BY <1>1, <1>3, <1>4, <1>5, <1>6 DEF QInv, StoreInv, WorkerInv, Leave

LEMMA AckKeeps ==
  ASSUME QInv, NEW i \in Instance, NEW d \in deliveries[i], NEW ok \in BOOLEAN, Ack(i, d, ok)
  PROVE  QInv'
<1>0. QTypeOK /\ Alive /\ StoreInv /\ owned(i)
  BY DEF QInv, WorkerInv
<1>1. UNCHANGED <<pending, heartbeat, leader, round, renewed, inst, sent, handled, cleared, lapsed>>
  BY DEF Ack, keys, audit
<1>2. PICK q, m, mine : q = d.queue /\ m = d.id /\ mine = claims_on(q, m)
  OBVIOUS
<1>3. q \in Queue /\ m \in handled /\ placed(q)
  <2>1. q \in Queue
    BY <1>0, <1>2 DEF QTypeOK, Delivery
  <2>2. d.phase = "settled"
    BY DEF Ack
  <2> QED BY <1>0, <1>2, <2>1, <2>2 DEF owned, StoreInv
<1>4. /\ deliveries' \in [Instance -> SUBSET Delivery]
      /\ \A j \in Instance : deliveries'[j] \subseteq deliveries[j]
  BY <1>0 DEF Ack, QTypeOK
<1>5. /\ processing' = [processing EXCEPT ![q] = IF ok THEN processing[q] \ mine ELSE processing[q]]
      /\ payload' = [payload EXCEPT ![q] = IF ok /\ mine # {} THEN payload[q] \ {m} ELSE payload[q]]
  BY <1>2 DEF Ack
<1>6. /\ processing' \in [Queue -> SUBSET Claim] /\ payload' \in [Queue -> SUBSET Message]
      /\ \A r \in Queue \ {q} : processing'[r] = processing[r] /\ payload'[r] = payload[r]
  BY <1>0, <1>3, <1>5 DEF QTypeOK
<1>7. QTypeOK'
  BY <1>0, <1>1, <1>4, <1>6 DEF QTypeOK
<1>8. Alive'
  <2>1. Open' = Open
    BY <1>1 DEF Open
  <2> QED BY <1>0, <1>1, <1>4, <2>1 DEF Alive
<1>9. CASE ok /\ mine # {}
  <2>1. processing'[q] = processing[q] \ mine /\ payload'[q] = payload[q] \ {m}
    BY <1>0, <1>3, <1>5, <1>9 DEF QTypeOK
  <2>2. mine = {c \in processing[q] : c.id = m}
    BY <1>2 DEF claims_on
  <2>3. m \in claimed(q) /\ claimed(q)' = claimed(q) \ {m}
    BY <1>9, <2>1, <2>2 DEF claimed
  <2>4. m \in payload[q] /\ m \notin Range(pending[q])
    BY <1>3, <2>3 DEF placed, unacked
  <2>5. \A c \in processing[q] : c.id \notin {m} => c \in processing'[q]
    BY <2>1, <2>2
  <2>6. Range(pending'[q]) = Range(pending[q]) \ {m} /\ IsInjective(pending'[q])
    BY <1>1, <1>3, <2>4 DEF placed
  <2>7. Leave(q, {m})
    BY <1>1, <1>3, <1>4, <1>6, <1>7, <1>8, <2>1, <2>3, <2>4, <2>5, <2>6 DEF Leave
  <2> QED BY <1>3, <2>7, LeaveKeeps
<1>10. CASE ~(ok /\ mine # {})
  <2>1. processing' = processing /\ payload' = payload
    BY <1>0, <1>3, <1>5, <1>10 DEF QTypeOK
  <2>2. Rests
    BY <1>1, <1>4, <2>1 DEF Rests
  <2> QED BY <1>7, <1>8, <2>2, RestsKeeps
<1> QED BY <1>9, <1>10

LEMMA ClearKeeps ==
  ASSUME QInv, NEW q \in Queue, Clear(q)
  PROVE  QInv'
<1>0. QTypeOK /\ Alive /\ StoreInv /\ placed(q)
  BY DEF QInv, WorkerInv, StoreInv
<1>1. /\ UNCHANGED <<heartbeat, leader, round, renewed, inst, deliveries, sent, handled, lapsed>>
      /\ cleared' = cleared \cup unacked(q)
  BY DEF Clear, keys
<1>2. unacked(q) = payload[q] /\ payload[q] \subseteq Message
  BY <1>0 DEF placed, QTypeOK
<1>3. /\ payload' \in [Queue -> SUBSET Message] /\ payload'[q] = payload[q] \ payload[q]
      /\ processing' \in [Queue -> SUBSET Claim] /\ processing'[q] = {}
      /\ \A r \in Queue \ {q} : payload'[r] = payload[r] /\ processing'[r] = processing[r]
  BY <1>0, <1>2 DEF Clear, QTypeOK
<1>4. /\ pending' \in [Queue -> Seq(Message)] /\ pending'[q] = << >>
      /\ \A r \in Queue \ {q} : pending'[r] = pending[r]
  BY <1>0, EmptySeq DEF Clear, QTypeOK
<1>5. QTypeOK'
  BY <1>0, <1>1, <1>2, <1>3, <1>4 DEF QTypeOK
<1>6. Alive'
  <2>1. Open' = Open
    BY <1>1 DEF Open
  <2> QED BY <1>0, <1>1, <2>1 DEF Alive
<1>7. claimed(q) \subseteq payload[q] /\ Range(pending[q]) \subseteq payload[q]
  BY <1>2 DEF unacked
<1>8. claimed(q)' = {}
  BY <1>3 DEF claimed
<1>9. Range(<< >>) = {} /\ IsInjective(<< >>)
  BY DEF Range, IsInjective
<1>10. \A c \in processing[q] : c.id \in payload[q]
  BY <1>7 DEF claimed
<1>11. Leave(q, payload[q])
  BY <1>1, <1>2, <1>3, <1>4, <1>5, <1>6, <1>7, <1>8, <1>9, <1>10 DEF Leave
<1> QED BY <1>11, LeaveKeeps

LEMMA RecoverStaleKeeps ==
  ASSUME QInv, NEW i \in Instance, NEW q \in Queue, RecoverStale(i, q)
  PROVE  QInv'
<1>0. /\ QTypeOK /\ Alive /\ StoreInv /\ SingleDelivery /\ (\A j \in Instance : owned(j)) /\ placed(q)
      /\ Backend = "cache"
  BY DEF QInv, WorkerInv, StoreInv, RecoverStale, Alive
<1>1. UNCHANGED <<payload, heartbeat, leader, inst, deliveries, sent, handled, cleared, lapsed>>
  BY DEF RecoverStale, audit
<1>2. PICK old, T : old = stale(q) /\ T = {c.id : c \in stale(q)}
  OBVIOUS
<1>3. PICK order \in Orders(T) : pending' = [pending EXCEPT ![q] = pending[q] \o order]
  BY <1>2 DEF RecoverStale
<1>4. old \subseteq processing[q] /\ \A c \in processing[q] : c \in old <=> c.by \notin heartbeat
  BY <1>2 DEF stale
<1>5. T \subseteq claimed(q) /\ T \subseteq Range(sent) /\ T \subseteq Message
  <2>1. T \subseteq claimed(q)
    BY <1>2, <1>4 DEF claimed
  <2>2. claimed(q) \subseteq payload[q]
    BY <1>0 DEF placed, unacked
  <2> QED BY <1>0, <2>1, <2>2 DEF placed, QTypeOK
<1>6. order \in Seq(T) /\ Range(order) = T /\ IsInjective(order)
  BY <1>0, <1>5, Ordered DEF QTypeOK
<1>7. /\ pending' \in [Queue -> Seq(Message)] /\ Range(pending'[q]) = Range(pending[q]) \cup T
      /\ IsInjective(pending'[q]) /\ \A r \in Queue \ {q} : pending'[r] = pending[r]
  <2>1. pending[q] \in Seq(Message) /\ order \in Seq(Message)
    BY <1>0, <1>5, <1>6, SeqMonotonic DEF QTypeOK
  <2>2. IsInjective(pending[q]) /\ Range(pending[q]) \cap Range(order) = {}
    BY <1>0, <1>5, <1>6 DEF placed
  <2>3. /\ pending[q] \o order \in Seq(Message) /\ IsInjective(pending[q] \o order)
        /\ Range(pending[q] \o order) = Range(pending[q]) \cup T
    BY <1>6, <2>1, <2>2, Joined
  <2> QED BY <1>0, <1>3, <2>3 DEF QTypeOK
<1>8. /\ processing' \in [Queue -> SUBSET Claim] /\ processing'[q] = processing[q] \ old
      /\ \A r \in Queue \ {q} : processing'[r] = processing[r]
  BY <1>0, <1>2 DEF RecoverStale, QTypeOK
<1>9. /\ round' \in [Instance -> SUBSET Queue] /\ renewed' \subseteq Instance
  BY <1>0 DEF RecoverStale, QTypeOK
<1>10. QTypeOK'
  BY <1>0, <1>1, <1>7, <1>8, <1>9 DEF QTypeOK
<1>11. ASSUME NEW r \in Queue PROVE placed(r)'
  <2>1. CASE r # q
    BY <1>0, <1>1, <1>7, <1>8, <2>1, PlacedSame DEF StoreInv
  <2>2. placed(q)'
    <3>1. claimed(q)' = claimed(q) \ T
      <4>1. \A c \in processing[q] : c.id \in T => c \in old
        BY <1>0, <1>2, <1>4 DEF placed
      <4> QED BY <1>2, <1>8, <4>1 DEF claimed
    <3>2. unacked(q)' = unacked(q)
      BY <1>5, <1>7, <3>1 DEF unacked
    <3>3. Range(pending'[q]) \cap claimed(q)' = {}
      BY <1>0, <1>7, <3>1 DEF placed
    <3>4. \A a, b \in processing'[q] : a.id = b.id => a = b
      BY <1>0, <1>8 DEF placed
    <3> QED BY <1>0, <1>1, <1>7, <3>2, <3>3, <3>4 DEF placed
  <2> QED BY <2>1, <2>2
<1>12. StoreInv'
  BY <1>0, <1>1, <1>11, StoreKept
<1>13. Alive'
  <2>1. Open' = Open
    BY <1>1 DEF Open
  <2> QED BY <1>0, <1>1, <2>1 DEF Alive
<1>14. ASSUME NEW j \in Instance PROVE owned(j)'
  <2> SUFFICES ASSUME NEW f \in deliveries[j]
               PROVE  /\ f.id \in Range(sent)' /\ (f.phase = "settled" => f.id \in handled')
                      /\ j \in lapsed' \/ holds(j, f)' \/ gone(f.id)'
    BY <1>1 DEF owned
  <2>1. /\ f.id \in Range(sent) /\ (f.phase = "settled" => f.id \in handled)
        /\ j \in lapsed \/ holds(j, f) \/ gone(f.id)
    BY <1>0 DEF owned
  <2>2. f.queue \in Queue
    BY <1>0 DEF QTypeOK, Delivery
  <2>3. j \notin lapsed => j \in heartbeat
    BY <1>0 DEF Alive
  <2>4. ASSUME holds(j, f), j \notin lapsed PROVE holds(j, f)'
    <3>1. PICK c : c = [id |-> f.id, by |-> j]
      OBVIOUS
    <3>2. c.by = j /\ c \in processing[f.queue]
      BY <2>4, <3>1 DEF holds
    <3>3. c \in processing'[f.queue]
      BY <1>4, <1>8, <2>2, <2>3, <2>4, <3>2
    <3> QED BY <3>1, <3>3 DEF holds
  <2>5. gone(f.id) => gone(f.id)'
    BY <1>1 DEF gone
  <2> QED BY <1>1, <2>1, <2>4, <2>5
<1>15. SingleDelivery'
  BY <1>0, <1>1 DEF SingleDelivery
<1> QED BY <1>10, <1>12, <1>13, <1>14, <1>15 DEF QInv, WorkerInv

LEMMA StartKeeps ==
  ASSUME QInv, NEW i \in Instance, Start(i)
  PROVE  QInv'
<1>0. /\ QTypeOK /\ Alive /\ StoreInv /\ SingleDelivery /\ (\A j \in Instance : owned(j))
      /\ inst[i] = "new"
  BY DEF QInv, WorkerInv, Start
<1>1. UNCHANGED <<leader, round, renewed, deliveries, sent, handled, cleared, lapsed>>
  BY DEF Start, audit
<1>2. /\ inst' \in [Instance -> {"new", "running", "stopping", "closed", "dead"}]
      /\ Open' = Open \cup {i}
  <2>1. inst' = [inst EXCEPT ![i] = "running"]
    BY DEF Start
  <2> QED BY <1>0, <2>1 DEF QTypeOK, Open
<1>3. CASE Backend = "cache"
  <2>1. heartbeat' = heartbeat \cup {i} /\ UNCHANGED <<pending, processing, payload>>
    BY <1>3 DEF Start, open_cache, store
  <2>2. QTypeOK'
    BY <1>0, <1>1, <1>2, <2>1 DEF QTypeOK
  <2>3. Alive'
    BY <1>0, <1>1, <1>2, <2>1 DEF Alive
  <2>4. Rests
    BY <1>1, <2>1 DEF Rests
  <2> QED BY <2>2, <2>3, <2>4, RestsKeeps
<1>4. CASE Backend # "cache"
  <2>1. Open = {} /\ return_claims /\ UNCHANGED <<payload, heartbeat>>
    BY <1>4 DEF Start, open_sqlite
  <2>2. \A j \in Instance : deliveries[j] = {}
    BY <1>0, <2>1 DEF Alive
  <2>3. ASSUME NEW q \in Queue
        PROVE  /\ pending'[q] \in Seq(Message) /\ Range(pending'[q]) = payload[q]
               /\ IsInjective(pending'[q])
    <3>1. pending'[q] \in Orders(unacked(q))
      BY <2>1 DEF return_claims, RowOrders
    <3>2. unacked(q) = payload[q] /\ payload[q] \subseteq Range(sent) /\ payload[q] \subseteq Message
      BY <1>0 DEF StoreInv, placed, QTypeOK
    <3>3. sent \in Seq(Message)
      BY <1>0 DEF QTypeOK
    <3>4. pending'[q] \in Seq(payload[q]) /\ Range(pending'[q]) = payload[q] /\ IsInjective(pending'[q])
      BY <3>1, <3>2, <3>3, Ordered
    <3> QED BY <3>2, <3>4, SeqMonotonic
  <2>4. pending' \in [Queue -> Seq(Message)] /\ processing' \in [Queue -> SUBSET Claim]
    <3>1. PICK S : pending' \in [Queue -> S]
      BY <2>1 DEF return_claims
    <3>2. pending' \in [Queue -> Seq(Message)]
      BY <2>3, <3>1
    <3> QED BY <2>1, <3>2 DEF return_claims
  <2>5. \A q \in Queue : processing'[q] = {}
    BY <2>1 DEF return_claims
  <2>6. QTypeOK'
    BY <1>0, <1>1, <1>2, <2>1, <2>4 DEF QTypeOK
  <2>7. ASSUME NEW q \in Queue PROVE placed(q)'
    <3>1. claimed(q)' = {}
      BY <2>5 DEF claimed
    <3>2. unacked(q)' = payload[q]
      BY <2>3, <3>1 DEF unacked
    <3>3. payload[q] \subseteq Range(sent)
      BY <1>0 DEF StoreInv, placed
    <3> QED BY <1>1, <2>1, <2>3, <2>5, <3>1, <3>2, <3>3 DEF placed
  <2>8. StoreInv'
    BY <1>0, <1>1, <2>1, <2>7, StoreKept
  <2>9. Alive'
    BY <1>0, <1>1, <1>2, <1>4, <2>2 DEF Alive
  <2>10. (\A j \in Instance : owned(j)') /\ SingleDelivery'
    BY <1>1, <2>2 DEF owned, SingleDelivery
  <2> QED BY <2>6, <2>8, <2>9, <2>10 DEF QInv, WorkerInv
<1> QED BY <1>3, <1>4

-----------------------------------------------------------------------------
LEMMA QueueStarts ==
  ASSUME QInit
  PROVE  QInv
<1>1. QTypeOK
  BY EmptySeq, QueueAssumption DEF QInit, QTypeOK
<1>2. Range(<< >>) = {} /\ IsInjective(<< >>)
  BY DEF Range, IsInjective
<1>3. StoreInv
  <2>1. \A q \in Queue : claimed(q) = {} /\ unacked(q) = {}
    BY <1>2 DEF QInit, claimed, unacked
  <2> QED BY <1>2, <2>1 DEF QInit, StoreInv, placed, Apart, Kept
<1>4. WorkerInv
  BY DEF QInit, WorkerInv, Alive, Open, owned, SingleDelivery
<1> QED BY <1>1, <1>3, <1>4 DEF QInv

LEMMA QueueStepKeeps ==
  ASSUME QInv, QNext
  PROVE  QInv'
<1>0. Outcome \subseteq BOOLEAN /\ Stopping \subseteq Instance /\ Crashing \subseteq Instance
  BY QueueAssumption
<1>1. CASE Lifecycle
  BY <1>0, <1>1, StartKeeps, KeysKeep, EndsKeep DEF Lifecycle
<1>2. CASE Recovery
  <2>1. ASSUME LeaderExpires PROVE QInv'
    <3>1. leader \in Instance
      BY <2>1 DEF LeaderExpires, QInv, QTypeOK
    <3> QED BY <2>1, <3>1, KeysKeep
  <2> QED BY <1>2, <2>1, KeysKeep, RecoverStaleKeeps DEF Recovery
<1>3. CASE Handling
  BY <1>0, <1>3, DequeueKeeps, SettleKeeps, EndsKeep, AckKeeps DEF Handling
<1>4. ASSUME NEW i \in Instance, NEW d \in deliveries[i], NEW r \in Queue, NEW m \in Message,
             FollowUp(i, d, r, m)
      PROVE  QInv'
  BY <1>4, EnqueueKeeps DEF FollowUp
<1>5. ASSUME NEW q \in Queue, NEW m \in Message, Enqueue(q, m) PROVE QInv'
  BY <1>5, EnqueueKeeps DEF Enqueue
<1> QED BY <1>1, <1>2, <1>3, <1>4, <1>5, ClearKeeps DEF QNext

LEMMA QueueStutters ==
  ASSUME QInv, UNCHANGED qvars
  PROVE  QInv'
<1>1. /\ UNCHANGED <<pending, processing, payload, heartbeat, leader, round, renewed, inst,
                     deliveries, sent, handled, cleared, lapsed>>
  BY DEF qvars
<1>2. QTypeOK'
  BY <1>1 DEF QInv, QTypeOK
<1>3. Alive'
  BY <1>1 DEF QInv, WorkerInv, Alive, Open
<1>4. Rests
  BY <1>1 DEF Rests
<1> QED BY <1>2, <1>3, <1>4, RestsKeeps

\* Every message has one place, and whoever handles one holds its claim.
THEOREM QueueInvariant == QSpec => []QInv
<1>1. QInit => QInv
  BY QueueStarts
<1>2. QInv /\ [QNext]_qvars => QInv'
  BY QueueStepKeeps, QueueStutters
<1> QED BY <1>1, <1>2, PTL DEF QSpec

\* The variables have their types.
THEOREM QueueTypes == QSpec => []QTypeOK
BY QueueInvariant, PTL DEF QInv

\* DEQUEUE, ACK, CLEAR and RECOVER_STALE, and their SQLite counterparts, keep an id in
\* one place with its payload, for any number of instances.
THEOREM MessagesHaveOnePlace == QSpec => []OnePlace
<1>1. ASSUME QInv PROVE OnePlace
  BY <1>1 DEF QInv, StoreInv, placed, Apart, OnePlace
<1> QED BY <1>1, QueueInvariant, PTL

\* At-least-once delivery (NamedQueue.dequeue), whatever dies, stops, is paused or is not
\* answered.
THEOREM MessagesAreNotLost == QSpec => []NothingLost
<1>1. ASSUME QInv PROVE NothingLost
  BY <1>1 DEF QInv, StoreInv, placed, Kept, NothingLost
<1> QED BY <1>1, QueueInvariant, PTL

\* Recovery takes no message from an instance that kept its heartbeat.
THEOREM DeliveriesAreSingle == QSpec => []SingleDelivery
BY QueueInvariant, PTL DEF QInv, WorkerInv

-----------------------------------------------------------------------------
(* Refinement of DurableQueue *)

LEMMA QueuedIsStored ==
  ASSUME QInv
  PROVE  queued = UNION {payload[q] : q \in Queue} /\ queued \cup left = Range(sent) /\ queued \subseteq Range(sent)
<1>1. \A q \in Queue : unacked(q) = payload[q] /\ payload[q] \subseteq Range(sent)
  BY DEF QInv, StoreInv, placed
<1> QED BY <1>1 DEF queued, left

\* Messages that only move stay queued.
LEMMA MovesStutter ==
  ASSUME QInv, QInv', UNCHANGED <<payload, sent, handled, cleared>>
  PROVE  UNCHANGED Promise!vars
<1>1. queued' = queued
  <2>1. queued' = UNION {payload'[q] : q \in Queue}
    <3>1. \A q \in Queue : unacked(q)' = payload'[q]
      BY DEF QInv, StoreInv, placed
    <3> QED BY <3>1 DEF queued
  <2> QED BY <2>1, QueuedIsStored
<1> QED BY <1>1 DEF Promise!vars, left

LEMMA EnqueuePuts ==
  ASSUME QInv, NEW q \in Queue, NEW m \in Message, enqueue(q, m)
  PROVE  Promise!Put(m)
<1>0. QInv' /\ UNCHANGED <<handled, cleared>> /\ m \notin Range(sent)
  BY EnqueueKeeps DEF enqueue
<1>1. Range(sent') = Range(sent) \cup {m}
  BY Appended DEF QInv, QTypeOK, enqueue
<1>2. payload'[q] = payload[q] \cup {m} /\ \A r \in Queue \ {q} : payload'[r] = payload[r]
  BY DEF QInv, QTypeOK, enqueue
<1>3. \A r \in Queue : unacked(r)' = payload'[r] /\ unacked(r) = payload[r]
  BY <1>0 DEF QInv, StoreInv, placed
<1>4. queued' = queued \cup {m}
  BY <1>2, <1>3 DEF queued
<1>5. m \notin queued \cup left
  BY <1>0, QueuedIsStored
<1>6. left' = left
  BY <1>0, <1>1, <1>4 DEF left
<1> QED BY <1>0, <1>4, <1>5, <1>6 DEF Promise!Put

LEMMA SettleHandles ==
  ASSUME QInv, NEW i \in Instance, NEW d \in deliveries[i], Settle(i, d)
  PROVE  d.id \in Message /\ Promise!Handle(d.id)
<1>1. UNCHANGED <<pending, processing, sent, cleared>> /\ handled' = handled \cup {d.id}
  BY DEF Settle, store
<1>2. d.id \in Message /\ d.id \in Range(sent)
  BY DEF QInv, QTypeOK, Delivery, WorkerInv, owned
<1>3. queued' = queued /\ left' = left
  BY <1>1 DEF queued, left, unacked, claimed
<1> QED BY <1>1, <1>2, <1>3, QueuedIsStored DEF Promise!Handle

\* The messages of D leave the queue q.
LEMMA LeavesQueued ==
  ASSUME QInv, QInv', NEW q \in Queue, NEW D, D \subseteq payload[q], UNCHANGED sent,
         payload'[q] = payload[q] \ D, \A r \in Queue \ {q} : payload'[r] = payload[r]
  PROVE  D \subseteq queued /\ queued' = queued \ D /\ left' = left \cup D
<1>1. \A r \in Queue : unacked(r)' = payload'[r] /\ unacked(r) = payload[r]
  BY DEF QInv, StoreInv, placed
<1>2. \A r \in Queue \ {q} : payload[r] \cap D = {}
  BY DEF QInv, StoreInv, Apart
<1>3. queued' = queued \ D /\ D \subseteq queued
  BY <1>1, <1>2 DEF queued
<1> QED BY <1>3, QueuedIsStored DEF left

LEMMA AckRemoves ==
  ASSUME QInv, NEW i \in Instance, NEW d \in deliveries[i], NEW ok \in BOOLEAN, Ack(i, d, ok)
  PROVE  d.id \in Message /\ (Promise!Remove(d.id) \/ UNCHANGED Promise!vars)
<1>0. QInv' /\ UNCHANGED <<sent, handled, cleared>>
  BY AckKeeps DEF Ack, audit
<1>1. PICK q, m : q = d.queue /\ m = d.id
  OBVIOUS
<1>2. q \in Queue /\ m \in Message /\ m \in handled
  <2>1. d \in Delivery /\ d.phase = "settled"
    BY DEF QInv, QTypeOK, Ack
  <2> QED BY <1>1, <2>1 DEF QInv, WorkerInv, owned, Delivery
<1>3. payload' = [payload EXCEPT ![q] = IF ok /\ claims_on(q, m) # {} THEN payload[q] \ {m} ELSE payload[q]]
  BY <1>1 DEF Ack
<1>4. CASE ok /\ claims_on(q, m) # {}
  <2>1. payload'[q] = payload[q] \ {m} /\ \A r \in Queue \ {q} : payload'[r] = payload[r]
    BY <1>2, <1>3, <1>4 DEF QInv, QTypeOK
  <2>2. {m} \subseteq payload[q]
    BY <1>2, <1>4 DEF claims_on, QInv, StoreInv, placed, unacked, claimed
  <2>3. {m} \subseteq queued /\ queued' = queued \ {m} /\ left' = left \cup {m}
    BY <1>0, <1>2, <2>1, <2>2, LeavesQueued
  <2> QED BY <1>0, <1>1, <1>2, <2>3 DEF Promise!Remove
<1>5. CASE ~(ok /\ claims_on(q, m) # {})
  <2>1. payload' = payload
    BY <1>2, <1>3, <1>5 DEF QInv, QTypeOK
  <2> QED BY <1>0, <1>1, <1>2, <2>1, MovesStutter
<1> QED BY <1>4, <1>5

LEMMA ClearClears ==
  ASSUME QInv, NEW q \in Queue, Clear(q)
  PROVE  \E S \in SUBSET Message : Promise!Clear(S)
<1>0. QInv' /\ UNCHANGED <<sent, handled>> /\ unacked(q) = payload[q] /\ payload[q] \subseteq Message
  BY ClearKeeps DEF Clear, QInv, StoreInv, placed, QTypeOK
<1>1. /\ payload'[q] = payload[q] \ payload[q] /\ \A r \in Queue \ {q} : payload'[r] = payload[r]
      /\ cleared' = cleared \cup payload[q]
  BY <1>0 DEF Clear, QInv, QTypeOK
<1>2. payload[q] \subseteq queued /\ queued' = queued \ payload[q] /\ left' = left \cup payload[q]
  BY <1>0, <1>1, LeavesQueued
<1>3. Promise!Clear(payload[q])
  BY <1>0, <1>1, <1>2 DEF Promise!Clear
<1> QED BY <1>0, <1>3

LEMMA QueueSteps ==
  ASSUME QInv, QNext
  PROVE  Promise!Next \/ UNCHANGED Promise!vars
<1>0. QInv' /\ Outcome \subseteq BOOLEAN
  BY QueueStepKeeps, QueueAssumption
<1>1. CASE Lifecycle
  <2>1. UNCHANGED <<payload, sent, handled, cleared>>
    BY <1>1 DEF Lifecycle, Start, open_cache, open_sqlite, RefreshHeartbeat, HeartbeatExpires, Cancel,
                Shutdown, Stop, Crash, store, audit
  <2> QED BY <1>0, <2>1, MovesStutter
<1>2. CASE Recovery
  <2>1. UNCHANGED <<payload, sent, handled, cleared>>
    BY <1>2 DEF Recovery, LeaderExpires, StartRound, RenewLeader, BreakOff, RecoverStale, store, audit
  <2> QED BY <1>0, <2>1, MovesStutter
<1>3. CASE Handling
  <2>1. ASSUME NEW i \in Instance, NEW q \in Queue, NEW ok \in Outcome, Dequeue(i, q, ok)
        PROVE  UNCHANGED Promise!vars
    BY <1>0, <2>1, MovesStutter DEF Dequeue, audit
  <2>2. ASSUME NEW i \in Instance, NEW d \in deliveries[i], Raise(i, d)
        PROVE  UNCHANGED Promise!vars
    BY <1>0, <2>2, MovesStutter DEF Raise, store, audit
  <2>3. ASSUME NEW i \in Instance, NEW d \in deliveries[i], Settle(i, d)
        PROVE  Promise!Next
    BY <2>3, SettleHandles DEF Promise!Next
  <2>4. ASSUME NEW i \in Instance, NEW d \in deliveries[i], NEW ok \in Outcome, Ack(i, d, ok)
        PROVE  Promise!Next \/ UNCHANGED Promise!vars
    BY <1>0, <2>4, AckRemoves DEF Promise!Next
  <2> QED BY <1>3, <2>1, <2>2, <2>3, <2>4 DEF Handling
<1>4. ASSUME NEW q \in Queue, NEW m \in Message, enqueue(q, m) PROVE Promise!Next
  BY <1>4, EnqueuePuts DEF Promise!Next
<1>5. ASSUME NEW q \in Queue, Clear(q) PROVE Promise!Next
  BY <1>5, ClearClears DEF Promise!Next
<1> QED BY <1>1, <1>2, <1>3, <1>4, <1>5 DEF QNext, Enqueue, FollowUp

\* Both backends with their workers implement DurableQueue: what was enqueued leaves only
\* handled or cleared, and never comes back.
THEOREM DurableQueueIsImplemented == QSpec => ImplementsDurableQueue
<1>1. QInit => Promise!Init
  <2> SUFFICES ASSUME QInit PROVE Promise!Init
    OBVIOUS
  <2>1. Range(<< >>) = {}
    BY DEF Range
  <2>2. \A q \in Queue : unacked(q) = {}
    BY <2>1 DEF QInit, unacked, claimed
  <2>3. queued = {} /\ left = {}
    BY <2>1, <2>2 DEF QInit, queued, left
  <2> QED BY <2>3 DEF QInit, Promise!Init
<1>2. QInv /\ [QNext]_qvars => [Promise!Next]_(Promise!vars)
  <2>1. ASSUME QInv, UNCHANGED qvars PROVE UNCHANGED Promise!vars
    BY <2>1, MovesStutter, QueueStutters DEF qvars
  <2> QED BY <2>1, QueueSteps
<1> QED BY <1>1, <1>2, QueueInvariant, PTL DEF QSpec, ImplementsDurableQueue, Promise!Spec

-----------------------------------------------------------------------------
(* wait_complete *)

\* Among the queues R of s none feeds one that comes before it.
Forward(R, s) ==
  \A i, j \in DOMAIN s : s[i] \in R /\ s[j] \in R /\ <<s[i], s[j]>> \in Feeds => i <= j

\* Queues that a pass reads in the order in which work moves between them, and that no
\* other queue feeds.
InOrder(R) ==
  /\ \A q \in Queue \ R, r \in R : <<q, r>> \notin Feeds
  /\ Forward(R, Created)

\* No queue was cleared and no paused instance was taken for dead.
Calm == lapsed = {} /\ cleared = {}

done(q) == unacked(q) \cap covered = {}
ReadQueues == Queue \ Range(unread)

\* While the queues are calm every delivery has its claim, so that its message is unacked.
ClaimsHeld == Calm => \A i \in Instance : \A d \in deliveries[i] : holds(i, d)

CBase == QInv /\ ClaimsHeld /\ covered \subseteq Range(sent) /\ (wait = "waiting" => unread \in Seq(Queue))

\* A pass that found no work has left nothing covered in the queues of R it has read, and
\* what it has still to read does not feed them.
PassInv(R) ==
  wait = "waiting" =>
    /\ Forward(R, unread)
    /\ \A q \in Range(unread) \cap R, r \in ReadQueues \cap R : <<q, r>> \notin Feeds
    /\ Calm /\ ~busy => \A q \in ReadQueues \cap R : done(q)

\* When the call has returned nothing covered is left in the queues of R.
DoneIn(R) == wait = "complete" /\ Calm => \A q \in R : done(q)

CInv == CBase /\ \A R \in SUBSET Queue : InOrder(R) => PassInv(R) /\ DoneIn(R)

LEMMA CalmBefore ==
  ASSUME QInv, QNext, Calm'
  PROVE  Calm
<1>1. lapsed \subseteq lapsed' /\ cleared \subseteq cleared'
  <2>1. CASE Lifecycle
    BY <2>1 DEF Lifecycle, Start, RefreshHeartbeat, HeartbeatExpires, Cancel, Shutdown, Stop, Crash, audit
  <2>2. CASE Recovery
    BY <2>2 DEF Recovery, LeaderExpires, StartRound, RenewLeader, BreakOff, RecoverStale, audit
  <2>3. CASE Handling
    BY <2>3 DEF Handling, Dequeue, Settle, Raise, Ack, audit
  <2> QED BY <2>1, <2>2, <2>3 DEF QNext, FollowUp, Enqueue, enqueue, Clear
<1> QED BY <1>1 DEF Calm

\* No step puts a message back that was enqueued before.
LEMMA NothingComesBack ==
  ASSUME QInv, QNext
  PROVE  /\ Range(sent) \subseteq Range(sent')
         /\ \A q \in Queue : payload'[q] \cap Range(sent) \subseteq payload[q]
<1>1. CASE Lifecycle
  BY <1>1 DEF Lifecycle, Start, open_cache, open_sqlite, RefreshHeartbeat, HeartbeatExpires, Cancel,
              Shutdown, Stop, Crash, store, audit
<1>2. CASE Recovery
  BY <1>2 DEF Recovery, LeaderExpires, StartRound, RenewLeader, BreakOff, RecoverStale, store, audit
<1>3. CASE Handling
  <2>1. ASSUME NEW i \in Instance, NEW d \in deliveries[i], NEW ok \in Outcome, Ack(i, d, ok)
        PROVE  sent' = sent /\ \A q \in Queue : payload'[q] \subseteq payload[q]
    <3>1. PICK q, m : payload' = [payload EXCEPT ![q] = IF m # {} THEN @ \ m ELSE @]
      BY <2>1 DEF Ack
    <3> QED BY <2>1, <3>1 DEF Ack, audit, QInv, QTypeOK
  <2>2. ASSUME NEW i \in Instance, NEW d \in deliveries[i], Settle(i, d) \/ Raise(i, d)
        PROVE  UNCHANGED <<sent, payload>>
    BY <2>2 DEF Settle, Raise, store, audit
  <2>3. ASSUME NEW i \in Instance, NEW q \in Queue, NEW ok \in Outcome, Dequeue(i, q, ok)
        PROVE  UNCHANGED <<sent, payload>>
    BY <2>3 DEF Dequeue, audit
  <2> QED BY <1>3, <2>1, <2>2, <2>3 DEF Handling
<1>4. ASSUME NEW q \in Queue, NEW m \in Message, enqueue(q, m)
      PROVE  /\ Range(sent) \subseteq Range(sent')
             /\ \A r \in Queue : payload'[r] \cap Range(sent) \subseteq payload[r]
  <2>1. Range(sent') = Range(sent) \cup {m} /\ m \notin Range(sent)
    BY <1>4, Appended DEF QInv, QTypeOK, enqueue
  <2>2. payload' = [payload EXCEPT ![q] = @ \cup {m}]
    BY <1>4 DEF enqueue
  <2> QED BY <2>1, <2>2 DEF QInv, QTypeOK
<1>5. ASSUME NEW q \in Queue, Clear(q)
      PROVE  /\ Range(sent) \subseteq Range(sent')
             /\ \A r \in Queue : payload'[r] \cap Range(sent) \subseteq payload[r]
  BY <1>5 DEF Clear, QInv, QTypeOK
<1> QED BY <1>1, <1>2, <1>3, <1>4, <1>5 DEF QNext, FollowUp, Enqueue

LEMMA ClaimsStayHeld ==
  ASSUME QInv, ClaimsHeld, QNext
  PROVE  ClaimsHeld'
<1> SUFFICES ASSUME Calm', NEW i \in Instance, NEW e \in deliveries'[i] PROVE holds(i, e)'
  BY DEF ClaimsHeld
<1>0. /\ Calm /\ QTypeOK /\ \A j \in Instance : \A d \in deliveries[j] : holds(j, d)
      /\ lapsed = {} /\ Alive /\ SingleDelivery
  BY CalmBefore DEF ClaimsHeld, Calm, QInv, WorkerInv
<1>1. ASSUME e \in deliveries[i], UNCHANGED processing PROVE holds(i, e)'
  BY <1>0, <1>1 DEF holds
<1>2. CASE Lifecycle
  <2>1. ASSUME NEW j \in Instance, Start(j) PROVE holds(i, e)'
    <3>1. e \in deliveries[i] /\ (Open = {} \/ UNCHANGED processing)
      BY <2>1 DEF Start, open_cache, open_sqlite, store
    <3> QED BY <1>0, <1>1, <3>1 DEF Alive
  <2>2. ASSUME NEW j \in Instance, NEW ok,
               \/ RefreshHeartbeat(j) \/ HeartbeatExpires(j) \/ Shutdown(j, ok) \/ Stop(j) \/ Crash(j)
               \/ \E d \in deliveries[j] : Cancel(j, d)
        PROVE  holds(i, e)'
    <3>1. UNCHANGED processing /\ deliveries'[i] \subseteq deliveries[i]
      BY <1>0, <2>2 DEF RefreshHeartbeat, HeartbeatExpires, Shutdown, Stop, Crash, Cancel, store, QTypeOK
    <3> QED BY <1>1, <3>1
  <2> QED BY <1>2, <2>1, <2>2, QueueAssumption DEF Lifecycle
<1>3. CASE Recovery
  <2>1. ASSUME NEW j \in Instance, NEW q \in Queue, RecoverStale(j, q) PROVE holds(i, e)'
    <3>1. e \in deliveries[i] /\ Backend = "cache" /\ i \in heartbeat /\ holds(i, e)
      BY <1>0, <2>1 DEF RecoverStale, Alive
    <3>2. processing' = [processing EXCEPT ![q] = @ \ stale(q)]
      BY <2>1 DEF RecoverStale
    <3>3. [id |-> e.id, by |-> i] \notin stale(q)
      BY <3>1 DEF stale
    <3>4. e.queue \in Queue
      BY <1>0, <3>1 DEF QTypeOK, Delivery
    <3> QED BY <1>0, <3>1, <3>2, <3>3, <3>4 DEF holds, QTypeOK
  <2>2. ASSUME NEW j \in Instance, LeaderExpires \/ StartRound(j) \/ RenewLeader(j) \/ BreakOff(j)
        PROVE  holds(i, e)'
    <3>1. UNCHANGED <<processing, deliveries>>
      BY <2>2 DEF LeaderExpires, StartRound, RenewLeader, BreakOff, store
    <3> QED BY <1>1, <3>1
  <2> QED BY <1>3, <2>1, <2>2 DEF Recovery
<1>4. CASE Handling
  <2>1. ASSUME NEW j \in Instance, NEW q \in Queue, NEW ok \in Outcome, Dequeue(j, q, ok)
        PROVE  holds(i, e)'
    <3>1. PICK c, n : c = [id |-> Head(pending[q]), by |-> j] /\ n = Head(pending[q])
      OBVIOUS
    <3>2. processing' = [processing EXCEPT ![q] = @ \cup {c}]
      BY <2>1, <3>1 DEF Dequeue
    <3>3. e \in deliveries[i] \/ (i = j /\ e.queue = q /\ e.id = n)
      <4>1. PICK s \in slots : deliveries' = IF ~ok THEN deliveries
                 ELSE [deliveries EXCEPT ![j] =
                         @ \cup {[queue |-> q, slot |-> s, id |-> n, phase |-> "handling"]}]
        BY <2>1, <3>1 DEF Dequeue
      <4> QED BY <1>0, <4>1 DEF QTypeOK
    <3>4. CASE e \in deliveries[i]
      <4>1. e.queue \in Queue /\ holds(i, e)
        BY <1>0, <3>4 DEF QTypeOK, Delivery
      <4> QED BY <1>0, <3>2, <4>1 DEF holds, QTypeOK
    <3>5. CASE i = j /\ e.queue = q /\ e.id = n
      BY <1>0, <3>1, <3>2, <3>5 DEF holds, QTypeOK
    <3> QED BY <3>3, <3>4, <3>5
  <2>2. ASSUME NEW j \in Instance, NEW d \in deliveries[j], Settle(j, d) PROVE holds(i, e)'
    <3>1. PICK s : s = [d EXCEPT !.phase = "settled"]
      OBVIOUS
    <3>2. d \in Delivery
      BY <1>0 DEF QTypeOK
    <3>3. s.id = d.id /\ s.queue = d.queue /\ holds(j, d)
      BY <1>0, <3>1, <3>2 DEF Delivery
    <3>4. e \in deliveries[i] \/ (i = j /\ e = s)
      BY <1>0, <2>2, <3>1 DEF Settle, QTypeOK
    <3>5. UNCHANGED processing
      BY <2>2 DEF Settle, store
    <3> QED BY <1>1, <3>3, <3>4, <3>5 DEF holds
  <2>3. ASSUME NEW j \in Instance, NEW d \in deliveries[j], Raise(j, d) PROVE holds(i, e)'
    <3>1. UNCHANGED processing /\ e \in deliveries[i]
      BY <1>0, <2>3 DEF Raise, store, QTypeOK
    <3> QED BY <1>1, <3>1
  <2>4. ASSUME NEW j \in Instance, NEW d \in deliveries[j], NEW ok \in Outcome, Ack(j, d, ok)
        PROVE  holds(i, e)'
    <3>1. PICK q, n : q = d.queue /\ n = d.id
      OBVIOUS
    <3>2. processing' = [processing EXCEPT ![q] = IF ok THEN @ \ claims_on(q, n) ELSE @]
      BY <2>4, <3>1 DEF Ack
    <3>3. e \in deliveries[i] /\ ~(i = j /\ e = d)
      BY <1>0, <2>4 DEF Ack, QTypeOK
    <3>4. e.id # n
      BY <1>0, <3>1, <3>3 DEF SingleDelivery
    <3>5. [id |-> e.id, by |-> i] \notin claims_on(q, n)
      BY <3>4 DEF claims_on
    <3>6. e.queue \in Queue /\ holds(i, e)
      BY <1>0, <3>3 DEF QTypeOK, Delivery
    <3> QED BY <1>0, <3>2, <3>5, <3>6 DEF holds, QTypeOK
  <2> QED BY <1>4, <2>1, <2>2, <2>3, <2>4 DEF Handling
<1>5. ASSUME NEW q \in Queue, NEW m \in Message, enqueue(q, m) PROVE holds(i, e)'
  BY <1>1, <1>5 DEF enqueue
<1>6. ASSUME NEW q \in Queue, Clear(q) PROVE FALSE
  BY <1>6 DEF Clear, Calm
<1> QED BY <1>2, <1>3, <1>4, <1>5, <1>6 DEF QNext, FollowUp, Enqueue

\* What a covered message's handler enqueues cannot go to a queue already read.
LEMMA CoveredIsAhead ==
  ASSUME CBase, Calm, NEW i \in Instance, NEW d \in deliveries[i], d.id \in covered
  PROVE  d.queue \in Queue /\ ~done(d.queue)
<1>1. d.queue \in Queue /\ holds(i, d)
  BY DEF CBase, ClaimsHeld, QInv, QTypeOK, Delivery
<1>2. d.id \in claimed(d.queue)
  BY <1>1 DEF holds, claimed
<1> QED BY <1>1, <1>2 DEF done, unacked

\* Queues in which nothing covered is left, and which no other queue feeds, stay so.
LEMMA DoneStays ==
  ASSUME CBase, Calm', QInv', NEW R \in SUBSET Queue, \A q \in R : done(q),
         \A q \in Queue \ R, r \in R : <<q, r>> \notin Feeds,
         \/ QNext /\ UNCHANGED covered
         \/ CoveredFollowUp
  PROVE  \A q \in R : done(q)'
<1>0. covered \subseteq Range(sent) /\ QInv
  BY DEF CBase
<1>1. \A q \in Queue : unacked(q) = payload[q] /\ unacked(q)' = payload'[q]
  BY <1>0 DEF QInv, StoreInv, placed
<1>2. CASE QNext /\ UNCHANGED covered
  <2>1. \A q \in Queue : payload'[q] \cap covered \subseteq payload[q]
    BY <1>0, <1>2, NothingComesBack
  <2> QED BY <1>1, <1>2, <2>1 DEF done
<1>3. CASE CoveredFollowUp
  <2>1. PICK i \in Instance : \E d \in deliveries[i], r \in Queue, m \in Message :
          /\ FollowUp(i, d, r, m)
          /\ covered' = IF d.id \in covered THEN covered \cup {m} ELSE covered
    BY <1>3 DEF CoveredFollowUp
  <2>2. PICK d \in deliveries[i], r \in Queue, m \in Message :
          /\ FollowUp(i, d, r, m)
          /\ covered' = IF d.id \in covered THEN covered \cup {m} ELSE covered
    BY <2>1
  <2>3. /\ m \notin Range(sent) /\ <<d.queue, r>> \in Feeds /\ UNCHANGED <<cleared, lapsed>>
        /\ payload' = [payload EXCEPT ![r] = @ \cup {m}]
    BY <2>2 DEF FollowUp, enqueue
  <2>4. \A q \in Queue : payload'[q] = IF q = r THEN payload[q] \cup {m} ELSE payload[q]
    BY <1>0, <2>3 DEF QInv, QTypeOK
  <2>5. \A q \in Queue : m \notin payload[q]
    BY <1>0, <2>3 DEF QInv, StoreInv, placed
  <2>6. ASSUME d.id \in covered PROVE r \notin R
    <3>1. d.queue \in Queue /\ ~done(d.queue)
      BY <2>3, <2>6, CoveredIsAhead DEF Calm
    <3> QED BY <2>3, <3>1
  <2>7. m \notin covered
    BY <1>0, <2>3
  <2> TAKE q \in R
  <2>8. unacked(q) \cap covered = {} /\ unacked(q) = payload[q] /\ unacked(q)' = payload'[q]
    BY <1>1 DEF done
  <2>9. CASE d.id \in covered
    <3>1. payload'[q] = payload[q] /\ covered' = covered \cup {m} /\ m \notin payload[q]
      BY <2>2, <2>4, <2>5, <2>6, <2>9
    <3> QED BY <2>8, <3>1 DEF done
  <2>10. CASE d.id \notin covered
    <3>1. payload'[q] \subseteq payload[q] \cup {m} /\ covered' = covered
      BY <2>2, <2>4, <2>10
    <3> QED BY <2>7, <2>8, <3>1 DEF done
  <2> QED BY <2>9, <2>10
<1> QED BY <1>2, <1>3

LEMMA QueueMoves ==
  ASSUME CInv, (QNext /\ UNCHANGED <<watch, covered>>) \/ CoveredFollowUp
  PROVE  CInv'
<1>0. CBase /\ QInv /\ covered \subseteq Range(sent)
  BY DEF CInv, CBase
<1>1. QNext /\ UNCHANGED watch
  BY DEF CoveredFollowUp, QNext
<1>2. QInv' /\ ClaimsHeld' /\ (Calm' => Calm)
  BY <1>0, <1>1, QueueStepKeeps, ClaimsStayHeld, CalmBefore DEF CBase
<1>3. (covered \subseteq Range(sent))'
  <2>1. Range(sent) \subseteq Range(sent')
    BY <1>0, <1>1, NothingComesBack
  <2>2. ASSUME CoveredFollowUp PROVE covered' \subseteq Range(sent')
    <3>1. PICK m \in Message : covered' \subseteq covered \cup {m} /\ sent' = Append(sent, m)
      BY <2>2 DEF CoveredFollowUp, FollowUp, enqueue
    <3>2. Range(sent') = Range(sent) \cup {m}
      BY <1>0, <3>1, Appended DEF QInv, QTypeOK
    <3> QED BY <1>0, <3>1, <3>2
  <2> QED BY <1>0, <2>1, <2>2
<1>4. UNCHANGED <<wait, unread, busy>>
  BY <1>1 DEF watch
<1>5. CBase'
  BY <1>0, <1>2, <1>3, <1>4 DEF CBase
<1>6. ASSUME NEW R \in SUBSET Queue, InOrder(R) PROVE PassInv(R)' /\ DoneIn(R)'
  <2>0. PassInv(R) /\ DoneIn(R) /\ \A q \in Queue \ R, r \in R : <<q, r>> \notin Feeds
    BY <1>6 DEF CInv, InOrder
  <2>1. PassInv(R)'
    <3> SUFFICES ASSUME wait = "waiting", Calm', ~busy PROVE \A q \in ReadQueues \cap R : done(q)'
      BY <1>4, <2>0 DEF PassInv, ReadQueues, Forward
    <3>1. /\ \A q \in ReadQueues \cap R : done(q)
          /\ \A q \in Range(unread) \cap R, r \in ReadQueues \cap R : <<q, r>> \notin Feeds
      BY <1>2, <2>0 DEF PassInv
    <3>2. PICK S \in SUBSET Queue : S = ReadQueues \cap R
      OBVIOUS
    <3>3. \A q \in Queue \ S : q \in Queue \ R \/ q \in Range(unread) \cap R
      BY <3>2 DEF ReadQueues
    <3>4. \A q \in Queue \ S, r \in S : <<q, r>> \notin Feeds
      BY <2>0, <3>1, <3>2, <3>3
    <3> QED BY <1>0, <1>2, <3>1, <3>2, <3>4, DoneStays
  <2>2. DoneIn(R)'
    <3> SUFFICES ASSUME wait = "complete", Calm' PROVE \A q \in R : done(q)'
      BY <1>4 DEF DoneIn
    <3>1. \A q \in R : done(q)
      BY <1>2, <2>0 DEF DoneIn
    <3> QED BY <1>0, <1>2, <2>0, <3>1, DoneStays
  <2> QED BY <2>1, <2>2
<1>7. \A R \in SUBSET Queue : InOrder(R) => PassInv(R)' /\ DoneIn(R)'
  BY <1>6
<1> QED BY <1>5, <1>7 DEF CInv, InOrder, Forward

\* The steps of the waiting call itself: nothing in the queues changes.
LEMMA StillQueues ==
  ASSUME CBase, UNCHANGED qvars
  PROVE  /\ QInv' /\ ClaimsHeld' /\ Calm' = Calm /\ sent' = sent /\ payload' = payload
         /\ \A q \in Queue : unacked(q)' = unacked(q)
<1>1. /\ QInv' /\ UNCHANGED <<processing, deliveries, lapsed, cleared, sent, pending, payload>>
  BY QueueStutters DEF CBase, qvars
<1>2. Calm' = Calm
  BY <1>1 DEF Calm
<1>3. ClaimsHeld'
  BY <1>1, <1>2 DEF CBase, ClaimsHeld, holds
<1>4. \A q \in Queue : unacked(q)' = unacked(q)
  BY <1>1 DEF unacked, claimed
<1> QED BY <1>1, <1>2, <1>3, <1>4

\* A pass begins.
LEMMA PassBegins ==
  ASSUME NEW R \in SUBSET Queue, InOrder(R), unread' = Created
  PROVE  PassInv(R)'
<1>1. ReadQueues' = {}
  BY CreatedAssumption DEF ReadQueues
<1>2. Forward(R, unread')
  BY DEF Forward, InOrder
<1> QED BY <1>1, <1>2 DEF PassInv, Forward

LEMMA ReadKeeps ==
  ASSUME CInv, ReadStatus
  PROVE  CInv'
<1>0. CBase
  BY DEF CInv
<1>1. /\ wait = "waiting" /\ unread # << >> /\ unread' = Tail(unread)
      /\ UNCHANGED <<wait, covered>> /\ UNCHANGED qvars
      /\ busy' = (busy \/ ~is_complete(Head(unread)))
  BY DEF ReadStatus
<1>2. QInv' /\ ClaimsHeld' /\ Calm' = Calm /\ sent' = sent /\ \A q \in Queue : unacked(q)' = unacked(q)
  BY <1>0, <1>1, StillQueues
<1>3. PICK h, t : h = Head(unread) /\ t = Tail(unread)
  OBVIOUS
<1>4. unread \in Seq(Queue)
  BY <1>0, <1>1 DEF CBase
<1>5. /\ h \in Queue /\ t \in Seq(Queue) /\ Range(unread) = Range(t) \cup {h}
      /\ h = unread[1] /\ Len(t) = Len(unread) - 1 /\ \A k \in 1 .. Len(t) : t[k] = unread[k + 1]
  BY <1>1, <1>3, <1>4, HeadTailProperties, Taken
<1>6. /\ Len(unread) \in Nat \ {0} /\ DOMAIN unread = 1 .. Len(unread) /\ DOMAIN t = 1 .. Len(unread) - 1
  BY <1>1, <1>4, <1>5, Indices, EmptySeq
<1>7. /\ 1 \in DOMAIN unread
      /\ \A k \in DOMAIN t : k \in Nat /\ k + 1 \in DOMAIN unread /\ t[k] = unread[k + 1] /\ ~(k + 1 <= 1)
  BY <1>5, <1>6
<1>8. ReadQueues' \subseteq ReadQueues \cup {h}
  BY <1>1, <1>3, <1>5 DEF ReadQueues
<1>9. CBase'
  BY <1>0, <1>1, <1>2, <1>3, <1>5 DEF CBase
<1>10. ASSUME NEW R \in SUBSET Queue, InOrder(R) PROVE PassInv(R)' /\ DoneIn(R)'
  <2>0. /\ Forward(R, unread)
        /\ \A q \in Range(unread) \cap R, r \in ReadQueues \cap R : <<q, r>> \notin Feeds
        /\ Calm /\ ~busy => \A q \in ReadQueues \cap R : done(q)
    BY <1>1, <1>10 DEF CInv, PassInv
  <2>1. Forward(R, t)
    <3> SUFFICES ASSUME NEW a \in DOMAIN t, NEW b \in DOMAIN t, t[a] \in R, t[b] \in R,
                        <<t[a], t[b]>> \in Feeds
                 PROVE  a <= b
      BY DEF Forward
    <3>1. a \in Nat /\ b \in Nat /\ a + 1 <= b + 1
      BY <1>7, <2>0 DEF Forward
    <3> QED BY <3>1
  <2>2. ASSUME h \in R PROVE \A q \in Range(t) \cap R : <<q, h>> \notin Feeds
    <3> SUFFICES ASSUME NEW k \in DOMAIN t, t[k] \in R, <<t[k], h>> \in Feeds PROVE FALSE
      BY DEF Range
    <3>1. k + 1 <= 1
      BY <1>5, <1>7, <2>0, <2>2 DEF Forward
    <3> QED BY <1>7, <3>1
  <2>3. \A q \in Range(t) \cap R, r \in ReadQueues' \cap R : <<q, r>> \notin Feeds
    BY <1>5, <1>8, <2>0, <2>2
  <2>4. ASSUME Calm', ~busy' PROVE \A q \in ReadQueues' \cap R : done(q)'
    <3>1. ~busy /\ unacked(h) = {} /\ Calm
      BY <1>1, <1>2, <1>3, <2>4 DEF is_complete
    <3>2. \A q \in ReadQueues \cap R : done(q)
      BY <2>0, <3>1
    <3>3. done(h) /\ ReadQueues \subseteq Queue
      BY <3>1 DEF done, ReadQueues
    <3> QED BY <1>1, <1>2, <1>5, <1>8, <3>2, <3>3 DEF done
  <2>5. PassInv(R)'
    BY <1>1, <1>3, <2>1, <2>3, <2>4 DEF PassInv, Forward
  <2>6. DoneIn(R)'
    BY <1>1 DEF DoneIn
  <2> QED BY <2>5, <2>6
<1>11. \A R \in SUBSET Queue : InOrder(R) => PassInv(R)' /\ DoneIn(R)'
  BY <1>10
<1> QED BY <1>9, <1>11 DEF CInv, InOrder, Forward

LEMMA EndPassKeeps ==
  ASSUME CInv, EndPass
  PROVE  CInv'
<1>0. CBase
  BY DEF CInv
<1>1. wait = "waiting" /\ unread = << >> /\ UNCHANGED qvars /\ covered' = covered
  BY DEF EndPass
<1>2. QInv' /\ ClaimsHeld' /\ Calm' = Calm /\ sent' = sent /\ \A q \in Queue : unacked(q)' = unacked(q)
  BY <1>0, <1>1, StillQueues
<1>3. CASE busy /\ unread' = Created /\ UNCHANGED wait
  <2>1. CBase'
    BY <1>0, <1>1, <1>2, <1>3, CreatedAssumption DEF CBase
  <2>2. \A R \in SUBSET Queue : InOrder(R) => PassInv(R)' /\ DoneIn(R)'
    BY <1>1, <1>3, PassBegins DEF DoneIn
  <2> QED BY <2>1, <2>2 DEF CInv, InOrder, Forward
<1>4. CASE ~busy /\ wait' = "complete" /\ UNCHANGED unread
  <2>1. CBase'
    BY <1>0, <1>1, <1>2, <1>4 DEF CBase
  <2>2. ASSUME NEW R \in SUBSET Queue, InOrder(R) PROVE PassInv(R)' /\ DoneIn(R)'
    <3>1. ReadQueues = Queue
      BY <1>1 DEF ReadQueues, Range
    <3>2. Calm => \A q \in R : done(q)
      BY <1>1, <1>4, <2>2, <3>1 DEF CInv, PassInv
    <3> QED BY <1>1, <1>2, <1>4, <3>2 DEF PassInv, DoneIn, done
  <2>3. \A R \in SUBSET Queue : InOrder(R) => PassInv(R)' /\ DoneIn(R)'
    BY <2>2
  <2> QED BY <2>1, <2>3 DEF CInv, InOrder, Forward
<1> QED BY <1>3, <1>4 DEF EndPass

LEMMA CompletionInvariant == CSpec => []CInv
<1>1. CInit => CInv
  <2> SUFFICES ASSUME CInit PROVE CInv
    OBVIOUS
  <2>1. QInv
    BY QueueStarts DEF CInit
  <2>2. ClaimsHeld
    BY DEF CInit, QInit, ClaimsHeld
  <2> QED BY <2>1, <2>2 DEF CInit, CInv, CBase, PassInv, DoneIn
<1>2. CInv /\ [CNext]_cvars => CInv'
  <2> SUFFICES ASSUME CInv, [CNext]_cvars PROVE CInv'
    OBVIOUS
  <2>0. CBase
    BY DEF CInv
  <2>1. CASE Call
    <3>1. UNCHANGED qvars /\ unread' = Created /\ covered' = Range(sent) /\ wait' = "waiting"
      BY <2>1 DEF Call
    <3>2. QInv' /\ ClaimsHeld' /\ sent' = sent
      BY <2>0, <3>1, StillQueues
    <3>3. CBase'
      BY <3>1, <3>2, CreatedAssumption DEF CBase
    <3>4. \A R \in SUBSET Queue : InOrder(R) => PassInv(R)' /\ DoneIn(R)'
      BY <3>1, PassBegins DEF DoneIn
    <3> QED BY <3>3, <3>4 DEF CInv, InOrder, Forward
  <2>2. CASE Others
    BY <2>2, QueueMoves DEF Others, QNext
  <2>3. CASE UNCHANGED cvars
    <3>1. UNCHANGED <<qvars, wait, unread, busy, covered>>
      BY <2>3 DEF cvars
    <3>2. /\ QInv' /\ ClaimsHeld' /\ Calm' = Calm /\ sent' = sent
          /\ \A q \in Queue : unacked(q)' = unacked(q)
      BY <2>0, <3>1, StillQueues
    <3>3. CBase'
      BY <2>0, <3>1, <3>2 DEF CBase
    <3>4. \A R \in SUBSET Queue : InOrder(R) => PassInv(R) /\ DoneIn(R)
      BY DEF CInv
    <3>5. \A R \in SUBSET Queue : PassInv(R) => PassInv(R)'
      BY <3>1, <3>2 DEF PassInv, ReadQueues, done, Forward
    <3>6. \A R \in SUBSET Queue : DoneIn(R) => DoneIn(R)'
      BY <3>1, <3>2 DEF DoneIn, done
    <3> QED BY <3>3, <3>4, <3>5, <3>6 DEF CInv, InOrder, Forward
  <2> QED BY <2>1, <2>2, <2>3, ReadKeeps, EndPassKeeps, QueueMoves DEF CNext
<1> QED BY <1>1, <1>2, PTL DEF CSpec

\* What wait_complete waits for with its follow-up, in whatever order the queues were
\* created: when it has returned, in every set of queues that is read in the order in which
\* work moves through it and that nothing outside it feeds.
FollowUpDone ==
  wait = "complete" /\ Calm =>
    \A R \in SUBSET Queue : InOrder(R) => \A q \in R : unacked(q) \cap covered = {}

\* wait_complete returns only when all that was queued at the call and its follow-up are
\* done in the queues that no queue read later feeds, directly or through others.  With
\* Embedding created before Semantic the embedding queue is not among them: run
\* completion_order shows what is left there.
THEOREM FollowUpCompletes == CSpec => []FollowUpDone
<1>1. CInv => FollowUpDone
  BY DEF CInv, DoneIn, FollowUpDone, done
<1> QED BY <1>1, CompletionInvariant, PTL

\* m was enqueued, and a pass that found no work, and the call once it has returned, has
\* seen it gone.
SeenGone(m) ==
  /\ m \in Range(sent)
  /\ wait = "waiting" => busy \/ \A q \in ReadQueues : m \notin unacked(q)
  /\ wait = "complete" => \A q \in Queue : m \notin unacked(q)

LEMMA GoneStays ==
  ASSUME NEW m, CInv, CInv', [CNext]_cvars, SeenGone(m)
  PROVE  SeenGone(m)'
<1>0. CBase /\ QInv /\ QInv' /\ (wait = "waiting" => unread \in Seq(Queue))
  BY DEF CInv, CBase
<1>1. CASE UNCHANGED qvars
  <2>1. sent' = sent /\ \A q \in Queue : unacked(q)' = unacked(q)
    BY <1>0, <1>1, StillQueues
  <2>2. CASE Call \/ (EndPass /\ busy)
    <3>1. wait' = "waiting" /\ unread' = Created
      BY <2>2 DEF Call, EndPass
    <3>2. ReadQueues' = {}
      BY <3>1, CreatedAssumption DEF ReadQueues
    <3> QED BY <2>1, <3>1, <3>2 DEF SeenGone
  <2>3. CASE EndPass /\ ~busy
    <3>1. wait = "waiting" /\ unread = << >> /\ wait' = "complete"
      BY <2>3 DEF EndPass
    <3>2. ReadQueues = Queue
      BY <3>1 DEF ReadQueues, Range
    <3> QED BY <2>1, <2>3, <3>1, <3>2 DEF SeenGone
  <2>4. CASE ReadStatus
    <3>1. /\ wait = "waiting" /\ wait' = wait /\ unread # << >> /\ unread' = Tail(unread)
          /\ busy' = (busy \/ ~is_complete(Head(unread)))
      BY <2>4 DEF ReadStatus
    <3>2. PICK h, t : h = Head(unread) /\ t = Tail(unread)
      OBVIOUS
    <3>3. h \in Queue /\ Range(unread) = Range(t) \cup {h}
      BY <1>0, <3>1, <3>2, HeadTailProperties, Taken
    <3>4. ReadQueues' \subseteq ReadQueues \cup {h} /\ ReadQueues \subseteq Queue
      BY <3>1, <3>2, <3>3 DEF ReadQueues
    <3>5. ~busy' => ~busy /\ m \notin unacked(h)
      BY <3>1, <3>2 DEF is_complete
    <3> QED BY <2>1, <3>1, <3>3, <3>4, <3>5 DEF SeenGone
  <2>5. CASE UNCHANGED <<wait, unread, busy>>
    <3>1. ReadQueues' = ReadQueues /\ ReadQueues \subseteq Queue
      BY <2>5 DEF ReadQueues
    <3> QED BY <2>1, <2>5, <3>1 DEF SeenGone
  <2>6. CASE CoveredFollowUp \/ Others \/ UNCHANGED cvars
    BY <2>5, <2>6 DEF CoveredFollowUp, Others, cvars, watch
  <2> QED BY <2>2, <2>3, <2>4, <2>6 DEF CNext
<1>2. CASE CoveredFollowUp \/ Others
  <2>1. QNext /\ UNCHANGED <<wait, unread, busy>>
    BY <1>2 DEF CoveredFollowUp, Others, QNext, watch
  <2>2. /\ Range(sent) \subseteq Range(sent')
        /\ \A q \in Queue : payload'[q] \cap Range(sent) \subseteq payload[q]
    BY <1>0, <2>1, NothingComesBack
  <2>3. \A q \in Queue : unacked(q) = payload[q] /\ unacked(q)' = payload'[q]
    BY <1>0 DEF QInv, StoreInv, placed
  <2>4. \A q \in Queue : m \notin unacked(q) => m \notin unacked(q)'
    BY <2>2, <2>3 DEF SeenGone
  <2>5. ReadQueues' = ReadQueues /\ ReadQueues \subseteq Queue
    BY <2>1 DEF ReadQueues
  <2> QED BY <2>1, <2>2, <2>4, <2>5 DEF SeenGone
<1> QED BY <1>1, <1>2 DEF CNext, Call, ReadStatus, EndPass, cvars

\* wait_complete: whatever the order in which the queues were created and whichever queue
\* feeds which, a message that was enqueued before the call is gone from the queues when it
\* has returned and never comes back, with crashes, cleared queues and instances taken for
\* dead in between.
THEOREM WaitCompletes ==
  ASSUME NEW CONSTANT m
  PROVE  CSpec => [](wait = "before" /\ m \in Range(sent) =>
                       [](wait = "complete" => \A q \in Queue : m \notin unacked(q)))
<1>1. wait = "before" /\ m \in Range(sent) => SeenGone(m)
  BY DEF SeenGone
<1>2. CInv /\ CInv' /\ [CNext]_cvars /\ SeenGone(m) => SeenGone(m)'
  BY GoneStays
<1>3. SeenGone(m) => (wait = "complete" => \A q \in Queue : m \notin unacked(q))
  BY DEF SeenGone
<1> QED BY <1>1, <1>2, <1>3, CompletionInvariant, PTL DEF CSpec
=============================================================================
