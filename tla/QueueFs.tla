------------------------------ MODULE QueueFs -------------------------------
(***************************************************************************)
(* QueueFS with its SQLite and cache (Redis) backends                      *)
(* (crates/ragfs/src/plugins/queuefs) and the workers that consume it      *)
(* (openviking/storage/queuefs).                                           *)
(*                                                                         *)
(* An instance is one opening of the storage by one process; a process     *)
(* that restarts opens a new one.  A storage operation is one SQLite       *)
(* transaction or one Lua script and is one step.  Handlers run between    *)
(* the dequeue and the acknowledgement of their message, concurrently.     *)
(*                                                                         *)
(* The memory backend, which forgets everything with its process, and the  *)
(* removal of whole queues are not modelled.  Time is not modelled: a      *)
(* heartbeat key may expire at any moment, as it does for an instance that *)
(* is paused or cut off from the server for its time to live.              *)
(***************************************************************************)
EXTENDS Naturals, Sequences, FiniteSets, Functions

CONSTANTS
  Backend,         \* "sqlite" or "cache"
  Queue,
  Message,         \* message ids, drawn afresh for every enqueue
  Instance, NoInstance,
  Feeds,           \* <<q, r>>: a handler of q may enqueue into r
  MaxConcurrent,   \* deliveries one worker runs at a time
  Outcome,         \* may a storage call be answered (TRUE), or fail (FALSE)?
  Crashing,        \* the instances whose process may die
  Stopping,        \* the instances that may be shut down
  Lapsing          \* the instances that may be paused or cut off for long

ASSUME QueueAssumption ==
  /\ Backend \in {"sqlite", "cache"}
  /\ NoInstance \notin Instance
  /\ Feeds \subseteq Queue \X Queue
  /\ MaxConcurrent \in Nat
  /\ Outcome \subseteq BOOLEAN
  /\ Crashing \subseteq Instance /\ Stopping \subseteq Instance /\ Lapsing \subseteq Instance

VARIABLES
  pending,     \* queue -> ids to deliver, in order
  processing,  \* queue -> claims: ids delivered and not acknowledged, to whom
  payload,     \* queue -> ids whose payload is stored
  heartbeat,   \* instances whose heartbeat key exists
  leader,      \* the instance that holds the recovery leader key
  round,       \* instance -> queues its recovery round still has to visit
  renewed,     \* instances that renewed the leader key for the next queue
  inst,        \* instance -> where it is in its life
  deliveries,  \* instance -> messages its workers are at
  sent,        \* ids ever enqueued, in order (SQLite's row ids)
  handled,     \* ids some handler completed (history)
  cleared,     \* ids thrown away by a clear (history)
  lapsed       \* instances whose key expired while they were open (history)

store == <<pending, processing, payload>>
keys  == <<heartbeat, leader, round, renewed>>
audit == <<sent, handled, cleared, lapsed>>
qvars == <<pending, processing, payload, heartbeat, leader, round, renewed, inst,
           deliveries, sent, handled, cleared, lapsed>>

-----------------------------------------------------------------------------
Claim == [id : Message, by : Instance]
Delivery ==
  [queue : Queue, slot : 1 .. MaxConcurrent, id : Message, phase : {"handling", "settled"}]

claimed(q) == {c.id : c \in processing[q]}
unacked(q) == Range(pending[q]) \cup claimed(q)

Open == {i \in Instance : inst[i] \in {"running", "stopping"}}

\* The worker fetches while fewer than max_concurrent deliveries are active; a
\* delivery takes the lowest free slot.
slots == 1 .. MaxConcurrent
taken(i, q) == {d.slot : d \in {e \in deliveries[i] : e.queue = q}}
IsFreeSlot(s, i, q) == s \notin taken(i, q) /\ 1 .. s - 1 \subseteq taken(i, q)

QInit ==
  /\ pending = [q \in Queue |-> << >>]
  /\ processing = [q \in Queue |-> {}]
  /\ payload = [q \in Queue |-> {}]
  /\ heartbeat = {} /\ leader = NoInstance
  /\ round = [i \in Instance |-> {}] /\ renewed = {}
  /\ inst = [i \in Instance |-> "new"]
  /\ deliveries = [i \in Instance |-> {}]
  /\ sent = << >> /\ handled = {} /\ cleared = {} /\ lapsed = {}

-----------------------------------------------------------------------------
(* Instances *)

\* CacheQueueStorage::open writes the heartbeat before anything can be dequeued.
open_cache(i) ==
  /\ heartbeat' = heartbeat \cup {i}
  /\ UNCHANGED store

Orders(S) == Bijection(1 .. Cardinality(S), S)

\* What a queue has, in the order of the row ids.
RowOrders(q) ==
  {s \in Orders(unacked(q)) :
     \A a, b \in DOMAIN s : a < b => \E i, j \in DOMAIN sent : i < j /\ sent[i] = s[a] /\ sent[j] = s[b]}

\* Every claim goes back to its place.
return_claims ==
  /\ \E p \in [Queue -> UNION {RowOrders(q) : q \in Queue}] :
       (\A q \in Queue : p[q] \in RowOrders(q)) /\ pending' = p
  /\ processing' = [q \in Queue |-> {}]

\* Mutant: a second process opens the database of a running one.
open_sqlite_beside(i) == return_claims /\ UNCHANGED <<payload, heartbeat>>

\* Mutant: the claims of the last process are deleted.
open_sqlite_dropping(i) ==
  /\ Open = {}
  /\ processing' = [q \in Queue |-> {}]
  /\ payload' = [q \in Queue |-> Range(pending[q])]
  /\ UNCHANGED <<pending, heartbeat>>

\* SQLiteQueueBackend::open recovers at once (recover_stale_sec is 0 by default).
\* The lock on the workspace admits one process at a time; workspaces without it
\* are not modelled.
open_sqlite(i) == Open = {} /\ return_claims /\ UNCHANGED <<payload, heartbeat>>

\* A process opens the storage and starts its workers.
Start(i) ==
  /\ inst[i] = "new"
  /\ inst' = [inst EXCEPT ![i] = "running"]
  /\ IF Backend = "cache" THEN open_cache(i) ELSE open_sqlite(i)
  /\ UNCHANGED <<leader, round, renewed, deliveries, audit>>

\* run_heartbeat goes on until shutdown.
RefreshHeartbeat(i) ==
  /\ Backend = "cache" /\ i \in Open
  /\ heartbeat' = heartbeat \cup {i}
  /\ UNCHANGED <<store, leader, round, renewed, inst, deliveries, audit>>

HeartbeatExpires(i) ==
  /\ i \in heartbeat /\ (i \in Open => i \in Lapsing)
  /\ heartbeat' = heartbeat \ {i}
  /\ lapsed' = IF i \in Open THEN lapsed \cup {i} ELSE lapsed
  /\ UNCHANGED <<store, leader, round, renewed, inst, deliveries, sent, handled, cleared>>

\* Mutant: the heartbeat ends with the intake, not with the last delivery.
StopHeartbeat(i) ==
  /\ inst[i] = "running"
  /\ inst' = [inst EXCEPT ![i] = "stopping"]
  /\ heartbeat' = heartbeat \ {i}
  /\ UNCHANGED <<store, leader, round, renewed, deliveries, audit>>

\* QueueManager.stop: the workers fetch nothing more.
Stop(i) ==
  /\ inst[i] = "running"
  /\ inst' = [inst EXCEPT ![i] = "stopping"]
  /\ UNCHANGED <<store, keys, deliveries, audit>>

\* The drain of a concurrent worker times out: the delivery is cancelled and
\* not acknowledged.
Cancel(i, d) ==
  /\ inst[i] = "stopping" /\ MaxConcurrent > 1 /\ d \in deliveries[i]
  /\ deliveries' = [deliveries EXCEPT ![i] = @ \ {d}]
  /\ UNCHANGED <<store, keys, inst, audit>>

\* CacheQueueStorage::shutdown, once the workers have ended: the recovery task
\* finishes its round and releases the leader key, then the heartbeat is deleted.
Shutdown(i, ok) ==
  /\ inst[i] = "stopping" /\ deliveries[i] = {} /\ round[i] = {}
  /\ inst' = [inst EXCEPT ![i] = "closed"]
  /\ leader' = IF ok /\ leader = i THEN NoInstance ELSE leader
  /\ heartbeat' = IF ok THEN heartbeat \ {i} ELSE heartbeat
  /\ UNCHANGED <<store, round, renewed, deliveries, audit>>

\* The process dies; its keys stay until they expire.
Crash(i) ==
  /\ i \in Open
  /\ inst' = [inst EXCEPT ![i] = "dead"]
  /\ deliveries' = [deliveries EXCEPT ![i] = {}]
  /\ round' = [round EXCEPT ![i] = {}]
  /\ renewed' = renewed \ {i}
  /\ UNCHANGED <<store, heartbeat, leader, audit>>

-----------------------------------------------------------------------------
(* Recovery of stale claims in the cache backend *)

\* Mutant: the leader cannot renew its own key.
MayLeadOnce(i) == leader = NoInstance

\* The leader key is free or already the instance's own.
MayLead(i) == leader \in {NoInstance, i}

\* A tick of run_continuous_recovery: acquire or renew the leader key, then list
\* the queues.
StartRound(i) ==
  /\ Backend = "cache" /\ i \in Open /\ round[i] = {} /\ MayLead(i)
  /\ leader' = i
  /\ round' = [round EXCEPT ![i] = Queue]
  /\ UNCHANGED <<store, heartbeat, renewed, inst, deliveries, audit>>

\* The key is renewed before every queue.
RenewLeader(i) ==
  /\ round[i] # {} /\ i \notin renewed /\ MayLead(i)
  /\ leader' = i
  /\ renewed' = renewed \cup {i}
  /\ UNCHANGED <<store, heartbeat, round, inst, deliveries, audit>>

\* Another instance leads, or a call fails: the rest of the round is dropped.
BreakOff(i) ==
  /\ round[i] # {}
  /\ FALSE \in Outcome \/ (i \notin renewed /\ ~MayLead(i))
  /\ round' = [round EXCEPT ![i] = {}]
  /\ renewed' = renewed \ {i}
  /\ UNCHANGED <<store, heartbeat, leader, inst, deliveries, audit>>

LeaderExpires ==
  /\ leader # NoInstance
  /\ leader' = NoInstance
  /\ UNCHANGED <<store, heartbeat, round, renewed, inst, deliveries, audit>>

stale(q) == {c \in processing[q] : c.by \notin heartbeat}

\* RECOVER_STALE: claims of instances without a heartbeat go to the end of the
\* list, in the order of their scores (clock readings of the claimants).
RecoverStale(i, q) ==
  /\ i \in renewed /\ q \in round[i]
  /\ \E order \in Orders({c.id : c \in stale(q)}) :
       pending' = [pending EXCEPT ![q] = @ \o order]
  /\ processing' = [processing EXCEPT ![q] = @ \ stale(q)]
  /\ round' = [round EXCEPT ![i] = @ \ {q}]
  /\ renewed' = renewed \ {i}
  /\ UNCHANGED <<payload, heartbeat, leader, inst, deliveries, audit>>

-----------------------------------------------------------------------------
(* Messages *)

enqueue(q, m) ==
  /\ m \notin Range(sent)
  /\ sent' = Append(sent, m)
  /\ pending' = [pending EXCEPT ![q] = Append(@, m)]
  /\ payload' = [payload EXCEPT ![q] = @ \cup {m}]
  /\ UNCHANGED <<processing, keys, inst, deliveries, handled, cleared, lapsed>>

Enqueue(q, m) == enqueue(q, m)

\* A handler enqueues follow-up work before its own message is acknowledged.
FollowUp(i, d, r, m) ==
  /\ d \in deliveries[i] /\ d.phase = "handling"
  /\ <<d.queue, r>> \in Feeds
  /\ enqueue(r, m)

\* The oldest pending message is claimed; without the answer (ok = FALSE) it
\* stays claimed and no worker knows of it.  A message without payload is left
\* where it is.
Dequeue(i, q, ok) ==
  /\ inst[i] = "running"
  /\ pending[q] # << >> /\ Head(pending[q]) \in payload[q]
  /\ pending' = [pending EXCEPT ![q] = Tail(@)]
  /\ processing' = [processing EXCEPT ![q] = @ \cup {[id |-> Head(pending[q]), by |-> i]}]
  /\ \E s \in slots :
       /\ IsFreeSlot(s, i, q)
       /\ deliveries' =
            IF ~ok THEN deliveries
            ELSE [deliveries EXCEPT ![i] =
                    @ \cup {[queue |-> q, slot |-> s, id |-> Head(pending[q]), phase |-> "handling"]}]
  /\ UNCHANGED <<payload, keys, inst, audit>>

\* The handler returns a ProcessResult, whatever its outcome.
Settle(i, d) ==
  /\ d \in deliveries[i] /\ d.phase = "handling"
  /\ deliveries' = [deliveries EXCEPT ![i] = (@ \ {d}) \cup {[d EXCEPT !.phase = "settled"]}]
  /\ handled' = handled \cup {d.id}
  /\ UNCHANGED <<store, keys, inst, sent, cleared, lapsed>>

claims_on(q, m) == {c \in processing[q] : c.id = m}

\* Mutant: the acknowledgement is sent in a finally block.
RaiseAcks(i, d) ==
  /\ d \in deliveries[i] /\ d.phase = "handling"
  /\ processing' = [processing EXCEPT ![d.queue] = @ \ claims_on(d.queue, d.id)]
  /\ payload' = [payload EXCEPT ![d.queue] = @ \ {d.id}]
  /\ deliveries' = [deliveries EXCEPT ![i] = @ \ {d}]
  /\ UNCHANGED <<pending, keys, inst, audit>>

\* The handler raises: no acknowledgement, the claim stays.
Raise(i, d) ==
  /\ d \in deliveries[i] /\ d.phase = "handling"
  /\ deliveries' = [deliveries EXCEPT ![i] = @ \ {d}]
  /\ UNCHANGED <<store, keys, inst, audit>>

\* Mutant: the message is acknowledged before its handler has returned.
AckEarly(i, d, ok) ==
  /\ d \in deliveries[i]
  /\ LET mine == claims_on(d.queue, d.id) IN
       /\ processing' = [processing EXCEPT ![d.queue] = @ \ mine]
       /\ payload' = [payload EXCEPT ![d.queue] = IF mine # {} THEN @ \ {d.id} ELSE @]
  /\ deliveries' = [deliveries EXCEPT ![i] = @ \ {d}]
  /\ UNCHANGED <<pending, keys, inst, audit>>

\* Mutant: the payload is deleted whether the claim is still there or not.
AckPayload(i, d, ok) ==
  /\ d \in deliveries[i] /\ d.phase = "settled"
  /\ processing' = [processing EXCEPT ![d.queue] = IF ok THEN @ \ claims_on(d.queue, d.id) ELSE @]
  /\ payload' = [payload EXCEPT ![d.queue] = IF ok THEN @ \ {d.id} ELSE @]
  /\ deliveries' = [deliveries EXCEPT ![i] = @ \ {d}]
  /\ UNCHANGED <<pending, keys, inst, audit>>

\* The claim on the id is removed, whoever holds it, and the payload with it; if
\* there is none nothing happens.  Errors are logged and forgotten.
Ack(i, d, ok) ==
  /\ d \in deliveries[i] /\ d.phase = "settled"
  /\ LET mine == claims_on(d.queue, d.id) IN
       /\ processing' = [processing EXCEPT ![d.queue] = IF ok THEN @ \ mine ELSE @]
       /\ payload' = [payload EXCEPT ![d.queue] = IF ok /\ mine # {} THEN @ \ {d.id} ELSE @]
  /\ deliveries' = [deliveries EXCEPT ![i] = @ \ {d}]
  /\ UNCHANGED <<pending, keys, inst, audit>>

Clear(q) ==
  /\ unacked(q) # {}
  /\ payload' = [payload EXCEPT ![q] = @ \ unacked(q)]
  /\ pending' = [pending EXCEPT ![q] = << >>]
  /\ processing' = [processing EXCEPT ![q] = {}]
  /\ cleared' = cleared \cup unacked(q)
  /\ UNCHANGED <<keys, inst, deliveries, sent, handled, lapsed>>

-----------------------------------------------------------------------------
(* Specification *)

Lifecycle ==
  \/ \E i \in Instance :
       \/ Start(i)
       \/ RefreshHeartbeat(i)
       \/ HeartbeatExpires(i)
       \/ \E d \in deliveries[i] : Cancel(i, d)
       \/ \E ok \in Outcome : Shutdown(i, ok)
  \/ \E i \in Stopping : Stop(i)
  \/ \E i \in Crashing : Crash(i)

Recovery ==
  \/ LeaderExpires
  \/ \E i \in Instance :
       \/ StartRound(i)
       \/ RenewLeader(i)
       \/ BreakOff(i)
       \/ \E q \in Queue : RecoverStale(i, q)

Handling ==
  \E i \in Instance :
    \/ \E q \in Queue, ok \in Outcome : Dequeue(i, q, ok)
    \/ \E d \in deliveries[i] :
         \/ Settle(i, d)
         \/ Raise(i, d)
         \/ \E ok \in Outcome : Ack(i, d, ok)

QNext ==
  \/ Lifecycle
  \/ Recovery
  \/ Handling
  \/ \E i \in Instance : \E d \in deliveries[i], r \in Queue, m \in Message :
       FollowUp(i, d, r, m)
  \/ \E q \in Queue, m \in Message : Enqueue(q, m)
  \/ \E q \in Queue : Clear(q)

QSpec == QInit /\ [][QNext]_qvars

\* The server drops the keys of a process that is gone; one process is started
\* that is neither stopped nor killed; whoever is open ticks; and calls that can
\* be made again and again are answered some time.
QFairness ==
  /\ \A i \in Instance : WF_qvars(i \notin Open /\ HeartbeatExpires(i))
  /\ WF_qvars(leader \notin Open /\ LeaderExpires)
  /\ \A i \in Instance \ (Crashing \cup Stopping) : WF_qvars(Start(i))
  /\ \A i \in Instance : SF_qvars(StartRound(i)) /\ SF_qvars(RenewLeader(i))
  /\ \A i \in Instance, q \in Queue : SF_qvars(RecoverStale(i, q))

FairQSpec == QSpec /\ QFairness

-----------------------------------------------------------------------------
(* Properties *)

\* The variables have their types.
QTypeOK ==
  /\ pending \in [Queue -> Seq(Message)]
  /\ processing \in [Queue -> SUBSET Claim]
  /\ payload \in [Queue -> SUBSET Message]
  /\ heartbeat \subseteq Instance
  /\ leader \in Instance \cup {NoInstance}
  /\ round \in [Instance -> SUBSET Queue] /\ renewed \subseteq Instance
  /\ inst \in [Instance -> {"new", "running", "stopping", "closed", "dead"}]
  /\ deliveries \in [Instance -> SUBSET Delivery]
  /\ sent \in Seq(Message) /\ handled \subseteq Message
  /\ cleared \subseteq Message /\ lapsed \subseteq Instance

\* At-least-once delivery (NamedQueue.dequeue): a message that no handler has
\* completed and nobody has cleared is in its queue with its payload, whatever
\* processes died, were paused or acknowledged late.
NothingLost ==
  \A m \in Range(sent) \ (handled \cup cleared) :
    \E q \in Queue : m \in unacked(q) /\ m \in payload[q]

\* An id is in one place, in one queue, pending once or claimed once, and its
\* payload is with it, so that the head of a list can always be delivered
\* (DEQUEUE fails for ever on a head without payload).
OnePlace ==
  /\ \A q \in Queue : unacked(q) = payload[q]
  /\ \A q, r \in Queue : q # r => payload[q] \cap payload[r] = {}
  /\ \A q \in Queue : Range(pending[q]) \cap claimed(q) = {} /\ IsInjective(pending[q])
  /\ \A q \in Queue : \A c, d \in processing[q] : c.id = d.id => c = d

\* Two deliveries of one message run at the same time only if the heartbeat of
\* an instance expired while it was open: recovery takes nothing from a worker
\* that is alive, stopping ones included.
SingleDelivery ==
  \A i, j \in Instance \ lapsed :
    \A d \in deliveries[i], e \in deliveries[j] : d.id = e.id => i = j /\ d = e

\* What is in some queue, and what was.
queued == UNION {unacked(q) : q \in Queue}
left == Range(sent) \ queued

Promise == INSTANCE DurableQueue WITH queued <- queued, left <- left

\* The backends and the workers implement DurableQueue: a message leaves when a
\* handler completed it or the queue was cleared, and never comes back.
ImplementsDurableQueue == Promise!Spec

\* What an instance that is gone had claimed is pending again, or acknowledged
\* by a late worker, as long as one instance lives.
ClaimsReturn ==
  \A i \in Instance, q \in Queue, m \in Message :
    (inst[i] \in {"dead", "closed"} /\ [id |-> m, by |-> i] \in processing[q])
      ~> [id |-> m, by |-> i] \notin processing[q]
=============================================================================
