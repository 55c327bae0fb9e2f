---------------------------- MODULE DurableQueue ----------------------------
(***************************************************************************)
(* What a queue promises its producers: a message stays queued until a     *)
(* handler has completed it or somebody clears the queue, and a message    *)
(* that has left never comes back.  There are no instances, heartbeats or  *)
(* recovery here.                                                          *)
(***************************************************************************)
CONSTANT Message

VARIABLES
  queued,    \* messages not yet acknowledged
  left,      \* messages that were queued and no longer are
  handled,   \* messages some handler completed
  cleared    \* messages thrown away by a clear

vars == <<queued, left, handled, cleared>>

Init == queued = {} /\ left = {} /\ handled = {} /\ cleared = {}

Put(m) ==
  /\ m \notin queued \cup left
  /\ queued' = queued \cup {m}
  /\ UNCHANGED <<left, handled, cleared>>

Handle(m) ==
  /\ m \in queued \cup left
  /\ handled' = handled \cup {m}
  /\ UNCHANGED <<queued, left, cleared>>

Remove(m) ==
  /\ m \in queued \cap handled
  /\ queued' = queued \ {m}
  /\ left' = left \cup {m}
  /\ UNCHANGED <<handled, cleared>>

Clear(S) ==
  /\ S \subseteq queued
  /\ queued' = queued \ S
  /\ left' = left \cup S
  /\ cleared' = cleared \cup S
  /\ UNCHANGED handled

Next ==
  \/ \E m \in Message : Put(m) \/ Handle(m) \/ Remove(m)
  \/ \E S \in SUBSET Message : Clear(S)

Spec == Init /\ [][Next]_vars
=============================================================================
