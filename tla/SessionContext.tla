--------------------------- MODULE SessionContext ---------------------------
(***************************************************************************)
(* Reading the context of a session while it is committed                   *)
(* (Session.load and _collect_session_context_components): the live         *)
(* messages are loaded first, then the archives are looked at from the      *)
(* newest to the first that has ended, and the messages of the ones after   *)
(* it are put before the live ones, one archive after the other.  No lock   *)
(* is held.                                                                 *)
(***************************************************************************)
EXTENDS SessionCommit, SequencesExt, Functions

VARIABLE reader     \* where the reader is and what it has seen

cvars == <<vars, reader>>

NoReader == [at |-> "no", known |-> 0, live |-> <<>>, next |-> 0, pending |-> {}, result |-> <<>>]

ContextInit == SessionInit /\ reader = NoReader

Load ==
  /\ reader.at = "no"
  /\ reader' = [reader EXCEPT !.at = "list", !.known = accepted, !.live = root]
  /\ UNCHANGED vars

is_newest(n) == (n > 0 => exists(n)) /\ \A i \in Archive : exists(i) => i <= n

List ==
  /\ reader.at = "list"
  /\ \E n \in 0 .. MaxArchives : is_newest(n) /\ reader' = [reader EXCEPT !.at = "scan", !.next = n]
  /\ UNCHANGED vars

\* One archive is looked at; the first that has ended ends the scan.
Scan ==
  /\ reader.at = "scan"
  /\ LET n == reader.next IN
       reader' = IF n = 0 \/ (n > 0 /\ is_terminal(n)) THEN [reader EXCEPT !.at = "read"]
                 ELSE [reader EXCEPT !.next = n - 1,
                                     !.pending = IF exists(n) THEN @ \cup {n} ELSE @]
  /\ UNCHANGED vars

\* The messages of the archives that have not ended, oldest first.
ReadMessages ==
  /\ reader.at = "read"
  /\ \E n \in reader.pending :
       /\ \A i \in reader.pending : n <= i
       /\ reader' = [reader EXCEPT !.pending = @ \ {n}, !.result = @ \o arch[n].messages]
  /\ UNCHANGED vars

\* Mutant: messages that are met again are kept.
first_places_not(s) == DOMAIN s

first_places(s) == {i \in DOMAIN s : \A j \in 1 .. i - 1 : s[j] # s[i]}

\* s without the messages that are met again, in the same order: its one element.
stable_deduplicate_messages(s) ==
  LET places == first_places(s)
      orders == {f \in Bijection(1 .. Cardinality(places), places) :
                   \A i, j \in DOMAIN f : i < j => f[i] < f[j]}
  IN {[i \in DOMAIN f |-> s[f[i]]] : f \in orders}

\* Mutant: the live messages are loaded after the archives were read.
MergeReloaded ==
  /\ reader.at = "read" /\ reader.pending = {}
  /\ \E s \in stable_deduplicate_messages(reader.result \o root) :
       reader' = [reader EXCEPT !.at = "end", !.live = <<>>, !.result = s]
  /\ UNCHANGED vars

\* The live ones follow.
Merge ==
  /\ reader.at = "read" /\ reader.pending = {}
  /\ \E s \in stable_deduplicate_messages(reader.result \o reader.live) :
       reader' = [reader EXCEPT !.at = "end", !.live = <<>>, !.result = s]
  /\ UNCHANGED vars

\* The result is returned, and the next request may come.
Return == reader.at = "end" /\ reader' = NoReader /\ UNCHANGED vars

ReadStep == Load \/ List \/ Scan \/ ReadMessages \/ Merge \/ Return

ContextNext == (SessionNext /\ UNCHANGED reader) \/ ReadStep

ContextSpec == ContextInit /\ [][ContextNext]_cvars

-----------------------------------------------------------------------------
(* Properties *)

kept_in(n) == ToSet(arch[n].messages)

\* A message that is in the archive at which the reader stopped, or in an earlier one.
is_covered(m) == \E n \in 1 .. reader.next : m \in kept_in(n)

\* No crash, failed write or race of Phase 1 loses a message that was accepted: it is
\* live, or in an archive.
NoMessageLost ==
  \A m \in 1 .. accepted : m \in ToSet(root) \/ \E n \in Archive : m \in kept_in(n)

\* "Incomplete archive messages after the latest completed archive and current live
\* messages": a reader misses no message that was accepted before it began, wherever
\* commits move it meanwhile, unless it saw an archive that had ended over it.
ContextComplete ==
  reader.at = "end" =>
    \A m \in 1 .. reader.known : m \in ToSet(reader.result) \/ is_covered(m)

\* Messages that no archive had ended over appear once and in the order of their acceptance.
ContextInOrder ==
  reader.at = "end" =>
    \A i, j \in DOMAIN reader.result :
      i < j /\ ~is_covered(reader.result[i]) /\ ~is_covered(reader.result[j])
        => reader.result[i] < reader.result[j]
=============================================================================
