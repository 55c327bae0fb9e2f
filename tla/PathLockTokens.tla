--------------------------- MODULE PathLockTokens ---------------------------
(***************************************************************************)
(* The value layer of the PathLock subsystem (crates/ragfs/src/lock): lock *)
(* tokens and their holders, which requests cover or conflict with which,  *)
(* and the pure functions every storage provider applies to one token or   *)
(* to one batch of requests.                                               *)
(*                                                                         *)
(* A token that has no holder left is deleted by the code, so the absent   *)
(* token is the record with no holders.  Legacy v1 tokens, which have no   *)
(* holder list, are not modelled.  Times are readings of the writing       *)
(* process's wall clock; the code subtracts the expiry with saturation at  *)
(* zero, which no comparison with a reading (never negative) can tell from *)
(* plain subtraction.                                                      *)
(***************************************************************************)
EXTENDS Integers

CONSTANTS
  Path,            \* normalized logical paths
  ancestor_paths,  \* path -> every proper ancestor of it, up to the root
  Rank,            \* the order requests are sorted in: (length, path)
  Owner,           \* owner ids
  Lease,           \* lease references, which are also the holder ids
  NoOwner, NoLease

\* Ancestors form a tree: a path is not above itself, what is above an
\* ancestor is an ancestor, and the ancestors of one path are on one line.
ASSUME PathTree ==
  /\ ancestor_paths \in [Path -> SUBSET Path]
  /\ \A p \in Path : p \notin ancestor_paths[p]
  /\ \A p \in Path : \A q \in ancestor_paths[p] :
        ancestor_paths[q] \subseteq ancestor_paths[p]
  /\ \A p \in Path : \A q, r \in ancestor_paths[p] :
        q = r \/ q \in ancestor_paths[r] \/ r \in ancestor_paths[q]

\* Sorting by (length, path) is a strict order that puts ancestors first.
ASSUME RankOrder ==
  /\ Rank \in [Path -> Nat]
  /\ \A p, q \in Path : Rank[p] = Rank[q] => p = q
  /\ \A p \in Path : \A q \in ancestor_paths[p] : Rank[q] < Rank[p]

ASSUME Sentinels == NoOwner \notin Owner /\ NoLease \notin Lease

Kind == {"Exact", "Tree"}

\* What a normalized batch asks of each path: one kind per path, Tree winning
\* over Exact, or nothing.
Coverage == [Path -> Kind \cup {"None"}]

lock_paths(c) == {p \in Path : c[p] # "None"}

\* The first and the last path of S in the order requests are sorted in.
IsFirst(p, S) == p \in S /\ \A q \in S : Rank[p] <= Rank[q]
IsLast(p, S)  == p \in S /\ \A q \in S : Rank[q] <= Rank[p]

Holder == [id : Lease, kind : Kind, time : Int]
Token  == [owner : Owner \cup {NoOwner}, holders : SUBSET Holder]

NoToken == [owner |-> NoOwner, holders |-> {}]

-----------------------------------------------------------------------------
(* Coverage *)

\* A held request covers another: Exact covers the same path only, Tree the
\* path and everything below it.
request_is_covered_by(path, kind, reqPath, reqKind) ==
  \/ kind = "Tree" /\ (path = reqPath \/ path \in ancestor_paths[reqPath])
  \/ kind = "Exact" /\ reqKind = "Exact" /\ path = reqPath

covers(c, reqPath, reqKind) ==
  \E p \in lock_paths(c) : request_is_covered_by(p, c[p], reqPath, reqKind)

-----------------------------------------------------------------------------
(* Tokens *)

held(owner, id, kind, now) ==
  [owner |-> owner, holders |-> {[id |-> id, kind |-> kind, time |-> now]}]

live(token, stale_before) == {h \in token.holders : h.time >= stale_before}

\* The strongest kind among the holders that have not expired.
live_kind(token, stale_before) ==
  IF \E h \in live(token, stale_before) : h.kind = "Tree" THEN "Tree"
  ELSE IF live(token, stale_before) # {} THEN "Exact"
  ELSE "None"

recompute(token) == IF token.holders = {} THEN NoToken ELSE token

\* Mutant: the new holder takes the place of the owner's other holders.
add_holder_alone(token, id, kind, now, stale_before, source) ==
  [token EXCEPT !.holders = {[id |-> id, kind |-> kind, time |-> now]}]

add_holder(token, id, kind, now, stale_before, source) ==
  [token EXCEPT !.holders =
     {h \in @ : h.time >= stale_before /\ h.id # source}
       \cup {[id |-> id, kind |-> kind, time |-> now]}]

foreign(token, owner) == token.holders # {} /\ token.owner # owner

\* The token written for an acquisition: the owner's token with one more
\* holder, or a new token in place of nothing or of another's expired one.
with_holder(token, owner, id, kind, now, stale_before, source) ==
  IF token.holders # {} /\ token.owner = owner
  THEN add_holder(token, id, kind, now, stale_before, source)
  ELSE held(owner, id, kind, now)

-----------------------------------------------------------------------------
(* Refresh, release and undo of one holder *)

\* The named holder is there and, for a refresh, has not expired.
holder_found(token, owner, id, stale_before, release) ==
  /\ token.owner = owner
  /\ \E h \in token.holders : h.id = id /\ (release \/ h.time >= stale_before)

mutate_holder_record(token, owner, id, now, stale_before, release) ==
  LET mine   == {h \in token.holders : h.id = id}
      others == {h \in token.holders : h.id # id /\ h.time >= stale_before}
      kept   == IF release THEN {} ELSE {[h EXCEPT !.time = now] : h \in mine}
  IN  IF holder_found(token, owner, id, stale_before, release)
      THEN recompute([token EXCEPT !.holders = others \cup kept])
      ELSE token

\* Mutant: the undo forgets the source it replaced.
replace_holder_dropped(token, owner, id, restored, stale_before) ==
  mutate_holder_record(token, owner, id, stale_before, stale_before, TRUE)

\* Undo a handoff: drop the new holder, restore the source while it is live.
replace_holder(token, owner, id, restored, stale_before) ==
  LET others == {h \in token.holders : h.id # id /\ h.time >= stale_before}
      back   == {r \in restored : /\ r.time >= stale_before
                                  /\ \A h \in others : h.id # r.id}
  IN  IF token.owner = owner /\ \E h \in token.holders : h.id = id
      THEN recompute([token EXCEPT !.holders = others \cup back])
      ELSE token

-----------------------------------------------------------------------------
(* Acquisition of one batch in one storage transaction (memory, SQLite) *)

\* Mutant: the source of a handoff is taken on trust.
validate_handoff_source_trusting(token, owner, source, kind, stale_before) == TRUE

\* The handoff source must be a live holder of the same kind at every path.
validate_handoff_source(token, owner, source, kind, stale_before) ==
  /\ token.owner = owner
  /\ \E h \in token.holders :
        h.id = source /\ h.time >= stale_before /\ h.kind = kind

sources_valid(toks, req, owner, source, stale_before) ==
  source # NoLease =>
    \A p \in lock_paths(req) :
      validate_handoff_source(toks[p], owner, source, req[p], stale_before)

\* Another owner's live token stands at the path, a live Tree above it, or,
\* for a Tree request, any live token below it.
conflict_at(toks, p, owner, stale_before) ==
  foreign(toks[p], owner) /\ live_kind(toks[p], stale_before) # "None"

conflict_above(toks, p, owner, stale_before) ==
  \E a \in ancestor_paths[p] :
    foreign(toks[a], owner) /\ live_kind(toks[a], stale_before) = "Tree"

conflict_below(toks, p, owner, stale_before) ==
  \E d \in Path : p \in ancestor_paths[d] /\ conflict_at(toks, d, owner, stale_before)

\* Mutant: the batch does not look at its own paths.
has_conflict_around(toks, req, owner, stale_before) ==
  \E p \in lock_paths(req) :
    \/ conflict_above(toks, p, owner, stale_before)
    \/ req[p] = "Tree" /\ conflict_below(toks, p, owner, stale_before)

has_conflict(toks, req, owner, stale_before) ==
  \E p \in lock_paths(req) :
    \/ conflict_at(toks, p, owner, stale_before)
    \/ conflict_above(toks, p, owner, stale_before)
    \/ req[p] = "Tree" /\ conflict_below(toks, p, owner, stale_before)

\* Mutant: expired tokens below a Tree stay.
stale_in_way_above(toks, req, owner, stale_before) ==
  {q \in Path :
     /\ foreign(toks[q], owner)
     /\ live_kind(toks[q], stale_before) = "None"
     /\ \E p \in lock_paths(req) : q = p \/ q \in ancestor_paths[p]}

\* Other owners' expired tokens in the way of the batch, which the
\* transaction deletes.
stale_in_way(toks, req, owner, stale_before) ==
  {q \in Path :
     /\ foreign(toks[q], owner)
     /\ live_kind(toks[q], stale_before) = "None"
     /\ \E p \in lock_paths(req) :
          q = p \/ q \in ancestor_paths[p] \/ (req[p] = "Tree" /\ p \in ancestor_paths[q])}

remove_stale(toks, S) == [q \in Path |-> IF q \in S THEN NoToken ELSE toks[q]]

\* Mutant: a holder is written at every path.
acquire_holder_records_everywhere(toks, req, owner, id, now, stale_before, source) ==
  [q \in Path |-> with_holder(toks[q], owner, id, req[q], now, stale_before, source)]

acquire_holder_records(toks, req, owner, id, now, stale_before, source) ==
  LET kept == remove_stale(toks, stale_in_way(toks, req, owner, stale_before))
  IN  [q \in Path |->
         IF req[q] = "None" THEN kept[q]
         ELSE with_holder(kept[q], owner, id, req[q], now, stale_before, source)]
=============================================================================
