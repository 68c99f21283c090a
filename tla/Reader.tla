------------------------------- MODULE Reader -------------------------------
(***************************************************************************)
(* Point-in-time reads (service.Reader.StateAt and domain.Reconstruct) of  *)
(* the collections EventStore describes.                                   *)
(***************************************************************************)
EXTENDS EventStore

\* The events ListEvents returns, those of (after, max]; it sorts them by version.
ListEvents(events, e, after, max) == {d \in Of(events, e) : d.v > after /\ d.v <= max}

NoSnapshot(e) == [eid |-> e, v |-> 0, deleted |-> FALSE, state |-> Empty]

\* Reader.anchor over SnapshotRepo.Nearest: the highest snapshot at or below the
\* target, else the empty genesis base.
Anchor(snaps, e, target) ==
  LET below == {s \in snaps : s.eid = e /\ s.v <= target}
  IN  IF below = {} THEN NoSnapshot(e)
      ELSE CHOOSE s \in below : \A t \in below : t.v <= s.v

\* Faulty: an incarnation after a delete starts from the deleted state.
ReplayOneKeepsDeleted(r, d) ==
  CASE ~r.ok -> r
    [] r.ok /\ d.op = "delete" -> [r EXCEPT !.report = r.work, !.deleted = TRUE]
    [] r.ok /\ d.op # "delete" /\ ~Applies(r.work, d.changes) ->
         [r EXCEPT !.ok = FALSE]
    [] OTHER ->
         LET m == Apply(r.work, d.changes)
         IN  [ok |-> TRUE, work |-> m, report |-> m, deleted |-> FALSE]

\* One iteration of the loop in Reconstruct: work is what the next diff applies
\* to, report what is returned; they part at a delete.
ReplayOne(r, d) ==
  CASE ~r.ok -> r
    [] r.ok /\ d.op = "delete" ->
         [r EXCEPT !.report = r.work, !.work = Empty, !.deleted = TRUE]
    [] r.ok /\ d.op # "delete" /\ ~Applies(r.work, d.changes) ->
         [r EXCEPT !.ok = FALSE]
    [] OTHER ->
         LET m == Apply(r.work, d.changes)
         IN  [ok |-> TRUE, work |-> m, report |-> m, deleted |-> FALSE]

\* The loop of Reconstruct over the listed events in ascending version order, up
\* to the version last.
Reconstruct(base, baseDeleted, tail, last) ==
  LET replay[v \in Nat] ==
        IF v = 0
        THEN [ok |-> TRUE, report |-> base, deleted |-> baseDeleted,
              work |-> IF baseDeleted THEN Empty ELSE base]
        ELSE IF \E d \in tail : d.v = v
        THEN ReplayOne(replay[v - 1], CHOOSE d \in tail : d.v = v)
        ELSE replay[v - 1]
  IN  replay[last]

\* Reader.StateAt for an explicit version; resolveTarget clamps it to the latest.
StateAt(events, snaps, e, version) ==
  LET last   == LastVersion(events, e)
      target == IF version <= last THEN version ELSE last
      snap   == Anchor(snaps, e, target)
      r      == Reconstruct(snap.state, snap.deleted,
                            ListEvents(events, e, snap.v, target), target)
  IN  [ok |-> r.ok, state |-> r.report, deleted |-> r.deleted]

=============================================================================
