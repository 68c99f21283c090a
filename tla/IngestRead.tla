----------------------------- MODULE IngestRead -----------------------------
(***************************************************************************)
(* The write path together with the point-in-time reader: what the stored  *)
(* events, snapshots and current states give back.                         *)
(***************************************************************************)
EXTENDS Ingest, Reader

\* Reader.StateAt returns, for every version, the state its writer stored, from
\* the genesis and from any snapshot alike ("snapshots are an optimization, not a
\* correctness requirement"), across deletes and recreations, as long as no
\* write has failed half-way.
ReplayIsWhatWasWritten ==
  aborts = 0 => \A e \in Entities : \A v \in 1 .. LastVersion(events, e), s \in SUBSET snaps :
    LET post == EventAt(events, e, v).post
    IN  StateAt(events, s, e, v) =
          [ok |-> TRUE, state |-> post.state, deleted |-> post.deleted]

\* cur_* is "a reconstructable materialization": replaying the history up to the
\* version cur_* is at gives the state it holds.
CurrentIsRebuildable ==
  \A e \in Entities : Quiet(e) /\ cur[e].v # 0 =>
    StateAt(events, {}, e, cur[e].v) =
      [ok |-> TRUE, state |-> cur[e].state, deleted |-> cur[e].deleted]

\* The absence of a snapshot "affects only read performance, not correctness": a
\* read gives the same state from the snapshots there are and from none.
SnapshotsAreTransparent ==
  \A e \in Entities : \A v \in 1 .. LastVersion(events, e) :
    StateAt(events, snaps, e, v) = StateAt(events, {}, e, v)

=============================================================================
