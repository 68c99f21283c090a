----------------------------- MODULE EventStore -----------------------------
(***************************************************************************)
(* What the ev_*, cur_* and sn_* collections of one logical collection     *)
(* hold, and the queries the code runs over them.                          *)
(*                                                                         *)
(*   events  a set of event documents [eid, v, op, key, changes, link,     *)
(*           post]; key is the client's event_id, link the version whose   *)
(*           hash the event carries as prev_hash, and post, which no       *)
(*           document has, records the state its writer believed it wrote  *)
(*   snaps   a set of snapshot documents [eid, v, deleted, state]          *)
(***************************************************************************)
EXTENDS Diff, Integers, FiniteSetsExt

CONSTANTS NoKey       \* the event carries no event_id

Of(events, e) == {d \in events : d.eid = e}

\* Highest stored version of the entity, 0 without history.
LastVersion(events, e) == Max({d.v : d \in Of(events, e)} \cup {0})

\* Faulty: the collection was provisioned without an index.
VersionClashUnindexed(events, e, v) == FALSE

KeyClashUnindexed(events, key) == FALSE

\* The two unique indexes of ev_*: {eid, v}, and {event_id}, which is sparse.
VersionClash(events, e, v) == \E d \in events : d.eid = e /\ d.v = v

KeyClash(events, key) == key # NoKey /\ \E d \in events : d.key = key

EventAt(events, e, v) == CHOOSE d \in events : d.eid = e /\ d.v = v

LastEvent(events, e) == EventAt(events, e, LastVersion(events, e))

-----------------------------------------------------------------------------
(* Snapshots.                                                              *)

ShouldSnapshot(version, interval) ==
  interval > 0 /\ version > 0 /\ version % interval = 0

\* SnapshotRepo.Save: ReplaceOne with upsert on {eid, v}.
SaveSnapshot(snaps, s) ==
  {x \in snaps : ~(x.eid = s.eid /\ x.v = s.v)} \cup {s}

=============================================================================
