----------------------------- MODULE MCFastBatch ----------------------------
(***************************************************************************)
(* Small instances of FastBatch: one entity, one event_id.        *)
(***************************************************************************)
EXTENDS FastBatch

CONSTANTS e1, k1

Cmd(e, key, kind, to, expected) ==
  [eid |-> e, key |-> key, kind |-> kind, to |-> to, expected |-> expected]

Put1   == Cmd(e1, NoKey, "state", 1, Nil)
Keyed  == Cmd(e1, k1, "state", 2, Nil)
Cut    == Cmd(e1, NoKey, "diff", 0, Nil)
Locked == Cmd(e1, NoKey, "state", 3, 0)

FastCommands   == {Put1, Keyed, Cut}

\* Instances for the promises the code does not keep.
TwoValues      == {Put1, Cut}
LockedCommands == {Put1, Locked}
=============================================================================
