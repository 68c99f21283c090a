------------------------------ MODULE MCDurable -----------------------------
(***************************************************************************)
(* Small instances of Durable: one entity, one event_id.                   *)
(***************************************************************************)
EXTENDS Durable, TLC

CONSTANT k1

Cmd(kind, key, to, expected, default) ==
  [eid |-> "e1", key |-> key, kind |-> kind, to |-> to, expected |-> expected,
   default |-> default]

Single(cmd)          == [batch |-> FALSE, override |-> "", items |-> <<cmd>>]
Batch(override, its) == [batch |-> TRUE, override |-> override, items |-> its]

Put1   == Cmd("state", NoKey, 1, Nil, "durable")
Put2   == Cmd("state", NoKey, 2, Nil, "durable")
Keyed  == Cmd("state", k1, 1, Nil, "durable")
KeyCut == Cmd("diff", k1, 0, Nil, "durable")
Cut    == Cmd("diff", NoKey, 0, Nil, "durable")
Locked == Cmd("state", NoKey, 2, 0, "durable")
Sync   == Cmd("state", NoKey, 2, Nil, "strict")

FaultRequests    == {Single(Keyed), Single(Cut)}
RecoveryRequests == {Single(Keyed), Single(Cut), Single(Sync), Batch("", <<Put2>>)}

\* Instances for the promises the code does not keep.
RaceRequests  == {Single(Keyed)}
OrderRequests == {Single(Put1), Single(Put2)}
LockRequests  == {Single(Put1), Single(Locked)}
CutRequests   == {Single(Put1), Single(KeyCut)}

WorkerSymmetry == Permutations(Workers)
=============================================================================
