------------------------------ MODULE MCIngest ------------------------------
(***************************************************************************)
(* Small instances of Ingest: one or two entities with fields f and g.     *)
(***************************************************************************)
EXTENDS IngestRead

CONSTANTS e1, k1

Write(kind, op, expected, key, state, changes) ==
  [kind |-> kind, eid |-> e1, op |-> op, expected |-> expected, key |-> key,
   state |-> state, changes |-> changes]

F(x)    == [f \in {"f"} |-> x]
G(x)    == [f \in {"g"} |-> x]
FG(x,y) == [f \in {"f", "g"} |-> IF f = "f" THEN x ELSE y]

PutF      == Write("state", "", Nil, NoKey, F(1), Nil)
PutFG     == Write("state", "", Nil, k1, FG(2, 1), Nil)
PutLocked == Write("state", "update", 1, NoKey, G(2), Nil)
DiffG     == Write("diff", "", Nil, k1, Empty, G(2))
DropG     == Write("diff", "update", Nil, NoKey, Empty, G(Removed))
Delete    == Write("delete", "delete", Nil, NoKey, Empty, Nil)

RaceCommands == {PutF, PutFG, DropG, Delete}

PutF2       == Write("state", "", Nil, NoKey, F(2), Nil)
CreateG     == Write("diff", "create", Nil, NoKey, G(1), Nil)
PutAsDelete == Write("state", "delete", Nil, NoKey, F(2), Nil)

SerialCommands   == {PutF, PutFG, PutLocked, DiffG, DropG, Delete}
LockCommands     == {PutF, PutLocked}
OverlapCommands  == {PutF, PutFG}
CrashCommands    == {PutF, PutFG, PutF2}
CreateCommands   == {PutF, CreateG}
DeleteCommands   == {PutF, PutAsDelete}
=============================================================================
