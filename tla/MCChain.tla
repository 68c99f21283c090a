------------------------------ MODULE MCChain -------------------------------
(***************************************************************************)
(* Small instances of Chain: commands that differ in one thing each, and   *)
(* one that has everything.                                                *)
(***************************************************************************)
EXTENDS Chain

FieldChange(op, old, new) == [path |-> "f", op |-> op, old |-> old, new |-> new]

Ref(aid, c, eid, v, ev) ==
  [activity_id |-> aid, collection |-> c, entity_id |-> eid, version |-> v, event_id |-> ev]

Flow(id, step, refs) == << [flow_id |-> id, step |-> step, caused_by |-> refs] >>

PlainWrite == [op |-> "update", entity |-> "e1", author |-> "", source |-> "", ts |-> 0,
          changes |-> <<FieldChange("change", "x", "y")>>, flow |-> <<>>]

Rich == [op |-> "create", entity |-> "e1", author |-> "ann", source |-> "crm", ts |-> 7,
         changes |-> <<FieldChange("add", "null", "x"), FieldChange("remove", "y", "null")>>,
         flow |-> Flow("f1", "s1", <<Ref("a1", "", "", <<>>, ""), Ref("", "deals", "e2", <<1>>, "")>>)]

ManyCommands ==
  { PlainWrite, Rich,
    [PlainWrite EXCEPT !.op = "delete", !.changes = <<>>],
    [PlainWrite EXCEPT !.changes = <<FieldChange("change", "x", "null")>>],
    [PlainWrite EXCEPT !.changes = <<FieldChange("add", "x", "y")>>],
    [PlainWrite EXCEPT !.changes = <<FieldChange("remove", "x", "null")>>],
    [PlainWrite EXCEPT !.author = "ann"],
    [PlainWrite EXCEPT !.source = "ann"],
    [PlainWrite EXCEPT !.ts = 6],
    [PlainWrite EXCEPT !.ts = 7],
    [PlainWrite EXCEPT !.flow = Flow("", "", <<>>)],
    [PlainWrite EXCEPT !.flow = Flow("f1", "", <<>>)],
    [PlainWrite EXCEPT !.flow = Flow("", "f1", <<>>)],
    [PlainWrite EXCEPT !.flow = Flow("f1", "", <<Ref("", "deals", "e2", <<0>>, "v1")>>)],
    [PlainWrite EXCEPT !.flow = Flow("f1", "", <<Ref("", "deals", "", <<>>, "")>>)] }

CONSTANTS deals, leads

TwoCollections == {deals, leads}

Sym == Permutations(TwoCollections)

\* A moment in the first millisecond of the zero time.
EarlyCommands == {[PlainWrite EXCEPT !.ts = 1], [PlainWrite EXCEPT !.ts = 2]}
=============================================================================
