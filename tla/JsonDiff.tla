------------------------------ MODULE JsonDiff ------------------------------
(***************************************************************************)
(* Diffs of nested JSON values, the paths that address them, and the JSON  *)
(* Patch export (package internal/diff).  Diff.tla is the flat case the    *)
(* write path is modelled and proved with.                                 *)
(*                                                                         *)
(* A value is tagged: an object [t, m] with a function m from its keys, an *)
(* array [t, a], or a scalar.  A key is the sequence of the names between  *)
(* its dots, so <<"x", "y">> is the key "x.y".  A path is the sequence of  *)
(* its dot-separated segments, each a name with an optional selector, as   *)
(* in items[sku=A].                                                        *)
(***************************************************************************)
EXTENDS Integers, Sequences, SequencesExt, Functions, TLC, JsonValues

CONSTANTS Values,        \* JSON values diffed
          KeyOrder,      \* every key, sorted as texts
          ArrayKeys,     \* Options: from the paths of keyed arrays to the key's name
          ClientDiffs    \* pairs <<state, changes>> of diff commands

VARIABLES source,        \* "none", "diff" (of two values) or "client"
          base, target,  \* the values; target only of a diff
          changes,       \* the change list being applied
          next,          \* the change to apply next
          work,          \* the value so far
          live           \* changes whose New is part of work, by index

diffVars == <<source, base, target, changes, next, work, live>>

Obj(m) == [t |-> "obj", m |-> m]
Arr(a) == [t |-> "arr", a |-> a]

-----------------------------------------------------------------------------
(* Paths.                                                                  *)

Plain(name) == [name |-> name, sel |-> <<>>]

\* strconv.Itoa on the indexes that occur, and atoiIndex on their texts.
Itoa(i) == CASE i = 0 -> "0" [] i = 1 -> "1" [] i = 2 -> "2"

atoiIndex == [s \in {"0", "1", "2"} |-> CASE s = "0" -> 0 [] s = "1" -> 1 [] s = "2" -> 2]

childPath(path, key) == path \o [n \in DOMAIN key |-> Plain(key[n])]

indexPath(path, i) == childPath(path, <<Itoa(i)>>)

keyedPath(path, field, val) ==
  IF path = <<>> THEN <<[name |-> "", sel |-> <<field, val>>]>>
  ELSE [path EXCEPT ![Len(path)].sel = <<field, val>>]

keyOrIndex(name) ==
  IF name \in DOMAIN atoiIndex THEN [kind |-> "index", index |-> atoiIndex[name]]
  ELSE [kind |-> "key", key |-> <<name>>]

\* A name and a selector become two steps.
parsePath(path) ==
  FlattenSeq([n \in DOMAIN path |->
    LET raw == path[n]
        name == IF raw.sel # <<>> /\ raw.name = "" THEN <<>> ELSE <<keyOrIndex(raw.name)>>
    IN  IF raw.sel = <<>> THEN name
        ELSE name \o <<[kind |-> "keyed", field |-> raw.sel[1], val |-> raw.sel[2]]>>])

-----------------------------------------------------------------------------
(* Diff.                                                                   *)

Change(path, op, old, new) == [path |-> path, op |-> op, old |-> old, new |-> new]

sortedUnion(a, b) == SelectSeq(KeyOrder, LAMBDA k : k \in DOMAIN a \cup DOMAIN b)

IsScalarKey(v) == v.t \in {"str", "num", "bool"}

\* A scalar key as text: a string and a number may share one.
keyValString(v) == v.text

KeyOf(el, field) == keyValString(el.m[<<field>>])

keyable(arr, field) ==
  /\ \A n \in DOMAIN arr : /\ arr[n].t = "obj" /\ <<field>> \in DOMAIN arr[n].m
                           /\ IsScalarKey(arr[n].m[<<field>>])
  /\ IsInjective([n \in DOMAIN arr |-> KeyOf(arr[n], field)])

Least(x, y) == IF x < y THEN x ELSE y

\* The elements of a after the n-th, last first, so that no index shifts.
TailRemovals(path, a, n) ==
  [k \in 1 .. Len(a) - n |-> Change(indexPath(path, Len(a) - k), "remove", a[Len(a) + 1 - k], Null)]

TailAdditions(path, b, n) ==
  [k \in 1 .. Len(b) - n |-> Change(indexPath(path, n + k - 1), "add", Null, b[n + k])]

RECURSIVE diffValue(_, _, _)

\* Keys of both sides, in order; a new key is one add, a lost one one removal.
diffMap(path, a, b) ==
  LET keys == sortedUnion(a, b)
  IN  FlattenSeq([n \in DOMAIN keys |->
        LET k == keys[n] p == childPath(path, keys[n])
        IN  IF k \in DOMAIN a /\ k \in DOMAIN b THEN diffValue(p, a[k], b[k])
            ELSE IF k \in DOMAIN b THEN <<Change(p, "add", Null, b[k])>>
            ELSE <<Change(p, "remove", a[k], Null)>>])

diffIndexArray(path, a, b) ==
  LET n == Least(Len(a), Len(b))
  IN  FlattenSeq([i \in 1 .. n |-> diffValue(indexPath(path, i - 1), a[i], b[i])])
        \o TailAdditions(path, b, n) \o TailRemovals(path, a, n)

\* Faulty: elements with new keys are forgotten.
diffKeyedArrayOld(path, field, a, b) ==
  LET Matches(el, arr) == SelectSeq(arr, LAMBDA x : KeyOf(x, field) = KeyOf(el, field))
      Path(el) == keyedPath(path, field, KeyOf(el, field))
  IN  FlattenSeq([n \in DOMAIN a |->
        IF Matches(a[n], b) # <<>> THEN diffValue(Path(a[n]), a[n], Matches(a[n], b)[1])
        ELSE <<Change(Path(a[n]), "remove", a[n], Null)>>])

\* By key: edits and removals in the order of a, then additions in that of b.
diffKeyedArray(path, field, a, b) ==
  LET Matches(el, arr) == SelectSeq(arr, LAMBDA x : KeyOf(x, field) = KeyOf(el, field))
      Path(el) == keyedPath(path, field, KeyOf(el, field))
      added == SelectSeq(b, LAMBDA el : Matches(el, a) = <<>>)
  IN  FlattenSeq([n \in DOMAIN a |->
        IF Matches(a[n], b) # <<>> THEN diffValue(Path(a[n]), a[n], Matches(a[n], b)[1])
        ELSE <<Change(Path(a[n]), "remove", a[n], Null)>>])
        \o [n \in DOMAIN added |-> Change(Path(added[n]), "add", Null, added[n])]

diffValue(path, a, b) ==
  CASE a = b -> <<>>
    [] a # b /\ a.t = "obj" /\ b.t = "obj" -> diffMap(path, a.m, b.m)
    [] a # b /\ a.t = "arr" /\ b.t = "arr" ->
         IF /\ path \in DOMAIN ArrayKeys
            /\ keyable(a.a, ArrayKeys[path]) /\ keyable(b.a, ArrayKeys[path])
         THEN diffKeyedArray(path, ArrayKeys[path], a.a, b.a)
         ELSE diffIndexArray(path, a.a, b.a)
    [] OTHER -> <<Change(path, "change", a, b)>>

Diff(a, b) == diffValue(<<>>, a, b)

-----------------------------------------------------------------------------
(* Apply.                                                                  *)

Without(m, k) == Restrict(m, DOMAIN m \ {k})

\* The position of the element with a key, or 0.
indexOfKey(arr, field, val) ==
  LET found == {n \in DOMAIN arr : /\ arr[n].t = "obj" /\ <<field>> \in DOMAIN arr[n].m
                                   /\ IsScalarKey(arr[n].m[<<field>>])
                                   /\ KeyOf(arr[n], field) = val}
  IN  IF found = {} THEN 0 ELSE CHOOSE n \in found : \A x \in found : n <= x

\* The last step on an object, an index and a key: the new node, or Err.
SetKey(m, key, ch) ==
  CASE ch.op \in {"add", "change"} -> Obj((key :> ch.new) @@ m)
    [] ch.op = "remove" /\ key \in DOMAIN m -> Obj(Without(m, key))
    [] OTHER -> Err

SetIndex(arr, i, ch) ==
  CASE ch.op = "add" /\ i <= Len(arr) -> Arr(InsertAt(arr, i + 1, ch.new))
    [] ch.op = "change" /\ i < Len(arr) -> Arr([arr EXCEPT ![i + 1] = ch.new])
    [] ch.op = "remove" /\ i < Len(arr) -> Arr(RemoveAt(arr, i + 1))
    [] OTHER -> Err

SetKeyed(arr, idx, ch) ==
  CASE ch.op = "add" -> Arr(Append(arr, ch.new))
    [] ch.op = "change" /\ idx > 0 -> Arr([arr EXCEPT ![idx] = ch.new])
    [] ch.op = "remove" /\ idx > 0 -> Arr(RemoveAt(arr, idx))
    [] OTHER -> Err

\* Down the path, the change at its end, and the new nodes back up.
RECURSIVE applyStep(_, _, _)
applyStep(node, segs, ch) ==
  LET s == Head(segs)
      last == Len(segs) = 1
      Down(child, Up(_)) ==
        LET nv == applyStep(child, Tail(segs), ch) IN IF nv = Err THEN Err ELSE Up(nv)
      idx == IF s.kind = "index" THEN s.index + 1 ELSE indexOfKey(node.a, s.field, s.val)
  IN  IF s.kind = "key"
      THEN IF node.t # "obj" THEN Err
           ELSE IF last THEN SetKey(node.m, s.key, ch)
           ELSE IF s.key \notin DOMAIN node.m THEN Err
           ELSE Down(node.m[s.key], LAMBDA nv : Obj([node.m EXCEPT ![s.key] = nv]))
      ELSE IF node.t # "arr" THEN Err
           ELSE IF last /\ s.kind = "index" THEN SetIndex(node.a, s.index, ch)
           ELSE IF last THEN SetKeyed(node.a, idx, ch)
           ELSE IF idx \notin DOMAIN node.a THEN Err
           ELSE Down(node.a[idx], LAMBDA nv : Arr([node.a EXCEPT ![idx] = nv]))

\* One change of a list; the empty path replaces the whole value.
ApplyOne(value, ch) ==
  IF ch.path # <<>> THEN applyStep(value, parsePath(ch.path), ch)
  ELSE IF ch.op = "change" THEN ch.new ELSE Err

\* Apply: the changes in order, up to the first that fails.
Apply(value, chs) ==
  FoldLeft(LAMBDA v, ch : IF v = Err THEN Err ELSE ApplyOne(v, ch), value, chs)

-----------------------------------------------------------------------------
(* ToJSONPatch.                                                            *)

PatchOpOf(op) == IF op = "change" THEN "replace" ELSE op

Exportable(chs) == \A n \in DOMAIN chs : \A s \in ToSet(chs[n].path) : s.sel = <<>>

ToJSONPatch(chs) ==
  [n \in DOMAIN chs |->
     [op |-> PatchOpOf(chs[n].op), value |-> chs[n].new,
      pointer |-> [s \in DOMAIN chs[n].path |-> chs[n].path[s].name]]]

-----------------------------------------------------------------------------
(* A change list is computed or taken from a client, then applied one by   *)
(* one.  Apply copies the state, not the changes: an object of a change    *)
(* becomes part of the result, and later changes of the list that go into  *)
(* it are made to the change as well.                                      *)

DiffInit ==
  /\ source = "none" /\ base = Null /\ target = Null /\ changes = <<>> /\ next = 1
  /\ work = Null /\ live = {}

\* A full state: the changes are derived (KindState).
StartDiff ==
  /\ source = "none" /\ source' = "diff"
  /\ \E a, b \in Values :
       base' = a /\ work' = a /\ target' = b /\ changes' = Diff(a, b)
  /\ UNCHANGED <<next, live>>

\* A diff: the changes are the client's (KindDiff).
StartClient ==
  /\ source = "none" /\ source' = "client"
  /\ \E d \in ClientDiffs : base' = d[1] /\ work' = d[1] /\ changes' = d[2]
  /\ UNCHANGED <<target, next, live>>

\* The value a path of plain keys leads to.
RECURSIVE At(_, _)
At(value, path) ==
  IF path = <<>> THEN value
  ELSE IF value.t = "obj" /\ <<Head(path).name>> \in DOMAIN value.m
  THEN At(value.m[<<Head(path).name>>], Tail(path))
  ELSE Err

\* The changes whose New is still in the value after change n, and those whose
\* New change n goes into.
Kept(n) ==
  {i \in live : ~IsPrefix(changes[n].path, changes[i].path)}
    \cup {i \in {n} : changes[n].op # "remove"}

Shared(n) ==
  {i \in live : IsStrictPrefix(changes[i].path, changes[n].path)}

\* One change of Apply.
ApplyNext ==
  LET result == ApplyOne(work, changes[next])
  IN  /\ next <= Len(changes) /\ work # Err /\ work' = result /\ next' = next + 1
      /\ live' = Kept(next)
      /\ changes' = [i \in DOMAIN changes |->
                       IF result # Err /\ i \in Shared(next)
                       THEN [changes[i] EXCEPT !.new = At(result, changes[i].path)]
                       ELSE changes[i]]
      /\ UNCHANGED <<source, base, target>>

Applied == source # "none" /\ (next > Len(changes) \/ work = Err)

DiffDone == Applied /\ UNCHANGED diffVars

DiffNext == StartDiff \/ StartClient \/ ApplyNext \/ DiffDone

DiffSpec == DiffInit /\ [][DiffNext]_diffVars

-----------------------------------------------------------------------------
(* Properties.                                                             *)

\* The elements of keyed arrays in a canonical order: keyed mode ignores order.
SameElements(a, b) == Len(a) = Len(b) /\ ToSet(a) = ToSet(b)

\* Two values are equal up to the order of the arrays ArrayKeys names.
Agree(a, b) ==
  \/ a = b
  \/ /\ a.t = "obj" /\ b.t = "obj" /\ DOMAIN a.m = DOMAIN b.m
     /\ \A k \in DOMAIN a.m :
          \/ a.m[k] = b.m[k]
          \/ /\ childPath(<<>>, k) \in DOMAIN ArrayKeys
             /\ a.m[k].t = "arr" /\ b.m[k].t = "arr" /\ SameElements(a.m[k].a, b.m[k].a)

\* "Apply(a, Diff(a, b)) == b for any JSON values a and b": no change of a diff
\* fails on what the changes before it left, and the last one leaves b (keyed
\* arrays up to their order).
RoundTrip == Applied /\ source = "diff" => work # Err /\ Agree(work, target)

\* "The old field makes each change self-contained": what a change replaces or
\* removes is, when its turn comes, the value it says.
OldIsWhatWas ==
  source = "diff" /\ ~Applied /\ changes[next].op # "add"
    => applyStep(Obj(<<"root">> :> work),
                 <<[kind |-> "key", key |-> <<"root">>]>> \o parsePath(changes[next].path),
                 [changes[next] EXCEPT !.op = "change", !.new = changes[next].old])
         = Obj(<<"root">> :> work)

\* RFC 6902 and 6901: what a pointer's token means depends on the node it meets.
RECURSIVE PatchOne(_, _, _)
PatchOne(node, pointer, op) ==
  LET tok == Head(pointer)
      i == IF node.t = "arr" /\ tok \in DOMAIN atoiIndex THEN atoiIndex[tok] ELSE -1
      ch == [op |-> IF op.op = "replace" THEN "change" ELSE op.op, new |-> op.value]
  IN  IF pointer = <<>> THEN op.value
      ELSE IF node.t = "obj" THEN
        IF Len(pointer) = 1
        THEN IF op.op = "add" \/ <<tok>> \in DOMAIN node.m THEN SetKey(node.m, <<tok>>, ch) ELSE Err
        ELSE IF <<tok>> \notin DOMAIN node.m THEN Err
        ELSE Obj([node.m EXCEPT ![<<tok>>] = PatchOne(@, Tail(pointer), op)])
      ELSE IF i = -1 THEN Err
      ELSE IF Len(pointer) = 1 THEN SetIndex(node.a, i, ch)
      ELSE Arr([node.a EXCEPT ![i + 1] = PatchOne(@, Tail(pointer), op)])

\* "The read API can export diffs as JSON Patch": a receiver that patches the
\* old value with the export of a diff has the new value.
PatchAgrees ==
  source = "diff" /\ next = 1 /\ Exportable(changes)
    => Agree(FoldLeft(LAMBDA v, op : PatchOne(v, op.pointer, op), base, ToJSONPatch(changes)),
             target)

\* "The input is never mutated: Apply works on a deep copy": the list stored as
\* an event leads again from the old state to the new one when it is replayed.
ReplayAgrees == Applied /\ work # Err => Apply(base, changes) = work

\* A stored diff is right in each use made of it: applied, inspected, exported
\* as JSON Patch and replayed.
DiffsAreRight == RoundTrip /\ OldIsWhatWas /\ PatchAgrees /\ ReplayAgrees
=============================================================================
