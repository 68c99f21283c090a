----------------------------- MODULE MCJsonDiff -----------------------------
(***************************************************************************)
(* Small instances of JsonDiff: nesting of depth three, arrays of up to    *)
(* three elements, a keyed array of up to two.                             *)
(***************************************************************************)
EXTENDS JsonDiff

K(name) == <<name>>
JNum(n) == [t |-> "num", text |-> n]

MCKeyOrder == <<K("a"), K("b"), K("id"), K("items"), K("x"), <<"x", "y">>>>

MCArrayKeys == (<<Plain("items")>> :> "id")

JScalars == {Null, JNum("1"), JNum("2")}

Flat == {Obj(m) : m \in UNION {[D -> {JNum("1"), JNum("2")}] : D \in SUBSET {K("a"), K("b")}}}

Lists == {Arr(l) : l \in UNION {[1 .. n -> {JNum("1"), Obj(K("a") :> JNum("1"))}] : n \in 0 .. 3}}

Item(id, v) == Obj((K("id") :> JNum(id)) @@ (K("x") :> JNum(v)))

Items == {Arr(l) : l \in {<<>>, <<Null>>, <<Item("1", "1"), Item("1", "2")>>}
            \cup {<<Item(i, v)>> : i, v \in {"1", "2"}}
            \cup {<<Item(i, v), Item(j, "1")>> : i, j, v \in {"1", "2"}}}

MCValues ==
  JScalars \cup Lists
  \cup {Obj(K("a") :> v) : v \in JScalars \cup Flat \cup {Arr(<<JNum("1")>>), Arr(<<Null, JNum("1")>>)}}
  \cup {Obj((K("b") :> JNum("1")) @@ (K("items") :> v)) : v \in Items}

P(name) == <<Plain(name)>>
Set(path, v) == Change(path, "add", Null, v)
Drop(path) == Change(path, "remove", Null, Null)

\* Client diffs whose changes do not go into one another.
MCClientDiffs ==
  {<<Obj(K("a") :> v), <<c, d>>>> :
     v \in Flat \cup {JNum("1")},
     c \in {Set(P("b"), JNum("2")), Drop(P("b")), Set(P("a") \o P("b"), JNum("2"))},
     d \in {Drop(P("a")), Drop(P("x")), Set(P("x"), JNum("1")), Drop(P("a") \o P("a"))}}

\* A change adds an object, the next one removes one of its keys.
IntoAdded ==
  {<<Obj(K("b") :> JNum("1")),
     <<Set(P("a"), Obj(K("b") :> JNum("1"))), Drop(P("a") \o P("b"))>>>>}

NoValues == {}

\* Objects with a dot in a key.
Dotted == {Obj(m) : m \in UNION {[D -> {JNum("1"), JNum("2")}] : D \in SUBSET {K("a"), <<"x", "y">>}}}
=============================================================================
