----------------------------- MODULE MCRuleLang -----------------------------
(***************************************************************************)
(* Small instances of RuleLang: every operator, nesting of depth two.      *)
(***************************************************************************)
EXTENDS RuleLang

Num(n) == [t |-> "num", n |-> n]
Bool(b) == [t |-> "bool", b |-> b]
List(l) == [t |-> "list", l |-> l]

Ordered ==
  {[k \in {"field", op} |-> IF k = "field" THEN "author_id" ELSE v] :
     op \in {"gt", "gte", "lt", "lte"}, v \in {Num(2), Str("2"), Str("x")}}

Compared ==
  {[k \in {"field", op} |-> IF k = "field" THEN f ELSE v] :
     op \in {"eq", "ne", "regex"}, f \in {"author_id", "op", "salary"},
     v \in {Str("x"), Str("delete"), Num(7)}}

\* "(" is no pattern.
MCPatterns ==
  [x |-> {"x"}, delete |-> {"delete"}, te |-> {"update", "delete"}] @@
  ("[23]" :> {"2", "3"}) @@ ("^2$" :> {"2"}) @@ ("e|^$" :> {"", "update", "delete"})

Searched ==
  {[field |-> f, regex |-> Str(p)] :
     f \in {"author_id", "op"}, p \in DOMAIN MCPatterns \cup {"("}}

ScalarLeaves ==
  Ordered \cup Compared \cup Searched \cup
  {[field |-> "author_id", in |-> List(<<Str("2"), Str("x")>>)],
   [field |-> "author_id", in |-> List(<<Num(7)>>)],
   [field |-> "author_id", in |-> Str("x")],
   [field |-> "author_id", exists |-> Bool(TRUE)],
   [field |-> "author_id"]}

Criteria == [path |-> {<<>>, <<"*">>, <<"a">>, <<"a", "*">>, <<"">>}, new |-> {Null, Num(1)}]

Matches ==
  {[field |-> "changes", match |-> [path |-> p]] : p \in Criteria.path} \cup
  {[field |-> "changes", match |-> [path |-> p, new |-> v]] : p \in Criteria.path, v \in Criteria.new}
  \cup {[field |-> "changes", match |-> [path |-> <<"a">>, op |-> o, old |-> Null]] :
          o \in {"add", "change", "move"}}

Leaves == ScalarLeaves \cup Matches

\* Leaves that disagree on most events, to be combined.
Few ==
  {[field |-> "author_id", ne |-> Str("x")], [field |-> "author_id", gt |-> Num(2)],
   [field |-> "changes", match |-> [path |-> <<"*">>, new |-> Null]]}

Pairs == {<<>>} \cup {<<a>> : a \in Few} \cup {<<a, b>> : a \in Few, b \in Few}

Simple == {[all |-> l] : l \in Pairs} \cup {[any |-> l] : l \in Pairs} \cup {[not |-> a] : a \in Few}

Nested == {[not |-> c] : c \in Simple} \cup {[all |-> <<c, [any |-> <<>>]>>] : c \in Simple}
            \cup {[any |-> <<[all |-> <<>>], c>>] : c \in Few}

Hook == [type |-> "webhook", url |-> "u"]
Log == [type |-> "log"]

Actions ==
  {<<>>, <<Log, Hook>>, <<Hook, Hook, Log>>, <<[type |-> "log", level |-> "warn"]>>,
   <<[type |-> "mail"]>>, <<Log, [type |-> "webhook"]>>}
  \cup {<<Hook @@ [timeout_ms |-> n, retry |-> [max_attempts |-> m, backoff |-> b]]>> :
          n \in -1 .. 1, m \in -1 .. 1, b \in {"", "exp"}}

Body(c, a) == [name |-> "r", enabled |-> TRUE, condition |-> c, actions |-> a]

MCBodies ==
  {Body(c, <<Hook, Log>>) : c \in Leaves \cup Simple \cup Nested}
  \cup {Body([all |-> <<>>], a) : a \in Actions}
  \cup {[Body([all |-> <<>>], <<Log>>) EXCEPT !.enabled = FALSE],
        [Body([all |-> <<>>], <<Log>>) EXCEPT !.name = ""]}

Changed(p, o, old, new) == [path |-> p, op |-> o, old |-> old, new |-> new]

MCEvents ==
  {[op |-> o, author_id |-> a, entity_id |-> "e", source |-> "", changes |-> cs] :
     o \in {"update", "delete"}, a \in {"", "x", "2", "3"},
     cs \in {<<>>, <<Changed(<<>>, "add", Null, Num(1))>>,
             <<Changed(<<"a", "b">>, "change", Num(1), Num(2)),
               Changed(<<"a">>, "add", Null, Num(1))>>,
             <<Changed(<<"a">>, "remove", Num(1), Null)>>}}

ExistsFalse == {Body([field |-> "author_id", exists |-> Bool(FALSE)], <<Log>>)}

Strict == {Body([field |-> "author_id", eq |-> Num(2)], <<Log>>)}

Ambiguous ==
  {Body([all |-> <<>>, not |-> [all |-> <<>>]], <<Log>>),
   Body([field |-> "author_id", eq |-> Str("x"), gt |-> Num(2)], <<Log>>)}
=============================================================================
