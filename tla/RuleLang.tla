------------------------------ MODULE RuleLang ------------------------------
(***************************************************************************)
(* The rule language: a rule as a client writes it (server/rules), as the  *)
(* service validates it (rules/validate, rules/compile), as the database   *)
(* holds it (storage/mongo/rule_repo), as a client reads it back, and what *)
(* it fires when an event is stored (service/rules_engine).                *)
(*                                                                         *)
(* A JSON object is a function from the keys it sets; a Go struct leaves   *)
(* the keys with a zero value out in the same way.  A JSON value is a      *)
(* record with a tag t; a path is the sequence of its segments.  Bodies    *)
(* set known keys only: the decoder refuses the others before all this.    *)
(***************************************************************************)
EXTENDS Integers, Sequences, SequencesExt, TLC, JsonValues

CONSTANTS Bodies,        \* rule bodies clients post
          Events,        \* events evaluated: [op, author_id, changes]
          Patterns       \* per text that is a pattern: the values it is found in

VARIABLES phase,         \* "none", "refused", "stored", "firing", "done"
          body,          \* the body that was posted
          rule,          \* the rule that was validated
          doc,           \* its document
          answer,        \* what GET answered, or Null
          event,         \* the event evaluated
          fired          \* how the actions went: "handed over" or "failed"

ruleVars == <<phase, body, rule, doc, answer, event, fired>>

Str(s) == [t |-> "str", s |-> s]

Has(d, k) == k \in DOMAIN d
Get(d, k, zero) == IF Has(d, k) THEN d[k] ELSE zero

\* d without the keys that hold their zero value.
Omit(d, zero) == [k \in {x \in DOMAIN d : x \in DOMAIN zero => d[x] # zero[x]} |-> d[k]]

-----------------------------------------------------------------------------
(* server/rules: a body to a rule.                                         *)

ScalarOps == <<"eq", "ne", "in", "gt", "gte", "lt", "lte", "regex", "exists">>

\* A scalar leaf: the first operator that is set, without a value for exists.
toScalar(d) ==
  LET set == SelectSeq(ScalarOps, LAMBDA op : Has(d, op))
      op == IF set = <<>> THEN "" ELSE Head(set)
      value == IF op \in {"", "exists"} THEN Null ELSE d[op]
  IN  Omit([field |-> Get(d, "field", ""), op |-> op, value |-> value],
           [field |-> "", op |-> "", value |-> Null])

toMatch(d) ==
  [path |-> d.path, op |-> Get(d, "op", ""), old |-> Get(d, "old", Null),
   new |-> Get(d, "new", Null), has_old |-> Has(d, "old"), has_new |-> Has(d, "new")]

\* A wire node to a condition: the first kind that is set.
RECURSIVE toCondition(_)
toCondition(d) ==
  LET List(ds) == [i \in DOMAIN ds |-> toCondition(ds[i])]
  IN  IF Has(d, "all") THEN [all |-> List(d.all)]
      ELSE IF Has(d, "any") THEN [any |-> List(d.any)]
      ELSE IF Has(d, "not") THEN [not |-> toCondition(d.not)]
      ELSE IF Has(d, "match") THEN [match |-> toMatch(d.match)]
      ELSE toScalar(d)

toAction(d) ==
  LET webhook == [url |-> Get(d, "url", ""), timeout_ms |-> Get(d, "timeout_ms", 0),
                  retry |-> Get(d, "retry", [max_attempts |-> 0, backoff |-> ""])]
  IN  CASE d.type = "webhook" -> [type |-> d.type, webhook |-> webhook]
        [] d.type = "log" -> [type |-> d.type, level |-> Get(d, "level", "")]
        [] OTHER -> [type |-> d.type]

decodeRuleRequest(b) ==
  [name |-> b.name, enabled |-> b.enabled, condition |-> toCondition(b.condition),
   actions |-> [i \in DOMAIN b.actions |-> toAction(b.actions[i])]]

-----------------------------------------------------------------------------
(* rules/compile and rules/validate.                                       *)

\* strconv.ParseFloat on the texts that read as numbers.
ParseFloat == [x \in {"1", "2", "3"} |-> CASE x = "1" -> 1 [] x = "2" -> 2 [] OTHER -> 3]

FormatFloat(n) == CASE n = 1 -> "1" [] n = 2 -> "2" [] n = 3 -> "3" [] OTHER -> "other number"

toStr(v) ==
  CASE v.t = "str" -> v.s [] v.t = "num" -> FormatFloat(v.n)
    [] v.t = "bool" -> IF v.b THEN "true" ELSE "false" [] OTHER -> ""

IsNumeric(v) == v.t = "num" \/ (v.t = "str" /\ v.s \in DOMAIN ParseFloat)

toFloat(v) == IF v.t = "num" THEN v.n ELSE ParseFloat[v.s]

Fields == {"op", "entity_id", "author_id", "source"}

Kinds(c) ==
  {k \in {"all", "any", "not", "match"} : Has(c, k)}
    \cup {k \in {"scalar"} : Has(c, "field") \/ Has(c, "op")}

\* regexp.Compile; a text that is no pattern is an error.
Compiles(text) == text \in DOMAIN Patterns

compileScalar(c) ==
  LET op == Get(c, "op", "")
      v == Get(c, "value", Null)
      field == Get(c, "field", "")
      With(arg) == [kind |-> "scalar", field |-> field, op |-> op, arg |-> arg]
  IN  CASE field \in Fields /\ op \in {"eq", "ne"} -> With(toStr(v))
        [] field \in Fields /\ op = "in" /\ v.t = "list" -> With({toStr(x) : x \in ToSet(v.l)})
        [] field \in Fields /\ op \in {"gt", "gte", "lt", "lte"} /\ IsNumeric(v) ->
             With(toFloat(v))
        [] field \in Fields /\ op = "regex" /\ v.t = "str" /\ Compiles(v.s) -> With(v.s)
        [] field \in Fields /\ op = "exists" -> With(Null)
        [] OTHER -> Err

compileMatch(m) ==
  IF "" \in ToSet(m.path) \/ m.op \notin {"", "add", "change", "remove"} THEN Err
  ELSE [kind |-> "match"] @@ m

RECURSIVE compile(_)
compile(c) ==
  LET List(cs) == [i \in DOMAIN cs |-> compile(cs[i])]
      Combined(kind, ps) == IF Err \in ToSet(ps) THEN Err ELSE [kind |-> kind, ps |-> ps]
  IN  CASE Kinds(c) = {"all"} -> Combined("all", List(c.all))
        [] Kinds(c) = {"any"} -> Combined("any", List(c.any))
        [] Kinds(c) = {"not"} ->
             LET p == compile(c.not) IN IF p = Err THEN Err ELSE [kind |-> "not", p |-> p]
        [] Kinds(c) = {"match"} -> compileMatch(c.match)
        [] Kinds(c) = {"scalar"} -> compileScalar(c)
        [] OTHER -> Err

ValidAction(a) ==
  CASE a.type = "webhook" ->
         /\ a.webhook.url # "" /\ a.webhook.timeout_ms >= 0
         /\ a.webhook.retry.max_attempts >= 0
    [] OTHER -> a.type = "log"

ValidateActions(actions) == actions # <<>> /\ \A i \in DOMAIN actions : ValidAction(actions[i])

ValidateRule(r) == r.name # "" /\ compile(r.condition) # Err /\ ValidateActions(r.actions)

-----------------------------------------------------------------------------
(* storage/mongo/rule_repo: a rule to its document and back.               *)

\* The null of a list that is nil.
NoList == <<Null>>

\* A combinator is a list or null, never left out.
Combinator(c, k) == Get(c, k, NoList)

toMatchDoc(m) ==
  Omit(m, [op |-> "", old |-> Null, new |-> Null,
           has_old |-> FALSE, has_new |-> FALSE])

fromMatchDoc(d) ==
  [path |-> d.path, op |-> Get(d, "op", ""), old |-> Get(d, "old", Null),
   new |-> Get(d, "new", Null), has_old |-> Get(d, "has_old", FALSE),
   has_new |-> Get(d, "has_new", FALSE)]

RECURSIVE toCondDoc(_)
toCondDoc(c) ==
  LET List(x) == IF x = NoList THEN NoList ELSE [i \in DOMAIN x |-> toCondDoc(x[i])]
      scalar == [k \in DOMAIN c \cap {"field", "op", "value"} |-> c[k]]
      not == [k \in DOMAIN c \cap {"not"} |-> toCondDoc(c.not)]
      match == [k \in DOMAIN c \cap {"match"} |-> toMatchDoc(c.match)]
  IN  [all |-> List(Combinator(c, "all")), any |-> List(Combinator(c, "any"))]
        @@ scalar @@ not @@ match

RECURSIVE fromCondDoc(_)
fromCondDoc(d) ==
  [k \in {x \in DOMAIN d : x \in {"all", "any"} => d[x] # NoList} |->
     CASE k \in {"all", "any"} -> [i \in DOMAIN d[k] |-> fromCondDoc(d[k][i])]
       [] k = "not" -> fromCondDoc(d.not)
       [] k = "match" -> fromMatchDoc(d.match)
       [] OTHER -> d[k]]

toActionDoc(a) ==
  CASE a.type = "webhook" ->
         [type |-> a.type, webhook |-> Omit(a.webhook,
            [timeout_ms |-> 0, retry |-> [max_attempts |-> 0, backoff |-> ""]])]
    [] OTHER -> [type |-> a.type, log |-> Omit([level |-> a.level], [level |-> ""])]

fromActionDoc(d) ==
  CASE Has(d, "webhook") ->
         [type |-> d.type,
          webhook |-> [url |-> d.webhook.url, timeout_ms |-> Get(d.webhook, "timeout_ms", 0),
                       retry |-> Get(d.webhook, "retry", [max_attempts |-> 0, backoff |-> ""])]]
    [] OTHER -> [type |-> d.type, level |-> Get(d.log, "level", "")]

toRuleDoc(r) ==
  [name |-> r.name, enabled |-> r.enabled, condition |-> toCondDoc(r.condition),
   actions |-> [i \in DOMAIN r.actions |-> toActionDoc(r.actions[i])]]

fromRuleDoc(d) ==
  [name |-> d.name, enabled |-> d.enabled, condition |-> fromCondDoc(d.condition),
   actions |-> [i \in DOMAIN d.actions |-> fromActionDoc(d.actions[i])]]

-----------------------------------------------------------------------------
(* server/rules: a rule to an answer.                                      *)

matchResponse(m) ==
  [k \in {"path"} \cup {x \in {"op"} : m.op # ""} \cup {x \in {"old"} : m.has_old}
           \cup {x \in {"new"} : m.has_new} |-> m[k]]

RECURSIVE conditionResponse(_)
conditionResponse(c) ==
  LET List(cs) == [i \in DOMAIN cs |-> conditionResponse(cs[i])]
      op == Get(c, "op", "")
  IN  IF Has(c, "all") THEN [all |-> List(c.all)]
      ELSE IF Has(c, "any") THEN [any |-> List(c.any)]
      ELSE IF Has(c, "not") THEN [not |-> conditionResponse(c.not)]
      ELSE IF Has(c, "match") THEN [field |-> "changes", match |-> matchResponse(c.match)]
      ELSE [k \in {"field", op} \ {""} |->
              CASE k = "field" -> Get(c, "field", "")
                [] k = "exists" -> [t |-> "bool", b |-> TRUE]
                [] OTHER -> Get(c, "value", Null)]

actionResponse(a) ==
  CASE a.type = "webhook" ->
         [k \in {"type", "url"} \cup {x \in {"timeout_ms"} : a.webhook.timeout_ms > 0}
             \cup {x \in {"retry"} : a.webhook.retry # [max_attempts |-> 0, backoff |-> ""]} |->
            IF k = "type" THEN a.type ELSE a.webhook[k]]
    [] OTHER -> [type |-> a.type, level |-> a.level]

ruleResponse(r) ==
  [name |-> r.name, enabled |-> r.enabled, condition |-> conditionResponse(r.condition),
   actions |-> [i \in DOMAIN r.actions |-> actionResponse(r.actions[i])]]

-----------------------------------------------------------------------------
(* Predicate.Eval.                                                         *)

\* regexp.MatchString: the pattern is found anywhere in the value.
MatchString(pattern, s) == s \in Patterns[pattern]

\* scalarField: the empty string counts as absent.
Present(e, f) == e[f] # ""

scalarEval(p, e) ==
  LET val == e[p.field]
      n == Str(val)
  IN  CASE p.op = "exists" -> Present(e, p.field)
        [] p.op = "eq" -> Present(e, p.field) /\ val = p.arg
        [] p.op = "ne" -> val # p.arg
        [] p.op = "in" -> Present(e, p.field) /\ val \in p.arg
        [] p.op = "gt" -> IsNumeric(n) /\ toFloat(n) > p.arg
        [] p.op = "gte" -> IsNumeric(n) /\ toFloat(n) >= p.arg
        [] p.op = "lt" -> IsNumeric(n) /\ toFloat(n) < p.arg
        [] p.op = "lte" -> IsNumeric(n) /\ toFloat(n) <= p.arg
        [] p.op = "regex" -> Present(e, p.field) /\ MatchString(p.arg, val)

globMatch(segs, path) ==
  Len(segs) = Len(path) /\ \A i \in DOMAIN segs : segs[i] \in {"*", path[i]}

\* One change meets every criterion that is set.
matchEval(p, e) ==
  \E i \in DOMAIN e.changes :
    LET ch == e.changes[i]
    IN  /\ p.op \in {"", ch.op} /\ globMatch(p.path, ch.path)
        /\ p.has_old => ch.old = p.old
        /\ p.has_new => ch.new = p.new

RECURSIVE Eval(_, _)
Eval(p, e) ==
  CASE p.kind = "all" -> \A i \in DOMAIN p.ps : Eval(p.ps[i], e)
    [] p.kind = "any" -> \E i \in DOMAIN p.ps : Eval(p.ps[i], e)
    [] p.kind = "not" -> ~Eval(p.p, e)
    [] p.kind = "match" -> matchEval(p, e)
    [] p.kind = "scalar" -> scalarEval(p, e)

-----------------------------------------------------------------------------
(* The handlers, and the engine on a stored event.                         *)

RuleInit ==
  /\ phase = "none" /\ body = Null /\ rule = Null /\ doc = Null /\ answer = Null
  /\ event = Null /\ fired = <<>>

\* POST: 400, or the rule is stored.
create(b) ==
  LET r == decodeRuleRequest(b)
  IN  /\ phase = "none" /\ body' = b
      /\ \/ ~ValidateRule(r) /\ phase' = "refused" /\ UNCHANGED <<rule, doc>>
         \/ ValidateRule(r) /\ phase' = "stored" /\ rule' = r /\ doc' = toRuleDoc(r)
      /\ UNCHANGED <<answer, event, fired>>

\* GET.
get ==
  /\ phase = "stored" /\ answer' = ruleResponse(fromRuleDoc(doc))
  /\ UNCHANGED <<phase, body, rule, doc, event, fired>>

\* The rule as the engine holds it: compiled, or Err.
compileEnabled ==
  IF doc.enabled THEN compile(fromRuleDoc(doc).condition) ELSE Err

\* RulesEngine.Evaluate: a rule that does not compile is skipped.
Evaluate(e) ==
  /\ phase = "stored" /\ event' = e
  /\ phase' = IF compileEnabled # Err /\ Eval(compileEnabled, e) THEN "firing" ELSE "done"
  /\ UNCHANGED <<body, rule, doc, answer, fired>>

\* Faulty: the first action that fails ends the loop.
fireOrStop ==
  LET actions == fromRuleDoc(doc).actions
  IN  /\ phase = "firing"
      /\ \/ fired' = Append(fired, "handed over")
            /\ phase' = IF Len(fired') = Len(actions) THEN "done" ELSE "firing"
         \/ /\ actions[Len(fired) + 1].type = "webhook"
            /\ fired' = Append(fired, "failed") /\ phase' = "done"
      /\ UNCHANGED <<body, rule, doc, answer, event>>

\* One action of the rule; a webhook that cannot be published is dropped.
fire ==
  LET actions == fromRuleDoc(doc).actions
  IN  /\ phase = "firing"
      /\ \/ fired' = Append(fired, "handed over")
         \/ actions[Len(fired) + 1].type = "webhook" /\ fired' = Append(fired, "failed")
      /\ phase' = IF Len(fired') = Len(actions) THEN "done" ELSE "firing"
      /\ UNCHANGED <<body, rule, doc, answer, event>>

RuleDone == phase \in {"refused", "done"} /\ UNCHANGED ruleVars

RuleNext ==
  \/ \E b \in Bodies : create(b)
  \/ get
  \/ \E e \in Events : Evaluate(e)
  \/ fire
  \/ RuleDone

RuleSpec == RuleInit /\ [][RuleNext]_ruleVars

-----------------------------------------------------------------------------
(* Properties.                                                             *)

\* "an empty combinator must round-trip distinct from an absent one": what is
\* read from the database is the rule that was validated, to the last null.
StorageKeepsRules == doc # Null => fromRuleDoc(doc) = rule

\* "The condition is mapped back to the operator-as-key form so Create->Get
\* round-trips correctly": an answer posted again is the same rule.
AnswerIsTheRule == answer # Null => decodeRuleRequest(answer) = rule

\* "so a rule that validates is one the engine can run": a stored rule compiles
\* and its webhooks have the configuration the engine needs.
ValidRulesRun ==
  doc # Null =>
    /\ compile(fromRuleDoc(doc).condition) # Err
    /\ \A i \in DOMAIN doc.actions :
         doc.actions[i].type = "webhook" => fromActionDoc(doc.actions[i]).webhook.url # ""

\* What a leaf of the documented language says of an event.
LeafMeans(d, e) ==
  LET val == Str(e[d.field])
      here == e[d.field] # ""
  IN  /\ Has(d, "eq") => here /\ d.eq = val
      /\ Has(d, "ne") => ~here \/ d.ne # val
      /\ Has(d, "in") => here /\ \E i \in DOMAIN d.in.l : d.in.l[i] = val
      /\ Has(d, "gt") => IsNumeric(val) /\ toFloat(val) > toFloat(d.gt)
      /\ Has(d, "gte") => IsNumeric(val) /\ toFloat(val) >= toFloat(d.gte)
      /\ Has(d, "lt") => IsNumeric(val) /\ toFloat(val) < toFloat(d.lt)
      /\ Has(d, "lte") => IsNumeric(val) /\ toFloat(val) <= toFloat(d.lte)
      /\ Has(d, "regex") => here /\ MatchString(d.regex.s, e[d.field])
      /\ Has(d, "exists") => d.exists.b = here

\* The documented meaning of a condition as the client wrote it.
RECURSIVE Means(_, _)
Means(d, e) ==
  CASE Has(d, "all") -> \A i \in DOMAIN d.all : Means(d.all[i], e)
    [] Has(d, "any") -> \E i \in DOMAIN d.any : Means(d.any[i], e)
    [] Has(d, "not") -> ~Means(d.not, e)
    [] Has(d, "match") ->
         \E i \in DOMAIN e.changes : \A k \in DOMAIN d.match :
           IF k = "path"
           THEN /\ Len(d.match.path) = Len(e.changes[i].path)
                /\ \A n \in DOMAIN d.match.path :
                     d.match.path[n] # "*" => d.match.path[n] = e.changes[i].path[n]
           ELSE d.match[k] = e.changes[i][k]
    [] OTHER -> LeafMeans(d, e)

\* A stored event fires every action of an enabled rule when the condition, as
\* written by the client, holds of it, and none otherwise; an action that fails
\* does not take the others with it.
FiresWhatWasWritten ==
  phase = "done" =>
    Len(fired) = IF body.enabled /\ Means(body.condition, event) THEN Len(body.actions) ELSE 0

\* The nodes of a condition as written.
RECURSIVE Nodes(_)
Nodes(d) ==
  {d} \cup (IF Has(d, "not") THEN Nodes(d.not) ELSE {})
      \cup UNION {Nodes(x) : x \in ToSet(Get(d, "all", <<>>)) \cup ToSet(Get(d, "any", <<>>))}

\* "Compile rejects a node that sets more than one kind or none at all", and a
\* scalar leaf is "field plus exactly one operator": no stored rule comes from
\* an ambiguous body.
AmbiguousRefused ==
  doc # Null =>
    \A d \in Nodes(body.condition) :
      \E k \in {"all", "any", "not", "match"} \cup ToSet(ScalarOps) :
        DOMAIN d \ {"field"} = {k}

\* A rule survives its four forms (body, rule, document, compiled predicate):
\* it is stored, answered and fired as its author wrote it.
RulesMeanWhatTheySay ==
  StorageKeepsRules /\ AnswerIsTheRule /\ ValidRulesRun /\ FiresWhatWasWritten
=============================================================================
