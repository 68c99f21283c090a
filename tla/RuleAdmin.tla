----------------------------- MODULE RuleAdmin ------------------------------
(***************************************************************************)
(* The rules of one collection: the admin requests that change them        *)
(* (service/rule_admin, storage/mongo/rule_repo), the audit trail, the     *)
(* invalidations broadcast over Redis (storage/redis/rule_invalidator) and *)
(* the engines that evaluate events against cached rules                   *)
(* (service/rules_engine).                                                 *)
(***************************************************************************)
EXTENDS Integers, FiniteSets

CONSTANTS Nodes,         \* processes, each with a rules engine
          Admins,        \* admin requests in flight
          Evaluations,   \* events being evaluated
          Names, Nil,
          FaultKinds,    \* "mongo", "lost" (an invalidation), "crash"
          MaxChanges,    \* bound: admin requests
          MaxFaults      \* bound: faults in a behaviour

ASSUME RuleAdminAssumption ==
  /\ FaultKinds \subseteq {"mongo", "lost", "crash"}
  /\ MaxChanges \in Nat /\ MaxFaults \in Nat

VARIABLES
  stored,    \* rule documents [id, name, version, enabled]
  lastId,    \* ids given out
  request,   \* per admin: [kind, step, id, name, enabled, version]
  audit,     \* records [action, id, version] of ev__system
  gone,      \* ids of deleted rules, with the version that was deleted
  inbox,     \* per process: invalidations on their way
  cache,     \* per process: Nil or [rules, fresh]
  eval,      \* per evaluation: [at, step, rules]
  changes, faults

vars == <<stored, lastId, request, audit, gone, inbox, cache, eval, changes, faults>>

NoRequest == [kind |-> "none", step |-> "idle", id |-> 0, name |-> Nil, enabled |-> FALSE,
              version |-> 0]

NoEval == [at |-> Nil, step |-> "idle", rules |-> {}]

Init ==
  /\ stored = {} /\ lastId = 0 /\ request = [a \in Admins |-> NoRequest]
  /\ audit = {} /\ gone = {} /\ inbox = [n \in Nodes |-> 0]
  /\ cache = [n \in Nodes |-> Nil] /\ eval = [e \in Evaluations |-> NoEval]
  /\ changes = 0 /\ faults = 0

Fault(kind) ==
  /\ kind \in FaultKinds /\ faults < MaxFaults
  /\ faults' = faults + 1

engineVars == <<inbox, cache, eval>>
adminVars == <<stored, lastId, request, audit, gone, changes>>

-----------------------------------------------------------------------------
(* RuleService and RuleRepo.                                               *)

\* A request with a valid rule arrives; an invalid one changes nothing (see
\* RuleLang for the validation).  Update takes its id from the path.
Begin(a) ==
  /\ request[a].step = "idle" /\ changes < MaxChanges /\ changes' = changes + 1
  /\ \/ \E name \in Names, enabled \in BOOLEAN :
          \/ request' = [request EXCEPT ![a] = [NoRequest EXCEPT
               !.kind = "create", !.step = "write", !.name = name, !.enabled = enabled]]
          \/ \E id \in 1 .. lastId :
               request' = [request EXCEPT ![a] = [NoRequest EXCEPT !.kind = "update",
                 !.step = "write", !.id = id, !.name = name, !.enabled = enabled]]
     \/ \E id \in 1 .. lastId :
          request' = [request EXCEPT ![a] = [NoRequest EXCEPT
            !.kind = "delete", !.step = "read", !.id = id]]
  /\ UNCHANGED <<stored, lastId, audit, gone, engineVars, faults>>

\* The request fails: nothing is written after it.
Refuse(a) == request' = [request EXCEPT ![a] = NoRequest]

\* It is written, with the version the audit will carry.
Written(a, id, version) ==
  request' = [request EXCEPT ![a].step = "audit", ![a].id = id, ![a].version = version]

Doc(id) == CHOOSE d \in stored : d.id = id

Exists(id) == \E d \in stored : d.id = id

\* The unique index {collection, name}.
NameTaken(name, id) == \E d \in stored : d.name = name /\ d.id # id

Create(a) ==
  LET id == lastId + 1
  IN  /\ request[a].kind = "create" /\ request[a].step = "write"
      /\ IF NameTaken(request[a].name, id) THEN Refuse(a) /\ UNCHANGED <<stored, lastId>>
         ELSE /\ lastId' = id
              /\ stored' = stored \cup {[id |-> id, name |-> request[a].name, version |-> 1,
                                         enabled |-> request[a].enabled]}
              /\ Written(a, id, 1)
      /\ UNCHANGED <<audit, gone, engineVars, changes, faults>>

\* Faulty: the version is not increased.
UpdatedUncounted(d, r) == [d EXCEPT !.name = r.name, !.enabled = r.enabled]

\* The document an update leaves: the version after the stored one.
Updated(d, r) == [d EXCEPT !.name = r.name, !.enabled = r.enabled, !.version = @ + 1]

\* One FindOneAndUpdate: the body is replaced and the version increased.
Update(a) ==
  LET r == request[a]
  IN  /\ r.kind = "update" /\ r.step = "write"
      /\ IF ~Exists(r.id) \/ NameTaken(r.name, r.id) THEN Refuse(a) /\ UNCHANGED stored
         ELSE /\ stored' = (stored \ {Doc(r.id)}) \cup {Updated(Doc(r.id), r)}
              /\ Written(a, r.id, Updated(Doc(r.id), r).version)
      /\ UNCHANGED <<lastId, audit, gone, engineVars, changes, faults>>

\* Delete reads the rule for the audit, then removes it.
DeleteReads(a) ==
  LET r == request[a]
  IN  /\ r.kind = "delete" /\ r.step = "read"
      /\ IF Exists(r.id)
         THEN request' = [request EXCEPT ![a].step = "write", ![a].version = Doc(r.id).version]
         ELSE Refuse(a)
      /\ UNCHANGED <<stored, lastId, audit, gone, engineVars, changes, faults>>

Delete(a) ==
  LET r == request[a]
  IN  /\ r.kind = "delete" /\ r.step = "write"
      /\ IF Exists(r.id)
         THEN /\ stored' = stored \ {Doc(r.id)} /\ Written(a, r.id, r.version)
              /\ gone' = gone \cup {[id |-> r.id, version |-> Doc(r.id).version]}
         ELSE Refuse(a) /\ UNCHANGED <<stored, gone>>
      /\ UNCHANGED <<lastId, audit, engineVars, changes, faults>>

\* audited: a record that cannot be written is logged and left out.
Audited(a) ==
  /\ request[a].step = "audit" /\ request' = [request EXCEPT ![a].step = "invalidate"]
  /\ \/ /\ audit' = audit \cup {[action |-> request[a].kind, id |-> request[a].id,
                                version |-> request[a].version]}
        /\ UNCHANGED faults
     \/ Fault("mongo") /\ UNCHANGED audit
  /\ UNCHANGED <<stored, lastId, gone, engineVars, changes>>

\* InvalidateRules: a message for every subscriber, if Redis takes it.
Invalidate(a) ==
  /\ request[a].step = "invalidate" /\ Refuse(a)
  /\ \/ inbox' = [n \in Nodes |-> inbox[n] + 1] /\ UNCHANGED faults
     \/ Fault("lost") /\ UNCHANGED inbox
  /\ UNCHANGED <<stored, lastId, audit, gone, cache, eval, changes>>

\* A read or a write of the repository fails, or the process dies.
Interrupted(a) ==
  /\ \/ request[a].step \in {"read", "write"} /\ Fault("mongo")
     \/ request[a].step # "idle" /\ Fault("crash")
  /\ Refuse(a) /\ UNCHANGED <<stored, lastId, audit, gone, engineVars, changes>>

-----------------------------------------------------------------------------
(* RulesEngine.                                                            *)

\* Subscribe and Engine.Invalidate; pub/sub may lose a message.
Invalidated(n) ==
  /\ inbox[n] > 0 /\ inbox' = [inbox EXCEPT ![n] = @ - 1]
  /\ \/ cache' = [cache EXCEPT ![n] = Nil] /\ UNCHANGED faults
     \/ Fault("lost") /\ UNCHANGED cache
  /\ UNCHANGED <<adminVars, eval>>

\* Faulty: an expired entry is served.
FreshAlways(n) == cache[n] # Nil

Fresh(n) == cache[n] # Nil /\ cache[n].fresh

\* Evaluate and rulesFor: the cached rules, or a read.
Evaluate(e) ==
  /\ eval[e].step = "idle"
  /\ \E n \in Nodes :
       eval' = [eval EXCEPT ![e] = [at |-> n, step |-> IF Fresh(n) THEN "fire" ELSE "load",
                                    rules |-> IF Fresh(n) THEN cache[n].rules ELSE {}]]
  /\ UNCHANGED <<adminVars, inbox, cache, faults>>

\* compileEnabled.
Enabled == {d \in stored : d.enabled}

\* List; without an answer the event is evaluated against no rules.
LoadRules(e) ==
  /\ eval[e].step = "load"
  /\ \/ /\ eval' = [eval EXCEPT ![e].step = "fill", ![e].rules = Enabled]
        /\ UNCHANGED faults
     \/ Fault("mongo") /\ eval' = [eval EXCEPT ![e] = NoEval]
  /\ UNCHANGED <<adminVars, inbox, cache>>

\* The entry is stored, whatever has happened since the read.
FillCache(e) ==
  /\ eval[e].step = "fill"
  /\ cache' = [cache EXCEPT ![eval[e].at] = [rules |-> eval[e].rules, fresh |-> TRUE]]
  /\ eval' = [eval EXCEPT ![e].step = "fire"]
  /\ UNCHANGED <<adminVars, inbox, faults>>

\* The actions of the rules that hold are fired (see Delivery for webhooks).
Fire(e) ==
  /\ eval[e].step = "fire" /\ eval' = [eval EXCEPT ![e] = NoEval]
  /\ UNCHANGED <<adminVars, inbox, cache, faults>>

Expire(n) ==
  /\ Fresh(n) /\ cache' = [cache EXCEPT ![n].fresh = FALSE]
  /\ UNCHANGED <<adminVars, inbox, eval, faults>>

-----------------------------------------------------------------------------
Administer(a) == \/ Create(a) \/ Update(a) \/ DeleteReads(a) \/ Delete(a)
                 \/ Audited(a) \/ Invalidate(a)

Engine(e) == LoadRules(e) \/ FillCache(e) \/ Fire(e)

Next ==
  \/ \E a \in Admins : Begin(a) \/ Administer(a) \/ Interrupted(a)
  \/ \E n \in Nodes : Invalidated(n) \/ Expire(n)
  \/ \E e \in Evaluations : Evaluate(e) \/ Engine(e)

Spec == Init /\ [][Next]_vars

\* Requests and evaluations run on, time passes, events keep coming.
FairSpec ==
  /\ Spec
  /\ \A a \in Admins : WF_vars(Administer(a))
  /\ \A n \in Nodes : WF_vars(Invalidated(n)) /\ WF_vars(Expire(n))
  /\ \A e \in Evaluations : WF_vars(Engine(e)) /\ WF_vars(Evaluate(e))

-----------------------------------------------------------------------------
(* Properties.                                                             *)

\* "so the caller and audit see the version that took effect": of a rule, each
\* version is announced by one request only, however the requests interleave,
\* and never one that was not reached.
VersionsAnnouncedOnce ==
  \A a \in Admins : request[a].step = "audit" /\ request[a].kind = "update"
    => /\ \A b \in Admins \ {a} :
             ~(request[b].step = "audit" /\ request[b].kind \in {"create", "update"}
               /\ request[b].id = request[a].id /\ request[b].version = request[a].version)
       /\ \A r \in audit : r.id = request[a].id /\ r.action \in {"create", "update"}
                             => r.version # request[a].version
       /\ \A d \in stored : d.id = request[a].id => request[a].version <= d.version

\* When the changes stop, engines in the end evaluate with the stored rules,
\* whatever invalidations were lost or overtaken: the TTL bounds staleness.
EnginesConverge ==
  <>[](\A e \in Evaluations : eval[e].step = "fire" => eval[e].rules = Enabled)

\* "so a change takes effect immediately rather than after the TTL": when every
\* change has been announced and every announcement handled, no engine serves
\* older rules.
ChangesTakeEffect ==
  (\A a \in Admins : request[a].step = "idle") /\ (\A n \in Nodes : inbox[n] = 0)
    => \A n \in Nodes : Fresh(n) => cache[n].rules = Enabled

\* "It reads the rule first so the audit entry carries its name/version": the
\* record of a deletion names the version that was deleted.
DeletionAudited ==
  \A r \in audit : r.action = "delete" => [id |-> r.id, version |-> r.version] \in gone
=============================================================================
