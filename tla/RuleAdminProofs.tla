--------------------------- MODULE RuleAdminProofs ---------------------------
(***************************************************************************)
(* Proofs about RuleAdmin for any number of admins, processes, evaluations *)
(* and faults.                                                             *)
(***************************************************************************)
EXTENDS RuleAdmin, TLAPS

Rule == [id : Nat, name : Names, version : Nat, enabled : BOOLEAN]

Request == [kind : {"none", "create", "update", "delete"},
            step : {"idle", "read", "write", "audit", "invalidate"},
            id : Nat, name : Names \cup {Nil}, enabled : BOOLEAN, version : Nat]

Record == [action : {"create", "update", "delete", "none"}, id : Nat, version : Nat]

\* A document per id, and the ids are those given out.
StoreInv ==
  /\ lastId \in Nat /\ stored \subseteq Rule
  /\ \A d \in stored : d.id <= lastId
  /\ \A d, x \in stored : d.id = x.id => d = x

\* What a request needs when it writes: a create and an update carry a name.
RequestInv ==
  /\ request \in [Admins -> Request]
  /\ \A a \in Admins : request[a].kind \in {"create", "update"} => request[a].name \in Names

\* The request has written a version it is about to put on record.
Announces(a) == request[a].step = "audit" /\ request[a].kind \in {"create", "update"}

\* A version on record, or about to be, is of an id given out, and the rule has
\* come to it.
Reached(id, version) ==
  id <= lastId /\ \A d \in stored : d.id = id => version <= d.version

RecordInv ==
  /\ audit \subseteq Record
  /\ \A a \in Admins : Announces(a) => Reached(request[a].id, request[a].version)
  /\ \A r \in audit : r.action \in {"create", "update"} => Reached(r.id, r.version)

\* No version is announced twice.
DistinctInv ==
  /\ \A a, b \in Admins : Announces(a) /\ Announces(b) /\ request[a].id = request[b].id
                          /\ request[a].version = request[b].version => a = b
  /\ \A a \in Admins, r \in audit : Announces(a) /\ r.action \in {"create", "update"}
                                    /\ r.id = request[a].id => r.version # request[a].version

IndInv == StoreInv /\ RequestInv /\ RecordInv /\ DistinctInv

\* The document of an id that has one.
LEMMA DocIs ==
  ASSUME StoreInv, NEW id, Exists(id)
  PROVE  /\ Doc(id) \in stored /\ Doc(id).id = id /\ Doc(id) \in Rule
         /\ \A d \in stored : d.id = id => d = Doc(id)
<1>1. Doc(id) \in stored /\ Doc(id).id = id
  BY DEF Exists, Doc
<1> QED
  BY <1>1 DEF StoreInv

\* What a request may become: nothing, or one that has not written, or one that
\* has put its version on record.
Quiet(a) == request' = [request EXCEPT ![a] = request'[a]] /\ ~Announces(a)'

\* A step that announces nothing keeps the invariant on records.
LEMMA QuietKeeps ==
  ASSUME IndInv, NEW a \in Admins, Quiet(a), request'[a] \in Request,
         request'[a].kind \in {"create", "update"} => request'[a].name \in Names,
         stored' \subseteq stored, UNCHANGED <<lastId, audit>>
  PROVE  IndInv'
<1> USE DEF IndInv
<1>1. request' \in [Admins -> Request] /\ \A b \in Admins : b # a => request'[b] = request[b]
  BY DEF Quiet, RequestInv
<1>2. RequestInv'
  BY <1>1 DEF RequestInv
<1>3. StoreInv'
  BY DEF StoreInv
<1>4. \A b \in Admins : Announces(b)' => b # a /\ Announces(b) /\ request'[b] = request[b]
  BY <1>1 DEF Quiet, Announces
<1>5. RecordInv'
  BY <1>4 DEF RecordInv, Reached
<1>6. DistinctInv'
  BY <1>4 DEF DistinctInv
<1> QED
  BY <1>2, <1>3, <1>5, <1>6

\* A new version of a rule is above every version on record, so announcing it
\* keeps the invariant.
LEMMA WrittenKeeps ==
  ASSUME IndInv, NEW a \in Admins, NEW doc \in Rule, request[a].kind \in {"create", "update"},
         Written(a, doc.id, doc.version),
         NEW old \in SUBSET stored, stored' = (stored \ old) \cup {doc},
         \A d \in old : d.id = doc.id, \A d \in stored : d.id = doc.id => d \in old,
         \A d \in old : d.version < doc.version,
         lastId' \in Nat, lastId <= lastId', doc.id <= lastId', doc.id > lastId \/ old # {},
         UNCHANGED audit
  PROVE  IndInv'
<1> USE DEF IndInv
<1>1. /\ request' \in [Admins -> Request] /\ \A b \in Admins : b # a => request'[b] = request[b]
      /\ request'[a].step = "audit" /\ request'[a].kind = request[a].kind
      /\ request'[a].id = doc.id /\ request'[a].version = doc.version
      /\ request'[a].name = request[a].name
  <2>1. request[a] \in Request /\ doc.id \in Nat /\ doc.version \in Nat
    BY DEF RequestInv, Rule
  <2> QED
    BY <2>1 DEF Written, RequestInv, Request
<1>2. RequestInv'
  BY <1>1 DEF RequestInv
<1>3. StoreInv'
  BY DEF StoreInv, Rule
<1>4. \A id \in Nat, version \in Nat : Reached(id, version) =>
        Reached(id, version)' /\ (id = doc.id => version < doc.version)
  <2> SUFFICES ASSUME NEW id \in Nat, NEW version \in Nat, Reached(id, version)
               PROVE  Reached(id, version)' /\ (id = doc.id => version < doc.version)
    OBVIOUS
  <2>1. lastId \in Nat /\ doc.id \in Nat /\ doc.version \in Nat
        /\ \A d \in stored : d.version \in Nat
    BY DEF StoreInv, Rule
  <2>2. ASSUME id = doc.id
        PROVE  version < doc.version
    <3>1. PICK d \in old : TRUE
      BY <2>1, <2>2 DEF Reached
    <3>2. version <= d.version /\ d.version < doc.version /\ d.version \in Nat
      BY <2>1, <2>2, <3>1 DEF Reached
    <3> QED
      BY <2>1, <3>2
  <2>3. id <= lastId'
    BY <2>1 DEF Reached
  <2>4. \A d \in stored' : d.id = id => version <= d.version
    BY <2>1, <2>2 DEF Reached
  <2> QED
    BY <2>2, <2>3, <2>4 DEF Reached
<1>5. \A b \in Admins : request[b].id \in Nat /\ request[b].version \in Nat
  BY DEF RequestInv, Request
<1>6. \A r \in audit : r.id \in Nat /\ r.version \in Nat
  BY DEF RecordInv, Record
<1>7. Reached(doc.id, doc.version)'
  <2>1. \A d \in stored' : d.id = doc.id => d = doc
    OBVIOUS
  <2> QED
    BY <2>1 DEF Reached, Rule
<1>8. \A b \in Admins : b # a => Announces(b)' = Announces(b)
  BY <1>1 DEF Announces
<1>9. RecordInv'
  BY <1>1, <1>4, <1>5, <1>6, <1>7, <1>8 DEF RecordInv
<1>10. \A b \in Admins : b # a /\ Announces(b) /\ request[b].id = doc.id
                         => request[b].version < doc.version
  BY <1>4, <1>5 DEF RecordInv
<1>11. \A r \in audit : r.action \in {"create", "update"} /\ r.id = doc.id
                        => r.version < doc.version
  BY <1>4, <1>6 DEF RecordInv
<1>12. doc.version \in Nat
  BY DEF Rule
<1>13. DistinctInv'
  BY <1>1, <1>5, <1>6, <1>8, <1>10, <1>11, <1>12 DEF DistinctInv
<1> QED
  BY <1>2, <1>3, <1>9, <1>13

\* Everything starts empty.
LEMMA InitInd == Init => IndInv
<1> SUFFICES ASSUME Init
             PROVE  IndInv
  OBVIOUS
<1>1. StoreInv
  BY DEF Init, StoreInv
<1>2. RequestInv
  BY DEF Init, RequestInv, Request, NoRequest
<1>3. RecordInv /\ DistinctInv
  BY DEF Init, RecordInv, DistinctInv, Announces, NoRequest
<1> QED
  BY <1>1, <1>2, <1>3 DEF IndInv

\* A request that ends, refused, failed or answered, announces nothing.
LEMMA RefuseKeeps ==
  ASSUME IndInv, NEW a \in Admins, Refuse(a), stored' \subseteq stored,
         UNCHANGED <<lastId, audit>>
  PROVE  IndInv'
<1>1. request' = [request EXCEPT ![a] = NoRequest] /\ request'[a] = NoRequest
  BY DEF Refuse, IndInv, RequestInv
<1>2. NoRequest \in Request /\ NoRequest.kind = "none" /\ NoRequest.step = "idle"
  BY DEF NoRequest, Request
<1>3. Quiet(a)
  BY <1>1, <1>2 DEF Quiet, Announces
<1> QED
  BY <1>1, <1>2, <1>3, QuietKeeps

\* A request that arrives announces nothing yet.
LEMMA BeginKeeps ==
  ASSUME IndInv, NEW a \in Admins, Begin(a)
  PROVE  IndInv'
<1>1. lastId \in Nat /\ request \in [Admins -> Request]
  BY DEF IndInv, StoreInv, RequestInv
<1>2. PICK r \in Request : /\ request' = [request EXCEPT ![a] = r]
                           /\ r.step \in {"read", "write"}
                           /\ r.kind \in {"create", "update"} => r.name \in Names
  <2> DEFINE fits(r) == /\ r \in Request /\ request' = [request EXCEPT ![a] = r]
                        /\ r.step \in {"read", "write"}
                        /\ r.kind \in {"create", "update"} => r.name \in Names
  <2>1. \A id \in 1 .. lastId : id \in Nat
    BY <1>1
  <2>2. CASE \E name \in Names, enabled \in BOOLEAN :
               request' = [request EXCEPT ![a] = [NoRequest EXCEPT
                 !.kind = "create", !.step = "write", !.name = name, !.enabled = enabled]]
    <3>1. PICK name \in Names, enabled \in BOOLEAN :
            request' = [request EXCEPT ![a] = [NoRequest EXCEPT
              !.kind = "create", !.step = "write", !.name = name, !.enabled = enabled]]
      BY <2>2
    <3>2. fits([NoRequest EXCEPT !.kind = "create", !.step = "write", !.name = name,
                                 !.enabled = enabled])
      BY <3>1 DEF NoRequest, Request
    <3> QED
      BY <3>2
  <2>3. CASE \E name \in Names, enabled \in BOOLEAN, id \in 1 .. lastId :
               request' = [request EXCEPT ![a] = [NoRequest EXCEPT !.kind = "update",
                 !.step = "write", !.id = id, !.name = name, !.enabled = enabled]]
    <3>1. PICK name \in Names, enabled \in BOOLEAN, id \in 1 .. lastId :
            request' = [request EXCEPT ![a] = [NoRequest EXCEPT !.kind = "update",
              !.step = "write", !.id = id, !.name = name, !.enabled = enabled]]
      BY <2>3
    <3>2. fits([NoRequest EXCEPT !.kind = "update", !.step = "write", !.id = id,
                                 !.name = name, !.enabled = enabled])
      BY <2>1, <3>1 DEF NoRequest, Request
    <3> QED
      BY <3>2
  <2>4. CASE \E id \in 1 .. lastId :
               request' = [request EXCEPT ![a] = [NoRequest EXCEPT
                 !.kind = "delete", !.step = "read", !.id = id]]
    <3>1. PICK id \in 1 .. lastId : request' = [request EXCEPT ![a] = [NoRequest EXCEPT
                                     !.kind = "delete", !.step = "read", !.id = id]]
      BY <2>4
    <3>2. fits([NoRequest EXCEPT !.kind = "delete", !.step = "read", !.id = id])
      BY <2>1, <3>1 DEF NoRequest, Request
    <3> QED
      BY <3>2
  <2> HIDE DEF fits
  <2> QED
    BY <2>2, <2>3, <2>4 DEF Begin
<1>3. request'[a] = r
  BY <1>1, <1>2
<1>4. Quiet(a)
  BY <1>2, <1>3 DEF Quiet, Announces
<1> QED
  BY <1>2, <1>3, <1>4, QuietKeeps DEF Begin

\* Create gives the rule an id no rule ever had.
LEMMA CreateKeeps ==
  ASSUME IndInv, NEW a \in Admins, Create(a)
  PROVE  IndInv'
<1> DEFINE id == lastId + 1
           doc == [id |-> id, name |-> request[a].name, version |-> 1,
                   enabled |-> request[a].enabled]
<1>1. lastId \in Nat /\ id \in Nat /\ id > lastId /\ lastId <= id /\ \A d \in stored : d.id # id
  BY DEF IndInv, StoreInv, Rule
<1>2. request[a].kind = "create" /\ UNCHANGED audit
  BY DEF Create
<1>3. doc \in Rule /\ doc.id = id /\ doc.version = 1
  <2>1. request[a].enabled \in BOOLEAN /\ request[a].name \in Names
    BY <1>2 DEF IndInv, RequestInv, Request
  <2> QED
    BY <1>1, <2>1 DEF Rule
<1>4. CASE NameTaken(request[a].name, id)
  BY <1>4, RefuseKeeps DEF Create
<1>5. CASE ~NameTaken(request[a].name, id)
  <2>1. lastId' = id /\ stored' = (stored \ {}) \cup {doc} /\ Written(a, doc.id, doc.version)
    BY <1>5 DEF Create
  <2> DEFINE none == {}
  <2>2. /\ none \in SUBSET stored /\ \A d \in none : d.id = doc.id /\ d.version < doc.version
        /\ \A d \in stored : d.id = doc.id => d \in none
    BY <1>1, <1>3
  <2>3. lastId' \in Nat /\ lastId <= lastId' /\ doc.id <= lastId' /\ doc.id > lastId
    BY <1>1, <1>3, <2>1
  <2>4. stored' = (stored \ none) \cup {doc} /\ request[a].kind \in {"create", "update"}
    BY <1>2, <2>1
  <2> HIDE DEF doc, id, none
  <2> QED
    BY <1>2, <1>3, <2>1, <2>2, <2>3, <2>4, WrittenKeeps
<1> QED
  BY <1>4, <1>5

\* Update takes the rule to the version after the one it finds.
LEMMA UpdateKeeps ==
  ASSUME IndInv, NEW a \in Admins, Update(a)
  PROVE  IndInv'
<1> DEFINE r == request[a]
           old == Doc(r.id)
           doc == Updated(old, r)
<1>1. r.kind = "update" /\ UNCHANGED <<audit, lastId>>
  BY DEF Update
<1>2. CASE ~Exists(r.id) \/ NameTaken(r.name, r.id)
  BY <1>1, <1>2, RefuseKeeps DEF Update
<1>3. CASE ~(~Exists(r.id) \/ NameTaken(r.name, r.id))
  <2>1. old \in stored /\ old.id = r.id /\ old \in Rule /\ \A d \in stored : d.id = r.id => d = old
    BY <1>3, DocIs DEF IndInv
  <2>2. r.name \in Names /\ r.enabled \in BOOLEAN
    BY <1>1 DEF IndInv, RequestInv, Request
  <2>3. doc \in Rule /\ doc.id = r.id /\ doc.version = old.version + 1 /\ old.version \in Nat
    <3> HIDE DEF old, r
    <3>1. old.version \in Nat /\ old.version + 1 \in Nat
      BY <2>1 DEF Rule
    <3> QED
      BY <2>1, <2>2, <3>1, Zenon DEF Updated, Rule
  <2>4. stored' = (stored \ {old}) \cup {doc} /\ Written(a, r.id, doc.version)
    BY <1>3 DEF Update
  <2>5. lastId \in Nat /\ old.id <= lastId
    BY <2>1 DEF IndInv, StoreInv
  <2>6. lastId' = lastId
    BY <1>1
  <2> HIDE DEF doc, old
  <2>7. old.version < doc.version /\ lastId <= lastId' /\ lastId' \in Nat /\ doc.id <= lastId'
    BY <2>1, <2>3, <2>5, <2>6
  <2>8. Written(a, doc.id, doc.version)
    BY <2>3, <2>4
  <2>9. request[a].kind \in {"create", "update"}
    BY <1>1
  <2> DEFINE replaced == {old}
  <2>10. /\ replaced \in SUBSET stored /\ replaced # {}
         /\ \A d \in replaced : d.id = doc.id /\ d.version < doc.version
         /\ \A d \in stored : d.id = doc.id => d \in replaced
         /\ stored' = (stored \ replaced) \cup {doc}
    BY <2>1, <2>3, <2>4, <2>7
  <2> HIDE DEF replaced
  <2> QED
    BY <1>1, <2>3, <2>5, <2>7, <2>8, <2>9, <2>10, WrittenKeeps
<1> QED
  BY <1>2, <1>3

\* Delete reads the rule, then removes the document: nothing is announced.
LEMMA DeleteKeeps ==
  ASSUME IndInv, NEW a \in Admins, DeleteReads(a) \/ Delete(a)
  PROVE  IndInv'
<1> DEFINE r == request[a]
<1>1. r.kind = "delete" /\ r \in Request /\ request \in [Admins -> Request]
  BY DEF DeleteReads, Delete, IndInv, RequestInv
<1>2. UNCHANGED <<lastId, audit>> /\ stored' \subseteq stored
  BY DEF DeleteReads, Delete
<1>3. CASE Refuse(a)
  BY <1>2, <1>3, RefuseKeeps
<1>4. CASE Exists(r.id) /\ DeleteReads(a)
  <2>1. Doc(r.id).version \in Nat
    BY <1>4, DocIs DEF IndInv, Rule
  <2>2. request' = [request EXCEPT ![a].step = "write", ![a].version = Doc(r.id).version]
    BY <1>4 DEF DeleteReads
  <2>3. request'[a] \in Request /\ request'[a].kind = "delete" /\ request'[a].step = "write"
    BY <1>1, <2>1, <2>2 DEF Request
  <2>4. Quiet(a)
    BY <1>1, <2>2, <2>3 DEF Quiet, Announces
  <2> QED
    BY <1>2, <2>3, <2>4, QuietKeeps
<1>5. CASE Exists(r.id) /\ Delete(a)
  <2>1. Written(a, r.id, r.version) /\ r.id \in Nat /\ r.version \in Nat
    BY <1>1, <1>5 DEF Delete, Request
  <2>2. request'[a] \in Request /\ request'[a].kind = "delete"
    BY <1>1, <2>1 DEF Written, Request
  <2>3. Quiet(a)
    BY <1>1, <2>1, <2>2 DEF Quiet, Announces, Written
  <2> QED
    BY <1>2, <2>2, <2>3, QuietKeeps
<1> QED
  BY <1>3, <1>4, <1>5 DEF DeleteReads, Delete

\* audited moves a version from the request to the trail, or loses it.
LEMMA AuditedKeeps ==
  ASSUME IndInv, NEW a \in Admins, Audited(a)
  PROVE  IndInv'
<1> DEFINE r == request[a]
           rec == [action |-> r.kind, id |-> r.id, version |-> r.version]
<1>1. r \in Request /\ request \in [Admins -> Request] /\ r.step = "audit"
  BY DEF Audited, IndInv, RequestInv
<1>2. UNCHANGED <<stored, lastId>> /\ request' = [request EXCEPT ![a].step = "invalidate"]
  BY DEF Audited
<1>3. audit' \in {audit, audit \cup {rec}} /\ rec \in Record
  BY <1>1 DEF Audited, Record, Request
<1>4. /\ request' \in [Admins -> Request] /\ request'[a].step = "invalidate"
      /\ \A b \in Admins : b # a => request'[b] = request[b]
      /\ request'[a].kind = r.kind /\ request'[a].name = r.name
  BY <1>1, <1>2 DEF Request
<1>5. \A b \in Admins : Announces(b)' => b # a /\ Announces(b) /\ request'[b] = request[b]
  BY <1>4 DEF Announces
<1>6. rec.action \in {"create", "update"} => Announces(a)
  BY <1>1 DEF Announces
<1>7. StoreInv' /\ RequestInv'
  BY <1>2, <1>4 DEF IndInv, StoreInv, RequestInv
<1>8. rec.id = r.id /\ rec.version = r.version
  OBVIOUS
<1> HIDE DEF rec
<1>9. RecordInv'
  BY <1>2, <1>3, <1>5, <1>6, <1>8 DEF IndInv, RecordInv, Reached
<1>10. DistinctInv'
  BY <1>3, <1>5, <1>6, <1>8 DEF IndInv, DistinctInv
<1> QED
  BY <1>7, <1>9, <1>10 DEF IndInv

\* Every step keeps the invariant; the engines never touch the rules.
LEMMA NextInd == IndInv /\ [Next]_vars => IndInv'
<1> SUFFICES ASSUME IndInv, [Next]_vars
             PROVE  IndInv'
  OBVIOUS
<1>1. ASSUME UNCHANGED adminVars
      PROVE  IndInv'
  BY <1>1 DEF adminVars, IndInv, StoreInv, RequestInv, RecordInv, DistinctInv, Announces, Reached
<1>2. ASSUME NEW a \in Admins, Administer(a)
      PROVE  IndInv'
  <2>1. CASE Invalidate(a)
    BY <2>1, RefuseKeeps DEF Invalidate
  <2> QED
    BY <1>2, <2>1, CreateKeeps, UpdateKeeps, DeleteKeeps, AuditedKeeps DEF Administer
<1>3. ASSUME NEW a \in Admins, Interrupted(a)
      PROVE  IndInv'
  BY <1>3, RefuseKeeps DEF Interrupted
<1>4. ASSUME NEW n \in Nodes, Invalidated(n) \/ Expire(n)
      PROVE  UNCHANGED adminVars
  BY <1>4 DEF Invalidated, Expire
<1>5. ASSUME NEW e \in Evaluations, Evaluate(e) \/ Engine(e)
      PROVE  UNCHANGED adminVars
  BY <1>5 DEF Evaluate, Engine, LoadRules, FillCache, Fire
<1>6. CASE UNCHANGED vars
  BY <1>1, <1>6 DEF vars, adminVars
<1> QED
  BY <1>1, <1>2, <1>3, <1>4, <1>5, <1>6, BeginKeeps DEF Next

\* The invariant says what the audit promises.
LEMMA IndImplies == IndInv => VersionsAnnouncedOnce
BY DEF IndInv, DistinctInv, RecordInv, Reached, Announces, VersionsAnnouncedOnce

\* "so the caller and audit see the version that took effect"
\* (service/rule_admin): however creates, updates and deletes interleave, and
\* whatever fails, of a rule each version is announced by one request only,
\* and none the rule has not come to.
THEOREM EachVersionAnnouncedOnce == Spec => []VersionsAnnouncedOnce
BY InitInd, NextInd, IndImplies, PTL DEF Spec
=============================================================================
