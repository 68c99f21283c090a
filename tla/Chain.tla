------------------------------- MODULE Chain --------------------------------
(***************************************************************************)
(* The hash-chain plugin (plugin/hashchain) run by the plugin host, the    *)
(* documents events are stored as (storage/mongo/mapping) and the flow     *)
(* block a client sends (server/flow): what is hashed when an event is     *)
(* written is what a verifier hashes when it reads it back.                *)
(*                                                                         *)
(* A pointer of the code is a sequence of length 0 or 1.                   *)
(***************************************************************************)
EXTENDS Integers, Sequences, TLC, SequencesExt, Functions

CONSTANTS Collections,
          Commands,     \* [op, entity, author, source, ts, changes, flow]
          Millisecond,  \* moments per millisecond; the zero time is 0
          MaxEvents,    \* bound: events written
          MaxToggles    \* bound: changes of the configuration

ASSUME ChainAssumption ==
  Millisecond \in Nat \ {0} /\ MaxEvents \in Nat /\ MaxToggles \in Nat

VARIABLES
  enabled,    \* per collection: the plugin is enabled
  failMode,   \* of the plugin
  log,        \* per collection: the documents of one entity
  toggles

chainVars == <<enabled, failMode, log, toggles>>

ChainInit ==
  /\ enabled \in [Collections -> BOOLEAN] /\ failMode \in {"", "open", "closed"}
  /\ log = [c \in Collections |-> <<>>] /\ toggles = 0

-----------------------------------------------------------------------------
(* server/flow: the block as sent becomes the domain's.                    *)

RefOK(r) == r.activity_id # "" \/ (r.collection # "" /\ r.entity_id # "")

\* An absent version is 0.
mapFlowRef(r) == [r EXCEPT !.version = IF @ = <<>> THEN 0 ELSE @[1]]

FlowOK(in) == in # <<>> => \A i \in DOMAIN in[1].caused_by : RefOK(in[1].caused_by[i])

mapFlowBlock(in) ==
  IF in = <<>> THEN <<>>
  ELSE << [id |-> in[1].flow_id, step |-> in[1].step,
           causedBy |-> [i \in DOMAIN in[1].caused_by |-> mapFlowRef(in[1].caused_by[i])]] >>

buildEvent(cmd) ==
  [entityID |-> cmd.entity, op |-> cmd.op, author |-> cmd.author, source |-> cmd.source,
   tsSource |-> cmd.ts, changes |-> cmd.changes, flow |-> mapFlowBlock(cmd.flow), integrity |-> <<>>]

-----------------------------------------------------------------------------
(* storage/mongo/mapping. A map with some keys is a function on those keys. *)

When(present, key, value) == IF present THEN key :> value ELSE <<>>

opToCode == ("add" :> "a") @@ ("change" :> "c") @@ ("remove" :> "r")

codeToOp == ("a" :> "add") @@ ("c" :> "change") @@ ("r" :> "remove")

\* omitempty: a field at its zero value is not written.
toFlowRefDoc(r) ==
  When(r.activity_id # "", "aid", r.activity_id) @@ When(r.collection # "", "c", r.collection)
  @@ When(r.entity_id # "", "eid", r.entity_id) @@ When(r.version # 0, "v", r.version)
  @@ When(r.event_id # "", "ev", r.event_id)

Field(doc, key, zero) == IF key \in DOMAIN doc THEN doc[key] ELSE zero

fromFlowRefDoc(d) ==
  [activity_id |-> Field(d, "aid", ""), collection |-> Field(d, "c", ""),
   entity_id |-> Field(d, "eid", ""), version |-> Field(d, "v", 0), event_id |-> Field(d, "ev", "")]

\* A BSON datetime has milliseconds.
ToDatetime(t) == (t \div Millisecond) * Millisecond

toFlowDoc(f) ==
  ("f" :> f.id) @@ When(f.step # "", "step", f.step)
  @@ When(f.causedBy # <<>>, "by", [i \in DOMAIN f.causedBy |-> toFlowRefDoc(f.causedBy[i])])

toEventDoc(ev) ==
  ("eid" :> ev.entityID) @@ ("op" :> ev.op) @@ ("ts_src" :> ToDatetime(ev.tsSource))
  @@ When(ev.author # "", "author", ev.author) @@ When(ev.source # "", "src", ev.source)
  @@ ("changes" :> [i \in DOMAIN ev.changes |->
        LET c == ev.changes[i] IN [p |-> c.path, o |-> opToCode[c.op], old |-> c.old, new |-> c.new]])
  @@ When(ev.flow # <<>>, "flow", IF ev.flow = <<>> THEN <<>> ELSE toFlowDoc(ev.flow[1]))
  @@ When(ev.integrity # <<>>, "intg", ev.integrity)

fromFlowDoc(d) ==
  [id |-> d["f"], step |-> Field(d, "step", ""),
   causedBy |-> LET by == Field(d, "by", <<>>) IN [i \in DOMAIN by |-> fromFlowRefDoc(by[i])]]

fromEventDoc(d) ==
  [entityID |-> d["eid"], op |-> d["op"], author |-> Field(d, "author", ""),
   source |-> Field(d, "src", ""), tsSource |-> d["ts_src"],
   changes |-> [i \in DOMAIN d["changes"] |->
        LET c == d["changes"][i] IN [path |-> c.p, op |-> codeToOp[c.o], old |-> c.old, new |-> c.new]],
   flow |-> IF "flow" \in DOMAIN d THEN <<fromFlowDoc(d["flow"])>> ELSE <<>>,
   integrity |-> Field(d, "intg", <<>>)]

-----------------------------------------------------------------------------
(* plugin/hashchain. SHA-256 is taken to be injective: a hash is its input. *)

canonicalChange(c) ==
  ("path" :> c.path) @@ ("op" :> c.op) @@ When(c.op # "add", "old", c.old)
  @@ When(c.op # "remove", "new", c.new)

canonicalRef(r) ==
  When(r.activity_id # "", "activity_id", r.activity_id)
  @@ When(r.collection # "", "collection", r.collection)
  @@ When(r.entity_id # "", "entity_id", r.entity_id)
  @@ When(r.version # 0, "version", r.version) @@ When(r.event_id # "", "event_id", r.event_id)

canonicalFlow(f) ==
  When(f.id # "", "id", f.id) @@ When(f.step # "", "step", f.step)
  @@ When(f.causedBy # <<>>, "caused_by",
          [i \in DOMAIN f.causedBy |-> canonicalRef(f.causedBy[i])])

CanonicalTime(t) == ToDatetime(t)

Canonical(p) ==
  ("op" :> p.op) @@ ("entity_id" :> p.entityID)
  @@ When(p.changes # <<>>, "changes", [i \in DOMAIN p.changes |-> canonicalChange(p.changes[i])])
  @@ When(p.author # "", "author", p.author) @@ When(p.source # "", "source", p.source)
  @@ When(p.tsSource # 0, "ts_source", CanonicalTime(p.tsSource))
  @@ When(p.flow # <<>>, "flow", IF p.flow = <<>> THEN <<>> ELSE canonicalFlow(p.flow[1]))

Genesis(c) == <<"genesis", c>>

Hash(prevHash, p) == <<"sha256", prevHash, Canonical(p)>>

\* Faulty: the link starts afresh from the collection every time.
PrevHashGenesis(c, last) == Genesis(c)

PrevHash(c, last) ==
  IF last # <<>> /\ last[1].integrity # <<>> THEN last[1].integrity[1].hash ELSE Genesis(c)

PreStore(c, ev, last) ==
  LET prev == PrevHash(c, last)
  IN  [ev EXCEPT !.integrity = << [hash |-> Hash(prev, ev), prevHash |-> prev] >>]

-----------------------------------------------------------------------------
(* Writes, one at a time.                                                  *)

LastEvent(c) == IF log[c] = <<>> THEN <<>> ELSE <<fromEventDoc(Last(log[c]))>>

Stored(c, ev) == log' = [log EXCEPT ![c] = Append(@, toEventDoc(ev))]

Written == FoldFunction(LAMBDA l, n : Len(l) + n, 0, log)

\* A command with a flow reference to nothing is answered 400.
Admitted(cmd) == Written < MaxEvents /\ FlowOK(cmd.flow)

Write(c, cmd) ==
  /\ Admitted(cmd)
  /\ Stored(c, IF enabled[c] THEN PreStore(c, buildEvent(cmd), LastEvent(c)) ELSE buildEvent(cmd))
  /\ UNCHANGED <<enabled, failMode, toggles>>

\* RunPreStore: the plugin fails; only fail-closed refuses the write.
WritePluginFails(c, cmd) ==
  /\ Admitted(cmd) /\ enabled[c]
  /\ IF failMode = "closed" THEN UNCHANGED log ELSE Stored(c, buildEvent(cmd))
  /\ UNCHANGED <<enabled, failMode, toggles>>

\* The plugin is enabled or disabled in mid-history.
Configure(c) ==
  /\ toggles < MaxToggles /\ toggles' = toggles + 1
  /\ enabled' = [enabled EXCEPT ![c] = ~@] /\ UNCHANGED <<failMode, log>>

ChainDone == Written = MaxEvents /\ UNCHANGED chainVars

ChainNext ==
  \/ \E c \in Collections :
       \/ \E cmd \in Commands : Write(c, cmd) \/ WritePluginFails(c, cmd)
       \/ Configure(c)
  \/ ChainDone

ChainSpec == ChainInit /\ [][ChainNext]_chainVars

-----------------------------------------------------------------------------
(* Properties.                                                             *)

Linked(c) == {i \in DOMAIN log[c] : fromEventDoc(log[c][i]).integrity # <<>>}

\* "so a hash computed at write time matches one recomputed from the stored
\* event at verify time": the projection of the document read back hashes to
\* the stored link.
VerifiesAsWritten ==
  \A c \in Collections : \A i \in Linked(c) :
    LET ev == fromEventDoc(log[c][i])
    IN  ev.integrity[1].hash = Hash(ev.integrity[1].prevHash, ev)

\* A verifier that walks the documents in version order meets each link's
\* predecessor just before it, or the genesis where the chain (re)starts.
LinksFollow ==
  \A c \in Collections : \A i \in Linked(c) :
    fromEventDoc(log[c][i]).integrity[1].prevHash =
      IF i - 1 \in Linked(c) THEN fromEventDoc(log[c][i - 1]).integrity[1].hash ELSE Genesis(c)

\* "so a link cannot be transplanted between collections".
LinksStayInCollection ==
  \A c, d \in Collections : c # d =>
    \A i \in Linked(c), j \in Linked(d) :
      fromEventDoc(log[c][i]).integrity[1].hash # fromEventDoc(log[d][j]).integrity[1].hash

\* What an event signs: all a reader is shown of it but the unused side of a
\* change, in its stored form.
SignedPart(ev) ==
  [ev EXCEPT !.integrity = <<>>,
             !.changes = [i \in DOMAIN @ |->
               [@[i] EXCEPT !.old = IF ev.changes[i].op = "add" THEN "" ELSE @,
                            !.new = IF ev.changes[i].op = "remove" THEN "" ELSE @]]]

\* Equal links mean equal events: no two events that differ in what a reader
\* is shown of them have the same hash.
LinksTellEventsApart ==
  \A c \in Collections : \A i, j \in Linked(c) :
    LET a == fromEventDoc(log[c][i]) b == fromEventDoc(log[c][j])
    IN  Canonical(a) = Canonical(b) => SignedPart(a) = SignedPart(b)

\* A fail-closed plugin lets no event of its collection pass without a link.
FailClosedLinksAll ==
  failMode = "closed" /\ toggles = 0 =>
    \A c \in Collections : enabled[c] => Linked(c) = DOMAIN log[c]

\* The chain of a collection is evidence: its links verify, follow one another,
\* belong to their collection, tell events apart and, fail-closed, are all there.
ChainHolds ==
  /\ VerifiesAsWritten /\ LinksFollow /\ LinksStayInCollection
  /\ LinksTellEventsApart /\ FailClosedLinksAll
=============================================================================
