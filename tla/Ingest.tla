------------------------------- MODULE Ingest -------------------------------
(***************************************************************************)
(* The synchronous write path: Ingester.applyOne over EventRepo.AppendEvent*)
(* and CurrentRepo.Upsert, run by any number of concurrent writers (strict *)
(* request handlers and queue workers, in one process or several).         *)
(*                                                                         *)
(* A writer's step ends at every database call, since other writers' calls *)
(* fall between them:                                                      *)
(*                                                                         *)
(*   idle -> (load cur_*, plan) -> prestore -> tail -> insert -> upsert    *)
(*        -> post -> idle                                                  *)
(*                                                                         *)
(* An error of a call and the death of the process leave the same stored   *)
(* state behind; Abort is both.                                            *)
(***************************************************************************)
EXTENDS EventStore

CONSTANTS Writers,            \* concurrent executions of applyOne
          Entities,           \* entity ids of one collection
          Keys,               \* event_ids clients may send
          Commands,           \* the IngestCommands clients may send
          Nil,                \* nil Changes, nil ExpectedVersion
          FirstEventOp,       \* collection setting: "create" or "update"
          SnapshotInterval,   \* collection setting
          PreStore,           \* hash-chain plugin: "off", "open" or "closed"
          MaxAppendRetries,   \* maxAppendRetries
          MaxWrites,          \* bound: commands started in a behaviour
          MaxAborts           \* bound: failed calls, crashes, plugin errors

Ops == {"create", "update", "delete"}
Kinds == {"state", "diff", "delete"}
Statuses == {"stored", "no_changes", "duplicate", "conflict", "invalid",
             "rejected", "error"}

\* Integrity of an event: no block, or the version of the event whose hash is
\* its prev_hash (0 is the collection's genesis hash).
NoLink == -1

Posts == [state : Objects, deleted : BOOLEAN]

Documents == [eid : Entities, v : Nat, op : Ops, key : Keys \cup {NoKey},
              changes : ChangeLists, link : Nat \cup {NoLink}, post : Posts]

\* cur_* documents; v = 0 stands for a missing one.
CurrentStates == [v : Nat, deleted : BOOLEAN, state : Objects]

IngestCommand == [kind : Kinds, eid : Entities, op : Ops \cup {""},
                  expected : Nat \cup {Nil}, key : Keys \cup {NoKey},
                  state : Objects, changes : ChangeLists \cup {Nil}]

ASSUME IngestAssumption ==
  /\ Nil \notin Nat /\ Nil \notin ChangeLists
  /\ NoKey \notin Keys
  /\ Commands \subseteq IngestCommand
  /\ \A c \in Commands : \* the transport refuses a diff without changes
       c.kind = "diff" /\ c.changes = Nil => c.op \in {"create", "delete"}
  /\ FirstEventOp \in {"create", "update"}
  /\ PreStore \in {"off", "open", "closed"}
  /\ MaxAppendRetries \in Nat \ {0}
  /\ SnapshotInterval \in Int
  /\ MaxWrites \in Nat /\ MaxAborts \in Nat

VARIABLES
  events,     \* ev_*
  cur,        \* cur_*, per entity
  snaps,      \* sn_*
  evaluated,  \* {eid, v} of the events handed to the rules engine
  writer,     \* per writer: where applyOne is, and its local variables
  replies,    \* history: the answers given, [cmd, status, v]
  started,    \* counts commands, for MaxWrites
  aborts      \* counts failures, for MaxAborts

vars == <<events, cur, snaps, evaluated, writer, replies, started, aborts>>

NoDocument == [v |-> 0, deleted |-> FALSE, state |-> Empty]

Idle == [pc |-> "idle"]

Active == [pc : {"prestore", "tail", "insert", "upsert", "post", "rules"},
           cmd : Commands,           \* cmd
           seen : CurrentStates,     \* cur, as loaded by prepare
           op : Ops, changes : ChangeLists, link : Nat \cup {NoLink},  \* ev
           post : Posts,             \* newState, deleted
           v : Nat,                  \* ev.Version
           tries : 0 .. MaxAppendRetries]

Init ==
  /\ events = {}
  /\ cur = [e \in Entities |-> NoDocument]
  /\ snaps = {}
  /\ evaluated = {}
  /\ writer = [w \in Writers |-> Idle]
  /\ replies = {}
  /\ started = 0
  /\ aborts = 0

-----------------------------------------------------------------------------
(* planEvent: the event and the new state a command would produce.         *)

\* A missing or deleted entity has an empty base.
BaseState(seen) == IF seen.v = 0 \/ seen.deleted THEN Empty ELSE seen.state

\* Faulty: the operation is not inferred.
ResolveOpNotInferred(explicit, seen) == explicit

ResolveOp(explicit, seen) ==
  CASE explicit # ""                    -> explicit
    [] explicit = "" /\ seen.v # 0 /\ ~seen.deleted -> "update"
    [] OTHER                            -> FirstEventOp

\* Faulty: a lower expected version passes.
VersionMatchesAtLeast(expected, version) == expected # Nil => expected <= version

VersionMatches(expected, version) == expected = Nil \/ expected = version

Plan(verdict, op, changes, state, deleted) ==
  [verdict |-> verdict, op |-> op, changes |-> changes,
   post |-> [state |-> state, deleted |-> deleted]]

WriteUnlessEmpty(changes) == IF changes = Empty THEN "none" ELSE "write"

PlanState(c, seen) ==
  LET changes == Diff(BaseState(seen), c.state)
  IN  Plan(WriteUnlessEmpty(changes), ResolveOp(c.op, seen), changes, c.state, FALSE)

PlanDelete(c, seen) ==
  Plan("write", "delete", IF c.changes = Nil THEN Empty ELSE c.changes,
       BaseState(seen), TRUE)

PlanCreate(c) ==
  LET changes == Diff(Empty, c.state)
  IN  Plan(WriteUnlessEmpty(changes), "create", changes, c.state, FALSE)

PlanApply(c, seen, op) ==
  IF Applies(BaseState(seen), c.changes)
  THEN Plan(WriteUnlessEmpty(c.changes), op, c.changes,
            Apply(BaseState(seen), c.changes), FALSE)
  ELSE Plan("invalid", op, Empty, Empty, FALSE)

PlanDiff(c, seen) ==
  LET op == ResolveOp(c.op, seen)
  IN  CASE op = "delete"                      -> PlanDelete(c, seen)
        [] op = "create" /\ c.changes = Nil   -> PlanCreate(c)
        [] OTHER                              -> PlanApply(c, seen, op)

PlanEvent(c, seen) ==
  CASE c.kind = "state"  -> PlanState(c, seen)
    [] c.kind = "diff"   -> PlanDiff(c, seen)
    [] c.kind = "delete" -> PlanDelete([c EXCEPT !.changes = Nil], seen)

-----------------------------------------------------------------------------
(* applyOne, one action per stretch between database calls.                *)

Answer(w, c, status, v) ==
  /\ writer' = [writer EXCEPT ![w] = Idle]
  /\ replies' = replies \cup {[cmd |-> c, status |-> status, v |-> v]}

Goto(w, pc) == writer' = [writer EXCEPT ![w].pc = pc]

\* prepare (the load of cur_*), the version check and planEvent.
Admit(w) ==
  /\ writer[w] = Idle
  /\ started < MaxWrites
  /\ started' = started + 1
  /\ UNCHANGED <<events, cur, snaps, evaluated, aborts>>

StartConflict(w, c) ==
  /\ ~VersionMatches(c.expected, cur[c.eid].v)
  /\ Answer(w, c, "conflict", 0)
  /\ Admit(w)

StartRefused(w, c) ==
  LET plan == PlanEvent(c, cur[c.eid])
  IN  /\ VersionMatches(c.expected, cur[c.eid].v)
      /\ \/ plan.verdict = "invalid" /\ Answer(w, c, "invalid", 0)
         \/ plan.verdict = "none" /\ Answer(w, c, "no_changes", cur[c.eid].v)
      /\ Admit(w)

StartWrite(w, c) ==
  LET plan == PlanEvent(c, cur[c.eid])
  IN  /\ VersionMatches(c.expected, cur[c.eid].v)
      /\ plan.verdict = "write"
      /\ writer' = [writer EXCEPT ![w] =
           [pc |-> IF PreStore = "off" THEN "tail" ELSE "prestore",
            cmd |-> c, seen |-> cur[c.eid], op |-> plan.op,
            changes |-> plan.changes, link |-> NoLink, post |-> plan.post,
            v |-> 0, tries |-> 0]]
      /\ UNCHANGED replies
      /\ Admit(w)

\* Faulty: the previous event is not looked up.
PrevLinkGenesis(e) == 0

\* lastEvent and RunPreStore with the hash-chain plugin: prev_hash is the hash of
\* the last event, or genesis when there is none or it carries no hash.
PrevLink(e) ==
  LET last == LastVersion(events, e)
  IN  IF last # 0 /\ LastEvent(events, e).link # NoLink THEN last ELSE 0

RunPreStore(w) ==
  /\ writer[w].pc = "prestore"
  /\ writer' = [writer EXCEPT ![w].pc = "tail",
                              ![w].link = PrevLink(writer[w].cmd.eid)]
  /\ UNCHANGED <<events, cur, snaps, evaluated, replies, started, aborts>>

\* A plugin error: fail-open writes the event without its link, fail-closed
\* refuses the write.
PluginError(w) ==
  /\ writer[w].pc = "prestore"
  /\ aborts < MaxAborts
  /\ aborts' = aborts + 1
  /\ IF PreStore = "closed"
     THEN Answer(w, writer[w].cmd, "rejected", 0)
     ELSE Goto(w, "tail") /\ UNCHANGED replies
  /\ UNCHANGED <<events, cur, snaps, evaluated, started>>

\* AppendEvent, first half of an iteration: lastVersion.
ReadTail(w) ==
  /\ writer[w].pc = "tail"
  /\ writer' = [writer EXCEPT ![w].pc = "insert",
                ![w].v = LastVersion(events, writer[w].cmd.eid) + 1]
  /\ UNCHANGED <<events, cur, snaps, evaluated, replies, started, aborts>>

\* AppendEvent, second half: InsertOne and its three outcomes.  With both
\* indexes violated the server may name either.
Document(w) ==
  [eid |-> writer[w].cmd.eid, v |-> writer[w].v, op |-> writer[w].op,
   key |-> writer[w].cmd.key, changes |-> writer[w].changes,
   link |-> writer[w].link, post |-> writer[w].post]

InsertLands(w) ==
  /\ writer[w].pc = "insert"
  /\ ~VersionClash(events, writer[w].cmd.eid, writer[w].v)
  /\ ~KeyClash(events, writer[w].cmd.key)
  /\ events' = events \cup {Document(w)}
  /\ Goto(w, "upsert")
  /\ UNCHANGED <<cur, snaps, evaluated, replies, started, aborts>>

\* Faulty: any duplicate-key error counts as a version race.
InsertVersionTakenAnyIndex(w) ==
  /\ writer[w].pc = "insert"
  /\ \/ VersionClash(events, writer[w].cmd.eid, writer[w].v)
     \/ KeyClash(events, writer[w].cmd.key)
  /\ \/ /\ writer[w].tries + 1 < MaxAppendRetries
        /\ writer' = [writer EXCEPT ![w].pc = "tail", ![w].tries = @ + 1]
        /\ UNCHANGED replies
     \/ /\ writer[w].tries + 1 = MaxAppendRetries
        /\ Answer(w, writer[w].cmd, "conflict", 0)
  /\ UNCHANGED <<events, cur, snaps, evaluated, started, aborts>>

\* Faulty: the insert is tried again without counting and without a new tail.
InsertVersionTakenSpins(w) ==
  /\ writer[w].pc = "insert"
  /\ VersionClash(events, writer[w].cmd.eid, writer[w].v)
  /\ UNCHANGED vars

InsertVersionTaken(w) ==
  /\ writer[w].pc = "insert"
  /\ VersionClash(events, writer[w].cmd.eid, writer[w].v)
  /\ \/ /\ writer[w].tries + 1 < MaxAppendRetries
        /\ writer' = [writer EXCEPT ![w].pc = "tail", ![w].tries = @ + 1]
        /\ UNCHANGED replies
     \/ /\ writer[w].tries + 1 = MaxAppendRetries
        /\ Answer(w, writer[w].cmd, "conflict", 0)
  /\ UNCHANGED <<events, cur, snaps, evaluated, started, aborts>>

\* Faulty: a duplicate is answered as if this attempt had stored the event.
InsertDuplicateStored(w) ==
  /\ writer[w].pc = "insert"
  /\ KeyClash(events, writer[w].cmd.key)
  /\ Answer(w, writer[w].cmd, "stored", writer[w].v)
  /\ UNCHANGED <<events, cur, snaps, evaluated, started, aborts>>

InsertDuplicate(w) ==
  /\ writer[w].pc = "insert"
  /\ KeyClash(events, writer[w].cmd.key)
  /\ Answer(w, writer[w].cmd, "duplicate", writer[w].seen.v)
  /\ UNCHANGED <<events, cur, snaps, evaluated, started, aborts>>

\* Faulty: cur_* gets the version after the loaded one, not the assigned one.
UpsertLoadedVersion(w) ==
  /\ writer[w].pc = "upsert"
  /\ cur' = [cur EXCEPT ![writer[w].cmd.eid] =
              [v |-> writer[w].seen.v + 1, deleted |-> writer[w].post.deleted,
               state |-> writer[w].post.state]]
  /\ Goto(w, "post")
  /\ UNCHANGED <<events, snaps, evaluated, replies, started, aborts>>

\* Faulty: a delete leaves cur_* as it was.
UpsertSkipsDelete(w) ==
  /\ writer[w].pc = "upsert"
  /\ cur' = [cur EXCEPT ![writer[w].cmd.eid] =
              IF writer[w].post.deleted THEN @
              ELSE [v |-> writer[w].v, deleted |-> FALSE, state |-> writer[w].post.state]]
  /\ Goto(w, "post")
  /\ UNCHANGED <<events, snaps, evaluated, replies, started, aborts>>

\* commitEvent, second half: an unconditional ReplaceOne.
Upsert(w) ==
  /\ writer[w].pc = "upsert"
  /\ cur' = [cur EXCEPT ![writer[w].cmd.eid] =
              [v |-> writer[w].v, deleted |-> writer[w].post.deleted,
               state |-> writer[w].post.state]]
  /\ Goto(w, "post")
  /\ UNCHANGED <<events, snaps, evaluated, replies, started, aborts>>

\* The post-store tail: first the snapshot, whose failure is swallowed.
Snapshot(w) ==
  [eid |-> writer[w].cmd.eid, v |-> writer[w].v,
   deleted |-> writer[w].post.deleted, state |-> writer[w].post.state]

BuildSnapshot(w) ==
  /\ writer[w].pc = "post"
  /\ IF ShouldSnapshot(writer[w].v, SnapshotInterval)
     THEN \/ snaps' = SaveSnapshot(snaps, Snapshot(w)) /\ UNCHANGED aborts
          \/ aborts < MaxAborts /\ aborts' = aborts + 1 /\ UNCHANGED snaps
     ELSE UNCHANGED <<snaps, aborts>>
  /\ Goto(w, "rules")
  /\ UNCHANGED <<events, cur, evaluated, replies, started>>

\* Then the rules and the answer.
Finish(w) ==
  /\ writer[w].pc = "rules"
  /\ evaluated' = evaluated \cup {<<writer[w].cmd.eid, writer[w].v>>}
  /\ Answer(w, writer[w].cmd, "stored", writer[w].v)
  /\ UNCHANGED <<events, cur, snaps, started, aborts>>

\* Faulty: a failure after the upsert puts the loaded document back into cur_*
\* and leaves the event in ev_*.
AbortRollsBack(w) ==
  /\ writer[w] # Idle
  /\ aborts < MaxAborts
  /\ aborts' = aborts + 1
  /\ cur' = IF writer[w].pc \in {"post", "rules"}
            THEN [cur EXCEPT ![writer[w].cmd.eid] = writer[w].seen] ELSE cur
  /\ Answer(w, writer[w].cmd, "error", 0)
  /\ UNCHANGED <<events, snaps, evaluated, started>>

\* A failed database call (an error answer) or the death of the process.
Abort(w) ==
  /\ writer[w] # Idle
  /\ aborts < MaxAborts
  /\ aborts' = aborts + 1
  /\ Answer(w, writer[w].cmd, "error", 0)
  /\ UNCHANGED <<events, cur, snaps, evaluated, started>>

\* Every command has been answered and no more will come.
Done ==
  /\ started = MaxWrites
  /\ \A w \in Writers : writer[w] = Idle
  /\ UNCHANGED vars

Step(w) ==
  \/ RunPreStore(w) \/ PluginError(w)
  \/ ReadTail(w)
  \/ InsertLands(w) \/ InsertVersionTaken(w) \/ InsertDuplicate(w)
  \/ Upsert(w) \/ BuildSnapshot(w) \/ Finish(w)

Start(w, c) == StartConflict(w, c) \/ StartRefused(w, c) \/ StartWrite(w, c)

Next ==
  \/ \E w \in Writers : (\E c \in Commands : Start(w, c)) \/ Step(w) \/ Abort(w)
  \/ Done

Spec == Init /\ [][Next]_vars

\* A request that is being handled keeps being handled.
FairSpec == Spec /\ \A w \in Writers : WF_vars(Step(w))

-----------------------------------------------------------------------------
(* Properties that hold whatever the interleaving and wherever a writer    *)
(* fails.                                                                  *)

\* Every variable has its type.
TypeOK ==
  /\ events \subseteq Documents
  /\ cur \in [Entities -> CurrentStates]
  /\ snaps \subseteq [eid : Entities, v : Nat, deleted : BOOLEAN, state : Objects]
  /\ evaluated \subseteq Entities \X Nat
  /\ writer \in [Writers -> Active \cup {Idle}]
  /\ replies \subseteq [cmd : Commands, status : Statuses, v : Nat]
  /\ started \in 0 .. MaxWrites
  /\ aborts \in 0 .. MaxAborts

\* domain.Event: "Version is monotonic and gap-free within EntityID".  The
\* versions AppendEvent assigned to an entity are 1 .. n, each given once,
\* although the tail is read and the insert made in two calls.
GapFreeHistory ==
  \A e \in Entities :
    /\ {d.v : d \in Of(events, e)} = 1 .. LastVersion(events, e)
    /\ \A d1, d2 \in Of(events, e) : d1.v = d2.v => d1 = d2

\* What cur_* and sn_* hold is never invented: it is the state some stored event
\* of that version left, the write of commitEvent and of the snapshot builder
\* following the append whoever else writes in between.
WrittenBy(e, s) ==
  \E d \in events : /\ d.eid = e /\ d.v = s.v
                    /\ d.post = [state |-> s.state, deleted |-> s.deleted]

MaterializedIsHistory ==
  /\ \A e \in Entities : cur[e].v # 0 => WrittenBy(e, cur[e])
  /\ \A s \in snaps : WrittenBy(s.eid, s)

\* An answer of applyOne is true and stays true: "stored" names an event of this
\* command, with the state it asked for, that the rules have seen; "duplicate"
\* means an event with this event_id is in the history.
StoredIsTrue(r) ==
  /\ <<r.cmd.eid, r.v>> \in evaluated
  /\ \E d \in events :
       /\ d.eid = r.cmd.eid /\ d.v = r.v /\ d.key = r.cmd.key
       /\ r.cmd.kind = "state" => d.post = [state |-> r.cmd.state, deleted |-> FALSE]

AnswersAreTrue ==
  \A r \in replies :
    /\ r.status = "stored" => StoredIsTrue(r)
    /\ r.status = "duplicate" => KeyClash(events, r.cmd.key)

\* The retry loop of AppendEvent loses an attempt only to progress: after n
\* collisions at least n other writes of the entity have landed since the state
\* was loaded, so maxAppendRetries is spent only under that much contention.
CollisionsAreProgress ==
  \A w \in Writers : writer[w] # Idle =>
    /\ writer[w].seen.v + writer[w].tries <= LastVersion(events, writer[w].cmd.eid)
    /\ writer[w].pc = "insert" => writer[w].seen.v + writer[w].tries < writer[w].v

\* Every request that applyOne accepted is answered: the retry loop is bounded
\* and re-reads the tail.
EveryWriteAnswered ==
  \A w \in Writers : (writer[w] # Idle) ~> (writer[w] = Idle)

\* The ev_* documents of each entity, in version order, are an append-only log:
\* no step of any writer rewrites, reorders or removes an event, and an event_id
\* enters it once.
Log == [e \in Entities |->
          [v \in 1 .. LastVersion(events, e) |-> EventAt(events, e, v)]]

Abstract == INSTANCE History WITH log <- Log

RefinesHistory == Abstract!Spec

-----------------------------------------------------------------------------
(* Properties of an entity whose writes do not overlap.                    *)

Quiet(e) == \A w \in Writers : writer[w] # Idle => writer[w].cmd.eid # e

\* domain.CurrentState is "the materialized latest state of an entity": with no
\* write in flight, and none that failed half-way, cur_* is at the last version.
CurrentIsLatest ==
  aborts = 0 => \A e \in Entities : Quiet(e) => cur[e].v = LastVersion(events, e)

\* expected_version "fails with 409 if the entity's current version differs": a
\* write stored under expected version n is version n + 1 of the entity, as long
\* as no failure has left cur_* behind.
OptimisticLock ==
  aborts = 0 =>
    \A r \in replies :
      r.status = "stored" /\ r.cmd.expected # Nil => r.v = r.cmd.expected + 1

\* The hash chain "is linear per entity": an event's prev_hash is the hash of the
\* version before it, or genesis where a chain begins.
ChainIsLinear ==
  \A d \in events : d.link # NoLink =>
    d.link = IF d.v > 1 /\ EventAt(events, d.eid, d.v - 1).link # NoLink
             THEN d.v - 1 ELSE 0

\* The version commitEvent puts into cur_* never goes back, also over a delete
\* and the recreation after it.
CurrentNeverRegresses ==
  [][\A e \in Entities : cur'[e].v >= cur[e].v]_vars

=============================================================================
