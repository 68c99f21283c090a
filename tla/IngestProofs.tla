---------------------------- MODULE IngestProofs ----------------------------
(***************************************************************************)
(* Proofs about Ingest for any number of writers, entities and commands.   *)
(***************************************************************************)
EXTENDS IngestRead, Sequences, TLAPS

-----------------------------------------------------------------------------
(* Diff and Apply, for every set of fields and values.                     *)

\* An object is a function on some of the fields.
LEMMA ObjectFacts ==
  ASSUME NEW a \in Objects
  PROVE  /\ DOMAIN a \subseteq Fields
         /\ a = [f \in DOMAIN a |-> a[f]]
         /\ \A f \in DOMAIN a : a[f] \in Values /\ a[f] # Removed
BY RemovedIsNoValue DEF Objects

\* What diff.Diff returns is a change list.
LEMMA DiffType ==
  ASSUME NEW a \in Objects, NEW b \in Objects
  PROVE  Diff(a, b) \in ChangeLists
<1> DEFINE D == {g \in DOMAIN a \cup DOMAIN b :
                   ~(g \in DOMAIN a /\ g \in DOMAIN b /\ a[g] = b[g])}
<1>1. D \in SUBSET Fields
  BY ObjectFacts
<1>2. \A f \in D : (IF f \in DOMAIN b THEN b[f] ELSE Removed) \in Values \cup {Removed}
  BY ObjectFacts
<1>3. Diff(a, b) \in [D -> Values \cup {Removed}]
  BY <1>2 DEF Diff
<1> QED
  BY <1>1, <1>3 DEF ChangeLists

\* Apply keeps objects objects.
LEMMA ApplyType ==
  ASSUME NEW s \in Objects, NEW ch \in ChangeLists
  PROVE  Apply(s, ch) \in Objects
<1> DEFINE D == {g \in DOMAIN s \cup DOMAIN ch : g \in DOMAIN ch => ch[g] # Removed}
<1>1. DOMAIN ch \subseteq Fields /\ \A f \in DOMAIN ch : ch[f] \in Values \cup {Removed}
  BY DEF ChangeLists
<1>2. D \in SUBSET Fields
  BY <1>1, ObjectFacts
<1>3. \A f \in D : (IF f \in DOMAIN ch THEN ch[f] ELSE s[f]) \in Values
  BY <1>1, ObjectFacts
<1>4. Apply(s, ch) \in [D -> Values]
  BY <1>3 DEF Apply
<1> QED
  BY <1>2, <1>4 DEF Objects

\* The empty object and the empty change list.
LEMMA EmptyType == Empty \in Objects /\ Empty \in ChangeLists
<1>1. {} \in SUBSET Fields
  OBVIOUS
<1>2. Empty \in [{} -> Values] /\ Empty \in [{} -> Values \cup {Removed}]
  BY DEF Empty
<1> QED
  BY <1>1, <1>2, Zenon DEF Objects, ChangeLists

\* diff.go: "Apply(a, Diff(a, b)) == b".  The diff of two objects applies to the
\* first without an error and gives the second.
THEOREM DiffRoundTrip ==
  ASSUME NEW a \in Objects, NEW b \in Objects
  PROVE  Applies(a, Diff(a, b)) /\ Apply(a, Diff(a, b)) = b
<1> DEFINE ch == Diff(a, b)
           D == {g \in DOMAIN a \cup DOMAIN ch : g \in DOMAIN ch => ch[g] # Removed}
<1>1. \A f : f \in DOMAIN ch <=>
        f \in DOMAIN a \cup DOMAIN b /\ ~(f \in DOMAIN a /\ f \in DOMAIN b /\ a[f] = b[f])
  BY DEF Diff
<1>2. \A f \in DOMAIN ch : ch[f] = IF f \in DOMAIN b THEN b[f] ELSE Removed
  BY DEF Diff
<1> HIDE DEF ch
<1>3. Applies(a, ch)
  BY <1>1, <1>2, ObjectFacts DEF Applies
<1>4. D = DOMAIN b
  BY <1>1, <1>2, ObjectFacts, Zenon
<1>5. \A f \in D : (IF f \in DOMAIN ch THEN ch[f] ELSE a[f]) = b[f]
  BY <1>1, <1>2, <1>4
<1>6. Apply(a, ch) = [f \in D |-> IF f \in DOMAIN ch THEN ch[f] ELSE a[f]]
  BY DEF Apply
<1>7. Apply(a, ch) = [f \in DOMAIN b |-> b[f]]
  BY <1>4, <1>5, <1>6
<1> QED
  BY <1>3, <1>7, ObjectFacts DEF ch

\* A state write is a no-op exactly when the state it sends is the stored one:
\* planEvent's "len(changes) == 0".
THEOREM EmptyDiffMeansEqual ==
  ASSUME NEW a \in Objects, NEW b \in Objects
  PROVE  Diff(a, b) = Empty <=> a = b
<1>1. DOMAIN Diff(a, b) = {g \in DOMAIN a \cup DOMAIN b :
                   ~(g \in DOMAIN a /\ g \in DOMAIN b /\ a[g] = b[g])}
  BY DEF Diff
<1>2. ASSUME Diff(a, b) = Empty PROVE a = b
  <2>1. DOMAIN Diff(a, b) = {}
    BY <1>2 DEF Empty
  <2>2. DOMAIN a = DOMAIN b /\ \A f \in DOMAIN a : a[f] = b[f]
    BY <1>1, <2>1, Zenon
  <2> QED
    BY <2>2, ObjectFacts
<1>3. ASSUME a = b PROVE Diff(a, b) = Empty
  <2>1. {g \in DOMAIN a \cup DOMAIN b :
           ~(g \in DOMAIN a /\ g \in DOMAIN b /\ a[g] = b[g])} = {}
    BY <1>3
  <2> QED
    BY <2>1 DEF Diff, Empty
<1> QED
  BY <1>2, <1>3

-----------------------------------------------------------------------------
(* The stored versions of an entity.                                       *)

Versions(S, e) == {d.v : d \in Of(S, e)}

\* lastVersion on a gap-free history is its length.
LEMMA LastVersionIs ==
  ASSUME NEW S, NEW e, NEW n \in Nat, Versions(S, e) = 1 .. n
  PROVE  LastVersion(S, e) = n
BY DEF LastVersion, Max, Versions

\* An insert at the next version extends the range of its entity's versions and
\* leaves the other entities alone.
LEMMA VersionsGrow ==
  ASSUME NEW S, NEW e, NEW d, NEW n \in Nat, Versions(S, e) = 1 .. n,
         d.eid = e => d.v = n + 1
  PROVE  Versions(S \cup {d}, e) = IF d.eid = e THEN 1 .. (n + 1) ELSE 1 .. n
<1>1. CASE d.eid = e
  <2>1. Versions(S \cup {d}, e) = Versions(S, e) \cup {n + 1}
    BY <1>1 DEF Versions, Of
  <2>2. (1 .. n) \cup {n + 1} = 1 .. (n + 1)
    OBVIOUS
  <2> QED
    BY <1>1, <2>1, <2>2, Zenon
<1>2. CASE d.eid # e
  BY <1>2 DEF Versions, Of
<1> QED
  BY <1>1, <1>2

-----------------------------------------------------------------------------
(* Types.                                                                  *)

\* The base of a diff is an object.
LEMMA BaseType ==
  ASSUME NEW seen \in CurrentStates
  PROVE  BaseState(seen) \in Objects
BY EmptyType DEF BaseState, CurrentStates

\* planEvent yields a well-formed event, and for a full state the state asked for.
LEMMA PlanType ==
  ASSUME NEW c \in Commands, NEW seen \in CurrentStates,
         PlanEvent(c, seen).verdict = "write"
  PROVE  LET p == PlanEvent(c, seen)
         IN  /\ p.op \in Ops /\ p.changes \in ChangeLists /\ p.post \in Posts
             /\ c.kind = "state" => p.post = [state |-> c.state, deleted |-> FALSE]
<1> DEFINE base == BaseState(seen)
<1>1. c \in IngestCommand
  BY IngestAssumption
<1>2. c.kind \in Kinds /\ c.op \in Ops \cup {""} /\ c.state \in Objects
      /\ c.changes \in ChangeLists \cup {Nil}
  BY <1>1 DEF IngestCommand
<1>3. base \in Objects /\ Empty \in Objects /\ Empty \in ChangeLists
  BY BaseType, EmptyType
<1>4. ResolveOp(c.op, seen) \in Ops
  BY <1>2, IngestAssumption DEF ResolveOp, Ops
<1>5. [state |-> c.state, deleted |-> FALSE] \in Posts
  BY <1>2 DEF Posts
<1>6. CASE c.kind = "state"
  <2>1. PlanEvent(c, seen) = PlanState(c, seen)
    BY <1>6 DEF PlanEvent
  <2>2. Diff(base, c.state) \in ChangeLists
    BY <1>2, <1>3, DiffType
  <2>3. LET p == PlanState(c, seen)
        IN  /\ p.op = ResolveOp(c.op, seen) /\ p.changes = Diff(base, c.state)
            /\ p.post = [state |-> c.state, deleted |-> FALSE]
    BY DEF PlanState, Plan
  <2> QED
    BY <1>4, <1>5, <2>1, <2>2, <2>3
<1>7. ASSUME NEW c2, c2.changes \in ChangeLists \cup {Nil}
      PROVE  LET p == PlanDelete(c2, seen)
             IN  p.op \in Ops /\ p.changes \in ChangeLists /\ p.post \in Posts
  BY <1>3, <1>7 DEF PlanDelete, Plan, Posts, Ops
<1>8. CASE c.kind = "delete"
  <2>1. PlanEvent(c, seen) = PlanDelete([c EXCEPT !.changes = Nil], seen)
    BY <1>8 DEF PlanEvent
  <2>2. [c EXCEPT !.changes = Nil].changes \in ChangeLists \cup {Nil}
    BY <1>1 DEF IngestCommand
  <2> QED
    BY <1>7, <1>8, <2>1, <2>2, Zenon
<1>9. CASE c.kind = "diff"
  <2> DEFINE op == ResolveOp(c.op, seen)
  <2>1. PlanEvent(c, seen) = PlanDiff(c, seen)
    BY <1>9 DEF PlanEvent
  <2>2. CASE op = "delete"
    <3>1. PlanDiff(c, seen) = PlanDelete(c, seen)
      BY <2>2 DEF PlanDiff
    <3> QED
      BY <1>2, <1>7, <1>9, <2>1, <3>1
  <2>3. CASE op = "create" /\ c.changes = Nil
    <3>1. PlanDiff(c, seen) = PlanCreate(c)
      BY <2>3 DEF PlanDiff
    <3>2. Diff(Empty, c.state) \in ChangeLists
      BY <1>2, <1>3, DiffType
    <3>3. LET p == PlanCreate(c)
          IN  /\ p.op = "create" /\ p.changes = Diff(Empty, c.state)
              /\ p.post = [state |-> c.state, deleted |-> FALSE]
      BY DEF PlanCreate, Plan
    <3> QED
      BY <1>9, <1>5, <2>1, <3>1, <3>2, <3>3 DEF Ops
  <2>4. CASE op # "delete" /\ ~(op = "create" /\ c.changes = Nil)
    <3>1. PlanDiff(c, seen) = PlanApply(c, seen, op)
      BY <2>4 DEF PlanDiff
    <3>2. c.changes # Nil
      BY <1>9, <2>4, IngestAssumption DEF ResolveOp
    <3>3. c.changes \in ChangeLists /\ Apply(base, c.changes) \in Objects
      BY <1>2, <1>3, <3>2, ApplyType
    <3>4. Applies(base, c.changes)
      BY <2>1, <3>1 DEF PlanApply, Plan
    <3>5. PlanApply(c, seen, op) = Plan(WriteUnlessEmpty(c.changes), op, c.changes,
                                        Apply(base, c.changes), FALSE)
      BY <3>4 DEF PlanApply
    <3> QED
      BY <1>4, <1>9, <2>1, <3>1, <3>3, <3>5 DEF Plan, Posts
  <2> QED
    BY <2>2, <2>3, <2>4
<1> QED
  BY <1>2, <1>6, <1>8, <1>9 DEF Kinds

\* The versions and the retries of a started writer are numbers.
LEMMA WriterNumbers ==
  ASSUME NEW r \in Active
  PROVE  r.v \in Nat /\ r.tries \in Nat /\ r.seen.v \in Nat
BY IngestAssumption DEF Active, CurrentStates

\* The types of a started writer and of the documents it writes.
LEMMA WriterTypes ==
  ASSUME TypeOK, NEW w \in Writers, writer[w] # Idle
  PROVE  /\ writer[w] \in Active
         /\ writer[w].cmd \in IngestCommand
         /\ writer[w].cmd.eid \in Entities
         /\ Document(w) \in Documents
         /\ Snapshot(w) \in [eid : Entities, v : Nat, deleted : BOOLEAN, state : Objects]
<1>1. writer[w] \in Active
  BY DEF TypeOK
<1>2. writer[w].cmd \in IngestCommand
  BY <1>1, IngestAssumption DEF Active
<1>3. writer[w].cmd.eid \in Entities /\ writer[w].cmd.key \in Keys \cup {NoKey}
  BY <1>2 DEF IngestCommand
<1>4. Document(w) \in Documents
  BY <1>1, <1>3 DEF Document, Documents, Active
<1>5. writer[w].post.state \in Objects /\ writer[w].post.deleted \in BOOLEAN
  BY <1>1 DEF Active, Posts
<1>6. Snapshot(w) \in [eid : Entities, v : Nat, deleted : BOOLEAN, state : Objects]
  BY <1>1, <1>3, <1>5 DEF Snapshot, Active
<1> QED
  BY <1>1, <1>2, <1>3, <1>4, <1>6

-----------------------------------------------------------------------------
(* The inductive invariant.  GapFreeHistory alone is not inductive: the    *)
(* version a writer is about to insert was computed from an older tail, so *)
(* what matters is that it is at most one above the present tail (below it *)
(* the unique index refuses the insert).                                   *)

GapFree == \A e \in Entities : \E n \in Nat : Versions(events, e) = 1 .. n

UniqueVersions ==
  \A d1, d2 \in events : d1.eid = d2.eid /\ d1.v = d2.v => d1 = d2

KeysOnce ==
  \A d1, d2 \in events : d1.key = d2.key /\ d1.key # NoKey => d1 = d2

WriterInv(w) ==
  writer[w] # Idle =>
    /\ writer[w].seen.v + writer[w].tries <= LastVersion(events, writer[w].cmd.eid)
    /\ writer[w].pc = "insert" =>
         /\ writer[w].seen.v + writer[w].tries < writer[w].v
         /\ writer[w].v <= LastVersion(events, writer[w].cmd.eid) + 1
    /\ writer[w].pc \in {"upsert", "post", "rules"} => Document(w) \in events
    /\ writer[w].cmd.kind = "state" =>
         writer[w].post = [state |-> writer[w].cmd.state, deleted |-> FALSE]

StoreInv == GapFree /\ UniqueVersions /\ KeysOnce

IndInv ==
  /\ TypeOK
  /\ StoreInv
  /\ \A w \in Writers : WriterInv(w)
  /\ MaterializedIsHistory
  /\ AnswersAreTrue

\* A gap-free history has a natural number as its last version.
LEMMA LastVersionType ==
  ASSUME GapFree, NEW e \in Entities
  PROVE  /\ LastVersion(events, e) \in Nat
         /\ Versions(events, e) = 1 .. LastVersion(events, e)
<1>1. PICK n \in Nat : Versions(events, e) = 1 .. n
  BY DEF GapFree
<1> QED
  BY <1>1, LastVersionIs

\* An insert that the indexes let through is at the next version: its writer saw
\* a tail no newer than the present one, and the versions up to it are taken.
LEMMA LandsAtNext ==
  ASSUME IndInv, NEW w \in Writers, InsertLands(w)
  PROVE  writer[w].v = LastVersion(events, writer[w].cmd.eid) + 1
<1> DEFINE e == writer[w].cmd.eid
           n == LastVersion(events, e)
<1> SUFFICES writer[w].v = n + 1
  OBVIOUS
<1>1. writer[w] # Idle
  BY DEF InsertLands, Idle
<1>2. writer[w] \in Active /\ e \in Entities
  BY <1>1, WriterTypes DEF IndInv
<1>3. n \in Nat /\ Versions(events, e) = 1 .. n
  BY <1>2, LastVersionType DEF IndInv, StoreInv
<1>4. writer[w].v \notin 1 .. n
  BY <1>3 DEF InsertLands, VersionClash, Versions, Of
<1>5. /\ writer[w].seen.v + writer[w].tries < writer[w].v
      /\ writer[w].v <= n + 1
  BY <1>1, Zenon DEF InsertLands, IndInv, WriterInv
<1>6. /\ writer[w].v \in Nat /\ writer[w].tries \in Nat
      /\ writer[w].seen.v \in Nat
  BY <1>2, WriterNumbers, Zenon
<1> HIDE DEF e, n
<1> QED
  BY <1>3, <1>4, <1>5, <1>6

\* The store after a successful insert.
LEMMA InsertKeepsStore ==
  ASSUME IndInv, NEW w \in Writers, InsertLands(w)
  PROVE  /\ StoreInv'
         /\ events \subseteq events'
         /\ \A e \in Entities : LastVersion(events, e) <= LastVersion(events', e)
<1> DEFINE d == Document(w)
<1>1. writer[w] # Idle /\ events' = events \cup {d}
  BY DEF InsertLands, Idle
<1>2. writer[w].cmd.eid \in Entities
  BY <1>1, WriterTypes DEF IndInv
<1>3. d.eid = writer[w].cmd.eid /\ d.v = writer[w].v /\ d.key = writer[w].cmd.key
  BY DEF Document
<1>4. d.v = LastVersion(events, d.eid) + 1
  BY <1>3, LandsAtNext
<1> HIDE DEF d
<1>5. ASSUME NEW e \in Entities
      PROVE  /\ \E n \in Nat : Versions(events', e) = 1 .. n
             /\ LastVersion(events, e) <= LastVersion(events', e)
  <2> DEFINE n == LastVersion(events, e)
  <2>1. n \in Nat /\ Versions(events, e) = 1 .. n
    BY LastVersionType DEF IndInv, StoreInv
  <2>2. d.eid = e => d.v = n + 1
    BY <1>4
  <2> HIDE DEF n
  <2>3. Versions(events', e) = IF d.eid = e THEN 1 .. (n + 1) ELSE 1 .. n
    BY <1>1, <2>1, <2>2, VersionsGrow
  <2>4. CASE d.eid = e
    <3>1. n + 1 \in Nat /\ Versions(events', e) = 1 .. (n + 1)
      BY <2>1, <2>3, <2>4
    <3>2. LastVersion(events', e) = n + 1
      BY <3>1, LastVersionIs
    <3> QED
      BY <2>1, <3>1, <3>2 DEF n
  <2>5. CASE d.eid # e
    <3>1. Versions(events', e) = 1 .. n
      BY <2>3, <2>5
    <3>2. LastVersion(events', e) = n
      BY <2>1, <3>1, LastVersionIs
    <3> QED
      BY <2>1, <3>1, <3>2 DEF n
  <2> QED
    BY <2>4, <2>5
<1>6. \A x \in events : ~(x.eid = d.eid /\ x.v = d.v)
  BY <1>3 DEF InsertLands, VersionClash
<1>7. \A x \in events : d.key # NoKey => x.key # d.key
  BY <1>3 DEF InsertLands, KeyClash
<1>8. UniqueVersions'
  BY <1>1, <1>6 DEF UniqueVersions, IndInv, StoreInv
<1>9. KeysOnce'
  BY <1>1, <1>7 DEF KeysOnce, IndInv, StoreInv
<1>10. GapFree'
  BY <1>5 DEF GapFree
<1> QED
  BY <1>1, <1>5, <1>8, <1>9, <1>10, Zenon DEF StoreInv

\* The document of a stored version.
LEMMA EventIs ==
  ASSUME NEW S, NEW d \in S,
         \A x \in S : x.eid = d.eid /\ x.v = d.v => x = d
  PROVE  EventAt(S, d.eid, d.v) = d
BY DEF EventAt

\* Every version up to the last has its document.
LEMMA EventAtStored ==
  ASSUME StoreInv, NEW e \in Entities, NEW v \in 1 .. LastVersion(events, e)
  PROVE  /\ EventAt(events, e, v) \in events
         /\ EventAt(events, e, v).eid = e /\ EventAt(events, e, v).v = v
<1>1. v \in Versions(events, e)
  BY LastVersionType, Zenon DEF StoreInv
<1>2. PICK d \in events : d.eid = e /\ d.v = v
  BY <1>1 DEF Versions, Of
<1> QED
  BY <1>2, Zenon DEF EventAt

\* An insert lets its entity's history grow by one document and leaves the
\* documents before it, and the other entities' histories, as they are.
LEMMA InsertGrows ==
  ASSUME IndInv, NEW w \in Writers, InsertLands(w), NEW e \in Entities
  PROVE  /\ LastVersion(events', e) = IF e = writer[w].cmd.eid
                                      THEN LastVersion(events, e) + 1 ELSE LastVersion(events, e)
         /\ \A v \in 1 .. LastVersion(events, e) :
              EventAt(events', e, v) = EventAt(events, e, v)
         /\ e = writer[w].cmd.eid =>
              EventAt(events', e, LastVersion(events, e) + 1) = Document(w)
<1> DEFINE d == Document(w)
           n == LastVersion(events, e)
<1>1. events' = events \cup {d} /\ d.eid = writer[w].cmd.eid /\ d.v = writer[w].v
  BY Zenon DEF InsertLands, Document
<1>2. d.v = LastVersion(events, d.eid) + 1
  BY <1>1, LandsAtNext, Zenon
<1>3. n \in Nat /\ Versions(events, e) = 1 .. n
  BY LastVersionType DEF IndInv, StoreInv
<1>4. UniqueVersions'
  BY InsertKeepsStore, Zenon DEF StoreInv
<1>5. d.eid = e => d.v = n + 1
  BY <1>2, Zenon
<1> HIDE DEF d, n
<1>6. Versions(events', e) = IF d.eid = e THEN 1 .. (n + 1) ELSE 1 .. n
  <2>1. Versions(events \cup {d}, e) = IF d.eid = e THEN 1 .. (n + 1) ELSE 1 .. n
    BY <1>3, <1>5, VersionsGrow
  <2> QED
    BY <1>1, <2>1, Zenon
<1>7. LastVersion(events', e) = IF d.eid = e THEN n + 1 ELSE n
  <2>1. CASE d.eid = e
    <3>1. n + 1 \in Nat /\ Versions(events', e) = 1 .. (n + 1)
      BY <1>3, <1>6, <2>1
    <3> QED
      BY <2>1, <3>1, LastVersionIs, Zenon
  <2>2. CASE d.eid # e
    <3>1. Versions(events', e) = 1 .. n
      BY <1>6, <2>2
    <3> QED
      BY <1>3, <2>2, <3>1, LastVersionIs, Zenon
  <2> QED
    BY <2>1, <2>2
<1>8. \A x \in events' : EventAt(events', x.eid, x.v) = x
  BY <1>4, EventIs, ZenonT(40) DEF UniqueVersions
<1>9. ASSUME NEW v \in 1 .. n
      PROVE  EventAt(events', e, v) = EventAt(events, e, v)
  <2>1. /\ EventAt(events, e, v) \in events
        /\ EventAt(events, e, v).eid = e /\ EventAt(events, e, v).v = v
    BY EventAtStored, Zenon DEF IndInv, n
  <2> QED
    BY <1>1, <1>8, <2>1, Zenon
<1>10. d.eid = e => EventAt(events', e, n + 1) = d
  BY <1>1, <1>5, <1>8, Zenon
<1> QED
  BY <1>1, <1>7, <1>9, <1>10, Zenon DEF d, n
-----------------------------------------------------------------------------
(* Reading back what was written.                                          *)

\* Commands whose operation says what they do: no full state is sent as a
\* "delete", and no diff asks to create an entity from a state.
PlainCommands ==
  \A c \in Commands : /\ c.kind = "state" => c.op # "delete"
                      /\ ~(c.kind = "diff" /\ c.op = "create" /\ c.changes = Nil)

\* The event, replayed on the base, gives the state its writer stored.
Reproduces(base, op, changes, post) ==
  IF op = "delete" THEN post = [state |-> base, deleted |-> TRUE]
  ELSE Applies(base, changes) /\ post = [state |-> Apply(base, changes), deleted |-> FALSE]

\* What version n of an entity leaves for the next diff.
Leaves(S, e, n, base) ==
  \/ n = 0 /\ base = Empty
  \/ \E p \in S : /\ p.eid = e /\ p.v = n
                  /\ base = IF p.post.deleted THEN Empty ELSE p.post.state

\* Every event replays on what the version before it left.
ReplayInv ==
  aborts = 0 =>
    \A d \in events, base \in Objects :
      Leaves(events, d.eid, d.v - 1, base) => Reproduces(base, d.op, d.changes, d.post)

\* planEvent yields an event that replays on the base it was planned on.
LEMMA PlanReproduces ==
  ASSUME PlainCommands, NEW c \in Commands, NEW seen \in CurrentStates,
         PlanEvent(c, seen).verdict = "write"
  PROVE  LET p == PlanEvent(c, seen)
         IN  Reproduces(BaseState(seen), p.op, p.changes, p.post)
<1> DEFINE base == BaseState(seen)
           p == PlanEvent(c, seen)
<1>1. /\ c.kind \in Kinds /\ c.op \in Ops \cup {""} /\ c.state \in Objects
      /\ c.kind = "diff" /\ c.changes = Nil => c.op \in {"create", "delete"}
  BY IngestAssumption, Zenon DEF IngestCommand
<1>2. base \in Objects
  BY BaseType
<1>3. c.op # "delete" => ResolveOp(c.op, seen) # "delete"
  BY IngestAssumption DEF ResolveOp
<1>4. ASSUME NEW c2, p = PlanDelete(c2, seen)
      PROVE  Reproduces(base, p.op, p.changes, p.post)
  BY <1>4 DEF PlanDelete, Plan, Reproduces
<1>5. CASE c.kind = "state"
  <2>1. p = PlanState(c, seen) /\ c.op # "delete"
    BY <1>5, Zenon DEF PlanEvent, PlainCommands
  <2>2. /\ p.op = ResolveOp(c.op, seen) /\ p.changes = Diff(base, c.state)
        /\ p.post = [state |-> c.state, deleted |-> FALSE]
    BY <2>1 DEF PlanState, Plan
  <2>3. Applies(base, Diff(base, c.state)) /\ Apply(base, Diff(base, c.state)) = c.state
    BY <1>1, <1>2, DiffRoundTrip, Zenon
  <2>4. p.op # "delete"
    BY <1>3, <2>1, <2>2, Zenon
  <2>5. Reproduces(base, p.op, p.changes, p.post)
    <3> HIDE DEF p, base
    <3> QED
      BY <2>2, <2>3, <2>4, Zenon DEF Reproduces
  <2> QED
    BY <2>5
<1>6. CASE c.kind = "delete"
  BY <1>4, <1>6, Zenon DEF PlanEvent
<1>7. CASE c.kind = "diff"
  <2> DEFINE op == ResolveOp(c.op, seen)
  <2>1. p = PlanDiff(c, seen)
    BY <1>7 DEF PlanEvent
  <2>2. CASE op = "delete"
    BY <1>4, <2>1, <2>2, Zenon DEF PlanDiff
  <2>3. CASE op # "delete"
    <3>1. c.changes # Nil
      BY <1>1, <1>7, <2>3 DEF PlainCommands, ResolveOp
    <3>2. p = PlanApply(c, seen, op)
      BY <2>1, <2>3, <3>1, Zenon DEF PlanDiff
    <3> HIDE DEF op
    <3>3. Applies(base, c.changes)
      BY <3>2 DEF PlanApply, Plan
    <3>4. /\ p.op = op /\ p.changes = c.changes
          /\ p.post = [state |-> Apply(base, c.changes), deleted |-> FALSE]
      BY <3>2, <3>3 DEF PlanApply, Plan
    <3> QED
      BY <2>3, <3>3, <3>4, Zenon DEF Reproduces
  <2> QED
    BY <2>2, <2>3
<1> QED
  BY <1>1, <1>5, <1>6, <1>7, Zenon DEF Kinds

-----------------------------------------------------------------------------
(* Reconstruct, a version at a time.  That the recursive function in it    *)
(* exists is shown with its finite approximations.                         *)

\* What the steps below need of the naturals; it is proved in OrderProofs.
Ordering ==
  /\ \A S \in SUBSET Nat : 0 \in S /\ (\A n \in S : n + 1 \in S) => S = Nat
  /\ \A n \in Nat : \A S \in SUBSET (0 .. n) : S # {} => \E x \in S : \A y \in S : y <= x

Begun(base, deleted) ==
  [ok |-> TRUE, report |-> base, deleted |-> deleted, work |-> IF deleted THEN Empty ELSE base]

\* What the loop has at version v, given what f says it had before.
ReplayTo(base, deleted, tail, f, v) ==
  IF v = 0 THEN Begun(base, deleted)
  ELSE IF \E d \in tail : d.v = v
  THEN ReplayOne(f[v - 1], CHOOSE d \in tail : d.v = v)
  ELSE f[v - 1]

UpTo(base, deleted, tail, g, n) ==
  g = [v \in 0 .. n |-> ReplayTo(base, deleted, tail, g, v)]

\* The loop can be run up to any version.
LEMMA ReplayRuns ==
  ASSUME Ordering, NEW base, NEW deleted, NEW tail
  PROVE  \A n \in Nat : \E g : UpTo(base, deleted, tail, g, n)
<1> DEFINE R(f, v) == ReplayTo(base, deleted, tail, f, v)
           S == {n \in Nat : \E g : UpTo(base, deleted, tail, g, n)}
<1>1. 0 \in S
  <2> DEFINE g == [v \in 0 .. 0 |-> Begun(base, deleted)]
  <2>1. \A v \in 0 .. 0 : R(g, v) = Begun(base, deleted)
    BY DEF ReplayTo
  <2>2. UpTo(base, deleted, tail, g, 0)
    BY <2>1, Zenon DEF UpTo
  <2> QED
    BY <2>2, Zenon
<1>2. ASSUME NEW n \in S
      PROVE  n + 1 \in S
  <2>1. PICK g : UpTo(base, deleted, tail, g, n)
    BY Zenon
  <2> DEFINE h == [v \in 0 .. (n + 1) |-> IF v = n + 1 THEN R(g, n + 1) ELSE g[v]]
  <2>2. \A v \in 0 .. n : h[v] = g[v] /\ g[v] = R(g, v)
    <3>1. \A v \in 0 .. n : v \in 0 .. (n + 1) /\ v # n + 1
      OBVIOUS
    <3>2. \A v \in 0 .. n : g[v] = R(g, v)
      BY <2>1, Zenon DEF UpTo
    <3> QED
      BY <3>1, <3>2, Zenon
  <2>3. h[n + 1] = R(g, n + 1)
    <3>1. n + 1 \in 0 .. (n + 1)
      OBVIOUS
    <3> QED
      BY <3>1, Zenon
  <2> HIDE DEF h
  <2>4. \A v \in 0 .. (n + 1) : R(h, v) = R(g, v)
    <3> TAKE v \in 0 .. (n + 1)
    <3>1. v # 0 => v - 1 \in 0 .. n
      OBVIOUS
    <3>2. v # 0 => h[v - 1] = g[v - 1]
      BY <2>2, <3>1, ZenonT(40)
    <3> QED
      BY <3>2, ZenonT(40) DEF ReplayTo
  <2>5. \A v \in 0 .. (n + 1) : h[v] = R(h, v)
    <3> TAKE v \in 0 .. (n + 1)
    <3>1. v = n + 1 \/ v \in 0 .. n
      OBVIOUS
    <3> QED
      BY <2>2, <2>3, <2>4, <3>1, ZenonT(40)
  <2>6. h = [v \in 0 .. (n + 1) |-> h[v]]
    BY Zenon DEF h
  <2>7. UpTo(base, deleted, tail, h, n + 1)
    BY <2>5, <2>6, ZenonT(40) DEF UpTo
  <2> QED
    BY <2>7
<1>3. S \in SUBSET Nat
  BY Zenon
<1> HIDE DEF S
<1>4. S = Nat
  BY <1>1, <1>2, <1>3, ZenonT(40) DEF Ordering
<1> QED
  BY <1>4, Zenon DEF S

\* Two runs agree as far as both go.
LEMMA ReplaysAgree ==
  ASSUME Ordering, NEW base, NEW deleted, NEW tail, NEW g, NEW h, NEW n \in Nat, NEW m \in Nat,
         UpTo(base, deleted, tail, g, n), UpTo(base, deleted, tail, h, m)
  PROVE  \A v \in Nat : v <= n /\ v <= m => g[v] = h[v]
<1> DEFINE R(f, v) == ReplayTo(base, deleted, tail, f, v)
           S == {v \in Nat : v <= n /\ v <= m => g[v] = h[v]}
<1>1. \A v \in 0 .. n : g[v] = R(g, v)
  BY Zenon DEF UpTo
<1>2. \A v \in 0 .. m : h[v] = R(h, v)
  BY Zenon DEF UpTo
<1>3. R(g, 0) = R(h, 0)
  BY Zenon DEF ReplayTo
<1>4. 0 \in S
  BY <1>1, <1>2, <1>3
<1>5. ASSUME NEW v \in S
      PROVE  v + 1 \in S
  <2> SUFFICES ASSUME v + 1 <= n, v + 1 <= m
               PROVE  g[v + 1] = h[v + 1]
    OBVIOUS
  <2>1. g[v] = h[v] /\ (v + 1) - 1 = v /\ v + 1 # 0
    OBVIOUS
  <2>2. R(g, v + 1) = R(h, v + 1)
    BY <2>1, Zenon DEF ReplayTo
  <2>3. v + 1 \in 0 .. n /\ v + 1 \in 0 .. m
    OBVIOUS
  <2> QED
    BY <1>1, <1>2, <2>2, <2>3, ZenonT(40)
<1>6. S \in SUBSET Nat
  BY Zenon
<1> HIDE DEF S
<1>7. S = Nat
  BY <1>4, <1>5, <1>6, ZenonT(40) DEF Ordering
<1> QED
  BY <1>7, Zenon DEF S

\* So Reconstruct starts with its base and takes one event of the tail at a time.
LEMMA ReconstructIs ==
  ASSUME Ordering, NEW base, NEW deleted, NEW tail
  PROVE  /\ Reconstruct(base, deleted, tail, 0) = Begun(base, deleted)
         /\ \A n \in Nat :
              Reconstruct(base, deleted, tail, n + 1) =
                IF \E d \in tail : d.v = n + 1
                THEN ReplayOne(Reconstruct(base, deleted, tail, n),
                               CHOOSE d \in tail : d.v = n + 1)
                ELSE Reconstruct(base, deleted, tail, n)
<1> DEFINE R(f, v) == ReplayTo(base, deleted, tail, f, v)
           G(n) == CHOOSE g : UpTo(base, deleted, tail, g, n)
           F == [n \in Nat |-> G(n)[n]]
           f == CHOOSE f : f = [v \in Nat |-> R(f, v)]
<1>1. \A n \in Nat : UpTo(base, deleted, tail, G(n), n)
  BY ReplayRuns, Zenon
<1>2. ASSUME NEW n \in Nat
      PROVE  F[n] = R(F, n)
  <2>1. F[n] = R(G(n), n)
    <3>1. UpTo(base, deleted, tail, G(n), n)
      BY <1>1, Zenon
    <3> HIDE DEF G
    <3>2. G(n)[n] = R(G(n), n)
      BY <3>1 DEF UpTo
    <3> QED
      BY <3>2, Zenon
  <2>2. n # 0 => G(n)[n - 1] = F[n - 1]
    <3> HAVE n # 0
    <3>1. n - 1 \in Nat
      OBVIOUS
    <3>2. UpTo(base, deleted, tail, G(n), n) /\ UpTo(base, deleted, tail, G(n - 1), n - 1)
      BY <1>1, <3>1, Zenon
    <3> HIDE DEF G
    <3>3. G(n)[n - 1] = G(n - 1)[n - 1]
      BY <3>1, <3>2, ReplaysAgree
    <3> QED
      BY <3>1, <3>3, Zenon
  <2> HIDE DEF F, G
  <2> QED
    BY <2>1, <2>2, Zenon DEF ReplayTo
<1>3. F = [v \in Nat |-> R(F, v)]
  <2>1. F = [v \in Nat |-> F[v]]
    OBVIOUS
  <2> HIDE DEF F
  <2> QED
    BY <1>2, <2>1, Zenon
<1> HIDE DEF F
<1>4. f = [v \in Nat |-> R(f, v)]
  BY <1>3, Zenon
<1>5. \A v \in Nat : Reconstruct(base, deleted, tail, v) = f[v]
  BY Zenon DEF Reconstruct, ReplayTo, Begun
<1> HIDE DEF f
<1>6. \A v \in Nat : f[v] = R(f, v)
  BY <1>4, Zenon
<1>7. R(f, 0) = Begun(base, deleted)
  BY Zenon DEF ReplayTo
<1>8. ASSUME NEW n \in Nat
      PROVE  R(f, n + 1) = IF \E d \in tail : d.v = n + 1
                           THEN ReplayOne(f[n], CHOOSE d \in tail : d.v = n + 1)
                           ELSE f[n]
  <2>1. n + 1 # 0 /\ (n + 1) - 1 = n
    OBVIOUS
  <2> QED
    BY <2>1, Zenon DEF ReplayTo
<1>9. \A n \in Nat : n + 1 \in Nat
  OBVIOUS
<1> QED
  BY <1>5, <1>6, <1>7, <1>8, <1>9

\* Replaying such an event on such a base is one turn of Reconstruct's loop.
LEMMA ReplayOneIs ==
  ASSUME NEW st, NEW del \in BOOLEAN, NEW d,
         Reproduces(IF del THEN Empty ELSE st, d.op, d.changes, d.post)
  PROVE  ReplayOne(Begun(st, del), d) = Begun(d.post.state, d.post.deleted)
<1> DEFINE base == IF del THEN Empty ELSE st
           r == Begun(st, del)
<1>1. r.ok /\ r.work = base /\ r = [ok |-> TRUE, report |-> st, deleted |-> del, work |-> base]
  BY Zenon DEF Begun
<1>2. CASE d.op = "delete"
  <2>1. d.post = [state |-> base, deleted |-> TRUE]
    BY <1>2, Zenon DEF Reproduces
  <2>2. ReplayOne(r, d) = [r EXCEPT !.report = r.work, !.work = Empty, !.deleted = TRUE]
    BY <1>1, <1>2, ZenonT(40) DEF ReplayOne
  <2>3. ReplayOne(r, d) = [ok |-> TRUE, report |-> base, deleted |-> TRUE, work |-> Empty]
    <3> HIDE DEF r, base
    <3> QED
      BY <1>1, <2>2, ZenonT(40)
  <2>4. d.post.state = base /\ d.post.deleted = TRUE
    BY <2>1
  <2> QED
    BY <2>3, <2>4, ZenonT(40) DEF Begun
<1>3. CASE d.op # "delete"
  <2>1. Applies(base, d.changes) /\ d.post = [state |-> Apply(base, d.changes), deleted |-> FALSE]
    BY <1>3, Zenon DEF Reproduces
  <2> DEFINE m == Apply(base, d.changes)
  <2>2. ReplayOne(r, d) = [ok |-> TRUE, work |-> m, report |-> m, deleted |-> FALSE]
    <3> HIDE DEF r, base
    <3> QED
      BY <1>1, <1>3, <2>1, ZenonT(40) DEF ReplayOne
  <2>3. d.post.state = m /\ d.post.deleted = FALSE
    BY <2>1
  <2> HIDE DEF m
  <2> QED
    BY <2>2, <2>3, ZenonT(40) DEF Begun
<1> QED
  BY <1>2, <1>3, Zenon

\* The base of a read: the genesis, or what a stored event left.
LEMMA AnchorIs ==
  ASSUME Ordering, IndInv, NEW e \in Entities, NEW v \in Nat, NEW s \in SUBSET snaps
  PROVE  LET snap == Anchor(s, e, v)
         IN  /\ snap.v \in 0 .. v /\ snap.state \in Objects /\ snap.deleted \in BOOLEAN
             /\ \/ snap.v = 0 /\ snap.state = Empty /\ snap.deleted = FALSE
                \/ WrittenBy(e, snap)
<1> DEFINE below == {x \in s : x.eid = e /\ x.v <= v}
           snap == Anchor(s, e, v)
<1>1. \A x \in s : x.v \in Nat /\ x.state \in Objects /\ x.deleted \in BOOLEAN
  BY Zenon DEF IndInv, TypeOK
<1>2. CASE below = {}
  <2>1. snap = NoSnapshot(e)
    BY <1>2, Zenon DEF Anchor
  <2> QED
    BY <2>1, EmptyType DEF NoSnapshot
<1>3. CASE below # {}
  <2> DEFINE V == {x.v : x \in below}
  <2>1. V \subseteq 0 .. v /\ V # {}
    BY <1>1, <1>3
  <2>2. PICK m \in V : \A y \in V : y <= m
    <3> HIDE DEF V
    <3> QED
      BY <2>1, ZenonT(40) DEF Ordering
  <2>3. \E x \in below : \A t \in below : t.v <= x.v
    BY <2>2, Zenon
  <2>4. snap \in below
    BY <1>3, <2>3, Zenon DEF Anchor
  <2>5. WrittenBy(snap.eid, snap)
    BY <2>4, Zenon DEF IndInv, MaterializedIsHistory
  <2>6. /\ snap.v \in 0 .. v /\ snap.state \in Objects /\ snap.deleted \in BOOLEAN
        /\ WrittenBy(e, snap)
    <3> HIDE DEF snap
    <3> QED
      BY <1>1, <2>4, <2>5
  <2> QED
    BY <2>6, Zenon
<1> QED
  BY <1>2, <1>3, ZenonT(40)

\* Reader.StateAt goes up from its base an event at a time, and has at each
\* version what the writer of that version stored.
LEMMA ReplayHolds ==
  ASSUME Ordering, IndInv, ReplayInv, aborts = 0,
         NEW e \in Entities, NEW v \in 1 .. LastVersion(events, e), NEW s \in SUBSET snaps
  PROVE  LET post == EventAt(events, e, v).post
         IN  StateAt(events, s, e, v) =
               [ok |-> TRUE, state |-> post.state, deleted |-> post.deleted]
<1> DEFINE At(k) == EventAt(events, e, k)
           snap == Anchor(s, e, v)
           tail == ListEvents(events, e, snap.v, v)
           R(k) == Reconstruct(snap.state, snap.deleted, tail, k)
           Good(k) == IF k <= snap.v THEN R(k) = Begun(snap.state, snap.deleted)
                      ELSE R(k) = Begun(At(k).post.state, At(k).post.deleted)
           S == {k \in Nat : k <= v => Good(k)}
<1>1. LastVersion(events, e) \in Nat /\ v \in Nat /\ v >= 1
  BY LastVersionType DEF IndInv, StoreInv
<1>2. /\ snap.v \in 0 .. v /\ snap.state \in Objects /\ snap.deleted \in BOOLEAN
      /\ \/ snap.v = 0 /\ snap.state = Empty /\ snap.deleted = FALSE
         \/ WrittenBy(e, snap)
  BY <1>1, AnchorIs, ZenonT(40)
<1>3. \A k \in 1 .. v : /\ At(k) \in events /\ At(k).eid = e /\ At(k).v = k
                       /\ At(k).post.state \in Objects /\ At(k).post.deleted \in BOOLEAN
  <2> TAKE k \in 1 .. v
  <2>1. At(k) \in events /\ At(k).eid = e /\ At(k).v = k
    BY <1>1, EventAtStored DEF IndInv
  <2>2. At(k).post \in Posts
    BY <2>1, Zenon DEF IndInv, TypeOK, Documents
  <2> QED
    BY <2>1, <2>2 DEF Posts
<1>4. \A x, y \in events : x.eid = y.eid /\ x.v = y.v => x = y
  BY Zenon DEF IndInv, StoreInv, UniqueVersions
<1>5. \A x : x \in tail <=> x \in events /\ x.eid = e /\ x.v > snap.v /\ x.v <= v
  BY Zenon DEF ListEvents, Of
<1>6. /\ R(0) = Begun(snap.state, snap.deleted)
      /\ \A k \in Nat : R(k + 1) = IF \E d \in tail : d.v = k + 1
                                  THEN ReplayOne(R(k), CHOOSE d \in tail : d.v = k + 1)
                                  ELSE R(k)
  BY ReconstructIs, Zenon
<1>7. snap.v # 0 => At(snap.v).post = [state |-> snap.state, deleted |-> snap.deleted]
  BY <1>1, <1>2, <1>3, <1>4 DEF WrittenBy
<1> HIDE DEF At, snap, tail, R
<1>8. 0 \in S
  BY <1>2, <1>6
<1>9. \A k \in S : k + 1 \in S
  <2> SUFFICES ASSUME NEW k \in Nat, k + 1 <= v, Good(k)
               PROVE  Good(k + 1)
    BY <1>1
  <2>1. CASE k + 1 <= snap.v
    <3>1. ~\E d \in tail : d.v = k + 1
      BY <1>2, <1>5, <2>1
    <3>2. R(k + 1) = R(k)
      BY <1>6, <3>1, ZenonT(40)
    <3> QED
      BY <1>2, <2>1, <3>2
  <2>2. CASE k + 1 > snap.v
    <3> DEFINE d == At(k + 1)
    <3>1. d \in events /\ d.eid = e /\ d.v = k + 1
      BY <1>1, <1>3
    <3>2. d \in tail
      BY <1>5, <2>2, <3>1, Zenon
    <3>3. (CHOOSE x \in tail : x.v = k + 1) = d
      BY <1>4, <1>5, <3>1, <3>2, Zenon
    <3>4. R(k + 1) = ReplayOne(R(k), d)
      BY <1>6, <3>1, <3>2, <3>3, ZenonT(40)
    <3> HIDE DEF d
    <3>5. \E st \in Objects, del \in BOOLEAN :
            R(k) = Begun(st, del) /\ Leaves(events, e, k, IF del THEN Empty ELSE st)
      <4>1. CASE k = 0
        <5>1. snap.v = 0 /\ R(k) = Begun(snap.state, snap.deleted)
          BY <1>2, <1>6, <2>2, <4>1
        <5>2. snap.state = Empty /\ snap.deleted = FALSE
          <6>1. ~\E x \in events : x.eid = e /\ x.v = 0
            <7>1. \A x \in events : x.eid = e => x.v \in Versions(events, e)
              BY Zenon DEF Versions, Of
            <7> QED
              BY <1>1, <7>1, LastVersionType DEF IndInv, StoreInv
          <6> QED
            BY <1>2, <5>1, <6>1, ZenonT(40) DEF WrittenBy
        <5>3. Leaves(events, e, k, IF snap.deleted THEN Empty ELSE snap.state)
          BY <4>1, <5>2, ZenonT(40) DEF Leaves
        <5> QED
          BY <1>2, <5>1, <5>3, ZenonT(40)
      <4>2. CASE k # 0
        <5>1. /\ At(k) \in events /\ At(k).eid = e /\ At(k).v = k
              /\ At(k).post.state \in Objects /\ At(k).post.deleted \in BOOLEAN
          BY <1>1, <1>3, <4>2
        <5>2. R(k) = Begun(At(k).post.state, At(k).post.deleted)
          BY <1>2, <1>7, <2>2, <4>2
        <5>3. Leaves(events, e, k, IF At(k).post.deleted THEN Empty ELSE At(k).post.state)
          BY <5>1, Zenon DEF Leaves
        <5> QED
          BY <5>1, <5>2, <5>3, ZenonT(40)
      <4> QED
        BY <4>1, <4>2, ZenonT(40)
    <3>6. PICK st \in Objects, del \in BOOLEAN :
            R(k) = Begun(st, del) /\ Leaves(events, e, k, IF del THEN Empty ELSE st)
      BY <3>5, Zenon
    <3>7. Reproduces(IF del THEN Empty ELSE st, d.op, d.changes, d.post)
      <4>1. (IF del THEN Empty ELSE st) \in Objects
        BY EmptyType, Zenon
      <4>2. d.v - 1 = k
        BY <3>1
      <4> QED
        BY <3>1, <3>6, <4>1, <4>2, ZenonT(40) DEF ReplayInv
    <3>8. R(k + 1) = Begun(d.post.state, d.post.deleted)
      BY <3>4, <3>6, <3>7, ReplayOneIs, ZenonT(40)
    <3> QED
      BY <1>2, <2>2, <3>8 DEF d
  <2> QED
    BY <1>2, <2>1, <2>2
<1>10. Good(v)
  <2>1. S = Nat
    <3> HIDE DEF S
    <3>1. S \in SUBSET Nat
      BY Zenon DEF S
    <3> QED
      BY <1>8, <1>9, <3>1, ZenonT(40) DEF Ordering
  <2> QED
    BY <1>1, <2>1
<1>11. R(v) = Begun(At(v).post.state, At(v).post.deleted)
  BY <1>1, <1>2, <1>7, <1>10
<1>12. R(v).ok = TRUE /\ R(v).report = At(v).post.state /\ R(v).deleted = At(v).post.deleted
  BY <1>11 DEF Begun
<1>13. StateAt(events, s, e, v) = [ok |-> R(v).ok, state |-> R(v).report, deleted |-> R(v).deleted]
  BY <1>1 DEF StateAt, R, snap, tail
<1> QED
  BY <1>12, <1>13, ZenonT(40) DEF At

\* A history that replays is read back as it was written.
LEMMA ReplayIs == Ordering /\ IndInv /\ ReplayInv => ReplayIsWhatWasWritten
BY ReplayHolds, Zenon DEF ReplayIsWhatWasWritten

-----------------------------------------------------------------------------
(* Frames: what a step that only adds to the store leaves true.            *)

Grown ==
  /\ StoreInv'
  /\ events \subseteq events'
  /\ \A e \in Entities : LastVersion(events, e) <= LastVersion(events', e)

ReplyInv(r) ==
  /\ r.status = "stored" => StoredIsTrue(r)
  /\ r.status = "duplicate" => KeyClash(events, r.cmd.key)

\* A step that leaves ev_* alone keeps the store's invariant.
LEMMA SameEvents ==
  ASSUME IndInv, UNCHANGED events
  PROVE  Grown
<1>1. StoreInv'
  BY DEF IndInv, StoreInv, GapFree, UniqueVersions, KeysOnce, Versions, Of
<1>2. \A e \in Entities : LastVersion(events, e) <= LastVersion(events', e)
  BY LastVersionType DEF IndInv, StoreInv
<1> QED
  BY <1>1, <1>2 DEF Grown

\* A writer another writer's step does not touch keeps its invariant.
LEMMA OthersKeep ==
  ASSUME IndInv, Grown, NEW u \in Writers, writer'[u] = writer[u]
  PROVE  WriterInv(u)'
<1> SUFFICES ASSUME writer[u] # Idle PROVE WriterInv(u)'
  BY DEF WriterInv
<1> DEFINE e == writer[u].cmd.eid
           n == LastVersion(events, e)
           m == LastVersion(events', e)
<1>1. writer[u] \in Active /\ e \in Entities
  BY WriterTypes DEF IndInv
<1>2. n \in Nat /\ m \in Nat /\ n <= m
  <2>1. \E k \in Nat : Versions(events', e) = 1 .. k
    BY <1>1 DEF Grown, StoreInv, GapFree
  <2>2. m \in Nat
    BY <2>1, LastVersionIs
  <2> QED
    BY <1>1, <2>2, LastVersionType DEF IndInv, StoreInv, Grown
<1>3. /\ writer[u].v \in Nat /\ writer[u].tries \in Nat
      /\ writer[u].seen.v \in Nat
  BY <1>1, WriterNumbers, Zenon
<1>4. Document(u)' = Document(u)
  BY DEF Document
<1>5. WriterInv(u)
  BY Zenon DEF IndInv
<1> HIDE DEF n, m
<1>6. /\ writer[u].seen.v + writer[u].tries <= n
      /\ writer[u].pc = "insert" =>
           /\ writer[u].seen.v + writer[u].tries < writer[u].v
           /\ writer[u].v <= n + 1
  BY <1>5 DEF WriterInv, n
<1>7. /\ writer[u].seen.v + writer[u].tries <= m
      /\ writer[u].pc = "insert" =>
           /\ writer[u].seen.v + writer[u].tries < writer[u].v
           /\ writer[u].v <= m + 1
  BY <1>2, <1>3, <1>6
<1>8. writer[u].pc \in {"upsert", "post", "rules"} => Document(u)' \in events'
  BY <1>4, <1>5, Zenon DEF WriterInv, Grown
<1> QED
  BY <1>5, <1>7, <1>8, Zenon DEF WriterInv, m

\* Answers given earlier stay true while the store and the evaluated set grow.
LEMMA RepliesKeep ==
  ASSUME IndInv, Grown, evaluated \subseteq evaluated', NEW r \in replies
  PROVE  ReplyInv(r)'
BY Zenon DEF IndInv, Grown, ReplyInv, AnswersAreTrue, StoredIsTrue, KeyClash

\* A step that leaves cur_* and sn_* alone keeps them backed.
LEMMA SameMaterialized ==
  ASSUME IndInv, Grown, UNCHANGED <<cur, snaps>>
  PROVE  MaterializedIsHistory'
<1>1. \A e \in Entities : cur[e].v # 0 => WrittenBy(e, cur[e])'
  BY DEF IndInv, MaterializedIsHistory, Grown, WrittenBy
<1>2. \A s \in snaps : WrittenBy(s.eid, s)'
  BY DEF IndInv, MaterializedIsHistory, Grown, WrittenBy
<1> QED
  BY <1>1, <1>2 DEF MaterializedIsHistory

\* The invariant after an answer that is true, given in a step that changes no
\* more than the counters besides.
LEMMA AnswerKeeps ==
  ASSUME IndInv, NEW w \in Writers, NEW c \in Commands, NEW status \in Statuses,
         NEW v \in Nat, Answer(w, c, status, v),
         UNCHANGED <<events, cur, snaps, evaluated>>,
         started' \in 0 .. MaxWrites, aborts' \in 0 .. MaxAborts,
         status # "stored", status = "duplicate" => KeyClash(events, c.key)
  PROVE  IndInv'
<1> DEFINE new == [cmd |-> c, status |-> status, v |-> v]
<1>1. Grown
  BY SameEvents
<1>2. TypeOK'
  BY DEF IndInv, TypeOK, Answer
<1>3. \A u \in Writers : WriterInv(u)'
  <2> TAKE u \in Writers
  <2>1. CASE u = w
    BY <2>1, Zenon DEF IndInv, TypeOK, Answer, WriterInv
  <2>2. CASE u # w
    <3>1. writer'[u] = writer[u]
      BY <2>2 DEF Answer, IndInv, TypeOK
    <3> QED
      BY <1>1, <3>1, OthersKeep
  <2> QED
    BY <2>1, <2>2
<1>4. MaterializedIsHistory'
  BY <1>1, SameMaterialized, Zenon
<1>5. AnswersAreTrue'
  <2>1. replies' = replies \cup {new}
    BY DEF Answer
  <2>2. ReplyInv(new)'
    BY DEF ReplyInv, KeyClash
  <2>3. \A r \in replies : ReplyInv(r)'
    BY <1>1, RepliesKeep
  <2>4. \A r \in replies' : ReplyInv(r)'
    BY <2>1, <2>2, <2>3
  <2> QED
    BY <2>4 DEF ReplyInv, AnswersAreTrue
<1> QED
  BY <1>1, <1>2, <1>3, <1>4, <1>5 DEF IndInv, Grown

\* The invariant after a step that changes one writer's record and no other
\* variable but the counters.
LEMMA MoveKeeps ==
  ASSUME IndInv, NEW w \in Writers, NEW r \in Active,
         writer' = [writer EXCEPT ![w] = r],
         UNCHANGED <<events, cur, snaps, evaluated, replies>>,
         started' \in 0 .. MaxWrites, aborts' \in 0 .. MaxAborts,
         WriterInv(w)'
  PROVE  IndInv'
<1>1. Grown
  BY SameEvents
<1>2. TypeOK'
  BY DEF IndInv, TypeOK
<1>3. \A u \in Writers : WriterInv(u)'
  <2> TAKE u \in Writers
  <2>1. CASE u # w
    <3>1. writer'[u] = writer[u]
      BY <2>1 DEF IndInv, TypeOK
    <3> QED
      BY <1>1, <3>1, OthersKeep
  <2> QED
    BY <2>1
<1>4. MaterializedIsHistory'
  BY <1>1, SameMaterialized, Zenon
<1>5. AnswersAreTrue'
  BY Zenon DEF IndInv, AnswersAreTrue, StoredIsTrue, KeyClash
<1> QED
  BY <1>1, <1>2, <1>3, <1>4, <1>5 DEF IndInv, Grown

-----------------------------------------------------------------------------
(* Each action keeps the invariant.                                        *)

\* The initial state satisfies the invariant.
LEMMA InitInv == Init => IndInv
<1> SUFFICES ASSUME Init PROVE IndInv
  OBVIOUS
<1>1. TypeOK
  <2>1. NoDocument \in CurrentStates
    BY EmptyType DEF NoDocument, CurrentStates
  <2> QED
    BY <2>1, IngestAssumption DEF Init, TypeOK
<1>2. \A e \in Entities : Versions(events, e) = 1 .. 0
  BY DEF Init, Versions, Of
<1>3. StoreInv
  BY <1>2, Zenon DEF Init, StoreInv, GapFree, UniqueVersions, KeysOnce
<1>4. \A w \in Writers : WriterInv(w)
  BY Zenon DEF Init, WriterInv
<1>5. MaterializedIsHistory /\ AnswersAreTrue
  BY DEF Init, MaterializedIsHistory, AnswersAreTrue, NoDocument
<1> QED
  BY <1>1, <1>3, <1>4, <1>5 DEF IndInv

\* The version in cur_* is at most the last version of the history.
LEMMA CurrentWithinHistory ==
  ASSUME IndInv, NEW e \in Entities
  PROVE  cur[e].v \in Nat /\ cur[e].v <= LastVersion(events, e)
<1>1. cur[e].v \in Nat
  BY DEF IndInv, TypeOK, CurrentStates
<1>2. /\ LastVersion(events, e) \in Nat
      /\ Versions(events, e) = 1 .. LastVersion(events, e)
  BY LastVersionType DEF IndInv, StoreInv
<1>3. CASE cur[e].v # 0
  <2>1. WrittenBy(e, cur[e])
    BY <1>3 DEF IndInv, MaterializedIsHistory
  <2>2. PICK d \in events : d.eid = e /\ d.v = cur[e].v
    BY <2>1 DEF WrittenBy
  <2>3. cur[e].v \in Versions(events, e)
    BY <2>2 DEF Versions, Of
  <2> QED
    BY <1>1, <1>2, <2>3
<1> QED
  BY <1>1, <1>2, <1>3

\* Starting a command.
LEMMA StartKeeps ==
  ASSUME IndInv, NEW w \in Writers, NEW c \in Commands, Start(w, c)
  PROVE  IndInv'
<1>1. /\ started' \in 0 .. MaxWrites /\ aborts' \in 0 .. MaxAborts
      /\ UNCHANGED <<events, cur, snaps, evaluated>>
  <2>1. Admit(w)
    BY Zenon DEF Start, StartConflict, StartRefused, StartWrite
  <2>2. started \in 0 .. MaxWrites /\ aborts \in 0 .. MaxAborts /\ MaxWrites \in Nat
    BY IngestAssumption, Zenon DEF IndInv, TypeOK
  <2>3. /\ started < MaxWrites /\ started' = started + 1
        /\ UNCHANGED <<events, cur, snaps, evaluated, aborts>>
    BY <2>1, Zenon DEF Admit
  <2>4. started' \in 0 .. MaxWrites
    BY <2>2, <2>3
  <2> QED
    BY <2>2, <2>3, <2>4, Zenon
<1>2. c.eid \in Entities /\ cur[c.eid] \in CurrentStates
  BY IngestAssumption, Zenon DEF IngestCommand, IndInv, TypeOK
<1>3. CASE StartConflict(w, c)
  BY <1>1, <1>3, AnswerKeeps, Zenon DEF StartConflict, Statuses
<1>4. CASE StartRefused(w, c)
  <2>1. cur[c.eid].v \in Nat
    BY <1>2 DEF CurrentStates
  <2>2. CASE Answer(w, c, "invalid", 0)
    BY <1>1, <2>2, AnswerKeeps, Zenon DEF Statuses
  <2>3. CASE Answer(w, c, "no_changes", cur[c.eid].v)
    BY <1>1, <2>1, <2>3, AnswerKeeps, Zenon DEF Statuses
  <2> QED
    BY <1>4, <2>2, <2>3 DEF StartRefused
<1>5. CASE StartWrite(w, c)
  <2> DEFINE plan == PlanEvent(c, cur[c.eid])
             r == [pc |-> IF PreStore = "off" THEN "tail" ELSE "prestore",
                   cmd |-> c, seen |-> cur[c.eid], op |-> plan.op,
                   changes |-> plan.changes, link |-> NoLink, post |-> plan.post,
                   v |-> 0, tries |-> 0]
  <2>1. /\ plan.verdict = "write" /\ UNCHANGED replies
        /\ writer' = [writer EXCEPT ![w] = r]
    BY <1>5, Zenon DEF StartWrite
  <2>2. /\ plan.op \in Ops /\ plan.changes \in ChangeLists /\ plan.post \in Posts
        /\ c.kind = "state" => plan.post = [state |-> c.state, deleted |-> FALSE]
    BY <1>2, <2>1, PlanType, Zenon
  <2> HIDE DEF plan
  <2>3. r \in Active
    <3>1. 0 \in 0 .. MaxAppendRetries
      BY IngestAssumption
    <3>2. (IF PreStore = "off" THEN "tail" ELSE "prestore")
            \in {"prestore", "tail", "insert", "upsert", "post", "rules"}
      OBVIOUS
    <3> QED
      BY <1>2, <2>2, <3>1, <3>2, Zenon DEF Active
  <2>4. cur[c.eid].v \in Nat /\ cur[c.eid].v <= LastVersion(events, c.eid)
    BY <1>2, CurrentWithinHistory, Zenon
  <2>5. writer'[w] = r
    BY <2>1, Zenon DEF IndInv, TypeOK
  <2>6. WriterInv(w)'
    <3>1. /\ r.pc \in {"tail", "prestore"} /\ r.cmd = c /\ r.seen.v = cur[c.eid].v
          /\ r.tries = 0 /\ r.post = plan.post
      BY Zenon
    <3> HIDE DEF r
    <3>2. cur[c.eid].v + 0 <= LastVersion(events, c.eid)
      BY <2>4
    <3>3. r.seen.v + r.tries <= LastVersion(events, r.cmd.eid)
      BY <3>1, <3>2
    <3> QED
      BY <1>1, <2>2, <2>5, <3>1, <3>3, Zenon DEF WriterInv
  <2> QED
    BY <1>1, <2>1, <2>3, <2>6, MoveKeeps, Zenon
<1> QED
  BY <1>3, <1>4, <1>5 DEF Start

\* The pre-store hook, whether it succeeds or not.
LEMMA PreStoreKeeps ==
  ASSUME IndInv, NEW w \in Writers, RunPreStore(w) \/ PluginError(w)
  PROVE  IndInv'
<1> DEFINE e == writer[w].cmd.eid
<1>1. /\ writer[w] # Idle /\ writer[w].pc = "prestore"
      /\ UNCHANGED <<events, cur, snaps, evaluated>>
      /\ started' \in 0 .. MaxWrites /\ aborts' \in 0 .. MaxAborts
  <2>1. /\ writer[w].pc = "prestore" /\ UNCHANGED <<events, cur, snaps, evaluated, started>>
        /\ UNCHANGED aborts \/ (aborts < MaxAborts /\ aborts' = aborts + 1)
    BY Zenon DEF RunPreStore, PluginError
  <2>2. writer[w] # Idle
    BY <2>1 DEF Idle
  <2>3. started \in 0 .. MaxWrites /\ aborts \in 0 .. MaxAborts /\ MaxAborts \in Nat
    BY IngestAssumption, Zenon DEF IndInv, TypeOK
  <2>4. aborts' \in 0 .. MaxAborts
    <3>1. aborts' = aborts \/ (aborts < MaxAborts /\ aborts' = aborts + 1)
      BY <2>1, Zenon
    <3>2. aborts \in 0 .. MaxAborts /\ MaxAborts \in Nat
      BY <2>3, Zenon
    <3> QED
      BY <3>1, <3>2
  <2> QED
    BY <2>1, <2>2, <2>3, <2>4, Zenon
<1>2. writer[w] \in Active /\ e \in Entities /\ writer[w].cmd \in Commands
  BY <1>1, WriterTypes DEF IndInv, Active
<1>3. WriterInv(w)
  BY DEF IndInv
<1>4. ASSUME NEW k \in Nat \cup {NoLink}, UNCHANGED replies,
             writer' = [writer EXCEPT ![w] = [writer[w] EXCEPT !.pc = "tail", !.link = k]]
      PROVE  IndInv'
  <2> DEFINE r == [writer[w] EXCEPT !.pc = "tail", !.link = k]
  <2>1. r \in Active
    BY <1>2, Zenon DEF Active
  <2>2. writer'[w] = r
    BY <1>4 DEF IndInv, TypeOK
  <2>3. /\ r.pc = "tail" /\ r.cmd = writer[w].cmd /\ r.seen = writer[w].seen
        /\ r.tries = writer[w].tries /\ r.post = writer[w].post
    BY <1>2, Zenon DEF Active
  <2> HIDE DEF r
  <2>4. WriterInv(w)'
    BY <1>1, <1>3, <2>2, <2>3, Zenon DEF WriterInv
  <2> QED
    BY <1>1, <1>4, <2>1, <2>4, MoveKeeps, Zenon DEF r
<1>5. CASE RunPreStore(w)
  <2>1. LastVersion(events, e) \in Nat
    BY <1>2, LastVersionType, Zenon DEF IndInv, StoreInv
  <2>2. PrevLink(e) \in Nat
    BY <2>1 DEF PrevLink
  <2>3. writer' = [writer EXCEPT ![w] = [writer[w] EXCEPT !.pc = "tail",
                                                          !.link = PrevLink(e)]]
    BY <1>5, Zenon DEF RunPreStore
  <2> QED
    BY <1>4, <1>5, <2>2, <2>3, Zenon DEF RunPreStore
<1>6. CASE PluginError(w) /\ PreStore = "closed"
  <2>1. Answer(w, writer[w].cmd, "rejected", 0)
    BY <1>6, Zenon DEF PluginError
  <2> QED
    BY <1>1, <1>2, <2>1, AnswerKeeps, Zenon DEF Statuses
<1>7. CASE PluginError(w) /\ PreStore # "closed"
  <2>1. writer[w].link \in Nat \cup {NoLink}
    BY <1>2 DEF Active
  <2>2. writer' = [writer EXCEPT ![w] = [writer[w] EXCEPT !.pc = "tail",
                                                          !.link = writer[w].link]]
    BY <1>2, <1>7, Zenon DEF PluginError, Goto, Active
  <2>3. UNCHANGED replies
    BY <1>7, Zenon DEF PluginError
  <2> QED
    BY <1>4, <2>1, <2>2, <2>3, Zenon
<1> QED
  BY <1>5, <1>6, <1>7

\* lastVersion: the version to insert is one above the present tail.
LEMMA ReadTailKeeps ==
  ASSUME IndInv, NEW w \in Writers, ReadTail(w)
  PROVE  IndInv'
<1> DEFINE e == writer[w].cmd.eid
           n == LastVersion(events, e)
           k == n + 1
           r == [writer[w] EXCEPT !.pc = "insert", !.v = k]
<1>1. /\ writer[w] # Idle /\ writer[w].pc = "tail"
      /\ UNCHANGED <<events, cur, snaps, evaluated, replies>>
      /\ started' \in 0 .. MaxWrites /\ aborts' \in 0 .. MaxAborts
  <2>1. /\ writer[w].pc = "tail"
        /\ UNCHANGED <<events, cur, snaps, evaluated, replies, started, aborts>>
    BY Zenon DEF ReadTail
  <2>2. writer[w] # Idle
    BY <2>1 DEF Idle
  <2> QED
    BY <2>1, <2>2, Zenon DEF IndInv, TypeOK
<1>2. writer[w] \in Active /\ e \in Entities
  BY <1>1, WriterTypes DEF IndInv
<1>3. writer' = [writer EXCEPT ![w] = r]
  BY Zenon DEF ReadTail
<1>4. n \in Nat
  BY <1>2, LastVersionType DEF IndInv, StoreInv
<1>5. WriterInv(w)
  BY DEF IndInv
<1>6. writer[w].seen.v \in Nat /\ writer[w].tries \in Nat
  BY <1>2, WriterNumbers, Zenon
<1>7. writer'[w] = r
  BY <1>3, Zenon DEF IndInv, TypeOK
<1>8. writer[w].seen.v + writer[w].tries <= n
  BY <1>1, <1>5 DEF WriterInv
<1>9. n = LastVersion(events', e)
  BY <1>1, Zenon
<1> HIDE DEF n
<1>10. k \in Nat /\ k <= n + 1 /\ writer[w].seen.v + writer[w].tries < k
  BY <1>4, <1>6, <1>8
<1> HIDE DEF k
<1>11. /\ r.pc = "insert" /\ r.v = k /\ r.cmd = writer[w].cmd
       /\ r.seen = writer[w].seen /\ r.tries = writer[w].tries
       /\ r.post = writer[w].post
  BY <1>2 DEF Active
<1>12. r \in Active
  BY <1>2, <1>10, Zenon DEF Active
<1> HIDE DEF r
<1>13. WriterInv(w)'
  BY <1>1, <1>5, <1>7, <1>8, <1>9, <1>10, <1>11, Zenon DEF WriterInv
<1> QED
  BY <1>1, <1>3, <1>12, <1>13, MoveKeeps, Zenon

\* An insert that lands.
LEMMA InsertLandsKeeps ==
  ASSUME IndInv, NEW w \in Writers, InsertLands(w)
  PROVE  IndInv'
<1> DEFINE r == [writer[w] EXCEPT !.pc = "upsert"]
<1>1. /\ writer[w] # Idle /\ writer' = [writer EXCEPT ![w] = r]
      /\ events' = events \cup {Document(w)}
      /\ UNCHANGED <<cur, snaps, evaluated, replies, started, aborts>>
  BY DEF InsertLands, Goto, Idle
<1>2. Grown
  BY InsertKeepsStore DEF Grown
<1>3. writer[w] \in Active /\ Document(w) \in Documents
      /\ writer[w].cmd.eid \in Entities
  BY <1>1, WriterTypes DEF IndInv
<1>4. /\ r \in Active /\ r.pc = "upsert" /\ r.cmd = writer[w].cmd
      /\ r.seen = writer[w].seen /\ r.tries = writer[w].tries
      /\ r.post = writer[w].post /\ r.v = writer[w].v /\ r.op = writer[w].op
      /\ r.changes = writer[w].changes /\ r.link = writer[w].link
  BY <1>3 DEF Active
<1>5. writer'[w] = r
  BY <1>1, Zenon DEF IndInv, TypeOK
<1> HIDE DEF r
<1>6. TypeOK'
  BY <1>1, <1>3, <1>4, Zenon DEF IndInv, TypeOK
<1>7. WriterInv(w)'
  <2>1. Document(w)' = Document(w)
    BY <1>4, <1>5, Zenon DEF Document
  <2>2. Document(w)' \in events'
    BY <1>1, <2>1, Zenon
  <2>3. WriterInv(w)
    BY DEF IndInv
  <2>4. /\ writer[w].seen.v \in Nat /\ writer[w].tries \in Nat
        /\ LastVersion(events, writer[w].cmd.eid) \in Nat
    <3>1. writer[w].seen \in CurrentStates /\ writer[w].tries \in 0 .. MaxAppendRetries
      BY <1>3, Zenon DEF Active
    <3>2. writer[w].tries \in Nat
      BY <3>1, IngestAssumption
    <3>3. LastVersion(events, writer[w].cmd.eid) \in Nat
      BY <1>3, LastVersionType DEF IndInv, StoreInv
    <3> QED
      BY <3>1, <3>2, <3>3, Zenon DEF CurrentStates
  <2>5. \E k \in Nat : Versions(events', writer[w].cmd.eid) = 1 .. k
    BY <1>2, <1>3 DEF Grown, StoreInv, GapFree
  <2>6. LastVersion(events', writer[w].cmd.eid) \in Nat
    BY <2>5, LastVersionIs, Zenon
  <2>7. writer[w].seen.v + writer[w].tries <= LastVersion(events', writer[w].cmd.eid)
    <3>1. writer[w].seen.v + writer[w].tries <= LastVersion(events, writer[w].cmd.eid)
      BY <1>1, <2>3, Zenon DEF WriterInv
    <3>2. LastVersion(events, writer[w].cmd.eid) <= LastVersion(events', writer[w].cmd.eid)
      BY <1>2, <1>3 DEF Grown
    <3> QED
      BY <2>4, <2>6, <3>1, <3>2
  <2> QED
    BY <1>1, <1>4, <1>5, <2>2, <2>3, <2>7, Zenon DEF WriterInv
<1>8. \A u \in Writers : WriterInv(u)'
  <2> TAKE u \in Writers
  <2>1. CASE u # w
    <3>1. writer'[u] = writer[u]
      BY <1>1, <2>1 DEF IndInv, TypeOK
    <3> QED
      BY <1>2, <3>1, OthersKeep, Zenon
  <2> QED
    BY <1>7, <2>1
<1>9. MaterializedIsHistory'
  BY <1>1, <1>2, SameMaterialized
<1>10. AnswersAreTrue'
  <2>1. \A x \in replies' : ReplyInv(x)'
    BY <1>1, <1>2, RepliesKeep
  <2> QED
    BY <2>1 DEF ReplyInv, AnswersAreTrue
<1> QED
  BY <1>2, <1>6, <1>8, <1>9, <1>10 DEF IndInv, Grown

\* A version taken by a concurrent writer: the next attempt, or the last one's
\* conflict.
LEMMA InsertVersionTakenKeeps ==
  ASSUME IndInv, NEW w \in Writers, InsertVersionTaken(w)
  PROVE  IndInv'
<1> DEFINE e == writer[w].cmd.eid
           n == LastVersion(events, e)
           t == writer[w].tries + 1
           r == [writer[w] EXCEPT !.pc = "tail", !.tries = t]
<1>1. /\ writer[w] # Idle /\ writer[w].pc = "insert"
      /\ UNCHANGED <<events, cur, snaps, evaluated>>
      /\ started' \in 0 .. MaxWrites /\ aborts' \in 0 .. MaxAborts
  BY DEF InsertVersionTaken, Idle, IndInv, TypeOK
<1>2. writer[w] \in Active /\ e \in Entities /\ writer[w].cmd \in Commands
  BY <1>1, WriterTypes, Zenon DEF IndInv, Active
<1>3. CASE Answer(w, writer[w].cmd, "conflict", 0)
  BY <1>1, <1>2, <1>3, AnswerKeeps, Zenon DEF Statuses
<1>4. CASE /\ t < MaxAppendRetries /\ UNCHANGED replies
           /\ writer' = [writer EXCEPT ![w] = r]
  <2>1. n \in Nat /\ Versions(events, e) = 1 .. n
    BY <1>2, LastVersionType, Zenon DEF IndInv, StoreInv
  <2>2. writer[w].v \in Versions(events, e)
    BY DEF InsertVersionTaken, VersionClash, Versions, Of
  <2>3. /\ writer[w].seen.v \in Nat /\ writer[w].tries \in Nat
        /\ writer[w].v \in Nat
    BY <1>2, WriterNumbers, Zenon
  <2>4. WriterInv(w)
    BY DEF IndInv
  <2>5. writer[w].seen.v + writer[w].tries < writer[w].v
    BY <1>1, <2>4 DEF WriterInv
  <2>6. writer[w].seen.v + t <= n /\ t \in 0 .. MaxAppendRetries
    <3>1. MaxAppendRetries \in Nat
      BY IngestAssumption, Zenon
    <3>2. writer[w].v <= n
      <4>1. writer[w].v \in 1 .. n
        BY <2>1, <2>2, Zenon
      <4> HIDE DEF n
      <4> QED
        BY <2>1, <4>1
    <3> HIDE DEF n
    <3>3. writer[w].seen.v + t <= n
      BY <2>1, <2>3, <2>5, <3>2
    <3>4. t \in 0 .. MaxAppendRetries
      BY <1>4, <2>3, <3>1
    <3> QED
      BY <3>3, <3>4
  <2>7. writer'[w] = r
    BY <1>4 DEF IndInv, TypeOK
  <2>8. n = LastVersion(events', e)
    BY <1>1
  <2> HIDE DEF n, t
  <2>9. /\ r \in Active /\ r.pc = "tail" /\ r.tries = t /\ r.cmd = writer[w].cmd
        /\ r.seen = writer[w].seen /\ r.post = writer[w].post
    BY <1>2, <2>6, Zenon DEF Active
  <2> HIDE DEF r
  <2>10. WriterInv(w)'
    BY <1>1, <2>4, <2>6, <2>7, <2>8, <2>9, Zenon DEF WriterInv
  <2> QED
    BY <1>1, <1>4, <2>9, <2>10, MoveKeeps, Zenon
<1> QED
  BY <1>3, <1>4, Zenon DEF InsertVersionTaken

\* An event_id that is already stored.
LEMMA InsertDuplicateKeeps ==
  ASSUME IndInv, NEW w \in Writers, InsertDuplicate(w)
  PROVE  IndInv'
<1>1. /\ writer[w] # Idle /\ UNCHANGED <<events, cur, snaps, evaluated>>
      /\ started' \in 0 .. MaxWrites /\ aborts' \in 0 .. MaxAborts
      /\ KeyClash(events, writer[w].cmd.key)
      /\ Answer(w, writer[w].cmd, "duplicate", writer[w].seen.v)
  BY DEF InsertDuplicate, Idle, IndInv, TypeOK
<1>2. writer[w] \in Active
  BY <1>1, WriterTypes, Zenon DEF IndInv
<1>3. writer[w].cmd \in Commands /\ writer[w].seen.v \in Nat
  BY <1>2, Zenon DEF Active, CurrentStates
<1> QED
  BY <1>1, <1>3, AnswerKeeps, Zenon DEF Statuses

\* A failed call or a crash.
LEMMA AbortKeeps ==
  ASSUME IndInv, NEW w \in Writers, Abort(w)
  PROVE  IndInv'
<1>1. /\ writer[w] # Idle /\ UNCHANGED <<events, cur, snaps, evaluated>>
      /\ started' \in 0 .. MaxWrites /\ aborts' \in 0 .. MaxAborts
      /\ Answer(w, writer[w].cmd, "error", 0)
  BY IngestAssumption DEF Abort, IndInv, TypeOK
<1>2. writer[w].cmd \in Commands
  BY <1>1, WriterTypes, Zenon DEF IndInv, Active
<1> QED
  BY <1>1, <1>2, AnswerKeeps, Zenon DEF Statuses

\* A writer past its insert has the event its post-store steps speak of.
LEMMA Committed ==
  ASSUME IndInv, NEW w \in Writers, writer[w].pc \in {"upsert", "post", "rules"}
  PROVE  /\ writer[w] # Idle /\ Document(w) \in events
         /\ Document(w).eid = writer[w].cmd.eid /\ Document(w).v = writer[w].v
         /\ Document(w).key = writer[w].cmd.key
         /\ Document(w).post = [state |-> writer[w].post.state,
                                deleted |-> writer[w].post.deleted]
<1>1. writer[w] # Idle
  BY DEF Idle
<1>2. writer[w] \in Active
  BY <1>1, WriterTypes, Zenon DEF IndInv
<1>3. writer[w].post = [state |-> writer[w].post.state,
                        deleted |-> writer[w].post.deleted]
  BY <1>2, Zenon DEF Active, Posts
<1>4. Document(w) \in events
  BY <1>1, Zenon DEF IndInv, WriterInv
<1> QED
  BY <1>1, <1>3, <1>4, Zenon DEF Document

\* The upsert of cur_*.
LEMMA UpsertKeeps ==
  ASSUME IndInv, NEW w \in Writers, Upsert(w)
  PROVE  IndInv'
<1> DEFINE r == [writer[w] EXCEPT !.pc = "post"]
           e == writer[w].cmd.eid
           new == [v |-> writer[w].v, deleted |-> writer[w].post.deleted,
                   state |-> writer[w].post.state]
<1>1. /\ writer[w].pc = "upsert" /\ writer' = [writer EXCEPT ![w] = r]
      /\ cur' = [cur EXCEPT ![e] = new]
      /\ UNCHANGED <<events, snaps, evaluated, replies, started, aborts>>
  BY DEF Upsert, Goto
<1>2. Grown
  BY <1>1, SameEvents, Zenon
<1>3. /\ writer[w] # Idle /\ Document(w) \in events
      /\ Document(w).eid = e /\ Document(w).v = writer[w].v
      /\ Document(w).post = [state |-> writer[w].post.state,
                             deleted |-> writer[w].post.deleted]
  BY <1>1, Committed, ZenonT(40)
<1>4. writer[w] \in Active /\ e \in Entities
  BY <1>3, WriterTypes, Zenon DEF IndInv
<1>5. /\ r \in Active /\ r.pc = "post" /\ r.cmd = writer[w].cmd
      /\ r.seen = writer[w].seen /\ r.tries = writer[w].tries
      /\ r.post = writer[w].post /\ r.v = writer[w].v /\ r.op = writer[w].op
      /\ r.changes = writer[w].changes /\ r.link = writer[w].link
  BY <1>4 DEF Active
<1>6. writer'[w] = r
  BY <1>1, Zenon DEF IndInv, TypeOK
<1> HIDE DEF r
<1>7. TypeOK'
  <2>1. new \in CurrentStates
    BY <1>4, Zenon DEF Active, Posts, CurrentStates
  <2> QED
    BY <1>1, <1>4, <1>5, <2>1, Zenon DEF IndInv, TypeOK
<1>8. \A u \in Writers : WriterInv(u)'
  <2> TAKE u \in Writers
  <2>1. CASE u # w
    <3>1. writer'[u] = writer[u]
      BY <1>1, <2>1, Zenon DEF IndInv, TypeOK
    <3> QED
      BY <1>2, <3>1, OthersKeep
  <2>2. CASE u = w
    <3>1. Document(w)' = Document(w)
      BY <1>5, <1>6, Zenon DEF Document
    <3>2. WriterInv(w)
      BY Zenon DEF IndInv
    <3> QED
      BY <1>1, <1>3, <1>5, <1>6, <2>2, <3>1, <3>2, ZenonT(40) DEF WriterInv
  <2> QED
    BY <2>1, <2>2, Zenon
<1>9. MaterializedIsHistory'
  <2>1. WrittenBy(e, new)
    BY <1>3, Zenon DEF WrittenBy
  <2>2. \A x \in Entities : cur'[x] = IF x = e THEN new ELSE cur[x]
    BY <1>1, Zenon DEF IndInv, TypeOK
  <2> HIDE DEF new
  <2>3. \A x \in Entities : cur'[x].v # 0 => WrittenBy(x, cur'[x])
    BY <2>1, <2>2, Zenon DEF IndInv, MaterializedIsHistory
  <2> QED
    BY <1>1, <2>3, Zenon DEF IndInv, MaterializedIsHistory, WrittenBy
<1>10. AnswersAreTrue'
  BY <1>1, Zenon DEF IndInv, AnswersAreTrue, StoredIsTrue, KeyClash
<1> QED
  BY <1>2, <1>7, <1>8, <1>9, <1>10 DEF IndInv, Grown

\* The snapshot, saved, lost or not due.
LEMMA SnapshotKeeps ==
  ASSUME IndInv, NEW w \in Writers, BuildSnapshot(w)
  PROVE  IndInv'
<1> DEFINE r == [writer[w] EXCEPT !.pc = "rules"]
<1>1. /\ writer[w].pc = "post" /\ writer' = [writer EXCEPT ![w] = r]
      /\ UNCHANGED <<events, cur, evaluated, replies, started>>
  BY DEF BuildSnapshot, Goto
<1>2. /\ snaps' \subseteq snaps \cup {Snapshot(w)}
      /\ aborts' \in 0 .. MaxAborts
  <2>1. /\ snaps' = snaps \/ snaps' = SaveSnapshot(snaps, Snapshot(w))
        /\ aborts' = aborts \/ (aborts < MaxAborts /\ aborts' = aborts + 1)
    BY Zenon DEF BuildSnapshot
  <2>2. SaveSnapshot(snaps, Snapshot(w)) \subseteq snaps \cup {Snapshot(w)}
    BY DEF SaveSnapshot
  <2>3. aborts \in 0 .. MaxAborts
    BY Zenon DEF IndInv, TypeOK
  <2>4. aborts' \in 0 .. MaxAborts
    BY <2>1, <2>3, IngestAssumption
  <2> QED
    BY <2>1, <2>2, <2>4, Zenon
<1>3. Grown
  BY <1>1, SameEvents, Zenon
<1>4. /\ writer[w] # Idle /\ Document(w) \in events
      /\ Document(w).eid = writer[w].cmd.eid /\ Document(w).v = writer[w].v
      /\ Document(w).post = [state |-> writer[w].post.state,
                             deleted |-> writer[w].post.deleted]
  BY <1>1, Committed, ZenonT(40)
<1>5. /\ writer[w] \in Active
      /\ Snapshot(w) \in [eid : Entities, v : Nat, deleted : BOOLEAN, state : Objects]
  BY <1>4, WriterTypes, Zenon DEF IndInv
<1>6. /\ r \in Active /\ r.pc = "rules" /\ r.cmd = writer[w].cmd
      /\ r.seen = writer[w].seen /\ r.tries = writer[w].tries
      /\ r.post = writer[w].post /\ r.v = writer[w].v /\ r.op = writer[w].op
      /\ r.changes = writer[w].changes /\ r.link = writer[w].link
  BY <1>5 DEF Active
<1>7. writer'[w] = r
  BY <1>1, Zenon DEF IndInv, TypeOK
<1> HIDE DEF r
<1>8. TypeOK'
  BY <1>1, <1>2, <1>5, <1>6, Zenon DEF IndInv, TypeOK
<1>9. \A u \in Writers : WriterInv(u)'
  <2> TAKE u \in Writers
  <2>1. CASE u # w
    <3>1. writer'[u] = writer[u]
      BY <1>1, <2>1, Zenon DEF IndInv, TypeOK
    <3> QED
      BY <1>3, <3>1, OthersKeep
  <2>2. CASE u = w
    <3>1. Document(w)' = Document(w)
      BY <1>6, <1>7, Zenon DEF Document
    <3>2. WriterInv(w)
      BY Zenon DEF IndInv
    <3> QED
      BY <1>1, <1>4, <1>6, <1>7, <2>2, <3>1, <3>2, ZenonT(40) DEF WriterInv
  <2> QED
    BY <2>1, <2>2, Zenon
<1>10. MaterializedIsHistory'
  <2>1. WrittenBy(Snapshot(w).eid, Snapshot(w))
    BY <1>4, Zenon DEF WrittenBy, Snapshot
  <2>2. \A s \in snaps' : WrittenBy(s.eid, s)
    BY <1>2, <2>1, Zenon DEF IndInv, MaterializedIsHistory
  <2> QED
    BY <1>1, <2>2, Zenon DEF IndInv, MaterializedIsHistory, WrittenBy
<1>11. AnswersAreTrue'
  BY <1>1, Zenon DEF IndInv, AnswersAreTrue, StoredIsTrue, KeyClash
<1> QED
  BY <1>3, <1>8, <1>9, <1>10, <1>11 DEF IndInv, Grown

\* The rules and the answer "stored".
LEMMA FinishKeeps ==
  ASSUME IndInv, NEW w \in Writers, Finish(w)
  PROVE  IndInv'
<1> DEFINE e == writer[w].cmd.eid
           new == [cmd |-> writer[w].cmd, status |-> "stored", v |-> writer[w].v]
<1>1. /\ writer[w].pc = "rules" /\ writer' = [writer EXCEPT ![w] = Idle]
      /\ replies' = replies \cup {new}
      /\ evaluated' = evaluated \cup {<<e, writer[w].v>>}
      /\ UNCHANGED <<events, cur, snaps, started, aborts>>
  BY DEF Finish, Answer
<1>2. Grown
  BY <1>1, SameEvents, Zenon
<1>3. /\ writer[w] # Idle /\ Document(w) \in events
      /\ Document(w).eid = e /\ Document(w).v = writer[w].v
      /\ Document(w).key = writer[w].cmd.key
      /\ Document(w).post = [state |-> writer[w].post.state,
                             deleted |-> writer[w].post.deleted]
  BY <1>1, Committed, Zenon
<1>4. writer[w] \in Active /\ e \in Entities
  BY <1>3, WriterTypes, Zenon DEF IndInv
<1>5. TypeOK'
  <2>1. new \in [cmd : Commands, status : Statuses, v : Nat]
    BY <1>4, Zenon DEF Active, Statuses
  <2>2. <<e, writer[w].v>> \in Entities \X Nat
    BY <1>4 DEF Active
  <2> HIDE DEF new
  <2> QED
    BY <1>1, <1>4, <2>1, <2>2, Zenon DEF IndInv, TypeOK
<1>6. \A u \in Writers : WriterInv(u)'
  <2> TAKE u \in Writers
  <2>1. CASE u = w
    BY <1>1, <2>1, Zenon DEF IndInv, TypeOK, WriterInv
  <2>2. CASE u # w
    <3>1. writer'[u] = writer[u]
      BY <1>1, <2>2, Zenon DEF IndInv, TypeOK
    <3> QED
      BY <1>2, <3>1, OthersKeep
  <2> QED
    BY <2>1, <2>2, Zenon
<1>7. MaterializedIsHistory'
  BY <1>1, <1>2, SameMaterialized, Zenon
<1>8. AnswersAreTrue'
  <2>1. writer[w].cmd.kind = "state" =>
          Document(w).post = [state |-> writer[w].cmd.state, deleted |-> FALSE]
    BY <1>3, Zenon DEF IndInv, WriterInv, Document
  <2> PICK x : x = new
    BY Zenon
  <2>2. ReplyInv(x)'
    <3>1. /\ x.status = "stored" /\ x.cmd = writer[w].cmd /\ x.v = writer[w].v
      BY Zenon
    <3>2. <<x.cmd.eid, x.v>> \in evaluated'
      BY <1>1, <3>1
    <3>3. Document(w) \in events'
      BY <1>1, <1>3, Zenon
    <3>4. StoredIsTrue(x)'
      BY <1>3, <2>1, <3>1, <3>2, <3>3, Zenon DEF StoredIsTrue
    <3> QED
      BY <3>1, <3>4, Zenon DEF ReplyInv
  <2>3. \A r \in replies : ReplyInv(r)'
    BY <1>1, <1>2, RepliesKeep, Zenon
  <2>4. \A r \in replies' : ReplyInv(r)'
    BY <1>1, <2>2, <2>3, Zenon
  <2> QED
    BY <2>4, Zenon DEF ReplyInv, AnswersAreTrue
<1> QED
  BY <1>2, <1>5, <1>6, <1>7, <1>8 DEF IndInv, Grown

\* Every step of the system, and every stuttering step, keeps the invariant.
LEMMA NextKeeps == IndInv /\ [Next]_vars => IndInv'
<1> SUFFICES ASSUME IndInv, [Next]_vars PROVE IndInv'
  BY Zenon
<1>1. ASSUME NEW w \in Writers, Step(w)
      PROVE  IndInv'
  BY <1>1, PreStoreKeeps, ReadTailKeeps, InsertLandsKeeps, InsertVersionTakenKeeps,
     InsertDuplicateKeeps, UpsertKeeps, SnapshotKeeps, FinishKeeps, Zenon DEF Step
<1>2. CASE UNCHANGED vars
  <2>1. Grown
    BY <1>2, SameEvents, Zenon DEF vars
  <2>2. TypeOK'
    BY <1>2, Zenon DEF vars, IndInv, TypeOK
  <2>3. \A w \in Writers : WriterInv(w)'
    BY <1>2, <2>1, OthersKeep, Zenon DEF vars
  <2>4. MaterializedIsHistory'
    BY <1>2, <2>1, SameMaterialized, Zenon DEF vars
  <2>5. AnswersAreTrue'
    BY <1>2, Zenon DEF vars, IndInv, AnswersAreTrue, StoredIsTrue, KeyClash
  <2> QED
    BY <2>1, <2>2, <2>3, <2>4, <2>5, Zenon DEF IndInv, Grown
<1> QED
  BY <1>1, <1>2, StartKeeps, AbortKeeps DEF Next, Done

-----------------------------------------------------------------------------
(* The theorems.                                                           *)

\* Whatever the writers do, the invariant holds in every reachable state.
THEOREM Invariance == Spec => []IndInv
BY InitInv, NextKeeps, PTL DEF Spec

\* The variables of the write path keep their types.
THEOREM TypeCorrect == Spec => []TypeOK
<1>1. IndInv => TypeOK
  BY Zenon DEF IndInv
<1> QED
  BY <1>1, Invariance, PTL

\* For any number of concurrent writers, of retries and of failed calls, the
\* versions AppendEvent gave an entity are 1 .. n, each given once.
THEOREM HistoryIsGapFree == Spec => []GapFreeHistory
<1>1. IndInv => GapFreeHistory
  <2> SUFFICES ASSUME IndInv, NEW e \in Entities
               PROVE  /\ {d.v : d \in Of(events, e)} = 1 .. LastVersion(events, e)
                      /\ \A d1, d2 \in Of(events, e) : d1.v = d2.v => d1 = d2
    BY DEF GapFreeHistory
  <2>1. Versions(events, e) = 1 .. LastVersion(events, e)
    BY LastVersionType DEF IndInv, StoreInv
  <2> QED
    BY <2>1, Zenon DEF Versions, Of, IndInv, StoreInv, UniqueVersions
<1> QED
  BY <1>1, Invariance, PTL

\* Whatever fails or interleaves, what cur_* and sn_* hold is the state some stored
\* event of that version left.
THEOREM MaterializedIsBacked == Spec => []MaterializedIsHistory
<1>1. IndInv => MaterializedIsHistory
  BY DEF IndInv
<1> QED
  BY <1>1, Invariance, PTL

\* Every "stored" answer names an event with the command's key and state that the
\* rules engine was given; every "duplicate" answer an event_id that is stored.
THEOREM AnswersHold == Spec => []AnswersAreTrue
<1>1. IndInv => AnswersAreTrue
  BY Zenon DEF IndInv
<1> QED
  BY <1>1, Invariance, PTL

\* Whatever maxAppendRetries is, AppendEvent spends its n-th attempt only when n
\* other writes of the entity landed since the command loaded its state.
THEOREM RetriesMeetProgress == Spec => []CollisionsAreProgress
<1>1. IndInv => CollisionsAreProgress
  BY Zenon DEF IndInv, WriterInv, CollisionsAreProgress
<1> QED
  BY <1>1, Invariance, PTL

-----------------------------------------------------------------------------
(* The store implements the append-only log of History.                    *)


\* A history that is empty at first.
LEMMA LogStarts == Init => Abstract!Init
<1> SUFFICES ASSUME Init, NEW e \in Entities
             PROVE  [v \in 1 .. LastVersion(events, e) |-> EventAt(events, e, v)] = <<>>
  BY Zenon DEF Abstract!Init, Log
<1>1. Versions(events, e) = 1 .. 0
  BY DEF Init, Versions, Of
<1>2. LastVersion(events, e) = 0
  BY <1>1, LastVersionIs, Zenon
<1> QED
  BY <1>2

\* A log of n entries is a sequence.
LEMMA LogIs ==
  ASSUME StoreInv, NEW e \in Entities
  PROVE  /\ Log[e] \in Seq(events) /\ Len(Log[e]) = LastVersion(events, e)
         /\ \A v \in 1 .. LastVersion(events, e) : Log[e][v] = EventAt(events, e, v)
<1> DEFINE n == LastVersion(events, e)
<1>1. n \in Nat
  BY LastVersionType DEF StoreInv
<1>2. Log[e] = [v \in 1 .. n |-> EventAt(events, e, v)]
  BY Zenon DEF Log
<1>3. \A v \in 1 .. n : EventAt(events, e, v) \in events
  BY EventAtStored
<1> HIDE DEF n
<1> QED
  BY <1>1, <1>2, <1>3 DEF n

\* An insert that lands appends its document to its entity's log, with an
\* event_id that no log holds.
LEMMA InsertIsGrow ==
  ASSUME IndInv, NEW w \in Writers, InsertLands(w)
  PROVE  Abstract!Next
<1> DEFINE d == Document(w)
           e == writer[w].cmd.eid
           n == LastVersion(events, e)
<1>1. writer[w] # Idle
  BY DEF InsertLands, Idle
<1>2. e \in Entities
  BY <1>1, WriterTypes, Zenon DEF IndInv
<1>3. StoreInv /\ StoreInv' /\ events' = events \cup {d}
  BY InsertKeepsStore, Zenon DEF IndInv, InsertLands
<1> HIDE DEF d, e
<1>4. \A x \in Entities : /\ Log[x] \in Seq(events) /\ Len(Log[x]) = LastVersion(events, x)
                          /\ \A v \in 1 .. LastVersion(events, x) :
                               Log[x][v] = EventAt(events, x, v)
  BY <1>3, LogIs, Zenon
<1>5. \A x \in Entities : /\ LastVersion(events', x) = IF x = e THEN n + 1
                                                        ELSE LastVersion(events, x)
                          /\ \A v \in 1 .. LastVersion(events, x) :
                               EventAt(events', x, v) = EventAt(events, x, v)
                          /\ x = e => EventAt(events', x, n + 1) = d
  BY InsertGrows, Zenon DEF d, e
<1>6. \A x \in Entities : LastVersion(events, x) \in Nat
  BY <1>3, LastVersionType DEF StoreInv
<1>7. Log' = [x \in Entities |-> [v \in 1 .. LastVersion(events', x) |-> EventAt(events', x, v)]]
  BY Zenon DEF Log
<1>8. \A x \in Entities : x # e => Log'[x] = Log[x]
  <2> TAKE x \in Entities
  <2> HAVE x # e
  <2>1. Log'[x] = [v \in 1 .. LastVersion(events, x) |-> EventAt(events', x, v)]
    BY <1>5, <1>7, Zenon
  <2>2. Log[x] = [v \in 1 .. LastVersion(events, x) |-> EventAt(events, x, v)]
    BY Zenon DEF Log
  <2> QED
    BY <1>5, <2>1, <2>2, Zenon
<1>9. Log'[e] = Append(Log[e], d)
  <2>1. Log'[e] = [v \in 1 .. (n + 1) |-> EventAt(events', e, v)]
    BY <1>2, <1>5, <1>7, Zenon
  <2>2. n \in Nat /\ Log[e] \in Seq(events) /\ Len(Log[e]) = n
    BY <1>2, <1>4, <1>6, Zenon
  <2>3. \A v \in 1 .. n : EventAt(events', e, v) = Log[e][v]
    BY <1>2, <1>4, <1>5, Zenon
  <2>4. EventAt(events', e, n + 1) = d
    BY <1>2, <1>5, Zenon
  <2> HIDE DEF n
  <2>5. Append(Log[e], d) = [v \in 1 .. (n + 1) |-> IF v = n + 1 THEN d ELSE Log[e][v]]
    BY <2>2
  <2>6. \A v \in 1 .. (n + 1) : EventAt(events', e, v) = IF v = n + 1 THEN d ELSE Log[e][v]
    BY <2>2, <2>3, <2>4
  <2> QED
    BY <2>1, <2>5, <2>6, Zenon
<1>10. Len(Log'[e]) = Len(Log[e]) + 1 /\ Log'[e][Len(Log'[e])] = d
  <2>1. n \in Nat /\ Log[e] \in Seq(events \cup {d}) /\ Len(Log[e]) = n
    BY <1>2, <1>4, <1>6
  <2> QED
    BY <1>9, <2>1
<1>11. Log' = [Log EXCEPT ![e] = Append(@, d)]
  <2>1. Log = [x \in Entities |-> Log[x]] /\ Log' = [x \in Entities |-> Log'[x]]
    BY <1>7, Zenon DEF Log
  <2> QED
    BY <1>2, <1>8, <1>9, <2>1, Zenon
<1>12. Abstract!Fresh(d.key)
  <2> SUFFICES ASSUME d.key # NoKey, NEW x \in Entities, NEW v \in 1 .. Len(Log[x])
               PROVE  Log[x][v].key # d.key
    BY ZenonT(40) DEF Abstract!Fresh
  <2>1. Log[x][v] \in events
    BY <1>3, <1>4, EventAtStored
  <2>2. d.key = writer[w].cmd.key
    BY Zenon DEF d, Document
  <2> QED
    BY <2>1, <2>2, Zenon DEF InsertLands, KeyClash
<1>13. Abstract!Grow(e)
  BY <1>10, <1>11, <1>12, Zenon DEF Abstract!Grow
<1> QED
  BY <1>2, <1>13, Zenon DEF Abstract!Next

\* Every other step leaves ev_*, and with it the logs, alone.
LEMMA StepOfTheLog == IndInv /\ [Next]_vars => [Abstract!Next]_Log
<1> SUFFICES ASSUME IndInv, [Next]_vars, events' # events
             PROVE  Abstract!Next
  BY DEF Log
<1>1. PICK w \in Writers : InsertLands(w)
  BY ZenonT(40) DEF Next, Done, vars, Start, StartConflict, StartRefused, StartWrite, Admit, Step, Abort,
         RunPreStore, PluginError, ReadTail, InsertVersionTaken, InsertDuplicate, Upsert,
         BuildSnapshot, Finish
<1> QED
  BY <1>1, InsertIsGrow

\* The ev_* documents of each entity, in version order, are an append-only log in
\* which an event_id occurs once: no writer, retry, plugin error, failed call or
\* crash rewrites, reorders, removes or repeats an event.
THEOREM StoreIsAppendOnly == Spec => RefinesHistory
BY LogStarts, StepOfTheLog, Invariance, PTL DEF Spec, RefinesHistory, Abstract!Spec

-----------------------------------------------------------------------------
(* Writes of an entity that do not overlap.  What commitEvent leaves is    *)
(* then never older than what it found, and the tail a writer read, for    *)
(* the version, the expected version and the hash chain alike, is still    *)
(* the tail when its event lands.                                          *)

\* No two writers are at work on one entity: a client that waits for its answers,
\* or a queue partition with one worker.
Serial ==
  \A u, w \in Writers : u # w /\ writer[u] # Idle /\ writer[w] # Idle
                          => writer[u].cmd.eid # writer[w].cmd.eid

\* A link that continues the chain of an entity with n events.
Fits(S, e, n, link) ==
  link # NoLink =>
    /\ n = 0 => link = 0
    /\ \A p \in S : p.eid = e /\ p.v = n => link = IF p.link # NoLink THEN n ELSE 0

\* What a writer knows of its entity is still so.
SerialWriter(w) ==
  writer[w] # Idle =>
    /\ writer[w].pc = "prestore" => writer[w].link = NoLink
    /\ writer[w].pc \in {"tail", "insert"} =>
         Fits(events, writer[w].cmd.eid, LastVersion(events, writer[w].cmd.eid), writer[w].link)
    /\ writer[w].cmd.expected # Nil => writer[w].cmd.expected = writer[w].seen.v
    /\ writer[w].pc = "upsert" => writer[w].v = LastVersion(events, writer[w].cmd.eid)
    /\ aborts = 0 =>
         /\ writer[w].pc \in {"prestore", "tail", "insert"} =>
              writer[w].seen.v = LastVersion(events, writer[w].cmd.eid)
         /\ writer[w].pc \in {"upsert", "post", "rules"} => writer[w].v = writer[w].seen.v + 1

\* The event of entity e is stored and its cur_* document is yet to be written.
Committing(e) ==
  \E w \in Writers : writer[w] # Idle /\ writer[w].cmd.eid = e /\ writer[w].pc = "upsert"

ChainInv == \A d \in events : Fits(events, d.eid, d.v - 1, d.link)

CurrentInv ==
  aborts = 0 => \A e \in Entities : Committing(e) \/ cur[e].v = LastVersion(events, e)

SerialInv ==
  /\ ChainInv /\ CurrentInv /\ OptimisticLock
  /\ \A w \in Writers : SerialWriter(w)

\* At first there is nothing to continue.
LEMMA SerialStarts == Init => SerialInv
<1> SUFFICES ASSUME Init
             PROVE  SerialInv
  OBVIOUS
<1>1. \A e \in Entities : LastVersion(events, e) = 0
  <2> TAKE e \in Entities
  <2>1. Versions(events, e) = 1 .. 0
    BY DEF Init, Versions, Of
  <2> QED
    BY <2>1, LastVersionIs
<1>2. CurrentInv
  BY <1>1, Zenon DEF Init, CurrentInv, NoDocument
<1>3. ChainInv /\ OptimisticLock /\ \A w \in Writers : SerialWriter(w)
  BY Zenon DEF Init, ChainInv, OptimisticLock, SerialWriter
<1> QED
  BY <1>2, <1>3 DEF SerialInv

\* A writer whose entity's history does not change keeps what it knows.
LEMMA OthersStaySerial ==
  ASSUME IndInv, SerialInv, NEW u \in Writers, writer'[u] = writer[u],
         aborts' = 0 => aborts = 0, UNCHANGED events
  PROVE  SerialWriter(u)'
BY Zenon DEF SerialInv, SerialWriter, Fits

\* The invariant after a step of w that leaves ev_* and cur_* alone.
LEMMA SerialMove ==
  ASSUME IndInv, SerialInv, NEW w \in Writers, NEW r,
         writer' = [writer EXCEPT ![w] = r], UNCHANGED <<events, cur>>,
         aborts' = 0 => aborts = 0 /\ (writer[w] = Idle \/ writer[w].pc # "upsert"),
         SerialWriter(w)', OptimisticLock'
  PROVE  SerialInv'
<1>1. \A u \in Writers : u # w => writer'[u] = writer[u]
  BY Zenon DEF IndInv, TypeOK
<1>2. \A u \in Writers : SerialWriter(u)'
  BY <1>1, OthersStaySerial, Zenon
<1>3. ChainInv'
  BY Zenon DEF SerialInv, ChainInv, Fits
<1>4. CurrentInv'
  <2> SUFFICES ASSUME aborts' = 0, NEW e \in Entities
               PROVE  Committing(e)' \/ cur[e].v = LastVersion(events, e)
    BY Zenon DEF CurrentInv
  <2>1. Committing(e) => Committing(e)'
    BY <1>1, Zenon DEF Committing
  <2> QED
    BY <2>1, Zenon DEF SerialInv, CurrentInv
<1> QED
  BY <1>2, <1>3, <1>4, Zenon DEF SerialInv

\* The same for an answer other than "stored".
LEMMA SerialAnswer ==
  ASSUME IndInv, SerialInv, NEW w \in Writers, NEW c, NEW status, NEW v,
         Answer(w, c, status, v), status # "stored", UNCHANGED <<events, cur>>,
         aborts' = 0 => aborts = 0 /\ (writer[w] = Idle \/ writer[w].pc # "upsert")
  PROVE  SerialInv'
<1>1. writer' = [writer EXCEPT ![w] = Idle] /\ writer'[w] = Idle
  BY Zenon DEF Answer, IndInv, TypeOK
<1>2. SerialWriter(w)'
  BY <1>1, Zenon DEF SerialWriter
<1>3. OptimisticLock'
  BY DEF SerialInv, OptimisticLock, Answer
<1> QED
  BY <1>1, <1>2, <1>3, SerialMove, Zenon

\* A command starts on an entity nobody else writes: cur_* is its tail.
LEMMA SerialStart ==
  ASSUME IndInv, SerialInv, Serial', NEW w \in Writers, NEW c \in Commands, Start(w, c)
  PROVE  SerialInv'
<1>1. Admit(w) /\ writer[w] = Idle /\ UNCHANGED <<events, cur, aborts>>
  BY Zenon DEF Start, StartConflict, StartRefused, StartWrite, Admit
<1>2. CASE StartConflict(w, c) \/ StartRefused(w, c)
  BY <1>1, <1>2, SerialAnswer, Zenon DEF StartConflict, StartRefused
<1>3. CASE StartWrite(w, c)
  <2> DEFINE plan == PlanEvent(c, cur[c.eid])
             r == [pc |-> IF PreStore = "off" THEN "tail" ELSE "prestore",
                   cmd |-> c, seen |-> cur[c.eid], op |-> plan.op,
                   changes |-> plan.changes, link |-> NoLink, post |-> plan.post,
                   v |-> 0, tries |-> 0]
  <2>1. /\ writer' = [writer EXCEPT ![w] = r] /\ UNCHANGED replies
        /\ VersionMatches(c.expected, cur[c.eid].v)
    BY <1>3, Zenon DEF StartWrite
  <2>2. /\ r.pc \in {"tail", "prestore"} /\ r.link = NoLink /\ r.cmd = c /\ r.seen = cur[c.eid]
        /\ r # Idle
    <3>1. r.link = NoLink /\ r.cmd = c /\ r.seen = cur[c.eid] /\ r.pc \in {"tail", "prestore"}
      BY Zenon
    <3> QED
      BY <3>1, Zenon DEF Idle
  <2> HIDE DEF r
  <2>3. writer'[w] = r /\ \A u \in Writers : u # w => writer'[u] = writer[u]
    BY <2>1, Zenon DEF IndInv, TypeOK
  <2>4. ~Committing(c.eid)
    <3> SUFFICES ASSUME NEW u \in Writers, writer[u] # Idle, writer[u].cmd.eid = c.eid
                 PROVE  FALSE
      BY Zenon DEF Committing
    <3>1. u # w /\ writer'[u] = writer[u]
      BY <1>1, <2>3, Zenon
    <3> QED
      BY <2>2, <2>3, <3>1, ZenonT(40) DEF Serial
  <2>5. c.eid \in Entities
    BY IngestAssumption, Zenon DEF IngestCommand
  <2>6. aborts = 0 => cur[c.eid].v = LastVersion(events, c.eid)
    BY <2>4, <2>5, Zenon DEF SerialInv, CurrentInv
  <2>7. SerialWriter(w)'
    BY <1>1, <2>1, <2>2, <2>3, <2>6, Zenon DEF SerialWriter, Fits, VersionMatches
  <2>8. OptimisticLock'
    BY <1>1, <2>1, Zenon DEF SerialInv, OptimisticLock
  <2> QED
    BY <1>1, <2>1, <2>7, <2>8, SerialMove, Zenon
<1> QED
  BY <1>2, <1>3, Zenon DEF Start

\* The hash-chain plugin links to the last event.
LEMMA PrevLinkFits ==
  ASSUME IndInv, NEW e \in Entities
  PROVE  Fits(events, e, LastVersion(events, e), PrevLink(e))
<1> DEFINE n == LastVersion(events, e)
<1>1. ASSUME NEW p \in events, p.eid = e, p.v = n
      PROVE  EventAt(events, e, n) = p
  BY <1>1, EventIs DEF IndInv, StoreInv, UniqueVersions
<1>2. \A p \in events : p.eid = e /\ p.v = n => n # 0
  <2>1. n \in Nat /\ Versions(events, e) = 1 .. n
    BY LastVersionType, Zenon DEF IndInv, StoreInv
  <2>2. \A p \in events : p.eid = e => p.v \in 1 .. n
    BY <2>1 DEF Versions, Of
  <2> QED
    BY <2>1, <2>2
<1> QED
  BY <1>1, <1>2, Zenon DEF Fits, PrevLink, LastEvent

\* Between the load and the insert: the pre-store hook, the read of the tail, and
\* the retry after a collision.
LEMMA SerialBefore ==
  ASSUME IndInv, SerialInv, NEW w \in Writers,
         RunPreStore(w) \/ PluginError(w) \/ ReadTail(w) \/ InsertVersionTaken(w)
           \/ InsertDuplicate(w)
  PROVE  SerialInv'
<1> DEFINE e == writer[w].cmd.eid
<1>1. /\ writer[w] # Idle /\ writer[w].pc \in {"prestore", "tail", "insert"}
      /\ UNCHANGED <<events, cur>> /\ (aborts' = 0 => aborts = 0)
  <2>1. writer[w].pc \in {"prestore", "tail", "insert"} /\ UNCHANGED <<events, cur>>
        /\ (UNCHANGED aborts \/ aborts' = aborts + 1)
    BY Zenon DEF RunPreStore, PluginError, ReadTail, InsertVersionTaken, InsertDuplicate
  <2>2. writer[w] # Idle
    BY <2>1 DEF Idle
  <2>3. aborts \in Nat
    BY IngestAssumption DEF IndInv, TypeOK
  <2> QED
    BY <2>1, <2>2, <2>3
<1>2. writer[w] \in Active /\ e \in Entities
  BY <1>1, WriterTypes, Zenon DEF IndInv
<1>3. ASSUME NEW c, NEW status, NEW v, Answer(w, c, status, v), status # "stored"
      PROVE  SerialInv'
  BY <1>1, <1>3, SerialAnswer, Zenon
<1>4. ASSUME NEW r \in Active, writer' = [writer EXCEPT ![w] = r], UNCHANGED replies,
             r.cmd = writer[w].cmd, r.seen = writer[w].seen, r.pc \in {"tail", "insert"},
             r.link \in {writer[w].link, PrevLink(e)}
      PROVE  SerialInv'
  <2>1. writer'[w] = r
    BY <1>4, Zenon DEF IndInv, TypeOK
  <2>2. SerialWriter(w)
    BY DEF SerialInv
  <2>3. Fits(events, e, LastVersion(events, e), r.link)
    BY <1>1, <1>2, <1>4, <2>2, PrevLinkFits, Zenon DEF SerialWriter, Fits
  <2>4. SerialWriter(w)'
    BY <1>1, <1>4, <2>1, <2>2, <2>3, Zenon DEF SerialWriter, Fits
  <2>5. OptimisticLock'
    BY <1>1, <1>4, Zenon DEF SerialInv, OptimisticLock
  <2> QED
    BY <1>1, <1>4, <2>4, <2>5, SerialMove, Zenon
<1>5. CASE RunPreStore(w)
  <2> DEFINE r == [writer[w] EXCEPT !.pc = "tail", !.link = PrevLink(e)]
  <2>1. LastVersion(events, e) \in Nat
    BY <1>2, LastVersionType, Zenon DEF IndInv, StoreInv
  <2>2. PrevLink(e) \in Nat
    BY <2>1, Zenon DEF PrevLink
  <2>3. /\ r \in Active /\ r.cmd = writer[w].cmd /\ r.seen = writer[w].seen /\ r.pc = "tail"
        /\ r.link = PrevLink(e)
    BY <1>2, <2>2, Zenon DEF Active
  <2>4. writer' = [writer EXCEPT ![w] = r] /\ UNCHANGED replies
    BY <1>5, Zenon DEF RunPreStore
  <2> QED
    BY <1>4, <2>3, <2>4, Zenon
<1>6. CASE ReadTail(w)
  <2> DEFINE r == [writer[w] EXCEPT !.pc = "insert", !.v = LastVersion(events, e) + 1]
  <2>1. LastVersion(events, e) + 1 \in Nat
    BY <1>2, LastVersionType DEF IndInv, StoreInv
  <2>2. /\ r \in Active /\ r.cmd = writer[w].cmd /\ r.seen = writer[w].seen /\ r.pc = "insert"
        /\ r.link = writer[w].link
    BY <1>2, <2>1, Zenon DEF Active
  <2>3. writer' = [writer EXCEPT ![w] = r] /\ UNCHANGED replies
    BY <1>6, Zenon DEF ReadTail
  <2> QED
    BY <1>4, <2>2, <2>3, Zenon
<1>7. CASE PluginError(w) /\ PreStore # "closed"
  <2> DEFINE r == [writer[w] EXCEPT !.pc = "tail"]
  <2>1. /\ r \in Active /\ r.cmd = writer[w].cmd /\ r.seen = writer[w].seen /\ r.pc = "tail"
        /\ r.link = writer[w].link
    BY <1>2 DEF Active
  <2>2. writer' = [writer EXCEPT ![w] = r] /\ UNCHANGED replies
    BY <1>7 DEF PluginError, Goto
  <2> QED
    BY <1>4, <2>1, <2>2, Zenon
<1>8. CASE /\ InsertVersionTaken(w) /\ UNCHANGED replies
           /\ writer[w].tries + 1 < MaxAppendRetries
           /\ writer' = [writer EXCEPT ![w] = [writer[w] EXCEPT !.pc = "tail", !.tries = @ + 1]]
  <2> DEFINE t == writer[w].tries + 1
             r == [writer[w] EXCEPT !.pc = "tail", !.tries = t]
  <2>1. t \in 0 .. MaxAppendRetries
    <3>1. MaxAppendRetries \in Nat
      BY IngestAssumption, Zenon
    <3>2. writer[w].tries \in 0 .. MaxAppendRetries
      BY <1>2, Zenon DEF Active
    <3> QED
      BY <1>8, <3>1, <3>2
  <2>2. writer' = [writer EXCEPT ![w] = r]
    BY <1>8
  <2> HIDE DEF t
  <2>3. /\ r \in Active /\ r.cmd = writer[w].cmd /\ r.seen = writer[w].seen /\ r.pc = "tail"
        /\ r.link = writer[w].link
    BY <1>2, <2>1, ZenonT(40) DEF Active
  <2> QED
    BY <1>4, <1>8, <2>2, <2>3, Zenon
<1>9. CASE InsertDuplicate(w)
  <2>1. Answer(w, writer[w].cmd, "duplicate", writer[w].seen.v)
    BY <1>9, Zenon DEF InsertDuplicate
  <2>2. "duplicate" # "stored"
    OBVIOUS
  <2> QED
    BY <1>3, <2>1, <2>2, Zenon
<1>10. CASE PluginError(w) /\ PreStore = "closed"
  <2>1. Answer(w, writer[w].cmd, "rejected", 0)
    BY <1>10, Zenon DEF PluginError
  <2>2. "rejected" # "stored"
    OBVIOUS
  <2> QED
    BY <1>3, <2>1, <2>2, Zenon
<1>11. CASE InsertVersionTaken(w)
  <2>1. CASE Answer(w, writer[w].cmd, "conflict", 0)
    <3>1. "conflict" # "stored"
      OBVIOUS
    <3> QED
      BY <1>3, <2>1, <3>1, Zenon
  <2>2. CASE ~Answer(w, writer[w].cmd, "conflict", 0)
    BY <1>8, <1>11, <2>2, Zenon DEF InsertVersionTaken
  <2> QED
    BY <2>1, <2>2, Zenon
<1> QED
  BY <1>5, <1>6, <1>7, <1>9, <1>10, <1>11, Zenon

\* The event lands: it continues the chain, and is the tail its writer commits.
LEMMA SerialLands ==
  ASSUME IndInv, SerialInv, Serial, NEW w \in Writers, InsertLands(w)
  PROVE  SerialInv'
<1> DEFINE d == Document(w)
           e == writer[w].cmd.eid
           n == LastVersion(events, e)
           r == [writer[w] EXCEPT !.pc = "upsert"]
<1>1. /\ writer[w] # Idle /\ writer[w].pc = "insert" /\ writer' = [writer EXCEPT ![w] = r]
      /\ events' = events \cup {d} /\ UNCHANGED <<cur, replies, aborts>>
  BY DEF InsertLands, Goto, Idle
<1>2. writer[w] \in Active /\ e \in Entities
  BY <1>1, WriterTypes DEF IndInv
<1>3. d.eid = e /\ d.v = writer[w].v /\ d.link = writer[w].link
  BY DEF Document
<1>4. writer[w].v = n + 1 /\ n \in Nat /\ Versions(events, e) = 1 .. n
  BY <1>2, LandsAtNext, LastVersionType, Zenon DEF IndInv, StoreInv
<1>5. \A x \in Entities : LastVersion(events', x) = IF x = e THEN n + 1
                                                  ELSE LastVersion(events, x)
  BY InsertGrows
<1>6. /\ r # Idle /\ r.pc = "upsert" /\ r.cmd = writer[w].cmd /\ r.v = writer[w].v
      /\ r.seen = writer[w].seen
  <2>1. r.pc = "upsert" /\ r.cmd = writer[w].cmd /\ r.v = writer[w].v /\ r.seen = writer[w].seen
    BY <1>2, Zenon DEF Active
  <2> QED
    BY <2>1 DEF Idle
<1> HIDE DEF d, r
<1>7. writer'[w] = r /\ \A u \in Writers : u # w => writer'[u] = writer[u]
  BY <1>1 DEF IndInv, TypeOK
<1>8. SerialWriter(w)
  BY Zenon DEF SerialInv
<1>9. \A x \in events : x.eid \in Entities /\ x.v \in Nat
  BY Zenon DEF IndInv, TypeOK, Documents
<1>10. ChainInv'
  <2>1. ASSUME NEW x \in events
        PROVE  Fits(events', x.eid, x.v - 1, x.link)
    <3>1. Fits(events, x.eid, x.v - 1, x.link)
      BY ZenonT(40) DEF SerialInv, ChainInv
    <3>2. ~(d.eid = x.eid /\ d.v = x.v - 1)
      <4> SUFFICES ASSUME d.eid = x.eid, d.v = x.v - 1
                   PROVE  FALSE
        BY Zenon
      <4>1. x.v \in 1 .. n
        BY <1>3, <1>4, Zenon DEF Versions, Of
      <4>2. n \in Nat /\ d.v = n + 1 /\ d.v = x.v - 1
        BY <1>3, <1>4, Zenon
      <4> HIDE DEF n
      <4> QED
        BY <4>1, <4>2
    <3> QED
      BY <1>1, <3>1, <3>2, Zenon DEF Fits
  <2>2. Fits(events', e, n, d.link)
    <3>1. Fits(events, e, n, d.link)
      BY <1>1, <1>3, <1>8, Zenon DEF SerialWriter
    <3>2. d.v # n
      <4>1. n \in Nat /\ d.v = n + 1
        BY <1>3, <1>4, Zenon
      <4> HIDE DEF n
      <4> QED
        BY <4>1
    <3> QED
      BY <1>1, <3>1, <3>2, Zenon DEF Fits
  <2>3. d.v - 1 = n
    BY <1>3, <1>4
  <2> QED
    BY <1>1, <1>3, <2>1, <2>2, <2>3, Zenon DEF ChainInv
<1>11. SerialWriter(w)'
  <2>1. LastVersion(events', e) = n + 1
    BY <1>2, <1>5, Zenon
  <2>2. aborts = 0 => writer[w].seen.v = n
    BY <1>1, <1>8, Zenon DEF SerialWriter
  <2>3. writer[w].cmd.expected # Nil => writer[w].cmd.expected = writer[w].seen.v
    BY <1>1, <1>8, Zenon DEF SerialWriter
  <2> HIDE DEF n
  <2> QED
    BY <1>1, <1>4, <1>6, <1>7, <2>1, <2>2, <2>3, ZenonT(40) DEF SerialWriter
<1>12. ASSUME NEW u \in Writers, u # w
       PROVE  SerialWriter(u)'
  <2> SUFFICES ASSUME writer[u] # Idle
               PROVE  SerialWriter(u)'
    BY <1>7, <1>12, Zenon DEF SerialWriter
  <2>1. writer[u].cmd.eid # e /\ writer[u].cmd.eid \in Entities
    BY <1>1, <1>12, WriterTypes, Zenon DEF Serial, IndInv
  <2>2. LastVersion(events', writer[u].cmd.eid) = LastVersion(events, writer[u].cmd.eid)
    BY <1>5, <2>1, Zenon
  <2>3. writer[u].pc \in {"tail", "insert"} =>
          Fits(events', writer[u].cmd.eid, LastVersion(events, writer[u].cmd.eid), writer[u].link)
    BY <1>1, <1>3, <2>1, Zenon DEF SerialInv, SerialWriter, Fits
  <2> QED
    BY <1>1, <1>7, <1>12, <2>2, <2>3, ZenonT(40) DEF SerialInv, SerialWriter
<1>13. CurrentInv'
  <2> SUFFICES ASSUME aborts = 0, NEW x \in Entities
               PROVE  Committing(x)' \/ cur[x].v = LastVersion(events', x)
    BY <1>1, Zenon DEF CurrentInv
  <2>1. CASE x = e
    BY <1>6, <1>7, <2>1, Zenon DEF Committing
  <2>2. CASE x # e
    <3>1. Committing(x) => Committing(x)'
      BY <1>1, <1>7, Zenon DEF Committing
    <3> QED
      BY <1>5, <2>2, <3>1, Zenon DEF SerialInv, CurrentInv
  <2> QED
    BY <2>1, <2>2, Zenon
<1>14. OptimisticLock'
  BY <1>1, Zenon DEF SerialInv, OptimisticLock
<1> QED
  BY <1>10, <1>11, <1>12, <1>13, <1>14, Zenon DEF SerialInv

\* commitEvent: the version it writes is the tail, so none is lost.
LEMMA SerialUpsert ==
  ASSUME IndInv, SerialInv, Serial, NEW w \in Writers, Upsert(w)
  PROVE  /\ SerialInv'
         /\ \A e \in Entities : cur'[e].v >= cur[e].v
<1> DEFINE e == writer[w].cmd.eid
           n == LastVersion(events, e)
           r == [writer[w] EXCEPT !.pc = "post"]
           new == [v |-> writer[w].v, deleted |-> writer[w].post.deleted,
                   state |-> writer[w].post.state]
<1>1. /\ writer[w] # Idle /\ writer[w].pc = "upsert" /\ writer' = [writer EXCEPT ![w] = r]
      /\ cur' = [cur EXCEPT ![e] = new] /\ UNCHANGED <<events, replies, aborts>>
  BY DEF Upsert, Goto, Idle
<1>2. writer[w] \in Active /\ e \in Entities
  BY <1>1, WriterTypes, Zenon DEF IndInv
<1>3. writer[w].v = n /\ n \in Nat
  BY <1>1, <1>2, LastVersionType, Zenon DEF SerialInv, SerialWriter, IndInv, StoreInv
<1>4. new.v = writer[w].v
  OBVIOUS
<1> HIDE DEF new
<1>5. \A x \in Entities : cur'[x] = IF x = e THEN new ELSE cur[x]
  BY <1>1 DEF IndInv, TypeOK
<1>6. /\ r # Idle /\ r.pc = "post" /\ r.cmd = writer[w].cmd /\ r.v = writer[w].v
      /\ r.seen = writer[w].seen
  <2>1. r.pc = "post" /\ r.cmd = writer[w].cmd /\ r.v = writer[w].v /\ r.seen = writer[w].seen
    BY <1>2, Zenon DEF Active
  <2> QED
    BY <2>1 DEF Idle
<1> HIDE DEF r
<1>7. writer'[w] = r /\ \A u \in Writers : u # w => writer'[u] = writer[u]
  BY <1>1, Zenon DEF IndInv, TypeOK
<1>8. SerialWriter(w)'
  BY <1>1, <1>6, <1>7, ZenonT(40) DEF SerialInv, SerialWriter
<1>9. \A u \in Writers : SerialWriter(u)'
  BY <1>1, <1>7, <1>8, OthersStaySerial, Zenon
<1>10. CurrentInv'
  <2> SUFFICES ASSUME aborts = 0, NEW x \in Entities
               PROVE  Committing(x)' \/ cur'[x].v = LastVersion(events, x)
    BY <1>1, Zenon DEF CurrentInv
  <2>1. CASE x = e
    BY <1>3, <1>4, <1>5, <2>1, Zenon
  <2>2. CASE x # e
    <3>1. Committing(x) => Committing(x)'
      BY <1>7, <2>2, Zenon DEF Committing
    <3> QED
      BY <1>5, <2>2, <3>1, Zenon DEF SerialInv, CurrentInv
  <2> QED
    BY <2>1, <2>2, Zenon
<1>11. ChainInv' /\ OptimisticLock'
  BY <1>1, Zenon DEF SerialInv, ChainInv, Fits, OptimisticLock
<1>12. \A x \in Entities : cur[x].v \in Nat /\ cur[x].v <= LastVersion(events, x)
  BY CurrentWithinHistory, Zenon
<1>13. ASSUME NEW x \in Entities
       PROVE  cur'[x].v >= cur[x].v
  <2>1. cur[x].v \in Nat /\ cur[x].v <= LastVersion(events, x)
    BY <1>12, Zenon
  <2>2. cur'[x].v = cur[x].v \/ (cur'[x].v = LastVersion(events, x) /\ x = e)
    BY <1>3, <1>4, <1>5, Zenon
  <2>3. cur'[x].v = cur[x].v \/ (cur'[x].v = LastVersion(events, x) /\ LastVersion(events, x) \in Nat)
    BY <1>3, <2>2, Zenon
  <2> HIDE DEF e, n
  <2> QED
    BY <2>1, <2>3
<1> QED
  BY <1>9, <1>10, <1>11, <1>13, Zenon DEF SerialInv

\* A snapshot is no part of what the writers and the tail agree on.
LEMMA SerialSnapshot ==
  ASSUME IndInv, SerialInv, NEW w \in Writers, BuildSnapshot(w)
  PROVE  SerialInv'
<1> DEFINE r == [writer[w] EXCEPT !.pc = "rules"]
<1>1. /\ writer[w] # Idle /\ writer[w].pc = "post" /\ writer' = [writer EXCEPT ![w] = r]
      /\ UNCHANGED <<events, cur, replies>>
  BY DEF BuildSnapshot, Goto, Idle
<1>2. aborts' = 0 => aborts = 0
  <2>1. aborts \in Nat
    BY IngestAssumption DEF IndInv, TypeOK
  <2>2. aborts' = aborts \/ aborts' = aborts + 1
    BY Zenon DEF BuildSnapshot
  <2> QED
    BY <2>1, <2>2
<1>3. /\ r.pc = "rules" /\ r.cmd = writer[w].cmd /\ r.v = writer[w].v
      /\ r.seen = writer[w].seen
  <2>1. writer[w] \in Active
    BY <1>1, WriterTypes, Zenon DEF IndInv
  <2> QED
    BY <2>1, Zenon DEF Active
<1> HIDE DEF r
<1>4. writer'[w] = r
  BY <1>1, Zenon DEF IndInv, TypeOK
<1>5. SerialWriter(w)'
  BY <1>1, <1>2, <1>3, <1>4, ZenonT(40) DEF SerialInv, SerialWriter
<1>6. OptimisticLock'
  BY <1>1, <1>2, Zenon DEF SerialInv, OptimisticLock
<1> QED
  BY <1>1, <1>2, <1>5, <1>6, SerialMove, Zenon

\* The answer "stored" carries the version after the one that was loaded.
LEMMA SerialFinish ==
  ASSUME IndInv, SerialInv, NEW w \in Writers, Finish(w)
  PROVE  SerialInv'
<1>1. /\ writer[w] # Idle /\ writer[w].pc = "rules" /\ writer' = [writer EXCEPT ![w] = Idle]
      /\ replies' = replies \cup {[cmd |-> writer[w].cmd, status |-> "stored", v |-> writer[w].v]}
      /\ UNCHANGED <<events, cur, aborts>>
  BY DEF Finish, Answer, Idle
<1>2. writer'[w] = Idle
  BY <1>1, Zenon DEF IndInv, TypeOK
<1>3. SerialWriter(w)'
  BY <1>2, Zenon DEF SerialWriter
<1>4. OptimisticLock'
  <2> SUFFICES ASSUME aborts' = 0, NEW x \in replies', x.status = "stored", x.cmd.expected # Nil
               PROVE  x.v = x.cmd.expected + 1
    BY Zenon DEF OptimisticLock
  <2>1. CASE x \in replies
    BY <1>1, <2>1, Zenon DEF SerialInv, OptimisticLock
  <2>2. CASE x = [cmd |-> writer[w].cmd, status |-> "stored", v |-> writer[w].v]
    <3>1. x.cmd = writer[w].cmd /\ x.v = writer[w].v
      BY <2>2, Zenon
    <3> QED
      BY <1>1, <3>1, Zenon DEF SerialInv, SerialWriter
  <2> QED
    BY <1>1, <2>1, <2>2, Zenon
<1> QED
  BY <1>1, <1>3, <1>4, SerialMove, Zenon

\* Every step keeps the invariant, and only an upsert touches cur_*.
LEMMA NextStaysSerial ==
  IndInv /\ SerialInv /\ Serial /\ Serial' /\ [Next]_vars
    => SerialInv' /\ \A e \in Entities : cur'[e].v >= cur[e].v
<1> SUFFICES ASSUME IndInv, SerialInv, Serial, Serial', [Next]_vars
             PROVE  SerialInv' /\ \A e \in Entities : cur'[e].v >= cur[e].v
  BY Zenon
<1>1. CASE \E w \in Writers : Upsert(w)
  BY <1>1, SerialUpsert, Zenon
<1>2. CASE ~\E w \in Writers : Upsert(w)
  <2>1. UNCHANGED cur
    BY <1>2, ZenonT(40) DEF Next, Done, vars, Start, StartConflict, StartRefused, StartWrite, Admit, Step,
                Abort, RunPreStore, PluginError, ReadTail, InsertLands, InsertVersionTaken,
                InsertDuplicate, BuildSnapshot, Finish
  <2>2. \A e \in Entities : cur[e].v \in Nat
    BY Zenon DEF IndInv, TypeOK, CurrentStates
  <2>3. \A e \in Entities : cur'[e].v >= cur[e].v
    BY <2>1, <2>2
  <2>4. ASSUME NEW w \in Writers, Abort(w)
        PROVE  SerialInv'
    <3>1. aborts \in Nat /\ aborts' = aborts + 1
      BY <2>4, IngestAssumption DEF Abort, IndInv, TypeOK
    <3>2. aborts' # 0
      BY <3>1
    <3> QED
      BY <2>4, <3>2, SerialAnswer, Zenon DEF Abort
  <2>5. ASSUME UNCHANGED vars
        PROVE  SerialInv'
    <3>1. \A u \in Writers : SerialWriter(u)'
      BY <2>5, OthersStaySerial, Zenon DEF vars
    <3>2. ChainInv' /\ OptimisticLock'
      BY <2>5, Zenon DEF vars, SerialInv, ChainInv, Fits, OptimisticLock
    <3>3. CurrentInv'
      BY <2>5, Zenon DEF vars, SerialInv, CurrentInv, Committing
    <3> QED
      BY <3>1, <3>2, <3>3, Zenon DEF SerialInv
  <2>6. ASSUME NEW w \in Writers, Step(w)
        PROVE  SerialInv'
    BY <1>2, <2>6, SerialBefore, SerialLands, SerialSnapshot, SerialFinish, Zenon DEF Step
  <2>7. SerialInv'
    BY <2>4, <2>5, <2>6, SerialStart, Zenon DEF Next, Done
  <2> QED
    BY <2>3, <2>7, Zenon
<1> QED
  BY <1>1, <1>2, Zenon

\* With the history's own invariant, the links are what ChainIsLinear says.
LEMMA ChainIs == IndInv /\ SerialInv => ChainIsLinear
<1> SUFFICES ASSUME IndInv, SerialInv, NEW d \in events, d.link # NoLink
             PROVE  d.link = IF d.v > 1 /\ EventAt(events, d.eid, d.v - 1).link # NoLink
                             THEN d.v - 1 ELSE 0
  BY Zenon DEF ChainIsLinear
<1>1. Fits(events, d.eid, d.v - 1, d.link)
  BY Zenon DEF SerialInv, ChainInv
<1>2. d.eid \in Entities /\ d.v \in 1 .. LastVersion(events, d.eid)
      /\ LastVersion(events, d.eid) \in Nat
  <2>1. d.eid \in Entities
    BY DEF IndInv, TypeOK, Documents
  <2>2. d.v \in Versions(events, d.eid)
    BY Zenon DEF Versions, Of
  <2> QED
    BY <2>1, <2>2, LastVersionType, Zenon DEF IndInv, StoreInv
<1>3. CASE d.v = 1
  BY <1>1, <1>3 DEF Fits
<1>4. CASE d.v # 1
  <2>1. d.v - 1 \in 1 .. LastVersion(events, d.eid) /\ d.v > 1
    BY <1>2, <1>4
  <2>2. /\ EventAt(events, d.eid, d.v - 1) \in events
        /\ EventAt(events, d.eid, d.v - 1).eid = d.eid
        /\ EventAt(events, d.eid, d.v - 1).v = d.v - 1
    BY <1>2, <2>1, EventAtStored, ZenonT(40) DEF IndInv
  <2> QED
    BY <1>1, <2>1, <2>2, Zenon DEF Fits
<1> QED
  BY <1>3, <1>4, Zenon

\* Between two writes cur_* is at the tail.
LEMMA CurrentIs == SerialInv => CurrentIsLatest
BY Zenon DEF SerialInv, CurrentInv, Committing, CurrentIsLatest, Quiet

\* While no two writes of an entity overlap, the invariant holds.
THEOREM SerialInvariance == Spec /\ []Serial => []SerialInv
BY SerialStarts, NextStaysSerial, Invariance, PTL DEF Spec

\* "the chain is linear per entity": whatever plugin errors, failed calls and
\* crashes come in between, an event of an entity whose writes do not overlap
\* carries the hash of the event before it, or the genesis hash where that one
\* has none.
THEOREM SerialChainIsLinear == Spec /\ []Serial => []ChainIsLinear
BY ChainIs, SerialInvariance, Invariance, PTL

\* domain.CurrentState is "the materialized latest state": of an entity with no
\* write in flight, as long as no call failed, cur_* is at the last version.
THEOREM SerialCurrentIsLatest == Spec /\ []Serial => []CurrentIsLatest
BY CurrentIs, SerialInvariance, PTL

\* expected_version: as long as no call failed, a write stored under an expected
\* version is the one right after it.
THEOREM SerialLockHolds == Spec /\ []Serial => []OptimisticLock
<1>1. SerialInv => OptimisticLock
  BY DEF SerialInv
<1> QED
  BY <1>1, SerialInvariance, PTL

\* commitEvent never takes cur_* back to an earlier version, also when earlier
\* calls have failed half-way.
THEOREM SerialCurrentAdvances == Spec /\ []Serial => CurrentNeverRegresses
<1>1. IndInv /\ SerialInv /\ Serial /\ Serial' /\ [Next]_vars
        => [\A e \in Entities : cur'[e].v >= cur[e].v]_vars
  BY NextStaysSerial, Zenon
<1> QED
  BY <1>1, SerialInvariance, Invariance, PTL DEF Spec, CurrentNeverRegresses

-----------------------------------------------------------------------------
(* Every event that is stored replays.                                    *)

\* A writer planned its event on a state that was stored, and could replay it.
PlannedInv ==
  \A w \in Writers : writer[w] # Idle =>
    /\ writer[w].seen.v = 0 \/ WrittenBy(writer[w].cmd.eid, writer[w].seen)
    /\ Reproduces(BaseState(writer[w].seen), writer[w].op, writer[w].changes, writer[w].post)

\* A writer's plan stays what it was from its start to its end.
Kept(w) ==
  /\ writer[w] # Idle /\ writer'[w].cmd = writer[w].cmd /\ writer'[w].seen = writer[w].seen
  /\ writer'[w].op = writer[w].op /\ writer'[w].changes = writer[w].changes
  /\ writer'[w].post = writer[w].post

\* Every step of a writer that goes on keeps its plan, or makes it.
LEMMA WriterSteps ==
  ASSUME TypeOK, [Next]_vars, NEW w \in Writers, writer'[w] # Idle
  PROVE  Kept(w) \/ \E c \in Commands : StartWrite(w, c)
<1>1. CASE writer'[w] = writer[w]
  BY <1>1, Zenon DEF Kept
<1>2. CASE writer'[w] # writer[w]
  <2>1. PICK u \in Writers : (\E c \in Commands : Start(u, c)) \/ Step(u) \/ Abort(u)
    BY <1>2, Zenon DEF Next, Done, vars
  <2>2. \A r : writer' = [writer EXCEPT ![u] = r] => u = w /\ writer'[w] = r
    BY <1>2, Zenon DEF TypeOK
  <2>3. \A c, status, v : ~Answer(u, c, status, v)
    BY <2>2, Zenon DEF Answer
  <2>4. ASSUME NEW c \in Commands, Start(u, c)
        PROVE  \E x \in Commands : StartWrite(w, x)
    <3>1. StartWrite(u, c)
      BY <2>3, <2>4, Zenon DEF Start, StartConflict, StartRefused
    <3>2. u = w
      BY <2>2, <3>1, Zenon DEF StartWrite
    <3> QED
      BY <3>1, <3>2, Zenon
  <2>5. ASSUME Step(u)
        PROVE  Kept(w)
    <3>1. writer[u].pc # "idle" /\ writer[u] # Idle
      BY <2>5 DEF Step, RunPreStore, PluginError, ReadTail, InsertLands, InsertVersionTaken,
                  InsertDuplicate, Upsert, BuildSnapshot, Finish, Idle
    <3>2. writer[u] \in Active
      BY <3>1, Zenon DEF TypeOK
    <3>3. \E pc, link, v, tries :
            writer' = [writer EXCEPT ![u] = [writer[u] EXCEPT !.pc = pc, !.link = link, !.v = v,
                                                              !.tries = tries]]
      <4> DEFINE Put(pc, link, v, tries) ==
                   writer' = [writer EXCEPT ![u] = [writer[u] EXCEPT !.pc = pc, !.link = link,
                                                               !.v = v, !.tries = tries]]
      <4>1. \A pc : Goto(u, pc) => Put(pc, writer[u].link, writer[u].v, writer[u].tries)
        BY <3>2, Zenon DEF Goto, Active, TypeOK
      <4>2. CASE RunPreStore(u)
        <5>1. Put("tail", PrevLink(writer[u].cmd.eid), writer[u].v, writer[u].tries)
          BY <3>2, <4>2, Zenon DEF RunPreStore, Active, TypeOK
        <5> QED
          BY <5>1, Zenon
      <4>3. CASE ReadTail(u)
        <5>1. Put("insert", writer[u].link, LastVersion(events, writer[u].cmd.eid) + 1,
                  writer[u].tries)
          BY <3>2, <4>3, Zenon DEF ReadTail, Active, TypeOK
        <5> QED
          BY <5>1, Zenon
      <4>4. CASE InsertVersionTaken(u)
        <5>1. Put("tail", writer[u].link, writer[u].v, writer[u].tries + 1)
          BY <2>3, <3>2, <4>4 DEF InsertVersionTaken, Active, TypeOK
        <5> QED
          BY <5>1, Zenon
      <4>5. CASE PluginError(u) \/ InsertLands(u) \/ InsertDuplicate(u) \/ Upsert(u)
              \/ BuildSnapshot(u) \/ Finish(u)
        <5>1. \E pc : Goto(u, pc)
          BY <2>3, <4>5, Zenon DEF PluginError, InsertLands, InsertDuplicate, Upsert,
                                   BuildSnapshot, Finish
        <5>2. PICK pc : Goto(u, pc)
          BY <5>1, Zenon
        <5>3. Put(pc, writer[u].link, writer[u].v, writer[u].tries)
          BY <4>1, <5>2, Zenon
        <5> QED
          BY <5>3, Zenon
      <4> QED
        BY <2>5, <4>2, <4>3, <4>4, <4>5, Zenon DEF Step
    <3>4. PICK pc, link, v, tries :
            writer' = [writer EXCEPT ![u] = [writer[u] EXCEPT !.pc = pc, !.link = link, !.v = v,
                                                              !.tries = tries]]
      BY <3>3, Zenon
    <3> DEFINE r == [writer[u] EXCEPT !.pc = pc, !.link = link, !.v = v, !.tries = tries]
    <3>5. u = w /\ writer'[w] = r
      BY <2>2, <3>4, Zenon
    <3>6. /\ r.cmd = writer[u].cmd /\ r.seen = writer[u].seen /\ r.op = writer[u].op
          /\ r.changes = writer[u].changes /\ r.post = writer[u].post
      BY <3>2 DEF Active
    <3> QED
      BY <3>1, <3>5, <3>6, Zenon DEF Kept
  <2> QED
    BY <2>1, <2>3, <2>4, <2>5, Zenon DEF Abort
<1> QED
  BY <1>1, <1>2, Zenon

\* ev_* only grows, and only by the insert of AppendEvent.
LEMMA EventsGrow ==
  ASSUME [Next]_vars
  PROVE  UNCHANGED events \/ \E w \in Writers : InsertLands(w)
BY ZenonT(40) DEF Next, Done, vars, Start, StartConflict, StartRefused, StartWrite, Admit, Step, Abort,
       RunPreStore, PluginError, ReadTail, InsertVersionTaken, InsertDuplicate, Upsert,
       BuildSnapshot, Finish

\* A failure is never taken back.
LEMMA AbortsGrow ==
  ASSUME IndInv, [Next]_vars, aborts' = 0
  PROVE  aborts = 0
<1>1. aborts \in Nat
  BY IngestAssumption DEF IndInv, TypeOK
<1>2. aborts' = aborts \/ aborts' = aborts + 1
  BY ZenonT(40) DEF Next, Done, vars, Start, StartConflict, StartRefused, StartWrite, Admit, Step, Abort,
       RunPreStore, PluginError, ReadTail, InsertLands, InsertVersionTaken, InsertDuplicate,
       Upsert, BuildSnapshot, Finish
<1> QED
  BY <1>1, <1>2

\* Every step keeps what the writers planned, whoever writes in between.
LEMMA PlannedKeeps ==
  ASSUME PlainCommands, IndInv, PlannedInv, [Next]_vars
  PROVE  PlannedInv'
<1> SUFFICES ASSUME NEW w \in Writers, writer'[w] # Idle
             PROVE  /\ \/ writer'[w].seen.v = 0
                       \/ WrittenBy(writer[w].cmd.eid, writer[w].seen)'
                    /\ Reproduces(BaseState(writer'[w].seen), writer'[w].op,
                                  writer'[w].changes, writer'[w].post)
  BY Zenon DEF PlannedInv
<1>1. events \subseteq events'
  BY EventsGrow, Zenon DEF InsertLands
<1>2. CASE Kept(w)
  <2>1. /\ writer[w].seen.v = 0 \/ WrittenBy(writer[w].cmd.eid, writer[w].seen)
        /\ Reproduces(BaseState(writer[w].seen), writer[w].op, writer[w].changes, writer[w].post)
    BY <1>2, Zenon DEF Kept, PlannedInv
  <2> QED
    BY <1>1, <1>2, <2>1, Zenon DEF Kept, WrittenBy
<1>3. ASSUME NEW c \in Commands, StartWrite(w, c)
      PROVE  /\ \/ writer'[w].seen.v = 0
                \/ WrittenBy(writer[w].cmd.eid, writer[w].seen)'
             /\ Reproduces(BaseState(writer'[w].seen), writer'[w].op,
                           writer'[w].changes, writer'[w].post)
  <2> DEFINE plan == PlanEvent(c, cur[c.eid])
  <2>1. /\ writer'[w].cmd = c /\ writer'[w].seen = cur[c.eid] /\ writer'[w].op = plan.op
        /\ writer'[w].changes = plan.changes /\ writer'[w].post = plan.post
        /\ plan.verdict = "write"
    BY <1>3, Zenon DEF StartWrite, IndInv, TypeOK
  <2>2. c.eid \in Entities /\ cur[c.eid] \in CurrentStates
    BY IngestAssumption, Zenon DEF IngestCommand, IndInv, TypeOK
  <2>3. Reproduces(BaseState(cur[c.eid]), plan.op, plan.changes, plan.post)
    BY <2>1, <2>2, PlanReproduces, Zenon
  <2>4. cur[c.eid].v = 0 \/ WrittenBy(c.eid, cur[c.eid])
    BY <2>2, Zenon DEF IndInv, MaterializedIsHistory
  <2> HIDE DEF plan
  <2> QED
    BY <1>1, <2>1, <2>3, <2>4, Zenon DEF WrittenBy
<1> QED
  BY <1>2, <1>3, WriterSteps, Zenon DEF IndInv

\* The event that lands replays on what the tail left, which is what its writer
\* planned it on.
LEMMA LandsReplayable ==
  ASSUME IndInv, SerialInv, PlannedInv, ReplayInv, NEW w \in Writers, InsertLands(w)
  PROVE  ReplayInv'
<1> DEFINE d == Document(w)
           e == writer[w].cmd.eid
           n == LastVersion(events, e)
<1>1. /\ writer[w] # Idle /\ writer[w].pc = "insert"
      /\ events' = events \cup {d} /\ UNCHANGED aborts
  <2>1. writer[w].pc = "insert" /\ events' = events \cup {d} /\ UNCHANGED aborts
    BY Zenon DEF InsertLands
  <2> HIDE DEF d
  <2>2. writer[w] # Idle
    BY <2>1 DEF Idle
  <2> QED
    BY <2>1, <2>2, Zenon
<1>2. writer[w] \in Active /\ e \in Entities
  BY <1>1, WriterTypes, Zenon DEF IndInv
<1>3. /\ d.eid = e /\ d.v = writer[w].v /\ d.op = writer[w].op
      /\ d.changes = writer[w].changes /\ d.post = writer[w].post
  BY Zenon DEF Document
<1>4. d.v = n + 1 /\ n \in Nat /\ Versions(events, e) = 1 .. n
  BY <1>2, <1>3, LandsAtNext, LastVersionType, Zenon DEF IndInv, StoreInv
<1>5. \A x \in events : x.v \in Nat /\ (x.eid = e => x.v \in 1 .. n)
  BY <1>4, Zenon DEF IndInv, TypeOK, Documents, Versions, Of
<1> HIDE DEF d
<1> SUFFICES ASSUME aborts' = 0, NEW x \in events', NEW base \in Objects,
                    Leaves(events', x.eid, x.v - 1, base)
             PROVE  Reproduces(base, x.op, x.changes, x.post)
  BY Zenon DEF ReplayInv
<1>6. CASE x \in events
  <2>1. Leaves(events, x.eid, x.v - 1, base)
    <3>1. ASSUME d.eid = x.eid
          PROVE  d.v # x.v - 1
      <4>1. n \in Nat /\ d.v = n + 1 /\ x.v \in 1 .. n
        BY <1>3, <1>4, <1>5, <1>6, <3>1, Zenon
      <4> HIDE DEF n
      <4> QED
        BY <4>1
    <3> QED
      BY <1>1, <3>1, ZenonT(40) DEF Leaves
  <2> QED
    BY <1>1, <1>6, <2>1, Zenon DEF ReplayInv
<1>7. CASE x = d
  <2>1. x.v - 1 = n
    BY <1>4, <1>7
  <2>2. writer[w].seen.v = n
    BY <1>1, Zenon DEF SerialInv, SerialWriter
  <2>3. writer[w].seen.v = 0 \/ WrittenBy(e, writer[w].seen)
    BY <1>1, Zenon DEF PlannedInv
  <2>4. base = BaseState(writer[w].seen)
    <3>1. CASE n = 0
      <4>1. ASSUME NEW p \in events', p.eid = e
            PROVE  p.v # 0
        <5>1. n \in Nat /\ (p.v \in 1 .. n \/ p.v = n + 1)
          BY <1>1, <1>4, <1>5, <4>1, Zenon
        <5> HIDE DEF n
        <5> QED
          BY <5>1
      <4> QED
        BY <1>3, <1>7, <2>1, <2>2, <3>1, <4>1, ZenonT(40) DEF Leaves, BaseState
    <3>2. CASE n # 0
      <4>1. PICK p \in events' : /\ p.eid = e /\ p.v = n
                                 /\ base = IF p.post.deleted THEN Empty ELSE p.post.state
        BY <1>3, <1>7, <2>1, <3>2, ZenonT(40) DEF Leaves
      <4>2. p \in events
        <5>1. n \in Nat /\ d.v = n + 1 /\ p.v = n /\ p \in events \cup {d}
          BY <1>1, <1>4, <4>1, Zenon
        <5>2. d.v # p.v
          <6> HIDE DEF n
          <6> QED
            BY <5>1
        <5> QED
          BY <5>1, <5>2, Zenon
      <4>3. PICK q \in events : /\ q.eid = e /\ q.v = writer[w].seen.v
                                /\ q.post = [state |-> writer[w].seen.state,
                                             deleted |-> writer[w].seen.deleted]
        BY <2>2, <2>3, <3>2, Zenon DEF WrittenBy
      <4>4. p = q
        BY <2>2, <4>1, <4>2, <4>3, Zenon DEF IndInv, StoreInv, UniqueVersions
      <4>5. /\ p.post.state = writer[w].seen.state
            /\ p.post.deleted = writer[w].seen.deleted
        BY <4>3, <4>4
      <4>6. base = IF writer[w].seen.deleted THEN Empty ELSE writer[w].seen.state
        BY <4>1, <4>5, Zenon
      <4>7. writer[w].seen.v # 0
        BY <2>2, <3>2, Zenon
      <4> QED
        BY <4>6, <4>7, Zenon DEF BaseState
    <3> QED
      BY <3>1, <3>2, Zenon
  <2>5. Reproduces(BaseState(writer[w].seen), d.op, d.changes, d.post)
    BY <1>1, <1>3, Zenon DEF PlannedInv
  <2> QED
    BY <1>7, <2>4, <2>5, Zenon
<1> QED
  BY <1>1, <1>6, <1>7, Zenon

\* No event has been written at first.
LEMMA ReplayStarts == Init => PlannedInv /\ ReplayInv
BY Zenon DEF Init, PlannedInv, ReplayInv

\* Every step keeps the history replayable.
LEMMA NextStaysReplayable ==
  ASSUME PlainCommands
  PROVE  IndInv /\ SerialInv /\ PlannedInv /\ ReplayInv /\ [Next]_vars
           => PlannedInv' /\ ReplayInv'
<1> SUFFICES ASSUME IndInv, SerialInv, PlannedInv, ReplayInv, [Next]_vars
             PROVE  PlannedInv' /\ ReplayInv'
  OBVIOUS
<1>1. PlannedInv'
  BY PlannedKeeps, Zenon
<1>2. CASE UNCHANGED events
  BY <1>1, <1>2, AbortsGrow, Zenon DEF ReplayInv, Leaves
<1>3. CASE \E w \in Writers : InsertLands(w)
  BY <1>1, <1>3, LandsReplayable, Zenon
<1> QED
  BY <1>2, <1>3, EventsGrow, Zenon

Order == INSTANCE OrderProofs

\* The naturals are ordered as the replay needs.
LEMMA OrderingHolds == Ordering
BY Order!InductiveSet, Order!GreatestBelow DEF Ordering

\* Reader.StateAt returns, for every version of every entity, from any set of the
\* stored snapshots, the state that version's writer stored, when commands mean
\* what their operation says, an entity's writes do not overlap and none failed
\* half-way.
THEOREM SerialReplayIsWhatWasWritten ==
  ASSUME PlainCommands
  PROVE  Spec /\ []Serial => []ReplayIsWhatWasWritten
<1>1. IndInv /\ SerialInv /\ PlannedInv /\ ReplayInv /\ [Next]_vars
        => PlannedInv' /\ ReplayInv'
  BY NextStaysReplayable
<1>2. IndInv /\ ReplayInv => ReplayIsWhatWasWritten
  BY ReplayIs, OrderingHolds
<1> QED
  BY <1>1, <1>2, ReplayStarts, Invariance, SerialInvariance, PTL DEF Spec

=============================================================================
