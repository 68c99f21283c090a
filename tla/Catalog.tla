------------------------------ MODULE Catalog -------------------------------
(***************************************************************************)
(* The listing of a tenant's collections with their counters (server/      *)
(* collections, service/catalog, storage/mongo/stats_repo and names), read *)
(* while clients write events and configurations.                          *)
(***************************************************************************)
EXTENDS Integers, Sequences, FiniteSets, SequencesExt

CONSTANTS Collections,   \* logical names
          Allowed,       \* those the caller's key may access
          Writers,       \* writes in flight
          Entities,
          FanOut,        \* catalogFanOut: lookups at a time
          MaxWrites,     \* bound: writes of events
          MaxReadFaults      \* bound: failing reads

ASSUME CatalogAssumption ==
  Allowed \subseteq Collections /\ FanOut \in Nat \ {0} /\ MaxWrites \in Nat /\ MaxReadFaults \in Nat

VARIABLES
  clock,         \* wall clock
  ev,            \* per collection: ts_st of its events, in insertion order
  current,           \* per collection: entities with a current state
  physical,      \* the physical ev_* names in the database
  configs,       \* collections with a stored configuration
  write,         \* per writer: [step, c, e, ts]
  writes,
  phase,         \* of the listing: "idle", "configs", "stats", "done", "failed"
  names,         \* the names found
  lookup,        \* per name: how far its goroutine is
  summary,       \* per name: [entities, last, config]
  cancelled,     \* the errgroup's context
  answer,        \* the collections answered
  before,        \* what there was when the listing began
  readFaults

catalogVars == <<clock, ev, current, physical, configs, write, writes, phase, names, lookup, summary,
          cancelled, answer, before, readFaults>>
storeVars == <<clock, ev, current, physical, configs, write, writes>>

NoWrite == [step |-> "idle", c |-> "", e |-> "", ts |-> 0]

\* isUserEventCollection and logicalFromEvents: system collections have names
\* under ev__.
SystemNames == {"ev__flow", "ev__system"}

UserNames(ns) == ns \ SystemNames

Blank == [entities |-> 0, last |-> 0, config |-> FALSE]

\* The collections, the entities and the number of events of each, and which
\* have a configuration.
Contents == [names |-> UserNames(physical) \cup configs, entities |-> current,
             events |-> [c \in Collections |-> Len(ev[c])], configs |-> configs]

CatalogInit ==
  /\ clock = 1 /\ ev = [c \in Collections |-> <<>>] /\ current = [c \in Collections |-> {}]
  /\ physical = SystemNames /\ configs = {}
  /\ write = [w \in Writers |-> NoWrite] /\ writes = 0
  /\ phase = "idle" /\ names = {} /\ lookup = [c \in Collections |-> "none"]
  /\ summary = [c \in Collections |-> Blank] /\ cancelled = FALSE
  /\ answer = {} /\ before = Contents /\ readFaults = 0

ReadFails == readFaults < MaxReadFaults /\ readFaults' = readFaults + 1

-----------------------------------------------------------------------------
(* Writes.                                                                 *)

listingVars == <<phase, names, lookup, summary, cancelled, answer, before, readFaults>>

\* AppendEvent gives an event its ts_st, then inserts it; a moment passes.
Stamp(w) ==
  /\ write[w].step = "idle" /\ writes < MaxWrites /\ writes' = writes + 1
  /\ \E c \in Collections, e \in Entities :
       write' = [write EXCEPT ![w] = [step |-> "insert", c |-> c, e |-> e, ts |-> clock]]
  /\ clock' = clock + 1
  /\ UNCHANGED <<ev, current, physical, configs, listingVars>>

Insert(w) ==
  /\ write[w].step = "insert"
  /\ ev' = [ev EXCEPT ![write[w].c] = Append(@, write[w].ts)]
  /\ physical' = physical \cup {write[w].c}
  /\ write' = [write EXCEPT ![w].step = "upsert"]
  /\ UNCHANGED <<clock, current, configs, writes, listingVars>>

\* The current state follows its event.
UpsertCurrent(w) ==
  /\ write[w].step = "upsert"
  /\ current' = [current EXCEPT ![write[w].c] = @ \cup {write[w].e}]
  /\ write' = [write EXCEPT ![w] = NoWrite]
  /\ UNCHANGED <<clock, ev, physical, configs, writes, listingVars>>

SaveConfig(c) ==
  /\ c \notin configs /\ configs' = configs \cup {c}
  /\ UNCHANGED <<clock, ev, current, physical, write, writes, listingVars>>

\* A collection may be there before its first event.
EnsurePhysical(c) ==
  /\ c \notin physical /\ physical' = physical \cup {c}
  /\ UNCHANGED <<clock, ev, current, configs, write, writes, listingVars>>

-----------------------------------------------------------------------------
(* StatsRepo.ListCollections, Catalog.ListCollections, the handler.        *)

\* The physical names are read first.
ListPhysical ==
  /\ phase = "idle" /\ before' = Contents
  /\ \/ names' = UserNames(physical) /\ phase' = "configs" /\ UNCHANGED readFaults
     \/ ReadFails /\ phase' = "failed" /\ UNCHANGED names
  /\ UNCHANGED <<storeVars, lookup, summary, cancelled, answer>>

\* Then the configurations; every name gets a goroutine.
ListConfigs ==
  /\ phase = "configs"
  /\ \/ /\ names' = names \cup configs /\ phase' = "stats"
        /\ lookup' = [c \in names' |-> "waiting"] /\ summary' = [c \in names' |-> Blank]
        /\ UNCHANGED readFaults
     \/ ReadFails /\ phase' = "failed" /\ UNCHANGED <<names, lookup, summary>>
  /\ UNCHANGED <<storeVars, cancelled, answer, before>>

Running == {c \in names : lookup[c] \in {"entities", "events", "last", "config"}}

\* Faulty: the last event is read first.
AfterStepSwapped(step) ==
  CASE step = "waiting" -> "last" [] step = "last" -> "entities"
    [] step = "entities" -> "events" [] step = "events" -> "config" [] step = "config" -> "done"

\* The reads of Stats and summary, in order.
AfterStep(step) ==
  CASE step = "waiting" -> "entities" [] step = "entities" -> "events"
    [] step = "events" -> "last" [] step = "last" -> "config" [] step = "config" -> "done"

\* errgroup with a limit.
Go(c) ==
  /\ phase = "stats" /\ lookup[c] = "waiting" /\ Cardinality(Running) < FanOut
  /\ lookup' = [lookup EXCEPT ![c] = AfterStep(@)]
  /\ UNCHANGED <<storeVars, phase, names, summary, cancelled, answer, before, readFaults>>

\* The summary after a read.  The count of events is the metadata's estimate,
\* of which nothing is said: it may fail, and its value is left out.
Counter(c, step) ==
  CASE step = "entities" -> [summary[c] EXCEPT !.entities = Cardinality(current[c])]
    [] step = "events" -> summary[c]
    [] step = "last" -> [summary[c] EXCEPT !.last = IF ev[c] = <<>> THEN 0 ELSE Last(ev[c])]
    [] step = "config" -> [summary[c] EXCEPT !.config = c \in configs]

\* One read of Stats or summary; the first that fails cancels the others, which
\* then fail at their next read, unless it was answered already.
Lookup(c) ==
  /\ phase = "stats" /\ c \in Running
  /\ \/ /\ summary' = [summary EXCEPT ![c] = Counter(c, lookup[c])]
        /\ lookup' = [lookup EXCEPT ![c] = AfterStep(@)] /\ UNCHANGED <<cancelled, readFaults>>
     \/ /\ ~cancelled /\ ReadFails /\ cancelled' = TRUE
        /\ lookup' = [lookup EXCEPT ![c] = "failed"] /\ UNCHANGED summary
     \/ /\ cancelled /\ lookup' = [lookup EXCEPT ![c] = "failed"]
        /\ UNCHANGED <<summary, cancelled, readFaults>>
  /\ UNCHANGED <<storeVars, phase, names, answer, before>>

\* g.Wait: 500, or the summaries the caller's mask lets through.
Wait ==
  /\ phase = "stats" /\ \A c \in names : lookup[c] \in {"done", "failed"}
  /\ IF \E c \in names : lookup[c] = "failed" THEN phase' = "failed" /\ UNCHANGED answer
     ELSE phase' = "done" /\ answer' = names \cap Allowed
  /\ UNCHANGED <<storeVars, names, lookup, summary, cancelled, before, readFaults>>

CatalogDone == phase \in {"done", "failed"} /\ UNCHANGED catalogVars

ListCollections == ListPhysical \/ ListConfigs \/ Wait \/ \E c \in names : Go(c) \/ Lookup(c)

CatalogNext ==
  \/ \E w \in Writers : Stamp(w) \/ Insert(w) \/ UpsertCurrent(w)
  \/ \E c \in Collections : SaveConfig(c) \/ EnsurePhysical(c)
  \/ ListCollections
  \/ CatalogDone

CatalogSpec == CatalogInit /\ [][CatalogNext]_catalogVars

-----------------------------------------------------------------------------
(* Properties.                                                             *)

\* A row is of the time the listing took: it counts every entity there was when
\* it began and none there is not yet, its last event is one that was the last
\* since then, and a configuration that was stored by then is shown.
InWindow(c, row) ==
  /\ Cardinality(before.entities[c]) <= row.entities
  /\ row.entities <= Cardinality(current[c])
  /\ IF row.last = 0 THEN before.events[c] = 0
     ELSE \E i \in DOMAIN ev[c] : i >= before.events[c] /\ ev[c][i] = row.last
  /\ c \in before.configs => row.config
  /\ row.config => c \in configs

\* "so auto-created collections appear", "so a collection configured but not
\* yet written to also appears": the answer has every collection of the caller
\* there was when it was asked for.  Each row is of the time the listing took,
\* though lookups run side by side and one that fails leaves its row blank; and
\* no row has entities and no last activity, though its counters are read one
\* after the other while clients write.
ListingIsSound ==
  phase = "done" =>
    /\ before.names \cap Allowed \subseteq answer
    /\ \A c \in answer : /\ InWindow(c, summary[c])
                         /\ summary[c].entities > 0 => summary[c].last > 0

\* "the last-inserted document carries the latest activity time": what
\* lastEventTime reads is the newest ts_st of the collection.
LastIsLatest ==
  \A c \in Collections : \A i \in DOMAIN ev[c] : ev[c][i] <= Last(ev[c])
=============================================================================
