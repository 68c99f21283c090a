# A TLA+ model of letopis

letopis records the history of entities. Every write becomes an immutable event
with a version; the current state, snapshots and point-in-time reads derive from
those events. This directory holds TLA+ modules translated from the Go code under
`src/`, TLC runs over small instances, and TLAPS proofs for every instance.

## The system

A strict request calls the write path directly. A durable one reserves its
idempotency key, opens a ticket and publishes to a Redis stream, from which a worker
calls the same write path. A fast one goes through an in-memory queue to a batcher,
which plans a group of writes and appends them with one InsertMany. After a commit
the rules engine evaluates the collection's rules and publishes webhook tasks to a
second stream, which the dispatcher delivers, retries and finally parks in the
dead-letter collection. Admin requests change configurations and rules, which every
process caches.

| Part | Source (under `src/internal/`) | State it changes | Model |
|---|---|---|---|
| Write path (`Ingester.applyOne`) | `service/ingest.go` | `ev_*`, `cur_*`, `sn_*` | `Ingest` |
| Event store | `storage/mongo/event_repo.go`, `mapping.go` | `ev_*`, two unique indexes | `EventStore`, `Ingest`, `FastBatch`, `History` |
| Current state, snapshots | `storage/mongo/current_repo.go`, `snapshot_repo.go`, `service/snapshot.go` | `cur_*`, `sn_*` | `EventStore`, `Ingest` |
| Point-in-time reads | `service/read.go`, `domain/snapshot_recon.go` | none | `Reader`, `IngestRead` |
| Diff engine | `diff/` | none (pure) | `Diff` (flat), `JsonDiff` (nested) |
| Plugin host, hash chain | `plugin/` | integrity block of an event | `Ingest`, `Chain`, `PostStore` |
| Async pipeline, reservations, tickets | `service/pipeline.go`, `batch_ingest.go`, `ticket.go`, `storage/redis/` | Redis keys | `Durable` |
| Redis streams queue and worker | `queue/redisstreams/`, `worker/worker.go` | stream, pending list | `Durable`, `AtLeastOnce` |
| Fast path | `queue/memory/`, `worker/batch.go`, `service/batch.go` | channel, buffer, `ev_*`, `cur_*` | `FastBatch` |
| Rules after a commit | `service/rules_engine.go`, `webhook_publisher.go` | delivery stream | `PostStore` |
| Rule administration and caches | `service/rule_admin.go`, `storage/mongo/rule_repo.go`, `storage/redis/rule_invalidator.go` | `rules`, audit, caches | `RuleAdmin` |
| Rule language | `rules/`, `server/rules.go` | none (pure) | `RuleLang` |
| Configuration and provisioning | `service/config.go`, `config_admin.go`, `domain/collection.go`, `server/config.go` | `collections`, caches, indexes | `Config` |
| Webhook delivery, dead letters | `delivery/`, `service/dlq.go` | stream, `dlq` | `Delivery`, `Backoff` |
| Histories, flows and dead letters in pages | `server/read.go`, `domain/activity.go`, `storage/mongo/flow_repo.go`, `dlq_repo.go` | none | `Listing` |
| Catalog | `service/catalog.go`, `storage/mongo/stats_repo.go` | none | `Catalog` |
| Transport, tenancy, metrics, CLI, generated code | `server/`, `tenant/`, `metrics/`, `cli/`, `gen/` | none of the above | see "Not modelled" |

PROJECT.json lists every component, every hazard with its line in the source, and
for each definition the lines it models.

## Modules

- `Diff`: `Diff` and `Apply` over flat objects. A change list is a function from
  the touched fields to a new value or `Removed`.
- `EventStore`: what the collections hold and the queries over them. A document has
  an extra field `post`, the state its writer believed it stored; no database
  document has it, and no action reads it except to fill `cur_*` and snapshots.
- `Reader`: `ListEvents`, the snapshot anchor, `Reconstruct` as a function of the
  version, defined from the one before, `StateAt`.
- `Ingest`: `applyOne` as a state machine. `writer[w]` holds the local variables of
  one execution. An action ends at each database call, because calls of other
  writers fall between them:

  | Action | Code |
  |---|---|
  | `StartConflict`, `StartRefused`, `StartWrite` | `prepare`, the version check, `planEvent` |
  | `RunPreStore`, `PluginError` | `lastEvent` and the pre-store hooks, fail-open or fail-closed |
  | `ReadTail` | `lastVersion` in `AppendEvent` |
  | `InsertLands`, `InsertVersionTaken`, `InsertDuplicate` | `InsertOne` and its outcomes |
  | `Upsert` | `ReplaceOne` on `cur_*` |
  | `BuildSnapshot` | the snapshot, when one is due; its failure is swallowed |
  | `Finish` | rules, answer |
  | `Abort` | a failed call, or the process dies |

  When both unique indexes would be violated the server may report either, so both
  actions are enabled. A crash and an error leave the same stored state, so `Abort`
  stands for both.
- `History`: the abstract event store, a log per entity that only grows at its end
  and holds an `event_id` once. `Ingest` implements it under the mapping `Log`.
- `IngestRead`: `Ingest` together with `Reader`.
- `Durable`: from a request to its applied write. A client goes through the limiter,
  `SetNX` and `Lookup`, `Open`, `Publish`, `Release` and, for a batch, `Receipt`; a
  worker through `Subscribe` or `Reclaim`, `MarkGet` and `MarkSave`, `Process` and
  `Ack`. Each is one call to Redis or Mongo and may fail; a failed XADD or write may
  have taken effect. The write itself is one step here: `Ingest` takes it apart.
- `AtLeastOnce`: the abstract queue with acknowledgements. Work is owed once
  accepted, leaves only after a verdict, and does leave. `Durable` implements it.
- `FastBatch`: publishers blocked on the channel, the subscriber goroutine, the
  batch loop with linger and its two ways out, `batchCollection` with a step per read
  and item of its fold (`ConfigFails`, `LoadCurrent`, `LoadLast`, `PlanItem`,
  `FoldEnds`) and `Insert` and `Upsert` a document at a time, and strict writers next
  to it, between any two of these steps.
- `PostStore`: a worker that handles a task: append, evaluate the rules, publish,
  ack, with a crash or failed call anywhere.
- `Delivery`: a dispatcher's `Take`, `Reclaim`, `Post`, `Park`, `Ack`; retries that
  wait in memory (`RetryFires`, `RetryFlushed` on shutdown); `Stop`, `Restart`,
  `Crash`; and redelivery (`ListPage`, `Requeue`, `Delete`).
- `Backoff`: `nextDelay` and jitter in machine words of `Width` bits.
- `Config`: PUT, GET and first writes of a collection, per process a cache with a
  TTL, the record and the provisioning of its physical parts one by one.
- `RuleAdmin`: create, update and delete as read, change, invalidate and audit
  calls, pub/sub announcements that may be lost, and engines that fill caches.
- `RuleLang`: a rule from JSON to `Validate`, BSON, `Compile`, evaluation and the
  answer to a GET.
- `JsonDiff`: nested diffs, arrays by index and by key, paths, `Apply` with the
  values it shares between change list and result, and the JSON Patch export.
- `Chain`: flow block, canonical form, link, stored document, verification.
- `Listing`: three kinds of paged listing over one growing store.
- `Catalog`: the collection listing with its parallel, failing counters; the estimated
  number of events is read and may fail, its value is left out.
- `JsonValues`: what `RuleLang` and `JsonDiff` share.
- `IngestProofs`, `DurableProofs`, `FastBatchProofs`, `DeliveryProofs`, `ConfigProofs`,
  `RuleAdminProofs`: theorems about the module each is named after, with proofs.
  `IngestProofs` holds those about `Diff` too, `DurableSteps` the invariants of
  `Durable` and what each step does to them. `OrderProofs`: facts about numbers and
  finite sets that several of them use.
- `MC...`: commands, requests and values of the small instances. `MCData` puts the
  four modules of pure algorithms, and `MCReads` the three of readers and of rules
  after a commit, side by side: one of them runs in each behaviour (`part`), and
  they share no state.

An operator whose comment starts with "Faulty" is a wrong version of the one after
it. It stands for a plausible bug and is used to see that a property notices it.

## Runs

| Run | Question | Instance | Distinct states |
|---|---|---|---|
| `ingest_race` | What survives two racing writers, a failed call, crash or plugin error, and a shared `event_id`? | 2 writers, 3 commands, 2 append attempts | 145,000 |
| `ingest_serial` | Without overlap, do `cur_*`, the lock, the chain and all reads agree with the history, and what of it survives a failure at any call? | 1 writer, 5 commands, 1 failure | 256,000 |
| `durable_faults` | Does the queue keep what it accepted, and do tickets and keys tell the truth, whatever fails? | 2 workers, keyed and unkeyed requests, 2 faults of 6 kinds | 1,600,000 |
| `durable_recovery` | Does everything accepted come to an end, and does backpressure lift? | 2 clients, 1 worker, depth limit 1, 1 fault | 77,000 |
| `fast_path` | What does the fast path keep under faults, shutdown and strict writers? | 3 writes, batches of 2, channel of 1, 1 fault | 197,000 |
| `delivery_losses` | Is a webhook lost in four ways only? | 2 dispatchers, 1 redelivery, 2 faults of 7 kinds | 1,365,000 |
| `delivery_concludes` | Does every webhook come to an end? | the same with 3 triggers, silent receivers, 1 fault | 157,000 |
| `config` | Are configurations sound, do caches converge, is every record provisioned? | 2 processes, 2 PUTs of 4 bodies, 1 fault | 324,000 |
| `rule_admin` | Is a rule version announced once, and do engines converge? | 2 admins, 3 changes, 1 fault | 140,000 |
| `data` | Do rules, diffs, links and waits mean what their reference definitions say? | bounded grammars and values, below | 194,000 |
| `reads` | Are pages one listing, is the catalog sound, do rules fire once? | 3 items; 2 collections; 2 workers, 2 faults | 2,580,000 |
| `lock_race` | Is `expected_version` an optimistic lock under concurrency? | 2 writers | violated |

All but the last hold. What they show, beyond what the comments on the properties say:

- Under any interleaving of writers histories are gap-free and append-only, `cur_*`
  and snapshots hold what some stored event of that version left, answers are true,
  and an append attempt is lost only to another write that landed.
- `KeepsAcceptedWrites` is a refinement: `Durable` with crashes, failed calls and two
  consumers claiming each other's entries implements `AtLeastOnce`.
- `OneEventPerKey` holds although reservations expire, are released by others and
  are skipped after Redis errors: the unique index is the barrier, not the key.
- `OnlyKnownLosses` names the four ways in which a webhook may vanish, each a variable
  of `Delivery` set in one place: its first publish fails and is only logged (`unsent`);
  no dead letter of it can be saved (`dropped`); the timer of its retry fires in a
  process that is shutting down, so that publish and dead letter run on a cancelled
  context (`cutOff`); it waits for its retry in a process that crashes (`forgotten`).
  The property does not say that these should happen: the last two contradict the docs
  (`NothingForgotten`, below). A shutdown while a task is posted or given up is none of
  them: the save fails, and so does the ack, on the same context.
- `ListingIsSound` places each row of a listing in the time the listing took. It says
  nothing of the number of events, which is the database's estimate.
- `CachesConverge` and `EnginesConverge` hold through the TTL alone, whatever
  announcements are lost and however a fill overtakes an invalidation.
- `TerminalTicketsStay`, `AppliedInOrder` are checked with one worker; with two they
  fail (below). `OptimisticLock`, `CurrentIsLatest` and `ReplayIsWhatWasWritten` are
  conditioned on no failure, `EveryRecordIsProvisioned` and `EveryFastWriteSettles`
  on no fault, `FastChainLinear` on reads of the last event that succeed.

### Bounds

One entity almost everywhere, since nothing but the shared `event_id` index relates
two, and that index is exercised by a keyed command sent more than once.

- Write path: two fields with two values give adds, changes, removals and no-ops.
  `ingest_race` reaches a lost race, a retry, exhaustion of the attempts
  (`MaxAppendRetries` 2; 16 in the code) and a duplicate under contention;
  `ingest_serial` delete, recreate and delete again across two snapshots.
- Durable: two requests are an original and a retry or a rival with its key, or two
  writes of one entity; two faults are a failure and a failure of its recovery. `MaxDepth` 1 makes one queued task
  backpressure. `ReserveTries` 2 is the loop of the code.
- Fast path: a channel of 1 makes publishers wait, batches of 2 make an item depend
  on another of its batch, and one strict writer takes versions in between.
- Delivery: two attempts make a retry and an exhaustion; a page of 1
  (`delivery_concludes`) makes redelivery go on to a next page.
- Data: rule conditions nested to depth two with every operator; values nested to
  depth three, arrays of up to three; events that differ in one covered field each;
  words of 8 bits with 14 attempts and the bases and maxima up to 20 for which the odd
  part of the base times the maximum fits a word, as it does for the defaults; without
  that condition a wrapped shift is taken for a delay (`Long`, below). Patterns of rules
  are texts with the values they are found in, one of them no pattern.
- Reads: three items with equal and different times, limits below, at and above
  the page, two filters. Two collections whose lookups overlap (`FanOut` 2; 8 in the
  code), so that the limit itself never holds one back.

A bound on requests, faults or changes is a named constant in a guard, and `Done`
(with a prefix in the composed modules) stutters once they are used up, so that any
other halt is a deadlock.

### Fairness

Weak fairness throughout, of what the code's goroutines, tickers and timers do by
themselves: a request that is being handled is handled on and its calls return;
workers read, handle and, by their ticker, reclaim; the sampler samples; the batch
loop receives and its linger timer fires; dispatchers take, handle and reclaim, their
retry timers fire, and a process that was shut down is started again (`Restart`, the
one assumption about the operator); cache entries expire. `CachesConverge` and
`EnginesConverge` also assume that writes and events keep coming, since a cache is
only refilled by one. Nothing is assumed of new client requests elsewhere, and
nothing of faults.

## Proofs

TLAPS checks every theorem for any number of writers, clients, workers, dispatchers,
entities, keys and faults, and for any value of the bounds. The assumptions are the
named ASSUMEs of the modules (`IngestAssumption`, `RemovedIsNoValue`,
`DurableAssumption`, `DeliveryAssumption`, ...), which TLC evaluates in every run, and
what is said of a theorem below. The models themselves assume that the database
enforces its two unique indexes and that one Redis command is atomic.

Every safety theorem rests on an inductive invariant that was model-checked on a small
instance first. Its proof has one lemma per action (`...Keeps`) and in it one step per
conjunct the action can disturb.

| Theorem | States | Under |
|---|---|---|
| `IngestProofs!DiffRoundTrip`, `EmptyDiffMeansEqual` | a diff applies to its source and gives its target; it is empty only for equal objects | |
| `IngestProofs!TypeCorrect` | `TypeOK` | |
| `IngestProofs!HistoryIsGapFree` | `GapFreeHistory` | |
| `IngestProofs!MaterializedIsBacked` | `MaterializedIsHistory` | |
| `IngestProofs!AnswersHold` | `AnswersAreTrue` | |
| `IngestProofs!RetriesMeetProgress` | `CollisionsAreProgress` | |
| `IngestProofs!StoreIsAppendOnly` | `RefinesHistory`: `Ingest` implements `History` | |
| `IngestProofs!SerialChainIsLinear` | `ChainIsLinear` | `[]Serial` |
| `IngestProofs!SerialCurrentIsLatest` | `CurrentIsLatest` | `[]Serial` |
| `IngestProofs!SerialLockHolds` | `OptimisticLock` | `[]Serial` |
| `IngestProofs!SerialCurrentAdvances` | `CurrentNeverRegresses` | `[]Serial` |
| `IngestProofs!SerialReplayIsWhatWasWritten` | `ReplayIsWhatWasWritten` | `[]Serial`, `PlainCommands` |
| `DurableProofs!TypeCorrect` | `TypeOK` | |
| `DurableProofs!EventIdsAreStoredOnce` | `OneEventPerKey` | |
| `DurableProofs!TicketsAreTrue` | `TicketsTellTheTruth` | |
| `DurableProofs!LapsedTicketsStayGone` | `ExpiredTicketsStayGone` | |
| `DurableProofs!QueueKeepsItsPromise` | `KeepsAcceptedWrites`: `Durable` implements `AtLeastOnce` | |
| `DurableProofs!OneWorkerKeepsEndedTickets` | `TerminalTicketsStay` | `OneWorker` |
| `DurableProofs!OneWorkerAppliesInOrder` | `AppliedInOrder` | `OneWorker`, `Unconditional` |
| `DurableProofs!ReservationsShip` | `NoOrphanReservation` | `RedisAnswers` |
| `FastBatchProofs!GapFree` | `GapFreeHistory` | |
| `FastBatchProofs!HistoryIsTold` | `FastHistoryIsTold` | |
| `FastBatchProofs!ChainLinear` | `FastChainLinear` | `"last" \notin FaultKinds` |
| `DeliveryProofs!LossesAreKnown` | `OnlyKnownLosses` | |
| `RuleAdminProofs!EachVersionAnnouncedOnce` | `VersionsAnnouncedOnce` | |
| `ConfigProofs!ConfigurationsAreSound` | `ConfigsAreSound` | |

The conditions are those the code needs, and the runs check the same properties under
them or on instances that meet them:

- `[]Serial`: no two writers are at work on one entity at the same time, as when a
  client waits for its answers or a shard has one worker. Without it the five
  properties fail ("Where code and text disagree").
- `PlainCommands`: no full state is sent as a `delete`, and no diff asks to create an
  entity; with one of these the event stored does not replay (below).
- `OneWorker`: the shard has at most one worker process; with two, each property fails.
- `Unconditional`: no write carries an `expected_version`. One that is refused as a
  conflict stays pending, and a reclaim may apply it after writes sent later.
- `"last" \notin FaultKinds`: the batch's read of an entity's last event never fails by
  itself. When it does, the item fails but the entity's next item of the batch finds
  the state loaded, does not read again, and links to nothing (below).
- `RedisAnswers`: no call to Redis fails and no API process dies; the queue may still
  refuse every publish. Otherwise nobody is left to release the reservation.

Three facts about numbers and finite sets that follow by induction only are hypotheses
of the step lemmas and are discharged once: `Arithmetic` (in `DurableProofs`), `Ordering`
(at the end of `IngestProofs`) and `Finiteness` (at the end of `DeliveryProofs`), from
`OrderProofs` and the library's theorems on finite sets. No theorem of the table has
one of them as a hypothesis.

The inductive invariants, and why the properties need them:

- `Ingest`. `IndInv` adds what a writer between two calls knows: a version it read
  from the tail is at most one above the tail now; the event of a writer past its
  insert is in the store; what it loaded is no newer than the history. With these, an
  insert that meets no version clash extends the history by exactly one, and an upsert
  or snapshot always has its event behind it. The refinement of `History` follows from
  the same invariant: a step that inserts appends to the log of one entity and every
  other step stutters. `SerialInv` adds that what a lone writer read is still so when
  its event lands (tail, link, loaded state), and `ReplayInv` that every event, applied
  to what the version before it left, gives the state its writer stored. That every
  read then returns this state, from the beginning or from any snapshot, is an
  induction over versions on the recursive function `Reconstruct`.
- `Durable`. `NumberInv` numbers the entries of a request's items: no two entries of
  the stream came from one item, so an entry id stays below its bound whatever is
  retried. `TicketInv` and `ClientInv` say that a ticket id is drawn once and opened
  before its task is published, `MarkInv` that a worker marks `stored` or `failed`
  only what has that verdict. `OneEventPerKey` needs no reservation: the barrier of the
  store is the whole argument. For one worker, `SaveInv` says that the transition read
  by `MarkGet` is still legal when `MarkSave` writes it, and `OrderInv` that nothing in
  the worker's hands is older than what it has applied, although the reclaim ticker may
  hand it an entry again. `HeldInv` finds for every reservation a task in the stream or
  the client that is about to publish or release it.
- `FastBatch`. `IndInv` keeps writes in line from the channel through the buffer and
  the plan to the store (`InLine`, `StoredFirst`, `EventsInLine`), which gives order
  and at-most-once. `NoGap` says that a planned event follows a version that is stored
  or is inserted before it: since the insert is ordered and stops at the first clash,
  nothing lands beyond a gap, whatever strict writers stored since the fold read
  `cur_*`. `DiffPlanned` and `DiffStored` follow a diff from the fold to its ticket.
  The chain needs `Links`: a planned event with a wrong link has a version that is
  stored already, so the unique index refuses it.
- `Delivery`. A webhook survives in a copy that nobody is about to remove (`Kept`): an
  entry that is not being acked, a timer, a dead letter that is not being deleted. An
  ack removes every copy of its entry, so the invariant says that one entry, and one
  dead letter, is about one webhook. An ack on a cancelled context fails, so an entry
  counts as being acked only in a process that is not shutting down.
- `RuleAdmin`. A request between its write and its audit record owns the version it
  wrote: no other request and no record has it, and the rule has come to it.
- `Config`. Which requests carry a raw and which a completed configuration at each
  step, and that what is stored or cached was validated.

Only model-checked:

- All liveness (`EveryWriteAnswered`, `EveryWriteSettles`, `BackpressureLifts`,
  `EveryFastWriteSettles`, `EveryPublishReturns`, `EveryDeliveryConcludes`,
  `CachesConverge`, `EveryRecordIsProvisioned`, `EnginesConverge`): fairness and ENABLED
  are out of the prover's reach. Of `AtLeastOnce`, `KeepsAcceptedWrites` is the safety
  part and proved; `EveryWriteSettles`, that work does leave the queue, is checked.
- `RulesMeanWhatTheySay` and `DiffsAreRight`, whose operators recurse over nested data
  (`RuleLang`, `JsonDiff`): what such a definition computes needs an induction over data.
- `ChainHolds`, `WaitsAreTheSchedule`, `PagesAreOneListing`, `ListingIsSound` and
  `FiresOnce` (`Chain`, `Backoff`, `Listing`, `Catalog`, `PostStore`), for which no proof
  has been written.

## Where code and text disagree

A promise made by a doc or a comment that the code does not keep is stated as a
property next to the ones that hold, and TLC finds a counterexample to each. One of
them is the run `lock_race`; the others are reproduced by naming the definition in
the cfg of its module with the instance given; for `RuleLang`, `JsonDiff`, `Chain`
and `Backoff` with the module's own specification (`RuleSpec`, `DiffSpec`, ...). Paths are under `src/internal/`
unless they begin with `src/`.

The first five have a cause in common: what was read before the append (`cur_*`, or
the last event for the hash chain) is used after it, and nothing compares it with the
version the append assigned.

- `Ingest!OptimisticLock` (the run `lock_race`), `service/ingest.go:126`.
  expected_version is compared with the cur_* version loaded before the append, and
  AppendEvent then takes whatever version is next, so two concurrent writes with the
  same expected version are both stored. src/doc/write-api.md:114 says "Optimistic lock:
  fails with `409` if the entity's current version differs".
- `Ingest!CurrentIsLatest` (`MCIngest_lock.cfg` with `OverlapCommands`),
  `storage/mongo/current_repo.go:56`. Upsert replaces the cur_* document whatever
  version it holds, so of two concurrent writes the older can be the last to upsert and
  cur_* stays behind the history with no write in flight. domain/event.go:83 says
  "CurrentState is the materialized latest state of an entity (cur_*)."
- `IngestRead!SnapshotsAreTransparent` (`MCIngest_lock.cfg` with `CrashCommands`),
  `service/ingest.go:160`. The snapshot stores the state its writer computed from the
  cur_* it loaded, not the replay of the history, so after two concurrent writes a read
  with the snapshot differs from one without. src/doc/concepts.md:60 says "Snapshots are
  best-effort: they never block the write path, and their absence affects only read
  performance, not correctness."
- `Ingest!ChainIsLinear` (`MCIngest_lock.cfg` with `OverlapCommands`, `PreStore =
  "closed"`), `service/ingest.go:140`. prev_hash is taken from the last event before
  AppendEvent retries, and a retry appends after another event without computing the
  link again, so two events carry the same prev_hash. src/doc/concepts.md:75 says
  "Because the chain is linear per entity".
- `IngestRead!CurrentIsRebuildable` (`MCIngest_serial.cfg` with `CrashCommands`),
  `service/ingest.go:262`. After a crash between AppendEvent and Upsert nothing rebuilds
  cur_*: the next write diffs against the stale state and is appended after an event its
  diff ignores, so the history no longer replays to cur_*. service/ingest.go:258-260
  says "cur_* is a reconstructable materialization, so a crash between the two leaves
  history intact and the cache rebuildable".
- `IngestRead!CurrentIsRebuildable` (`CreateCommands`, one writer),
  `service/ingest.go:207`. A create that carries a full state is diffed against {} also
  when the entity is live: the event holds adds only, cur_* is replaced by the state,
  and the replay keeps the fields the state dropped. service/ingest.go:258-259 says "the
  event store is the source of truth and cur_* is a reconstructable materialization".
- `IngestRead!CurrentIsRebuildable` (`DeleteCommands`, one writer),
  `service/ingest.go:190`. The state endpoint passes op delete through parseOp, and
  planEvent stores a delete event with the new state marked live in cur_*; the replay
  reports the entity deleted with its previous state. src/doc/write-api.md:109 says of
  the state endpoint's op "`create` or `update`; inferred if absent".
- `Durable!TerminalTicketsStay` (two workers, `CutRequests`), `service/ticket.go:65`.
  Mark reads the ticket, checks the transition and saves it with a second call that
  looks at nothing but the key's existence; a second worker that has claimed the same
  delivery can read accepted, and save processing after the first one saved stored.
  service/ticket.go:57-59 says "attempting an illegal move from a terminal state is a
  silent no-op, so a reprocessed delivery (XAUTOCLAIM) never drags a stored ticket back
  to processing".
- `Durable!AppliedInOrder` (two workers, `OrderRequests`, no faults),
  `worker/worker.go:208`. Reclaim claims whatever entry of a shard has been idle long
  enough, also one that waits behind an older entry which another process is still
  applying, so the newer write lands first. service/pipeline.go:32-33 says "all events
  of one entity hash to the same shard so a single consumer applies them in order".
- `Durable!EveryAcceptShips` (two clients, `RaceRequests`, a `queue` fault),
  `service/pipeline.go:176`. A request that finds the key reserved is answered 202 with
  the ticket of the request that holds it; when that one's publish then fails, the
  reservation is released but the second client keeps a ticket whose write was never
  enqueued. service/pipeline.go:181-182 says the release is there "so a retry isn't
  pinned to a ticket that never shipped", and src/doc/write-api.md:48 promises "The same
  `202` ticket body if the original was accepted but not yet stored."
- `Durable!PromisedTicketReadable` (two clients, `RaceRequests`),
  `service/pipeline.go:176`. A request that loses the reservation is answered 202 with
  the winner's ticket id, which the winner opens only later. service/pipeline.go:193-194
  says the ticket is opened first "so a concurrent GET after the 202 always finds it".
- `Durable!EveryWriteSettles` (one worker, `LockRequests`, no faults, fair),
  `worker/worker.go:204`. ErrVersionConflict is not among the permanent errors, so the
  delivery is never acked: it is reclaimed and refused for ever and its ticket stays at
  processing. worker/worker.go:199-201 says "isPermanent reports whether an error can
  never succeed on retry ...; transient store/queue errors are retryable", and versions
  only grow.
- `Durable!FailedWroteNothing` (`CutRequests`, a `queue` fault), `worker/worker.go:134`.
  A diff that does not apply is marked failed and acked; when the ack fails the entry is
  handled again, and if another write has changed the entity by then the diff applies
  and its event is stored, while the ticket stays failed because that status is
  terminal. src/doc/write-api.md:319 says "`failed` | Write failed; `error` field
  contains the reason".
- `Durable!OneEventPerEntry` (two workers, `OrderRequests`, a `crash`),
  `worker/worker.go:138`. A full state without an event_id that is handled again after
  another write changed the entity is stored a second time and undoes that write.
  worker/worker.go:138-139 says "Re-applying a full state is safe; the unique {eid,v}
  index guards against duplicate versions."
- `FastBatch!FailedDidNotLand` (`FastCommands` with a strict writer, no faults),
  `service/batch.go:129`. InsertMany is ordered: when it fails, the documents before the
  failing one are stored, and every item of the batch is reported failed.
  service/batch.go:42-43 says "a failed insertMany taints every item that fed it (the
  events did not land)".
- `FastBatch!VersionsAreOwned` (`FastCommands` with a strict writer, no faults),
  `service/batch.go:93`. The next version comes from the cur_* loaded for the batch; a
  strict or durable write of the entity in the meantime makes it collide.
  storage/mongo/event_repo.go:74-75 says "a {eid,v} collision means misconfiguration",
  and service/batch.go:20 "fast mode owns each entity's write tail"; a client may choose
  the mode per request.
- `FastBatch!VersionsAreOwned` (`TwoValues`, an `upsert` fault), `service/batch.go:138`.
  A failed refresh of cur_* is ignored, so the next batch assigns versions that are
  stored already and is rejected as a whole, again and again. service/batch.go:135-136
  says "cur_* is a reconstructable materialization — a failed refresh doesn't undo the
  durable history", and storage/mongo/event_repo.go:74-75 "a {eid,v} collision means
  misconfiguration".
- `FastBatch!NothingEnqueuedIsLost` (`TwoValues`, `MayStop`, channel of 2),
  `worker/batch.go:117`. On shutdown Subscribe closes the delivery channel; when the
  select takes that case before ctx.Done the loop returns without flushing. What is
  still in the queue's channel is not read on either way. worker/batch.go:85-86 says "On
  shutdown it flushes the tail on a detached context so nothing already enqueued is
  lost."
- `FastBatch!FastChainLinear` (`TwoValues`, 4 writes, a `last` fault),
  `service/batch.go:77`. The entity counts as loaded before its last event is read; when
  that read fails only the first item is refused, and the next item of the entity in the
  batch is linked to the genesis although the history is not empty.
  src/doc/concepts.md:75 says "Because the chain is linear per entity".
- `FastBatch!OptimisticLock` (`LockedCommands`), `service/batch.go:85`. batchCollection
  never looks at ExpectedVersion. src/doc/write-api.md:114 says "Optimistic lock: fails
  with `409` if the entity's current version differs".
- `FastBatch!StoredIsStored` (`TwoValues`, an `insert` fault), `service/batch.go:91`. An
  item equal to the running state of its batch writes nothing and settles as stored,
  also when the insert of that batch then fails and no event holds its value.
  src/doc/write-api.md:318 says "`stored` | Successfully written".
- `Delivery!NothingForgotten` (one dispatcher, a `crash`), `delivery/dispatcher.go:184`.
  process only starts a goroutine that waits for the backoff; the message is acked at
  once and the copy published later. delivery/dispatcher.go:171-172 says "a retryable
  failure re-publishes a delayed copy (with attempt+1) before acking the current one",
  and src/doc/concepts.md:124 "Webhook delivery is at-least-once".
- `Delivery!NothingForgotten` (one dispatcher, a `stop`), `delivery/dispatcher.go:300`.
  When timer and cancellation are both ready the select may take the timer: publish and
  the fallback to the dead letters then run on the cancelled context, both fail and the
  retry is dropped. delivery/dispatcher.go:286-287 says "context cancellation mid-wait
  publishes immediately rather than losing the retry".
- `Delivery!SamePolicy` (`CappedOnly`, one redelivery),
  `service/webhook_publisher.go:71`. A dead letter does not hold the rule's
  max_attempts, so Requeue publishes a task with none and the dispatcher applies its
  default. src/doc/admin-api.md:445 says "Re-enqueued deliveries follow the same retry
  policy as the original."
- `Delivery!RedeliveredOnce` (two redeliver requests, one attempt), `service/dlq.go:99`.
  redeliverOne enqueues before it deletes, and a missing document is no error, so two
  requests that have read the same entry both enqueue it. src/doc/admin-api.md:447 says
  "Returns `404` if any specified ID is unknown or already redelivered."
- `Delivery!EveryRedeliverReturns` (`UnsignedOnly`, pages of 1, fair),
  `service/dlq.go:75`. redeliverAll reads the first page until it is empty or short; an
  entry that fails at once (its secret_ref is not configured) is parked again before the
  next page is read, so the loop can go on for ever. service/dlq.go:73-74 says "each
  redelivered entry is deleted, so the window slides forward until the DLQ is empty".
- `Config!FirstUseOnly` (two handlers, a PUT), `service/config.go:101`. EnsureCollection
  saves the default record with an upsert whatever is stored by then, so a PUT that
  lands between its read and its save is undone. service/config.go:84-85 says "creating
  the collection on first use when auto-create is enabled: persists a default config".
- `Config!SeenAtOnce` (two handlers, two PUTs, `AutoCreate = FALSE`),
  `service/config.go:81`. Get stores what it has read in the cache also when the entry
  was invalidated after the read, so the old configuration is used for a whole TTL.
  src/doc/admin-api.md:56 says "invalidates the resolver cache so changes take effect
  immediately".
- `Config!WritesAreIndexed` (two handlers, no PUT), `service/config.go:101`. The record
  is saved before EnsurePhysical, and a concurrent first write that finds it goes on
  without the indexes. service/config.go:85-86 says "persists a default config and
  provisions the physical ev_*/cur_* collections and indexes (idempotent)".
- `Config!EveryRecordIsProvisioned` (without its premise, a `mongo` fault),
  `service/config.go:104`. When EnsurePhysical fails after the record is saved, every
  later write finds the record and never provisions the rest. src/doc/concepts.md:13
  says "Collections and their physical MongoDB collections are provisioned automatically
  on first write".
- `Config!RecordOnlyAfterPut` (one handler), `service/config.go:101`. A first write
  saves a record with all defaults, so GET answers 200 and reports none of them as a
  default. src/doc/admin-api.md:23 says "auto-created collections via first write do not
  have a stored config record until an explicit `PUT`".
- `Config!NonPositiveRefused` (`NegativeBodies`), `domain/collection.go:117`. Validate
  checks the snapshot numbers only: a negative retention.days or reorder_window is
  stored. src/doc/admin-api.md:58 says "An unknown enum value or a non-positive number
  returns `400`."
- `RuleAdmin!ChangesTakeEffect` (one admin, one change), `service/rules_engine.go:203`.
  rulesFor stores the list it has read also when the entry was invalidated after the
  read, so the old rules are evaluated for a whole TTL. service/rule_admin.go:13-14 says
  "drops a collection's compiled-rule cache entry so a change takes effect immediately
  rather than after the TTL".
- `RuleAdmin!DeletionAudited` (two admins), `service/rule_admin.go:82`. The audit entry
  of a delete holds the rule as read before the delete; after an update in between it
  names a version that is not the one deleted. service/rule_admin.go:74-75 says "It
  reads the rule first so the audit entry carries its name/version".
- `RuleLang!FiresWhatWasWritten` (`ExistsFalse`), `server/rules.go:288`. The value of
  exists is not decoded, so {"exists": false} means the same as {"exists": true}.
  src/doc/admin-api.md:252 says "`exists` | boolean | Field is present (`true`) or
  absent (`false`)".
- `RuleLang!FiresWhatWasWritten` (`Strict`), `rules/compile.go:323`. eq compares string
  renderings, so the number 1 equals the string "1". src/doc/admin-api.md:244 says "`eq`
  | any | Strict equality".
- `RuleLang!AmbiguousRefused` (`Ambiguous`), `server/rules.go:225`. toCondition takes
  the first kind a node sets and toScalar the first operator, and the rest never reaches
  Compile. rules/rules.go:54 says "Compile rejects a node that sets more than one kind
  or none at all."
- `JsonDiff!RoundTrip` (`Dotted`), `diff/diff.go:222`. childPath joins keys with a dot
  and escapes nothing, so the path of a key that has one is parsed as two keys and Apply
  fails or writes elsewhere. diff/diff.go:60-61 says "Apply(a, Diff(a, b)) == b for any
  JSON values a and b".
- `JsonDiff!ReplayAgrees` (`IntoAdded`, `NoValues`), `diff/apply.go:53`. Apply puts
  ch.New itself into its copy of the state, so a later change of the list below that
  path modifies the change list the caller then stores, and the stored history replays
  to another value. diff/apply.go:9 says "The input is never mutated: Apply works on a
  deep copy."
- `Catalog!LastIsLatest` (`MCReads.cfg`), `storage/mongo/stats_repo.go:114`. ts_st is
  read from the clock before the insert, so the last document in natural order may hold
  an earlier time than one before it. storage/mongo/stats_repo.go:107-109 says "ts_st is
  assigned at append from the wall clock and events are append-only, so the
  last-inserted document carries the latest activity time".
- `Chain!VerifiesAsWritten` (`EarlyCommands`), `plugin/hashchain/hashchain.go:152`. The
  zero test comes before the truncation: a source time less than a millisecond after the
  zero time is part of the hash at the write and absent when the stored event is
  verified. plugin/hashchain/hashchain.go:135-137 says "ts_source is truncated to
  millisecond precision (the resolution BSON datetime round-trips at), so a hash
  computed at write time matches one recomputed from the stored event at verify time".
- `Backoff!WaitsAreTheSchedule` (`Long`), `delivery/delivery.go:162`. base << attempt is
  checked for its sign only: with a base above the cap divided by what the word leaves,
  the shift wraps to a small positive value that is then taken as the delay.
  delivery/delivery.go:147-148 says "Schedule is min(Base*2^attempt, Max)".
- `PostStore!EveryEventFires` (`MCReads.cfg`), `service/ingest.go:161`. Rules run once,
  after the commit and in the memory of the process; after a crash in between the
  redelivered write is answered as a duplicate before it gets there.
  src/doc/concepts.md:124 says "Webhook delivery is at-least-once with configurable
  exponential backoff."
- `PostStore!DeduplicableById` (`MCReads.cfg`), `service/webhook_publisher.go:43`. The
  delivery id is made anew each time a rule fires, so two firings for one write under
  reclaim do not share it. service/rules_engine.go:145-146 says "Under durable reclaim a
  webhook may fire more than once — receivers deduplicate on X-HM-Delivery."

## Not modelled

- Times, author, source, metadata and flow of an event in `Ingest`: no guard of the
  write path reads them. The `at` cutoff of a point-in-time read is left out with
  them. `Chain` and `Listing` model them where they matter.
- Hash values: a hash is an injective function of what it covers, in `Ingest` the
  version it points to.
- The syntax of regular expressions: the constant `Patterns` says which texts are
  patterns and in which values of the instance each is found.
- The rules and the answer of a strict write are one step in `Ingest` (`Finish`):
  nothing reads what lies between them but the client that gets no answer. A crash
  between the effects of the rules is in `PostStore`.
- Creating and looking up an activity: one insert or one read, no protocol.
- Signing, the request body and the target address check of a delivery: functions
  of one call without state; the model keeps their refusals (`kind`).
- The mode of a request (strict, durable, fast) is an input. The composition of all
  three paths over one store is in `FastBatch` (fast and strict); `Durable` and
  `Ingest` share theirs through `Verdict` and `Commit`.
- Tenancy: the principal selects a database and takes part in no protocol.
- Transport: parsing, routing, authentication and gRPC. What decides which commands
  reach a use-case, and how results become answers, is modelled with each component.
- Metrics other than the sampled depth, wiring, command line, configuration files
  and generated code: they feed nothing back.

## Plan

Proofs: `FiresOnce` of `PostStore` and `ListingIsSound` of `Catalog`.
