------------------------------- MODULE Config -------------------------------
(***************************************************************************)
(* The configuration of one collection: PUT /config (server/config,        *)
(* service/config_admin), the resolver with its per-process cache that     *)
(* every write goes through and that creates a collection on its first use *)
(* (service/config), and the stored record and physical collections        *)
(* (storage/mongo/collection_repo).                                        *)
(*                                                                         *)
(* A configuration maps fields to values: "" or 0 for unset, "good" for a  *)
(* value the enum knows, "bad" for one it does not.                        *)
(***************************************************************************)
EXTENDS Integers, Sequences, FiniteSets

CONSTANTS Nodes,        \* processes
          Handlers,     \* requests in flight
          Bodies,       \* the bodies PUT requests may have
          Omitted, Nil,
          AutoCreate,   \* collections.auto_create
          FaultKinds,   \* "mongo", "crash"
          MaxPuts,      \* bound: PUT requests
          MaxFaults     \* bound: faults in a behaviour

Enums   == {"reliability_mode", "first_event_op", "ordering", "retention"}
Sizes   == {"snapshot_interval", "max_event_size_bytes"}
Extras  == {"retention.days", "ordering.reorder_window_ms", "plugins.fail_mode"}
Fields  == Enums \cup Sizes \cup Extras

Numbers == Sizes \cup {"retention.days", "ordering.reorder_window_ms"}

Unset(f) == IF f \in Numbers THEN 0 ELSE ""

Default(f) == CASE f \in Enums -> "default" [] f \in Sizes -> 100 [] OTHER -> Unset(f)

ASSUME ConfigAssumption ==
  /\ \A body \in Bodies, f \in Fields :
       body[f] = Omitted \/ body[f] \in IF f \in Numbers THEN Int ELSE {"", "good", "bad"}
  /\ AutoCreate \in BOOLEAN /\ FaultKinds \subseteq {"mongo", "crash"}
  /\ MaxPuts \in Nat /\ MaxFaults \in Nat

VARIABLES
  stored,     \* the record in collections_config, or Nil: [cfg, gen]
  physical,   \* the parts that exist
  cache,      \* per process: Nil or [cfg, gen, fresh]
  handler,    \* per handler: [kind, at, step, cfg, gen, part, from]
  puts,       \* PUT requests begun
  saved,      \* configurations PUTs have saved; a record's gen is its number
  answered,   \* the number of the last configuration a PUT has answered for
  faults

vars == <<stored, physical, cache, handler, puts, saved, answered, faults>>

\* EnsurePhysical, in its order.
Parts == <<"ev, cur and sn collections", "event indexes", "snapshot indexes">>

NoConfig == [f \in Fields |-> Unset(f)]

NoHandler == [kind |-> "none", at |-> Nil, step |-> "idle", cfg |-> NoConfig,
              gen |-> 0, part |-> 0, from |-> 0]

Init ==
  /\ stored = Nil /\ physical = {} /\ cache = [n \in Nodes |-> Nil]
  /\ handler = [h \in Handlers |-> NoHandler]
  /\ puts = 0 /\ saved = 0 /\ answered = 0 /\ faults = 0

-----------------------------------------------------------------------------
(* Pure parts.                                                             *)

\* domain.WithDefaults.
WithDefaults(cfg) == [f \in Fields |-> IF cfg[f] = Unset(f) THEN Default(f) ELSE cfg[f]]

\* decodeConfigRequest: an omitted field is unset; days and window come with
\* their objects, unchecked.
Decoded(body) == [f \in Fields |-> IF body[f] = Omitted THEN Unset(f) ELSE body[f]]

DecodeAccepts(body) == \A f \in Sizes : body[f] = Omitted \/ body[f] > 0

\* CollectionConfig.Validate, and the Valid* functions it calls.
Validate(cfg) ==
  /\ \A f \in Fields \ Numbers : cfg[f] # "bad"
  /\ \A f \in Sizes : cfg[f] >= 0

\* defaultedFields, of GET /config.
DefaultedFields(cfg) == {f \in Enums \cup Sizes : cfg[f] = Unset(f)}

-----------------------------------------------------------------------------
(* Steps that writes and PUTs share.                                       *)

Fault(kind) ==
  /\ kind \in FaultKinds /\ faults < MaxFaults
  /\ faults' = faults + 1

Set(h, record) == handler' = [handler EXCEPT ![h] = record]

Goto(h, step) == Set(h, [handler[h] EXCEPT !.step = step])

\* A database call of the handler fails: so does the request.
Fail(h) ==
  /\ handler[h].step \in {"load", "save", "provision"} /\ Fault("mongo")
  /\ Set(h, NoHandler)
  /\ UNCHANGED <<stored, physical, cache, puts, saved, answered>>

\* SaveConfig: an upsert that replaces the record.
Save(h) ==
  /\ handler[h].step = "save"
  /\ saved' = IF handler[h].kind = "put" THEN saved + 1 ELSE saved
  /\ LET gen == IF handler[h].kind = "put" THEN saved' ELSE 0
     IN  /\ stored' = [cfg |-> handler[h].cfg, gen |-> gen]
         /\ Set(h, [handler[h] EXCEPT !.step = "provision", !.part = 1, !.gen = gen])
  /\ UNCHANGED <<physical, cache, puts, answered, faults>>

\* Faulty: the last part is left out.
ProvisionButLast(h) ==
  /\ handler[h].step = "provision"
  /\ physical' = physical \cup {Parts[handler[h].part]}
  /\ Set(h, IF handler[h].part < Len(Parts) - 1 THEN [handler[h] EXCEPT !.part = @ + 1]
            ELSE [handler[h] EXCEPT !.part = 0,
                    !.step = IF handler[h].kind = "put" THEN "invalidate" ELSE "fill"])
  /\ UNCHANGED <<stored, cache, puts, saved, answered, faults>>

\* EnsurePhysical, a call at a time; each is idempotent.
Provision(h) ==
  /\ handler[h].step = "provision"
  /\ physical' = physical \cup {Parts[handler[h].part]}
  /\ Set(h, IF handler[h].part < Len(Parts) THEN [handler[h] EXCEPT !.part = @ + 1]
            ELSE [handler[h] EXCEPT !.part = 0,
                    !.step = IF handler[h].kind = "put" THEN "invalidate" ELSE "fill"])
  /\ UNCHANGED <<stored, cache, puts, saved, answered, faults>>

-----------------------------------------------------------------------------
(* CollectionConfigService.Update.                                         *)

\* decodeConfigRequest and Validate: a refused body changes nothing.
PutBegin(h) ==
  /\ handler[h].step = "idle" /\ puts < MaxPuts /\ puts' = puts + 1
  /\ \E n \in Nodes, body \in Bodies :
       Set(h, IF DecodeAccepts(body) /\ Validate(Decoded(body))
              THEN [NoHandler EXCEPT !.kind = "put", !.at = n, !.step = "save",
                                     !.cfg = Decoded(body)]
              ELSE NoHandler)
  /\ UNCHANGED <<stored, physical, cache, saved, answered, faults>>

\* The resolver of this process forgets its entry; then the audit record,
\* whose failure is only logged, and the answer.
PutEnd(h) ==
  /\ handler[h].step = "invalidate"
  /\ cache' = [cache EXCEPT ![handler[h].at] = Nil]
  /\ answered' = IF handler[h].gen > answered THEN handler[h].gen ELSE answered
  /\ Set(h, NoHandler)
  /\ UNCHANGED <<stored, physical, puts, saved, faults>>

-----------------------------------------------------------------------------
(* ConfigResolver.EnsureCollection, on the way of every write.             *)

\* Faulty: an expired entry is served.
FreshAlways(n) == cache[n] # Nil

Fresh(n) == cache[n] # Nil /\ cache[n].fresh

\* Get: from the cache while the entry is fresh.
WriteBegin(h) ==
  /\ handler[h].step = "idle"
  /\ \E n \in Nodes :
       LET begun == [NoHandler EXCEPT !.kind = "write", !.at = n, !.from = answered]
       IN  Set(h, IF Fresh(n)
                  THEN [begun EXCEPT !.step = "write", !.cfg = cache[n].cfg, !.gen = cache[n].gen]
                  ELSE [begun EXCEPT !.step = "load"])
  /\ UNCHANGED <<stored, physical, cache, puts, saved, answered, faults>>

\* Faulty: the stored record is served as it is.
LoadRaw(h) ==
  /\ handler[h].step = "load"
  /\ Set(h, IF stored # Nil
            THEN [handler[h] EXCEPT !.step = "fill", !.cfg = stored.cfg, !.gen = stored.gen]
            ELSE [handler[h] EXCEPT !.step = "save", !.cfg = WithDefaults(NoConfig)])
  /\ UNCHANGED <<stored, physical, cache, puts, saved, answered, faults>>

\* Get, after a miss: the stored record with its defaults; without one the
\* collection is created, or the write refused.
Load(h) ==
  /\ handler[h].step = "load"
  /\ Set(h, IF stored # Nil
            THEN [handler[h] EXCEPT !.step = "fill", !.cfg = WithDefaults(stored.cfg),
                                    !.gen = stored.gen]
            ELSE IF AutoCreate THEN [handler[h] EXCEPT !.step = "save",
                                                       !.cfg = WithDefaults(NoConfig)]
            ELSE NoHandler)
  /\ UNCHANGED <<stored, physical, cache, puts, saved, answered, faults>>

\* store.
Fill(h) ==
  /\ handler[h].step = "fill"
  /\ cache' = [cache EXCEPT ![handler[h].at] =
                [cfg |-> handler[h].cfg, gen |-> handler[h].gen, fresh |-> TRUE]]
  /\ Goto(h, "write")
  /\ UNCHANGED <<stored, physical, puts, saved, answered, faults>>

\* The write goes on with the configuration it has got (see Ingest).
WriteEnd(h) ==
  /\ handler[h].step = "write" /\ Set(h, NoHandler)
  /\ UNCHANGED <<stored, physical, cache, puts, saved, answered, faults>>

\* The TTL of an entry runs out.
Expire(n) ==
  /\ Fresh(n) /\ cache' = [cache EXCEPT ![n].fresh = FALSE]
  /\ UNCHANGED <<stored, physical, handler, puts, saved, answered, faults>>

\* A process dies with its requests and its cache.
Crash(n) ==
  /\ Fault("crash")
  /\ cache' = [cache EXCEPT ![n] = Nil]
  /\ handler' = [h \in Handlers |-> IF handler[h].at = n THEN NoHandler ELSE handler[h]]
  /\ UNCHANGED <<stored, physical, puts, saved, answered>>

-----------------------------------------------------------------------------
Run(h) == \/ Save(h) \/ Provision(h) \/ PutEnd(h) \/ Load(h) \/ Fill(h) \/ WriteEnd(h)

Next ==
  \/ \E h \in Handlers : PutBegin(h) \/ WriteBegin(h) \/ Run(h) \/ Fail(h)
  \/ \E n \in Nodes : Expire(n) \/ Crash(n)

Spec == Init /\ [][Next]_vars

\* Requests run on, time passes, and clients keep writing.
FairSpec ==
  /\ Spec
  /\ \A h \in Handlers : WF_vars(Run(h)) /\ WF_vars(WriteBegin(h))
  /\ \A n \in Nodes : WF_vars(Expire(n))

-----------------------------------------------------------------------------
(* Properties.                                                             *)

Configs == {handler[h].cfg : h \in {x \in Handlers : handler[x].step \in {"fill", "write"}}}
           \cup {cache[n].cfg : n \in {x \in Nodes : cache[x] # Nil}}

\* Whatever a PUT or a first write leaves in the database, the domain's own
\* checks accept, so a resolver never serves a value it does not know.
StoredIsValid ==
  stored # Nil => /\ \A f \in Fields \ Numbers : stored.cfg[f] \in {"", "good", "default"}
                  /\ \A f \in Sizes : stored.cfg[f] >= 0

\* Every configuration a write works with is complete: the defaults are filled
\* in on each of the ways it can come (cache, record, first use).
EffectiveIsComplete == \A c \in Configs, f \in Enums \cup Sizes : c[f] # Unset(f)

\* defaultedFields names exactly the fields of the record that WithDefaults
\* changes ("It mirrors the WithDefaults logic field for field").
DefaultsMirrored ==
  stored # Nil => DefaultedFields(stored.cfg)
                  = {f \in Fields : WithDefaults(stored.cfg)[f] # stored.cfg[f]}

\* Whatever way a configuration comes (PUT, first use, record, cache), it is
\* valid, used with its defaults, and reported with the right ones.
ConfigsAreSound == StoredIsValid /\ EffectiveIsComplete /\ DefaultsMirrored

\* When no more PUTs come, every process in the end works with the stored
\* configuration: an entry is served for its TTL only.
CachesConverge ==
  <>[](\A n \in Nodes : Fresh(n) => cache[n].cfg = WithDefaults(stored.cfg))

\* A collection with a record gets its physical collections and indexes, as
\* long as no call fails: the record comes first, and nothing retries the rest.
EveryRecordIsProvisioned ==
  [](faults = 0) => (stored # Nil ~> Cardinality(physical) = Len(Parts))

\* "creating the collection on first use": a record a PUT has stored is replaced
\* by later PUTs only.
FirstUseOnly == [][stored # Nil /\ stored' # stored => stored'.gen > 0]_stored

\* "invalidates the resolver cache so changes take effect immediately": a write
\* that begins, on the same process, after a PUT was answered works with that
\* configuration or a later one.
SeenAtOnce ==
  \A h \in Handlers : handler[h].step = "write" => handler[h].gen >= handler[h].from

\* "provisions the physical ev_*/cur_* collections and indexes": no write goes on
\* before the unique indexes exist.
WritesAreIndexed ==
  \A h \in Handlers : handler[h].step = "write" => Cardinality(physical) = Len(Parts)

\* "auto-created collections via first write do not have a stored config record
\* until an explicit `PUT`".
RecordOnlyAfterPut == stored # Nil => saved > 0

\* "An unknown enum value or a non-positive number returns `400`".
NonPositiveRefused ==
  stored # Nil => \A f \in Numbers : stored.cfg[f] >= 0
=============================================================================
