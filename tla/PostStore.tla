----------------------------- MODULE PostStore ------------------------------
(***************************************************************************)
(* What follows a stored event (service/ingest, rules_engine, webhook_     *)
(* publisher, plugin/host) under a durable worker (worker/worker): the     *)
(* rules are evaluated once, after the commit, and a task handled again is *)
(* a duplicate, a no-op or another event.                                  *)
(***************************************************************************)
EXTENDS Integers, Sequences, FiniteSets, SequencesExt

CONSTANTS Entries,     \* accepted tasks: [task, kind, eventID, value]
          Workers,
          Rules,       \* sequence of the rules that match: [id, type]
          MaxFaults    \* bound: failed calls and crashes

VARIABLES
  pending,      \* tasks not acked
  taken,        \* tasks given to some worker once (they are reclaimed after)
  worker,       \* per worker: [step, task, v, rule]
  stored,       \* events, in version order: [task, eventID]
  cur,          \* the value of cur_*
  deliveries,   \* deliveries enqueued: [v, rule, id]
  executed,     \* plugin actions run and log lines: <<v, rule>>
  hooked,       \* versions the post-store plugins saw
  faults

postVars == <<pending, taken, worker, stored, cur, deliveries, executed, hooked, faults>>
effects == <<deliveries, executed, hooked>>

NoTask == [step |-> "idle", task |-> 0, v |-> 0, rule |-> 0]

PostInit ==
  /\ pending = Entries /\ taken = {} /\ worker = [w \in Workers |-> NoTask]
  /\ stored = <<>> /\ cur = 0 /\ deliveries = <<>> /\ executed = {} /\ hooked = {} /\ faults = 0

Fault == faults < MaxFaults /\ faults' = faults + 1

EntryOf(w) == CHOOSE e \in Entries : e.task = worker[w].task

Goto(w, step) == worker' = [worker EXCEPT ![w].step = step]

-----------------------------------------------------------------------------
(* The worker.                                                             *)

\* Subscribe gives out a new task, Reclaim one that was given out before,
\* whether or not another worker is still at it.
Take(w) ==
  /\ worker[w].step = "idle"
  /\ \E e \in pending :
       /\ taken' = taken \cup {e}
       /\ worker' = [worker EXCEPT ![w] = [NoTask EXCEPT !.step = "load", !.task = e.task]]
  /\ UNCHANGED <<pending, stored, cur, effects, faults>>

\* A failed call leaves the task unacked.
Retryable(w) ==
  Fault /\ worker' = [worker EXCEPT ![w] = NoTask] /\ UNCHANGED <<pending, taken, stored, cur, effects>>

\* planEvent: a full state equal to the current one is no event.
Load(w) ==
  /\ worker[w].step = "load"
  /\ \/ /\ IF EntryOf(w).kind = "state" /\ cur = EntryOf(w).value THEN Goto(w, "ack")
           ELSE Goto(w, "append")
        /\ UNCHANGED <<pending, taken, stored, cur, effects, faults>>
     \/ Retryable(w)

\* Faulty: no unique index on event_id.
DuplicateNever(e) == FALSE

Duplicate(e) == e.eventID # "" /\ \E i \in DOMAIN stored : stored[i].eventID = e.eventID

\* AppendEvent: an event_id that is stored already ends the write.
AppendEvent(w) ==
  /\ worker[w].step = "append"
  /\ \/ /\ Duplicate(EntryOf(w)) /\ Goto(w, "ack")
        /\ UNCHANGED <<pending, taken, stored, cur, effects, faults>>
     \/ /\ ~Duplicate(EntryOf(w))
        /\ stored' = Append(stored, [task |-> EntryOf(w).task, eventID |-> EntryOf(w).eventID])
        /\ worker' = [worker EXCEPT ![w].step = "upsert", ![w].v = Len(stored) + 1]
        /\ UNCHANGED <<pending, taken, cur, effects, faults>>
     \/ Retryable(w)

Upsert(w) ==
  /\ worker[w].step = "upsert"
  /\ \/ /\ cur' = EntryOf(w).value
        /\ worker' = [worker EXCEPT ![w].step = "rules", ![w].rule = 1]
        /\ UNCHANGED <<pending, taken, stored, effects, faults>>
     \/ Retryable(w)

\* rulesFor fails to load the rules: none are evaluated.
NoRules(w) ==
  /\ worker[w].step = "rules" /\ worker[w].rule = 1 /\ Fault /\ Goto(w, "hooks")
  /\ UNCHANGED <<pending, taken, stored, cur, effects>>

\* NewDeliveryID
FreshId == Len(deliveries) + 1

\* fire: one action of one matched rule. A webhook that cannot be published,
\* and an action whose plugin fails, are dropped.
Fire(w) ==
  /\ worker[w].step = "rules" /\ worker[w].rule <= Len(Rules)
  /\ LET r == Rules[worker[w].rule]
     IN  \/ /\ r.type = "webhook"
            /\ deliveries' = Append(deliveries, [v |-> worker[w].v, rule |-> r.id, id |-> FreshId])
            /\ UNCHANGED <<executed, faults>>
         \/ r.type = "webhook" /\ Fault /\ UNCHANGED <<deliveries, executed>>
         \/ /\ r.type # "webhook" /\ executed' = executed \cup {<<worker[w].v, r.id>>}
            /\ UNCHANGED <<deliveries, faults>>
  /\ worker' = [worker EXCEPT ![w].rule = @ + 1]
  /\ UNCHANGED <<pending, taken, stored, cur, hooked>>

Evaluated(w) ==
  /\ worker[w].step = "rules" /\ worker[w].rule > Len(Rules) /\ Goto(w, "hooks")
  /\ UNCHANGED <<pending, taken, stored, cur, effects, faults>>

RunPostStore(w) ==
  /\ worker[w].step = "hooks" /\ hooked' = hooked \cup {worker[w].v} /\ Goto(w, "ack")
  /\ UNCHANGED <<pending, taken, stored, cur, deliveries, executed, faults>>

Ack(w) ==
  /\ worker[w].step = "ack" /\ worker' = [worker EXCEPT ![w] = NoTask]
  /\ \/ pending' = pending \ {EntryOf(w)} /\ UNCHANGED faults
     \/ Fault /\ UNCHANGED pending
  /\ UNCHANGED <<taken, stored, cur, effects>>

Crash(w) ==
  /\ worker[w].step # "idle" /\ Fault /\ worker' = [worker EXCEPT ![w] = NoTask]
  /\ UNCHANGED <<pending, taken, stored, cur, effects>>

PostDone == pending = {} /\ (\A w \in Workers : worker[w].step = "idle") /\ UNCHANGED postVars

Handle(w) ==
  Load(w) \/ AppendEvent(w) \/ Upsert(w) \/ NoRules(w) \/ Fire(w) \/ Evaluated(w) \/ RunPostStore(w) \/ Ack(w)

PostNext == (\E w \in Workers : Take(w) \/ Handle(w) \/ Crash(w)) \/ PostDone

PostSpec == PostInit /\ [][PostNext]_postVars

-----------------------------------------------------------------------------
(* Properties.                                                             *)

Webhooks == {i \in DOMAIN Rules : Rules[i].type = "webhook"}

\* A rule fires at most once for a stored event, however often its task is
\* handled, because only the handling that stored the event evaluates it.
FiredOncePerEvent ==
  \A i, j \in DOMAIN deliveries :
    deliveries[i].v = deliveries[j].v /\ deliveries[i].rule = deliveries[j].rule => i = j

\* A client that sends an event_id gets one delivery per rule.
KeyedFiresOnce ==
  \A i, j \in DOMAIN deliveries :
    LET a == stored[deliveries[i].v] b == stored[deliveries[j].v]
    IN  a.eventID # "" /\ a.eventID = b.eventID /\ deliveries[i].rule = deliveries[j].rule => i = j

\* "Webhook delivery is at-least-once": a stored event has its deliveries
\* enqueued once its task is done.
EveryEventFires ==
  (pending = {} /\ \A w \in Workers : worker[w].step = "idle") =>
    \A v \in DOMAIN stored : \A r \in Webhooks :
      \E i \in DOMAIN deliveries : deliveries[i].v = v /\ deliveries[i].rule = Rules[r].id

\* Stored events and keyed writes fire a rule at most once, whatever fails, and
\* exactly once as long as nothing does.
FiresOnce ==
  FiredOncePerEvent /\ KeyedFiresOnce /\ (faults = 0 => EveryEventFires)

\* "a webhook may fire more than once - receivers deduplicate on
\* X-HM-Delivery": the deliveries of one task and rule have one id.
DeduplicableById ==
  \A i, j \in DOMAIN deliveries :
    /\ stored[deliveries[i].v].task = stored[deliveries[j].v].task
    /\ deliveries[i].rule = deliveries[j].rule
    => deliveries[i].id = deliveries[j].id
=============================================================================
