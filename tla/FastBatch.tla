----------------------------- MODULE FastBatch ------------------------------
(***************************************************************************)
(* The fast write path of one process and one shard: the in-memory queue   *)
(* (queue/memory), the batch worker that buffers and flushes (worker/batch)*)
(* and Ingester.IngestBatch, next to strict writes of the same entities.   *)
(*                                                                         *)
(* A batch is folded per tenant and collection; the groups share nothing,  *)
(* so one is modelled.  The flush is a sequence of database calls:         *)
(*                                                                         *)
(*   fold, item by item, an entity's cur_ and last event being read with   *)
(*   its first item -> insert, document by document -> upsert, entity by   *)
(*   entity -> settle (tickets, acks)                                      *)
(***************************************************************************)
EXTENDS Integers, Sequences, FiniteSetsExt

CONSTANTS Publishers,     \* request handlers of the process
          Entities, Keys, NoKey, Nil,
          Commands,       \* fast writes clients may send
          StrictValues,   \* values strict writes may store; {} for none
          Capacity,       \* of the shard's channel (1024)
          Size,           \* of a batch
          PreStore,       \* BOOLEAN: the hash-chain plugin is on
          MayStop,        \* BOOLEAN: the process may be shut down
          FaultKinds,     \* "config", "load", "last", "plugin", "insert", "upsert",
                          \* "crash"
          MaxWrites,      \* bound: fast and strict writes in a behaviour
          MaxFaults       \* bound: faults in a behaviour

Absent == 0               \* the value of an entity without a field

Command == [eid : Entities, key : Keys \cup {NoKey}, kind : {"state", "diff"},
            to : Nat, expected : Nat \cup {Nil}]

State == [v : Nat, value : Nat]   \* of an entity, in cur_*

ASSUME FastBatchAssumption ==
  /\ Commands \subseteq Command /\ NoKey \notin Keys
  /\ Nil \notin Nat /\ Nil \notin State
  /\ StrictValues \subseteq Nat /\ Capacity \in Nat \ {0} /\ Size \in Nat \ {0}
  /\ PreStore \in BOOLEAN /\ MayStop \in BOOLEAN
  /\ FaultKinds \subseteq {"config", "load", "last", "plugin", "insert", "upsert", "crash"}
  /\ MaxWrites \in Nat /\ MaxFaults \in Nat

VARIABLES
  sent,       \* the commands enqueued, in that order; a write is a place in it
  publisher,  \* per publisher: the command it waits to enqueue, or Nil
  chan,       \* the shard's channel
  held,       \* what the Subscribe goroutine holds, or 0
  sub,        \* the Subscribe goroutine: "on", or "off" with its channel closed
  pending,    \* delivered, not acked
  closed,     \* Queue.Close was called
  cancelled,  \* the process context
  draining,   \* runShard returns after the flush at hand
  loop,       \* runShard: "wait", "fold", "last", "insert", "upsert", "settle", "off"
  buf,        \* runShard's buffer
  plan,       \* batchCollection's locals
  outcome,    \* per write, its ticket: "accepted", "stored", "failed"
  docs,       \* the event documents [eid, v, key, value, link, write]
  cur,        \* cur_*, [v, value]
  started, faults

queueVars == <<chan, held, sub, pending, closed>>
clientVars == <<sent, publisher, started>>
processVars == <<cancelled, draining>>
vars == <<clientVars, queueVars, processVars, loop, buf, plan, outcome, docs, cur, faults>>

\* at is the item at hand, running and last an entity's state and last version as
\* the fold advances, due the entities whose cur_* is to be refreshed.
NoPlan == [at |-> 1, running |-> [e \in Entities |-> Nil], last |-> [e \in Entities |-> Nil],
           events |-> <<>>, failed |-> {}, due |-> {}, next |-> 1]

Init ==
  /\ sent = <<>> /\ publisher = [p \in Publishers |-> Nil]
  /\ chan = <<>> /\ held = 0 /\ sub = "on" /\ pending = {} /\ closed = FALSE
  /\ cancelled = FALSE /\ draining = FALSE /\ loop = "wait" /\ buf = <<>> /\ plan = NoPlan
  /\ outcome = <<>> /\ docs = {} /\ cur = [e \in Entities |-> [v |-> 0, value |-> Absent]]
  /\ started = 0 /\ faults = 0

Fault(kind) ==
  /\ kind \in FaultKinds /\ faults < MaxFaults
  /\ faults' = faults + 1

-----------------------------------------------------------------------------
(* The in-memory queue.                                                    *)

\* Queue.Publish: refused once the queue is closed, else it waits for room.
PublishBegin(p) ==
  /\ publisher[p] = Nil /\ started < MaxWrites
  /\ started' = started + 1
  /\ \E c \in Commands : publisher' = [publisher EXCEPT ![p] = IF closed THEN Nil ELSE c]
  /\ UNCHANGED <<sent, queueVars, processVars, loop, buf, plan, outcome, docs, cur, faults>>

PublishEnqueues(p) ==
  /\ publisher[p] # Nil /\ Len(chan) < Capacity
  /\ sent' = Append(sent, publisher[p]) /\ chan' = Append(chan, Len(sent'))
  /\ outcome' = Append(outcome, "accepted")
  /\ publisher' = [publisher EXCEPT ![p] = Nil]
  /\ UNCHANGED <<held, sub, pending, closed, processVars, loop, buf, plan, docs, cur, started,
                 faults>>

\* Faulty: a waiting publish does not watch the queue being closed.
PublishReleasedNever(p) == FALSE /\ UNCHANGED vars

PublishReleased(p) ==
  /\ publisher[p] # Nil /\ closed
  /\ publisher' = [publisher EXCEPT ![p] = Nil]
  /\ UNCHANGED <<sent, started, queueVars, processVars, loop, buf, plan, outcome, docs, cur,
                 faults>>

\* The request's own context ends while it waits.
PublishGivesUp(p) ==
  /\ publisher[p] # Nil /\ publisher' = [publisher EXCEPT ![p] = Nil]
  /\ UNCHANGED <<sent, started, queueVars, processVars, loop, buf, plan, outcome, docs, cur,
                 faults>>

\* The goroutine of Subscribe: pending first, then handed over; it may also
\* take one more message after the context is cancelled.
SubscribeTakes ==
  /\ sub = "on" /\ held = 0 /\ chan # <<>>
  /\ held' = Head(chan) /\ chan' = Tail(chan)
  /\ pending' = IF closed THEN pending ELSE pending \cup {Head(chan)}
  /\ UNCHANGED <<clientVars, sub, closed, processVars, loop, buf, plan, outcome, docs, cur,
                 faults>>

SubscribeEnds ==
  /\ sub = "on" /\ (cancelled \/ closed)
  /\ sub' = "off" /\ held' = 0
  /\ UNCHANGED <<clientVars, chan, pending, closed, processVars, loop, buf, plan, outcome,
                 docs, cur, faults>>

Cancel ==
  /\ MayStop /\ ~cancelled /\ cancelled' = TRUE
  /\ UNCHANGED <<clientVars, queueVars, draining, loop, buf, plan, outcome, docs, cur, faults>>

\* The queue is closed when the process's goroutines have returned; handlers
\* past the server's grace period may still be waiting in Publish.
Close ==
  /\ cancelled /\ loop = "off" /\ ~closed /\ closed' = TRUE
  /\ UNCHANGED <<clientVars, chan, held, sub, pending, processVars, loop, buf, plan, outcome,
                 docs, cur, faults>>

-----------------------------------------------------------------------------
(* BatchWorker.runShard.                                                   *)

\* A delivery goes into the buffer; a full buffer is flushed at once.
Buffer ==
  /\ loop = "wait" /\ held # 0
  /\ buf' = Append(buf, held) /\ held' = 0
  /\ loop' = IF Len(buf') >= Size THEN "fold" ELSE "wait"
  /\ UNCHANGED <<clientVars, chan, sub, pending, closed, processVars, plan, outcome, docs, cur,
                 faults>>

\* Faulty: the linger timer is started by the second delivery.
LingerFromSecond ==
  /\ loop = "wait" /\ Len(buf) > 1 /\ loop' = "fold"
  /\ UNCHANGED <<clientVars, queueVars, processVars, buf, plan, outcome, docs, cur, faults>>

Linger ==
  /\ loop = "wait" /\ buf # <<>> /\ loop' = "fold"
  /\ UNCHANGED <<clientVars, queueVars, processVars, buf, plan, outcome, docs, cur, faults>>

\* A flush the loop began before it noticed the shutdown runs on the cancelled
\* context: every call it makes fails.
Interrupted == cancelled /\ ~draining

\* The two ways out of the loop, either of which select may take: the context
\* (the buffer is flushed, on a detached context) and the closed channel of
\* deliveries (it is not).
StopOnContext ==
  /\ loop = "wait" /\ cancelled
  /\ loop' = IF buf = <<>> THEN "off" ELSE "fold"
  /\ draining' = TRUE
  /\ UNCHANGED <<clientVars, queueVars, cancelled, buf, plan, outcome, docs, cur, faults>>

StopOnClosedChannel ==
  /\ loop = "wait" /\ sub = "off" /\ loop' = "off" /\ buf' = <<>>
  /\ UNCHANGED <<clientVars, queueVars, processVars, plan, outcome, docs, cur, faults>>

-----------------------------------------------------------------------------
(* Ingester.batchCollection.                                               *)

Versions(e) == {d.v : d \in {x \in docs : x.eid = e}}

LastVersion(e) == Max(Versions(e) \cup {0})

flushVars == <<clientVars, queueVars, processVars, buf, outcome>>

\* A database call fails: it is faulty, or made on the cancelled context.
CallFails(kind) == IF Interrupted THEN UNCHANGED faults ELSE Fault(kind)

Item == buf[plan.at]

Entity == sent[Item].eid

Folding == loop = "fold" /\ plan.at <= Len(buf)

\* The item at hand fails alone; the fold goes on with the next one.
FailItem == [plan EXCEPT !.failed = @ \cup {Item}, !.at = @ + 1]

\* Every item that fed the insert fails, whatever has landed of it.
FailAll == [plan EXCEPT !.failed = @ \cup {d.write : d \in Range(plan.events)}]

\* EnsureCollection fails, and with it every item.
ConfigFails ==
  /\ Folding /\ plan = NoPlan /\ CallFails("config")
  /\ plan' = [plan EXCEPT !.failed = Range(buf)] /\ loop' = "settle"
  /\ UNCHANGED <<flushVars, docs, cur>>

\* An entity met for the first time: its cur_* is loaded ...
LoadCurrent ==
  /\ Folding /\ plan.running[Entity] = Nil
  /\ \/ /\ ~Interrupted /\ UNCHANGED faults
        /\ plan' = [plan EXCEPT !.running[Entity] = cur[Entity]]
        /\ loop' = IF PreStore THEN "last" ELSE "fold"
     \/ CallFails("load") /\ plan' = FailItem /\ UNCHANGED loop
  /\ UNCHANGED <<flushVars, docs, cur>>

\* ... and, for the hooks, its last event.  When that read fails, the loaded
\* state stays for the entity's next item.
LoadLast ==
  /\ loop = "last" /\ loop' = "fold"
  /\ \/ /\ ~Interrupted /\ UNCHANGED faults
        /\ plan' = [plan EXCEPT !.last[Entity] = LastVersion(Entity)]
     \/ CallFails("last") /\ plan' = FailItem
  /\ UNCHANGED <<flushVars, docs, cur>>

\* planEvent, on the running state of the fold; expected_version has no part
\* in it.  A diff here removes the field.
Planned(c, state) ==
  CASE c.kind = "diff" /\ state.value = Absent -> "invalid"
    [] c.kind = "state" /\ state.value = c.to  -> "none"
    [] OTHER                                   -> "write"

\* Faulty: the hooks see the stored tail, not the event folded before.
LinkOfStored(e) == LastVersion(e)

\* The event the hash of the next one links to; 0, the genesis, without one.
LinkOf(e) == IF plan.last[e] = Nil THEN 0 ELSE plan.last[e]

\* The state after the item at hand, and its event.
After == [v |-> plan.running[Entity].v + 1,
          value |-> IF sent[Item].kind = "diff" THEN Absent ELSE sent[Item].to]

Event == [eid |-> Entity, v |-> After.v, key |-> sent[Item].key, value |-> After.value,
          write |-> Item, link |-> IF PreStore THEN LinkOf(Entity) ELSE -1]

\* The rest of an item: plan, next version, pre-store hook, and the state it
\* leaves to the entity's next item.
PlanItem ==
  /\ Folding /\ plan.running[Entity] # Nil
  /\ LET todo == Planned(sent[Item], plan.running[Entity])
     IN  \/ todo = "invalid" /\ plan' = FailItem /\ UNCHANGED faults
         \/ todo = "none" /\ plan' = [plan EXCEPT !.at = @ + 1] /\ UNCHANGED faults
         \/ /\ todo = "write" /\ UNCHANGED faults
            /\ plan' = [plan EXCEPT !.at = @ + 1, !.events = Append(@, Event),
                                    !.running[Entity] = After, !.last[Entity] = After.v]
         \/ todo = "write" /\ PreStore /\ Fault("plugin") /\ plan' = FailItem
  /\ UNCHANGED <<flushVars, loop, docs, cur>>

\* The batch is folded; an insert on the cancelled context fails before it is sent.
FoldEnds ==
  /\ loop = "fold" /\ plan.at > Len(buf)
  /\ \/ plan.events = <<>> /\ loop' = "settle" /\ UNCHANGED plan
     \/ plan.events # <<>> /\ Interrupted /\ loop' = "settle" /\ plan' = FailAll
     \/ /\ plan.events # <<>> /\ ~Interrupted /\ loop' = "insert"
        /\ plan' = [plan EXCEPT !.due = {d.eid : d \in Range(plan.events)}]
  /\ UNCHANGED <<flushVars, docs, cur, faults>>

Fold == ConfigFails \/ LoadCurrent \/ LoadLast \/ PlanItem \/ FoldEnds

\* The unique indexes {eid, v} and, sparse, {event_id}.
Clash(d) == \E x \in docs : \/ x.eid = d.eid /\ x.v = d.v
                            \/ d.key # NoKey /\ x.key = d.key

\* Faulty: the insert goes on after a document that fails.
InsertUnordered ==
  LET d == plan.events[plan.next]
  IN  /\ loop = "insert"
      /\ \/ /\ ~Clash(d) /\ docs' = docs \cup {d}
            /\ plan' = [plan EXCEPT !.next = @ + 1] /\ UNCHANGED faults
         \/ /\ IF Clash(d) THEN UNCHANGED faults ELSE Fault("insert")
            /\ plan' = [FailAll EXCEPT !.next = @ + 1] /\ UNCHANGED docs
      /\ loop' = IF plan.next = Len(plan.events) THEN "upsert" ELSE "insert"
      /\ UNCHANGED <<flushVars, cur>>

\* Faulty: the error of the insert is dropped.
InsertBlind ==
  LET d == plan.events[plan.next]
  IN  /\ loop = "insert"
      /\ docs' = IF Clash(d) THEN docs ELSE docs \cup {d}
      /\ plan' = [plan EXCEPT !.next = @ + 1]
      /\ loop' = IF Clash(d) THEN "settle"
                 ELSE IF plan.next = Len(plan.events) THEN "upsert" ELSE "insert"
      /\ UNCHANGED <<flushVars, cur, faults>>

\* AppendEvents: one ordered InsertMany.  It ends at the first document that
\* clashes, or with the connection; what it has inserted stays.
Insert ==
  LET d == plan.events[plan.next]
  IN  /\ loop = "insert"
      /\ \/ /\ ~Clash(d) /\ docs' = docs \cup {d}
            /\ plan' = [plan EXCEPT !.next = @ + 1]
            /\ loop' = IF plan.next = Len(plan.events) THEN "upsert" ELSE "insert"
            /\ UNCHANGED faults
         \/ /\ Clash(d) /\ plan' = FailAll /\ loop' = "settle"
            /\ UNCHANGED <<docs, faults>>
         \/ CallFails("insert") /\ plan' = FailAll /\ loop' = "settle" /\ UNCHANGED docs
      /\ UNCHANGED <<flushVars, cur>>

\* The refresh of cur_*, an entity at a time; its errors are ignored.  With it
\* come the snapshots and the rules, which change nothing here.
Upsert ==
  /\ loop = "upsert"
  /\ \/ \E e \in plan.due :
          /\ plan' = [plan EXCEPT !.due = @ \ {e}]
          /\ \/ cur' = [cur EXCEPT ![e] = plan.running[e]] /\ UNCHANGED faults
             \/ CallFails("upsert") /\ UNCHANGED cur
          /\ UNCHANGED loop
     \/ plan.due = {} /\ loop' = "settle" /\ UNCHANGED <<plan, cur, faults>>
  /\ UNCHANGED <<flushVars, docs>>

\* settle per item, then every delivery is acked, whatever came of it (Ack
\* needs no context).
Settle ==
  /\ loop = "settle" /\ loop' = IF draining THEN "off" ELSE "wait"
  /\ outcome' = [m \in DOMAIN outcome |->
       IF m \notin Range(buf) \/ Interrupted THEN outcome[m]
       ELSE IF m \in plan.failed THEN "failed" ELSE "stored"]
  /\ pending' = pending \ Range(buf)
  /\ buf' = <<>> /\ plan' = NoPlan
  /\ UNCHANGED <<clientVars, chan, held, sub, closed, processVars, docs, cur, faults>>

-----------------------------------------------------------------------------
(* The rest of the process.                                                *)

\* A strict write of the same entity, as one step (see Ingest for its parts):
\* AppendEvent takes the version after the stored tail.
StrictWrite(e) ==
  /\ started < MaxWrites /\ started' = started + 1
  /\ \E value \in StrictValues :
       /\ value # cur[e].value
       /\ docs' = docs \cup {[eid |-> e, v |-> LastVersion(e) + 1, key |-> NoKey,
                             value |-> value, write |-> 0,
                             link |-> IF PreStore THEN LastVersion(e) ELSE -1]}
       /\ cur' = [cur EXCEPT ![e] = [v |-> LastVersion(e) + 1, value |-> value]]
  /\ UNCHANGED <<sent, publisher, queueVars, processVars, loop, buf, plan, outcome, faults>>

\* The process dies and is started again: its memory is gone.
Crash ==
  /\ Fault("crash")
  /\ publisher' = [p \in Publishers |-> Nil]
  /\ chan' = <<>> /\ held' = 0 /\ sub' = "on" /\ pending' = {} /\ closed' = FALSE
  /\ cancelled' = FALSE /\ draining' = FALSE /\ loop' = "wait" /\ buf' = <<>> /\ plan' = NoPlan
  /\ UNCHANGED <<sent, outcome, docs, cur, started>>

Work == \/ Buffer \/ Linger \/ StopOnContext \/ StopOnClosedChannel
        \/ Fold \/ Insert \/ Upsert \/ Settle

Done ==
  /\ started = MaxWrites /\ \A p \in Publishers : publisher[p] = Nil
  /\ \/ closed
     \/ ~cancelled /\ chan = <<>> /\ held = 0 /\ buf = <<>>
  /\ UNCHANGED vars

Next ==
  \/ \E p \in Publishers : \/ PublishBegin(p) \/ PublishEnqueues(p)
                           \/ PublishReleased(p) \/ PublishGivesUp(p)
  \/ SubscribeTakes \/ SubscribeEnds \/ Cancel \/ Close
  \/ Work \/ (\E e \in Entities : StrictWrite(e)) \/ Crash \/ Done

Spec == Init /\ [][Next]_vars

\* The goroutines run, and the linger timer fires.
FairSpec ==
  /\ Spec
  /\ WF_vars(SubscribeTakes) /\ WF_vars(SubscribeEnds) /\ WF_vars(Work) /\ WF_vars(Close)
  /\ \A p \in Publishers : WF_vars(PublishEnqueues(p) \/ PublishReleased(p))

-----------------------------------------------------------------------------
(* Properties.                                                             *)

Writes == DOMAIN sent

Of(m) == {d \in docs : d.write = m}

\* Versions assigned by the fold, next to strict writers, after failed and
\* partial inserts and crashes, still number every entity's events 1, 2, ...
\* without a gap: InsertMany is ordered and the indexes are unique.
GapFreeHistory ==
  \A e \in Entities : Versions(e) = 1 .. LastVersion(e)

\* Fast writes of an entity are stored in the order they were accepted (one
\* goroutine per shard, one fold per batch), and "fast mode is at-most-once".
StoredInOrder ==
  \A d, x \in docs : d.eid = x.eid /\ 0 < d.write /\ d.write <= x.write
                      => d = x \/ d.v < x.v

\* The ticket of a diff says stored only when its event is in the history; a
\* failed insert is never reported as a success.
StoredDiffLanded ==
  \A m \in Writes : outcome[m] = "stored" /\ sent[m].kind = "diff" => Of(m) # {}

\* What the fast path says of its writes is what its history shows: both of
\* the above, under failed and partial inserts and strict writers next to it.
FastHistoryIsTold == StoredInOrder /\ StoredDiffLanded

\* Every event links to the one before it ("events of one entity chain off the
\* in-memory predecessor"), whether the batch, another batch or a strict
\* write stored that one.
FastChainLinear == PreStore => \A d \in docs : d.link = d.v - 1

\* As long as the process runs and nothing fails, every accepted write is
\* flushed, also when no further write fills its batch (the linger timer).
EveryFastWriteSettles ==
  [](faults = 0) => []<>(cancelled \/ \A m \in Writes : outcome[m] # "accepted")

\* A publish that waits for room comes back, also when the consumer is gone:
\* closing the queue releases it.
EveryPublishReturns == \A p \in Publishers : publisher[p] # Nil ~> publisher[p] = Nil

\* "a failed insertMany taints every item that fed it (the events did not
\* land)": no event of a write reported as failed is stored.
FailedDidNotLand == \A m \in Writes : outcome[m] = "failed" => Of(m) = {}

\* "`stored` | Successfully written": a write reported as stored has its event,
\* or an event of its entity holds the value it repeated.
StoredIsStored ==
  \A m \in Writes : outcome[m] = "stored" /\ Of(m) = {}
     => \E d \in docs : d.eid = sent[m].eid /\ d.value = sent[m].to

\* "a {eid,v} collision means misconfiguration": a version the fold assigned
\* is free when it is inserted.
VersionsAreOwned ==
  loop = "insert" => LET d == plan.events[plan.next]
                     IN  d.v \notin Versions(d.eid)

\* "On shutdown it flushes the tail ... so nothing already enqueued is lost":
\* when the loop has ended, every accepted write has been settled.
NothingEnqueuedIsLost ==
  loop = "off" => \A m \in Writes : outcome[m] # "accepted"

\* A write with expected_version n becomes version n + 1 or is refused.
OptimisticLock ==
  \A d \in docs : d.write # 0 /\ sent[d.write].expected # Nil
                   => d.v = sent[d.write].expected + 1
=============================================================================
