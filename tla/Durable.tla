------------------------------ MODULE Durable -------------------------------
(***************************************************************************)
(* The durable write path from the 202 to the acknowledgement:             *)
(*                                                                         *)
(*   clients  AsyncIngester.enqueue and BatchIngester.Ingest: backpressure,*)
(*            reservation of the event_id, ticket, publish                 *)
(*   queue    one shard of the Redis stream with its consumer group: the   *)
(*            undelivered tail and the pending list, XAUTOCLAIM            *)
(*   workers  Worker.runShard of several processes: every process consumes *)
(*            every shard under its own consumer name                      *)
(*                                                                         *)
(* All entities of a shard share its stream; shards share nothing, so one  *)
(* is modelled.  A step ends at every call to Redis or MongoDB.  The write *)
(* itself is one step here; its interleavings are the subject of Ingest.   *)
(***************************************************************************)
EXTENDS Integers, Sequences, FiniteSetsExt, Functions

CONSTANTS Clients,        \* request handlers of the API processes
          Workers,        \* worker processes
          Requests,       \* what clients may send
          Keys,           \* event_ids
          NoKey,          \* a command without one
          Nil,            \* no expected_version
          MaxDepth,       \* queue.max_depth, 0 for none
          MaxItems,       \* maxBatchItems: a longer batch is refused before
          ReserveTries,   \* reserveMaxTries
          FaultKinds,     \* what may fail: see Fault
          MaxRequests,    \* bound: requests in a behaviour
          MaxFaults       \* bound: faults in a behaviour

Absent == 0               \* the value of an entity without a field

Command == [eid : STRING, key : Keys \cup {NoKey}, kind : {"state", "diff"},
            to : Nat, expected : Nat \cup {Nil}, default : {"strict", "durable"}]

Request == [batch : BOOLEAN, override : {"", "strict", "durable"},
            items : Seq(Command)]

ASSUME DurableAssumption ==
  /\ NoKey \notin Keys /\ Nil \notin Nat
  /\ \A r \in Requests : r \in Request /\ Len(r.items) \in 1 .. MaxItems
                         /\ (~r.batch => Len(r.items) = 1)
  /\ FaultKinds \subseteq {"queue", "redis", "mongo", "crash", "api crash", "expiry"}
  /\ ReserveTries \in Nat \ {0}
  /\ MaxDepth \in Nat /\ MaxItems \in Nat /\ MaxRequests \in Nat /\ MaxFaults \in Nat

Tickets  == 1 .. MaxRequests       \* a request draws the next ticket id
NoTicket == 0
Entries  == 1 .. MaxRequests * MaxItems

VARIABLES
  client,     \* per client: where its request is
  idem,       \* per event_id: the ticket that reserved it, or NoTicket
  tickets,    \* per ticket: its status; "none" and "expired" are not found
  stream,     \* every entry ever added, [cmd, ticket, origin]
  delivered,  \* entries the group has read (last-delivered-id)
  pel,        \* positions of the pending entries
  slot,       \* per worker: the entry its Subscribe goroutine holds, or 0
  worker,     \* per worker: the deliveries at hand and where handle is
  events,     \* stored events in the order of their commits
  verdicts,   \* history, per entry: what processing it came to
  promised,   \* history: tickets of the 202 answers to single writes
  sampled,    \* the sampler's last depth
  started, faults

queueVars  == <<stream, delivered, pel>>
clientVars == <<client, idem, promised, started>>
vars == <<client, idem, tickets, stream, delivered, pel, slot, worker, events,
          verdicts, promised, sampled, started, faults>>

IdleClient == [pc |-> "idle"]
IdleWorker == [pc |-> "idle", todo |-> {}, mark |-> "processing"]

Init ==
  /\ client = [c \in Clients |-> IdleClient]
  /\ idem = [k \in Keys |-> NoTicket]
  /\ tickets = [t \in Tickets |-> "none"]
  /\ stream = <<>> /\ delivered = 0 /\ pel = {}
  /\ slot = [w \in Workers |-> 0]
  /\ worker = [w \in Workers |-> IdleWorker]
  /\ events = <<>> /\ verdicts = <<>> /\ promised = {}
  /\ sampled = 0 /\ started = 0 /\ faults = 0

\* One of the failures the run allows; the caller says what it leaves behind.
Fault(kind) ==
  /\ kind \in FaultKinds /\ faults < MaxFaults
  /\ faults' = faults + 1

-----------------------------------------------------------------------------
(* The write: applyOne as one step, over a field per entity.               *)

OfEntity(e) == SelectSeq(events, LAMBDA ev : ev.eid = e)

Value(e) == LET evs == OfEntity(e)
            IN  IF evs = <<>> THEN Absent ELSE evs[Len(evs)].value

\* Faulty: no storage barrier on event_id.
VerdictNoBarrier(c) ==
  CASE c.expected # Nil /\ c.expected # Len(OfEntity(c.eid)) -> "conflict"
    [] c.kind = "diff" /\ Value(c.eid) = Absent              -> "invalid"
    [] c.kind = "state" /\ Value(c.eid) = c.to               -> "no_changes"
    [] OTHER                                                 -> "stored"

\* The version check comes first, then planEvent, and only then the storage
\* barrier on event_id.  A diff here removes the field.
Verdict(c) ==
  CASE c.expected # Nil /\ c.expected # Len(OfEntity(c.eid)) -> "conflict"
    [] c.kind = "diff" /\ Value(c.eid) = Absent              -> "invalid"
    [] c.kind = "state" /\ Value(c.eid) = c.to               -> "no_changes"
    [] c.key # NoKey /\ \E ev \in Range(events) : ev.key = c.key -> "duplicate"
    [] OTHER                                                 -> "stored"

Commit(c, m) ==
  events' = IF Verdict(c) # "stored" THEN events
            ELSE Append(events, [eid |-> c.eid, key |-> c.key, entry |-> m,
                                 value |-> IF c.kind = "diff" THEN Absent ELSE c.to])

Succeeded == {"stored", "no_changes", "duplicate"}

\* isPermanent: of the errors here, only a diff that does not apply.
Permanent == {"invalid"}

Final == Succeeded \cup Permanent

-----------------------------------------------------------------------------
(* The API: backpressure, reservation, ticket, publish.                    *)

EffectiveMode(override, default) == IF override = "" THEN default ELSE override

Item(c) == client[c].req.items[client[c].i]

\* Where an item of a request begins.
Entry(req, i) ==
  LET cmd == req.items[i]
  IN  IF EffectiveMode(req.override, cmd.default) = "strict" THEN "strict"
      ELSE IF cmd.key # NoKey THEN "reserve"
      ELSE IF req.batch THEN "publish" ELSE "open"

\* A single write is gated by its effective mode, a batch by its override
\* alone; strict writes have no queue to watch.
Gated(req) ==
  IF req.batch THEN req.override # "strict"
  ELSE EffectiveMode(req.override, req.items[1].default) # "strict"

\* Sampler.Allow: on the last sample, not on the depth.
Allow(req) == Gated(req) => MaxDepth = 0 \/ sampled < MaxDepth

Begin(c) ==
  /\ client[c].pc = "idle" /\ started < MaxRequests
  /\ started' = started + 1
  /\ \E r \in Requests :
       client' = [client EXCEPT ![c] =
         IF ~Allow(r) THEN IdleClient           \* 429, no trace
         ELSE [pc |-> Entry(r, 1), req |-> r, i |-> 1, ticket |-> started',
               dedup |-> FALSE, tries |-> 0, rejected |-> FALSE]]
  /\ UNCHANGED <<idem, tickets, queueVars, slot, worker, events, verdicts,
                 promised, sampled, faults>>

\* The end of an item: a single write is answered, with a 202 for the ticket
\* when there is one; a batch goes on to its next item, at last its receipt.
ItemDone(c, accepted, ticket) ==
  LET k == client[c]
      n == k.i + 1
  IN  /\ client' = [client EXCEPT ![c] =
           IF ~k.req.batch THEN IdleClient
           ELSE [k EXCEPT !.pc = IF n > Len(k.req.items) THEN "receipt"
                                 ELSE Entry(k.req, n),
                          !.i = n, !.dedup = FALSE, !.tries = 0,
                          !.rejected = @ \/ ~accepted]]
      /\ promised' = IF accepted /\ ~k.req.batch /\ ticket # NoTicket
                     THEN promised \cup {ticket} ELSE promised

Goto(c, pc) == client' = [client EXCEPT ![c].pc = pc]

\* dispatch and writeStrict.
Strict(c) ==
  /\ client[c].pc = "strict"
  /\ Commit(Item(c), 0)
  /\ ItemDone(c, Verdict(Item(c)) \in Succeeded, NoTicket)
  /\ UNCHANGED <<idem, tickets, queueVars, slot, worker, verdicts, sampled,
                 started, faults>>

Unreserved(c) == IF client[c].req.batch THEN "publish" ELSE "open"

\* Reserve: SET NX; when it loses, GET the winner's record; a key that has
\* gone in between is tried again, and in the end the write goes on as if
\* it held the reservation.
SetNX(c) ==
  /\ client[c].pc = "reserve"
  /\ \/ /\ idem[Item(c).key] = NoTicket
        /\ idem' = [idem EXCEPT ![Item(c).key] = client[c].ticket]
        /\ client' = [client EXCEPT ![c].pc = Unreserved(c), ![c].dedup = TRUE]
        /\ UNCHANGED faults
     \/ /\ idem[Item(c).key] # NoTicket
        /\ Goto(c, "lookup")
        /\ UNCHANGED <<idem, faults>>
     \/ Fault("redis") /\ Goto(c, Unreserved(c)) /\ UNCHANGED idem
  /\ UNCHANGED <<tickets, queueVars, slot, worker, events, verdicts, promised,
                 sampled, started>>

Lookup(c) ==
  /\ client[c].pc = "lookup"
  /\ LET found == idem[Item(c).key]
         tries == client[c].tries + 1
     IN  \/ found # NoTicket /\ ItemDone(c, TRUE, found) /\ UNCHANGED faults
         \/ /\ found = NoTicket
            /\ client' = [client EXCEPT
                  ![c].pc = IF tries < ReserveTries THEN "reserve" ELSE Unreserved(c),
                  ![c].dedup = tries >= ReserveTries, ![c].tries = tries]
            /\ UNCHANGED <<promised, faults>>
         \/ Fault("redis") /\ Goto(c, Unreserved(c)) /\ UNCHANGED promised
  /\ UNCHANGED <<idem, tickets, queueVars, slot, worker, events, verdicts,
                 sampled, started>>

\* What a failed Open or Publish leads to.
Fail(c) ==
  IF client[c].dedup THEN Goto(c, "release") /\ UNCHANGED promised
  ELSE ItemDone(c, FALSE, NoTicket)

Open(c) ==
  /\ client[c].pc = "open"
  /\ \/ /\ tickets' = [tickets EXCEPT ![client[c].ticket] = "accepted"]
        /\ Goto(c, "publish")
        /\ UNCHANGED <<promised, faults>>
     \/ Fault("redis") /\ Fail(c) /\ UNCHANGED tickets
  /\ UNCHANGED <<idem, queueVars, slot, worker, events, verdicts, sampled, started>>

\* An item of a batch carries no ticket of its own.  A failed XADD may have
\* added the entry all the same.
Publish(c) ==
  LET k == client[c]
      task == [cmd |-> Item(c), origin |-> k.ticket,
               ticket |-> IF k.req.batch THEN NoTicket ELSE k.ticket]
      Add == stream' = Append(stream, task) /\ verdicts' = Append(verdicts, {})
  IN  /\ k.pc = "publish"
      /\ \/ Add /\ ItemDone(c, TRUE, k.ticket) /\ UNCHANGED faults
         \/ Fault("queue") /\ Fail(c) /\ Add
         \/ Fault("queue") /\ Fail(c) /\ UNCHANGED <<stream, verdicts>>
      /\ UNCHANGED <<idem, tickets, delivered, pel, slot, worker, events,
                     sampled, started>>

\* Faulty: the reservation of a write that never shipped is kept.
ReleaseForgotten(c) ==
  /\ client[c].pc = "release"
  /\ ItemDone(c, FALSE, NoTicket)
  /\ UNCHANGED <<idem, tickets, queueVars, slot, worker, events, verdicts,
                 sampled, started, faults>>

\* DEL, whoever holds the reservation by now; an error is only logged.
Release(c) ==
  /\ client[c].pc = "release"
  /\ ItemDone(c, FALSE, NoTicket)
  /\ \/ idem' = [idem EXCEPT ![Item(c).key] = NoTicket] /\ UNCHANGED faults
     \/ Fault("redis") /\ UNCHANGED idem
  /\ UNCHANGED <<tickets, queueVars, slot, worker, events, verdicts, sampled,
                 started>>

\* OpenBatch, after the items have shipped; an error is only logged.
Receipt(c) ==
  /\ client[c].pc = "receipt"
  /\ client' = [client EXCEPT ![c] = IdleClient]
  /\ \/ /\ tickets' = [tickets EXCEPT ![client[c].ticket] =
                          IF client[c].rejected THEN "partial" ELSE "accepted"]
        /\ UNCHANGED faults
     \/ Fault("redis") /\ UNCHANGED tickets
  /\ UNCHANGED <<idem, queueVars, slot, worker, events, verdicts, promised,
                 sampled, started>>

ClientCrash(c) ==
  /\ client[c].pc # "idle" /\ Fault("api crash")
  /\ client' = [client EXCEPT ![c] = IdleClient]
  /\ UNCHANGED <<idem, tickets, queueVars, slot, worker, events, verdicts,
                 promised, sampled, started>>

\* The TTLs of the reservation and of the ticket.
Expire ==
  /\ Fault("expiry")
  /\ \/ \E k \in Keys : /\ idem[k] # NoTicket
                        /\ idem' = [idem EXCEPT ![k] = NoTicket]
                        /\ UNCHANGED tickets
     \/ \E t \in Tickets : /\ tickets[t] \notin {"none", "expired"}
                           /\ tickets' = [tickets EXCEPT ![t] = "expired"]
                           /\ UNCHANGED idem
  /\ UNCHANGED <<client, queueVars, slot, worker, events, verdicts, promised,
                 sampled, started>>

-----------------------------------------------------------------------------
(* The queue and its workers.                                              *)

\* Faulty: the length of the stream, which an acknowledgement does not shorten.
DepthOfStream == Len(stream)

Depth == Len(stream) - delivered + Cardinality(pel)

\* sampleAll; a failed read keeps the last sample.  Without a limit the sample
\* is a gauge no write looks at.
SampleAll ==
  /\ MaxDepth > 0 /\ sampled # Depth /\ sampled' = Depth
  /\ UNCHANGED <<clientVars, tickets, queueVars, slot, worker, events, verdicts,
                 faults>>

\* Faulty: the entry is acknowledged as it is read.
SubscribeNoAck(w) ==
  /\ slot[w] = 0 /\ delivered < Len(stream)
  /\ delivered' = delivered + 1
  /\ slot' = [slot EXCEPT ![w] = delivered']
  /\ UNCHANGED <<clientVars, tickets, stream, pel, worker, events, verdicts,
                 sampled, faults>>

\* Faulty: the next entry is read before the last one was handed over.
SubscribeOverwrites(w) ==
  /\ delivered < Len(stream)
  /\ delivered' = delivered + 1
  /\ pel' = pel \cup {delivered'}
  /\ slot' = [slot EXCEPT ![w] = delivered']
  /\ UNCHANGED <<clientVars, tickets, stream, worker, events, verdicts, sampled,
                 faults>>

\* XREADGROUP ">" COUNT 1: the entry is pending before it is handed over.
Subscribe(w) ==
  /\ slot[w] = 0 /\ delivered < Len(stream)
  /\ delivered' = delivered + 1
  /\ pel' = pel \cup {delivered'}
  /\ slot' = [slot EXCEPT ![w] = delivered']
  /\ UNCHANGED <<clientVars, tickets, stream, worker, events, verdicts, sampled,
                 faults>>

Ticket(m) == stream[m].ticket

\* process begins with a mark, which a task without a ticket skips.
FirstStep(m) == IF Ticket(m) = NoTicket THEN "apply" ELSE "get"

Take(w, todo) ==
  worker' = [worker EXCEPT ![w] =
    IF todo = {} THEN IdleWorker
    ELSE [pc |-> FirstStep(Min(todo)), todo |-> todo, mark |-> "processing"]]

Receive(w) ==
  /\ worker[w].pc = "idle" /\ slot[w] # 0
  /\ Take(w, {slot[w]})
  /\ slot' = [slot EXCEPT ![w] = 0]
  /\ UNCHANGED <<clientVars, tickets, queueVars, events, verdicts, sampled, faults>>

\* Faulty: the claimed entries are handed to nobody.
ReclaimUnhandled(w, claimed) ==
  /\ worker[w].pc = "idle" /\ claimed # {}
  /\ Take(w, {})
  /\ UNCHANGED <<clientVars, tickets, queueVars, slot, events, verdicts, sampled,
                 faults>>

\* XAUTOCLAIM hands out, in stream order, the pending entries that have been
\* idle long enough, whoever holds them; the clock is not modelled, so that
\* is any of them.
Reclaim(w, claimed) ==
  /\ worker[w].pc = "idle" /\ claimed # {}
  /\ Take(w, claimed)
  /\ UNCHANGED <<clientVars, tickets, queueVars, slot, events, verdicts, sampled,
                 faults>>

Current(w) == Min(worker[w].todo)

Proceed(w, pc) == worker' = [worker EXCEPT ![w].pc = pc]

\* Where process goes on after the mark it has just made.
AfterMark(w) == IF worker[w].mark = "processing" THEN "apply" ELSE "ack"

\* Faulty: any status may follow any other.
CanTransitionAlways(from, to) == TRUE

CanTransition(from, to) ==
  \/ from = "accepted" /\ to \in {"processing", "stored", "failed"}
  \/ from = "processing" /\ to \in {"stored", "failed"}

\* Mark reads the ticket, and saves it in a second call.  An error of either
\* is logged, and the work goes on.
MarkGet(w) ==
  LET status == tickets[Ticket(Current(w))]
      legal  == /\ status \notin {"none", "expired"}
                /\ status # worker[w].mark /\ CanTransition(status, worker[w].mark)
  IN  /\ worker[w].pc = "get"
      /\ \/ Proceed(w, IF legal THEN "save" ELSE AfterMark(w)) /\ UNCHANGED faults
         \/ Fault("redis") /\ Proceed(w, AfterMark(w))
      /\ UNCHANGED <<clientVars, tickets, queueVars, slot, events, verdicts, sampled>>

\* Faulty: SET without XX writes a ticket that has expired.
SaveAnyway(t, status) == [tickets EXCEPT ![t] = status]

\* SET XX KEEPTTL: a ticket that has expired is not written again.
Save(t, status) ==
  IF tickets[t] \in {"none", "expired"} THEN tickets
  ELSE [tickets EXCEPT ![t] = status]

MarkSave(w) ==
  /\ worker[w].pc = "save"
  /\ Proceed(w, AfterMark(w))
  /\ \/ tickets' = Save(Ticket(Current(w)), worker[w].mark) /\ UNCHANGED faults
     \/ Fault("redis") /\ UNCHANGED tickets
  /\ UNCHANGED <<clientVars, queueVars, slot, events, verdicts, sampled>>

\* The next delivery at hand; the one before it is not acknowledged.
Leave(w) == Take(w, worker[w].todo \ {Current(w)})

\* Faulty: a failed write is marked stored.
MarkForStored(verdict) == "stored"

MarkFor(verdict) == IF verdict \in Succeeded THEN "stored" ELSE "failed"

\* The call of the Ingester: it ends well, or for good, or it is left for a
\* later reclaim.  A failed call may have stored the event.
Process(w) ==
  LET m == Current(w)
      verdict == Verdict(stream[m].cmd)
  IN  /\ worker[w].pc = "apply"
      /\ \/ /\ verdict \in Final
            /\ Commit(stream[m].cmd, m)
            /\ verdicts' = [verdicts EXCEPT ![m] = @ \cup {verdict}]
            /\ worker' = [worker EXCEPT ![w].mark = MarkFor(verdict),
                           ![w].pc = IF Ticket(m) = NoTicket THEN "ack" ELSE "get"]
            /\ UNCHANGED faults
         \/ verdict \notin Final /\ Leave(w) /\ UNCHANGED <<events, verdicts, faults>>
         \/ Fault("mongo") /\ Leave(w) /\ UNCHANGED <<events, verdicts>>
         \/ /\ verdict = "stored" /\ Fault("mongo") /\ Leave(w)
            /\ Commit(stream[m].cmd, m) /\ UNCHANGED verdicts
      /\ UNCHANGED <<clientVars, tickets, queueVars, slot, sampled>>

Ack(w) ==
  /\ worker[w].pc = "ack"
  /\ Leave(w)
  /\ \/ pel' = pel \ {Current(w)} /\ UNCHANGED faults
     \/ Fault("queue") /\ UNCHANGED pel
  /\ UNCHANGED <<clientVars, tickets, stream, delivered, slot, events, verdicts,
                 sampled>>

WorkerCrash(w) ==
  /\ worker[w].pc # "idle" \/ slot[w] # 0
  /\ Fault("crash")
  /\ worker' = [worker EXCEPT ![w] = IdleWorker]
  /\ slot' = [slot EXCEPT ![w] = 0]
  /\ UNCHANGED <<clientVars, tickets, queueVars, events, verdicts, sampled>>

Handling(w) == Receive(w) \/ MarkGet(w) \/ MarkSave(w) \/ Process(w) \/ Ack(w)

AnyReclaim(w) == \E claimed \in SUBSET pel : Reclaim(w, claimed)

Serving(c) == \/ Strict(c) \/ SetNX(c) \/ Lookup(c) \/ Open(c) \/ Publish(c)
              \/ Release(c) \/ Receipt(c)

Done ==
  /\ started = MaxRequests /\ \A c \in Clients : client[c].pc = "idle"
  /\ delivered = Len(stream) /\ pel = {}
  /\ \A w \in Workers : worker[w].pc = "idle" /\ slot[w] = 0
  /\ UNCHANGED vars

Next ==
  \/ \E c \in Clients : Begin(c) \/ Serving(c) \/ ClientCrash(c)
  \/ \E w \in Workers : \/ Subscribe(w) \/ Handling(w) \/ AnyReclaim(w)
                        \/ WorkerCrash(w)
  \/ SampleAll \/ Expire \/ Done

Spec == Init /\ [][Next]_vars

\* A worker's loop goes on: it reads, it handles what it holds, and its ticker
\* claims an entry that stays pending, once it has been idle long enough.
Fairness ==
  /\ \A w \in Workers :
       /\ WF_vars(Subscribe(w)) /\ WF_vars(Handling(w))
       /\ \A m \in Entries :
            WF_vars(\E claimed \in SUBSET pel : m \in claimed /\ Reclaim(w, claimed))
  /\ \A c \in Clients : WF_vars(Serving(c))
  /\ WF_vars(SampleAll)

FairSpec == Spec /\ Fairness

-----------------------------------------------------------------------------
(* Properties.                                                             *)

Terminal == {"stored", "failed", "partial"}

Published == 1 .. Len(stream)

Quiet == \A c \in Clients : client[c].pc = "idle"

Ledger == INSTANCE AtLeastOnce WITH
  Work    <- Entries,
  owed    <- {m \in Published : m > delivered \/ m \in pel},
  handled <- {m \in Published : verdicts[m] # {}},
  settled <- {m \in Published : m <= delivered /\ m \notin pel}

\* The stream with its pending list and the workers keep the promise of a
\* queue with acknowledgements: whatever crashes, fails or is claimed by
\* another worker, an entry leaves only after a verdict on it
\* (Worker.handle acks on success or poison alone).
KeepsAcceptedWrites == Ledger!LedgerSpec

\* With the reclaim ticker running, every entry is settled in the end
\* (runShard, reclaim), unless its write conflicts for ever.
EveryWriteSettles == Ledger!LedgerSettles

\* A ticket says stored or failed only when its write was (process marks it
\* after the Ingester's answer), also when the delivery is handled again.
TicketsTellTheTruth ==
  \A m \in Published :
    LET status == IF Ticket(m) = NoTicket THEN "none" ELSE tickets[Ticket(m)]
    IN  /\ status = "stored" => verdicts[m] \cap Succeeded # {}
        /\ status = "failed" => verdicts[m] \cap Permanent # {}

\* A ticket whose TTL has lapsed stays unknown, also when it lapses between
\* the read and the save of a mark (TicketStore.Save is SET XX).
ExpiredTicketsStayGone ==
  [][\A t \in Tickets : tickets[t] = "expired" => tickets'[t] = "expired"]_vars

\* "No second event is written" for an event_id, whether its reservation
\* failed, expired or was released, and however often it is delivered.
OneEventPerKey ==
  \A i, j \in DOMAIN events : events[i].key = events[j].key /\ i # j
                             => events[i].key = NoKey

\* A ticket that has come to an end keeps its status until it expires: "a
\* reprocessed delivery (XAUTOCLAIM) never drags a stored ticket back".
TerminalTicketsStay ==
  [][\A t \in Tickets : tickets[t] \in Terminal
                        => tickets'[t] \in {tickets[t], "expired"}]_vars

FirstEvent(m) == Min({i \in DOMAIN events : events[i].entry = m})

Wrote(m) == \E i \in DOMAIN events : events[i].entry = m

\* The writes of an entity are applied in the order they were accepted (they
\* share a shard: "a single consumer applies them in order"), as long as no
\* call fails and leaves a delivery behind.
AppliedInOrder ==
  faults = 0 => \A m, n \in Published :
    m < n /\ stream[m].cmd.eid = stream[n].cmd.eid /\ Wrote(m) /\ Wrote(n)
      => FirstEvent(m) < FirstEvent(n)

\* Backpressure ends: once the workers have drained the queue, the sampler
\* sees it and requests pass again (sampleAll, Allow).
BackpressureLifts ==
  MaxDepth > 0 => (sampled >= MaxDepth ~> sampled < MaxDepth)

\* When the queue refuses a task, its reservation is freed, "so a retry isn't
\* pinned to a ticket that never shipped": at rest, whoever holds an event_id
\* has shipped it.
NoOrphanReservation ==
  Quiet => \A k \in Keys : idem[k] # NoTicket
                => \E m \in Published : stream[m].origin = idem[k]

\* A 202 stands for a write that has been accepted: at rest, the ticket of
\* every 202 belongs to a task that shipped.
EveryAcceptShips ==
  Quiet => \A t \in promised : \E m \in Published : stream[m].origin = t

\* The ticket of a 202 can be polled ("a concurrent GET after the 202 always
\* finds it").
PromisedTicketReadable == \A t \in promised : tickets[t] # "none"

\* A ticket that says failed belongs to a write that was not stored.
FailedWroteNothing ==
  \A m \in Published : Ticket(m) # NoTicket /\ Wrote(m)
                        => tickets[Ticket(m)] # "failed"

\* An entry that is delivered again writes nothing new: "Re-applying a full
\* state is safe".
OneEventPerEntry ==
  \A i, j \in DOMAIN events : events[i].entry = events[j].entry /\ i # j
                             => events[i].entry = 0
=============================================================================
