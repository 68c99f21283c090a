------------------------------ MODULE Delivery ------------------------------
(***************************************************************************)
(* Webhook delivery (internal/delivery, service/webhook_publisher and      *)
(* service/dlq): the delivery stream, the dispatchers that post each task  *)
(* and schedule its retries in memory, the dead-letter collection, and the *)
(* redelivery of dead letters.                                             *)
(*                                                                         *)
(* A message is handled in three steps: post, park (toDLQ) where the task  *)
(* is given up, and ack.  Between them other dispatchers and redelivery    *)
(* requests move, and the dispatcher's process may be shut down or crash.  *)
(***************************************************************************)
EXTENDS Integers, Sequences, FiniteSets, Functions

CONSTANTS Dispatchers,     \* processes, one shard goroutine each
          Admins,          \* redelivery requests in flight
          Triggers,        \* the webhooks rules may fire
          Answers,         \* of receivers: "ok", "refused", "unheard"
          DefaultAttempts, \* webhooks.max_attempts
          PageSize,        \* redeliverAllPageSize (200)
          FaultKinds,      \* calls that may fail ("publish", "ack", "save", "delete"),
                           \* a process that may "stop" or "crash", and "slow": a post
                           \* may outlast ReclaimMinIdle
          MaxHooks,        \* bound: webhooks fired
          MaxRedelivers,   \* bound: redelivery requests
          MaxFaults        \* bound: faults in a behaviour

\* A rule's webhook: cap is its max_attempts (0: unset); "unsigned" names a
\* secret that is not configured, "blocked" an address the guard refuses.
Trigger == [rule : Nat, cap : Nat, kind : {"open", "unsigned", "blocked"}]

ASSUME DeliveryAssumption ==
  /\ IsFiniteSet(Dispatchers) /\ IsFiniteSet(Admins)
  /\ Triggers \subseteq Trigger /\ Answers \subseteq {"ok", "refused", "unheard"}
  /\ DefaultAttempts \in Nat \ {0} /\ PageSize \in Nat \ {0}
  /\ FaultKinds \subseteq {"publish", "ack", "save", "delete", "stop", "crash", "slow"}
  /\ MaxHooks \in Nat /\ MaxRedelivers \in Nat /\ MaxFaults \in Nat

VARIABLES
  hooks,      \* webhooks published, in order; their index is the delivery id
  stream,     \* messages [id, hook, attempt, cap] not yet delivered
  unacked,    \* messages delivered to a dispatcher, not acked
  hand,       \* per dispatcher: the messages it is to handle, the first at work
  pc,         \* per dispatcher: "idle", "post", "park", "ack"
  timers,     \* retries waiting in a dispatcher's memory [id, by, hook, attempt, cap]
  stopping,   \* per dispatcher: its context is cancelled
  dlq,        \* dead letters [id, hook, attempts], oldest first
  admin,      \* per request: [step, again, rule, page]
  received,   \* deliveries a receiver has got
  unsent,     \* deliveries whose first publish failed
  dropped,    \* deliveries given up, of which no dead letter could be saved
  cutOff,     \* deliveries whose retry was due while its process was shutting down
  forgotten,  \* deliveries whose waiting retry died with its process
  redelivers, faults

queueVars == <<stream, unacked>>
workVars == <<hand, pc, timers, stopping>>
fateVars == <<received, unsent, dropped, cutOff, forgotten>>
vars == <<hooks, stream, unacked, hand, pc, timers, stopping, dlq, admin, received,
          unsent, dropped, cutOff, forgotten, redelivers, faults>>

NoRequest == [step |-> "idle", again |-> FALSE, rule |-> 0, page |-> <<>>]

Init ==
  /\ hooks = <<>> /\ stream = <<>> /\ unacked = {}
  /\ hand = [d \in Dispatchers |-> <<>>] /\ pc = [d \in Dispatchers |-> "idle"]
  /\ timers = {} /\ stopping = [d \in Dispatchers |-> FALSE]
  /\ dlq = <<>> /\ admin = [r \in Admins |-> NoRequest]
  /\ received = {} /\ unsent = {} /\ dropped = {} /\ cutOff = {} /\ forgotten = {}
  /\ redelivers = 0 /\ faults = 0

Fault(kind) ==
  /\ kind \in FaultKinds /\ faults < MaxFaults
  /\ faults' = faults + 1

-----------------------------------------------------------------------------
(* The stream.                                                             *)

\* Stream entries get fresh ids; an id nothing refers to any more is reused.
Fresh(used) == CHOOSE n \in 1 .. Cardinality(used) + 1 : n \notin used

MessageIds ==
  {m.id : m \in Range(stream) \cup unacked \cup UNION {Range(hand[d]) : d \in Dispatchers}}

Enqueued(hook, attempt, cap) ==
  Append(stream, [id |-> Fresh(MessageIds), hook |-> hook, attempt |-> attempt, cap |-> cap])

\* fireWebhook and WebhookPublisher.Publish: a publish that fails is logged and
\* the webhook was never accepted.
Publish ==
  /\ Len(hooks) < MaxHooks
  /\ \E t \in Triggers :
       /\ hooks' = Append(hooks, t)
       /\ \/ stream' = Enqueued(Len(hooks'), 0, t.cap) /\ UNCHANGED <<faults, unsent>>
          \/ /\ Fault("publish") /\ unsent' = unsent \cup {Len(hooks')}
             /\ UNCHANGED stream
  /\ UNCHANGED <<unacked, workVars, dlq, admin, received, dropped, cutOff, forgotten,
                 redelivers>>

\* runShard: the next message of the stream, when no other is at hand.  (One it
\* still picks up after the shutdown is as one taken just before it.)
Take(d) ==
  /\ hand[d] = <<>> /\ stream # <<>> /\ ~stopping[d]
  /\ hand' = [hand EXCEPT ![d] = <<Head(stream)>>] /\ pc' = [pc EXCEPT ![d] = "post"]
  /\ stream' = Tail(stream) /\ unacked' = unacked \cup {Head(stream)}
  /\ UNCHANGED <<hooks, timers, stopping, dlq, admin, fateVars, redelivers, faults>>

\* reclaim: the messages idle for ReclaimMinIdle, handled one after another;
\* also those another dispatcher is slow with.
Reclaim(d) ==
  /\ hand[d] = <<>> /\ ~stopping[d]
  /\ \E claimed \in (SUBSET unacked) \ {{}} :
       /\ \E batch \in [1 .. Cardinality(claimed) -> claimed] :
            /\ \A i, j \in DOMAIN batch : i < j => batch[i].id < batch[j].id
            /\ hand' = [hand EXCEPT ![d] = batch]
       /\ IF {m.id : m \in claimed} \cap {m.id : m \in UNION {Range(hand[x]) : x \in Dispatchers}} = {}
          THEN UNCHANGED faults ELSE Fault("slow")
  /\ pc' = [pc EXCEPT ![d] = "post"]
  /\ UNCHANGED <<hooks, queueVars, timers, stopping, dlq, admin, fateVars, redelivers>>

-----------------------------------------------------------------------------
(* Dispatcher.process.                                                     *)

Cap(m) == IF m.cap > 0 THEN m.cap ELSE DefaultAttempts

\* Faulty: the attempt that failed is not counted.
NextAttemptUncounted(m) == m.attempt

NextAttempt(m) == m.attempt + 1

Exhausted(m) == NextAttempt(m) >= Cap(m)

\* One post: it counts as delivered on a 2xx; else the task is retried, or
\* given up when its attempts are used.  Shutting down cancels the request.
Post(d) ==
  LET m    == Head(hand[d])
      kind == hooks[m.hook].kind
      last == Exhausted(m)
  IN  /\ pc[d] = "post"
      /\ \/ /\ kind # "open" /\ pc' = [pc EXCEPT ![d] = "park"]
            /\ UNCHANGED <<hand, timers, received>>
         \/ \E answer \in Answers :
              /\ kind = "open" /\ (stopping[d] => answer # "ok")
              /\ received' = IF answer = "refused" THEN received
                             ELSE received \cup {m.hook}
              /\ pc' = [pc EXCEPT ![d] = IF answer # "ok" /\ last THEN "park" ELSE "ack"]
              /\ hand' = IF answer # "ok" /\ last
                         THEN [hand EXCEPT ![d][1].attempt = NextAttempt(m)] ELSE hand
              /\ timers' = IF answer = "ok" \/ last THEN timers
                           ELSE timers \cup {[id |-> Fresh({t.id : t \in timers}),
                                              by |-> d, hook |-> m.hook,
                                              attempt |-> NextAttempt(m), cap |-> m.cap]}
      /\ UNCHANGED <<hooks, queueVars, stopping, dlq, admin, unsent, dropped, cutOff,
                     forgotten, redelivers, faults>>

DeadLetterIds ==
  {x.id : x \in Range(dlq) \cup UNION {Range(admin[r].page) : r \in Admins}}

Parked(hook, attempts) ==
  Append(dlq, [id |-> Fresh(DeadLetterIds), hook |-> hook, attempts |-> attempts])

\* toDLQ: a dead letter that cannot be saved is dropped.
ToDLQ(hook, attempts) ==
  \/ dlq' = Parked(hook, attempts) /\ UNCHANGED <<dropped, faults>>
  \/ Fault("save") /\ dropped' = dropped \cup {hook} /\ UNCHANGED dlq

\* On a cancelled context nothing is saved; nor will the message be acked.
Park(d) ==
  /\ pc[d] = "park" /\ pc' = [pc EXCEPT ![d] = "ack"]
  /\ \/ ~stopping[d] /\ ToDLQ(Head(hand[d]).hook, Head(hand[d]).attempt)
     \/ stopping[d] /\ UNCHANGED <<dlq, dropped, faults>>
  /\ UNCHANGED <<hooks, queueVars, hand, timers, stopping, admin, received, unsent,
                 cutOff, forgotten, redelivers>>

Leave(d) ==
  /\ hand' = [hand EXCEPT ![d] = Tail(@)]
  /\ pc' = [pc EXCEPT ![d] = IF Len(hand[d]) > 1 THEN "post" ELSE "idle"]

\* The ack that ends handle; one that fails, as it does on a cancelled context,
\* leaves the message to be reclaimed.
Ack(d) ==
  /\ pc[d] = "ack" /\ Leave(d)
  /\ \/ /\ ~stopping[d] /\ unacked' = {m \in unacked : m.id # Head(hand[d]).id}
        /\ UNCHANGED faults
     \/ /\ IF stopping[d] THEN UNCHANGED faults ELSE Fault("ack")
        /\ UNCHANGED unacked
  /\ UNCHANGED <<hooks, stream, timers, stopping, dlq, admin, fateVars, redelivers>>

\* publish, of a retry: what the stream does not take goes to the dead letters.
Republish(t) ==
  \/ /\ stream' = Enqueued(t.hook, t.attempt, t.cap) /\ UNCHANGED <<dlq, dropped, faults>>
  \/ /\ Fault("publish") /\ dlq' = Parked(t.hook, t.attempt)
     /\ UNCHANGED <<stream, dropped>>
  \/ /\ {"publish", "save"} \subseteq FaultKinds /\ faults + 2 <= MaxFaults
     /\ faults' = faults + 2 /\ dropped' = dropped \cup {t.hook}
     /\ UNCHANGED <<stream, dlq>>

\* scheduleRetry, its timer: on the dispatcher's own context.  Once that is
\* cancelled, the publish and the save of the dead letter both fail.
RetryFires(t) ==
  /\ t \in timers /\ timers' = timers \ {t}
  /\ \/ ~stopping[t.by] /\ Republish(t) /\ UNCHANGED cutOff
     \/ /\ stopping[t.by] /\ cutOff' = cutOff \cup {t.hook}
        /\ UNCHANGED <<stream, dlq, dropped, faults>>
  /\ UNCHANGED <<hooks, unacked, hand, pc, stopping, admin, received, unsent, forgotten,
                 redelivers>>

\* Faulty: the goroutine returns when the context is cancelled.
RetryAbandoned(t) ==
  /\ t \in timers /\ stopping[t.by] /\ timers' = timers \ {t}
  /\ UNCHANGED <<hooks, queueVars, hand, pc, stopping, dlq, admin, fateVars, redelivers,
                 faults>>

\* scheduleRetry, the shutdown: published at once, on a detached context.
RetryFlushed(t) ==
  /\ t \in timers /\ stopping[t.by] /\ timers' = timers \ {t}
  /\ Republish(t)
  /\ UNCHANGED <<hooks, unacked, hand, pc, stopping, admin, received, unsent, cutOff,
                 forgotten, redelivers>>

\* The process is shut down; Run returns when the message at hand and the
\* retries are done, and the process is started again.
Stop(d) ==
  /\ Fault("stop") /\ ~stopping[d] /\ stopping' = [stopping EXCEPT ![d] = TRUE]
  /\ UNCHANGED <<hooks, queueVars, hand, pc, timers, dlq, admin, fateVars, redelivers>>

Restart(d) ==
  /\ stopping[d] /\ hand[d] = <<>> /\ \A t \in timers : t.by # d
  /\ stopping' = [stopping EXCEPT ![d] = FALSE]
  /\ UNCHANGED <<hooks, queueVars, hand, pc, timers, dlq, admin, fateVars, redelivers,
                 faults>>

\* The process dies: what it holds, and its waiting retries, are gone.
Crash(d) ==
  /\ Fault("crash")
  /\ hand' = [hand EXCEPT ![d] = <<>>] /\ pc' = [pc EXCEPT ![d] = "idle"]
  /\ forgotten' = forgotten \cup {t.hook : t \in {x \in timers : x.by = d}}
  /\ timers' = {t \in timers : t.by # d} /\ stopping' = [stopping EXCEPT ![d] = FALSE]
  /\ UNCHANGED <<hooks, queueVars, dlq, admin, received, unsent, dropped, cutOff,
                 redelivers>>

-----------------------------------------------------------------------------
(* DLQService.Redeliver.                                                   *)

\* Where the rule's dead letters are in the collection.
OfRule(rule) == {i \in DOMAIN dlq : hooks[dlq[i].hook].rule = rule}

\* By id (a dead letter of the rule, read by Get), or all of the rule's.
Redeliver(r) ==
  /\ admin[r].step = "idle" /\ redelivers < MaxRedelivers
  /\ redelivers' = redelivers + 1
  /\ \E h \in DOMAIN hooks : LET rule == hooks[h].rule IN
       \/ admin' = [admin EXCEPT ![r] =
                      [step |-> "list", again |-> FALSE, rule |-> rule, page |-> <<>>]]
       \/ \E i \in OfRule(rule) :
            admin' = [admin EXCEPT ![r] =
                       [step |-> "requeue", again |-> FALSE, rule |-> rule, page |-> <<dlq[i]>>]]
  /\ UNCHANGED <<hooks, queueVars, workVars, dlq, fateVars, faults>>

PageIsLast(page) == Len(page) < PageSize

\* The last places of these, at most a page of them, the newest first.
Newest(found) ==
  {at \in [1 .. IF Cardinality(found) < PageSize THEN Cardinality(found) ELSE PageSize -> found] :
     /\ \A i, j \in DOMAIN at : i < j => at[i] > at[j]
     /\ \A i \in found \ Range(at), j \in Range(at) : i < j}

\* redeliverAll: what is left to do after a page; an empty one is the last.
AfterPage(q, page) ==
  IF page = <<>> THEN NoRequest
  ELSE [q EXCEPT !.step = "requeue", !.again = ~PageIsLast(page), !.page = page]

\* redeliverAll: the next page.
ListPage(r) ==
  /\ admin[r].step = "list"
  /\ \E at \in Newest(OfRule(admin[r].rule)) :
       admin' = [admin EXCEPT ![r] = AfterPage(admin[r], [i \in DOMAIN at |-> dlq[at[i]]])]
  /\ UNCHANGED <<hooks, queueVars, workVars, dlq, fateVars, redelivers, faults>>

\* redeliverOne, first part: the attempts start over, the delivery id stays, the
\* rule's own max_attempts is not in the dead letter.  An error ends the request.
Requeue(r) ==
  /\ admin[r].step = "requeue"
  /\ \/ /\ stream' = Enqueued(Head(admin[r].page).hook, 0, 0)
        /\ admin' = [admin EXCEPT ![r].step = "delete"] /\ UNCHANGED faults
     \/ /\ Fault("publish") /\ admin' = [admin EXCEPT ![r] = NoRequest]
        /\ UNCHANGED stream
  /\ UNCHANGED <<hooks, unacked, workVars, dlq, fateVars, redelivers>>

\* The dead letters, oldest first, without the one at i.
RemoveAt(s, i) == SubSeq(s, 1, i - 1) \o SubSeq(s, i + 1, Len(s))

\* redeliverOne, second part: an entry that is gone, or stays, is no error.
Delete(r) ==
  LET rest == Tail(admin[r].page)
  IN  /\ admin[r].step = "delete"
      /\ \/ /\ \/ \E i \in DOMAIN dlq : /\ dlq[i].id = Head(admin[r].page).id
                                       /\ dlq' = RemoveAt(dlq, i)
               \/ /\ \A i \in DOMAIN dlq : dlq[i].id # Head(admin[r].page).id
                  /\ UNCHANGED dlq
            /\ UNCHANGED faults
         \/ Fault("delete") /\ UNCHANGED dlq
      /\ admin' = [admin EXCEPT ![r] =
                    IF rest # <<>> THEN [@ EXCEPT !.step = "requeue", !.page = rest]
                    ELSE IF admin[r].again
                         THEN [@ EXCEPT !.step = "list", !.page = <<>>, !.again = FALSE]
                         ELSE NoRequest]
      /\ UNCHANGED <<hooks, queueVars, workVars, fateVars, redelivers>>

-----------------------------------------------------------------------------
Done ==
  /\ Len(hooks) = MaxHooks /\ redelivers = MaxRedelivers
  /\ stream = <<>> /\ unacked = {} /\ timers = {}
  /\ \A d \in Dispatchers : hand[d] = <<>>
  /\ \A r \in Admins : admin[r].step = "idle"
  /\ UNCHANGED vars

Handle(d) == Post(d) \/ Park(d) \/ Ack(d)

Administer(r) == ListPage(r) \/ Requeue(r) \/ Delete(r)

Next ==
  \/ Publish
  \/ \E d \in Dispatchers : \/ Take(d) \/ Reclaim(d) \/ Handle(d)
                            \/ Stop(d) \/ Restart(d) \/ Crash(d)
  \/ \E t \in timers : RetryFires(t) \/ RetryFlushed(t)
  \/ \E r \in Admins : Redeliver(r) \/ Administer(r)
  \/ Done

Spec == Init /\ [][Next]_vars

\* Dispatchers consume, their tickers and timers fire, requests run on, and a
\* process that was shut down is started again.
FairSpec ==
  /\ Spec
  /\ WF_vars(\E t \in timers : RetryFires(t) \/ RetryFlushed(t))
  /\ \A d \in Dispatchers :
       WF_vars(Take(d) \/ Reclaim(d)) /\ WF_vars(Handle(d)) /\ WF_vars(Restart(d))
  /\ \A r \in Admins : WF_vars(Administer(r))

-----------------------------------------------------------------------------
(* Properties.                                                             *)

\* The system still has the delivery: on the stream, waiting for a retry, or
\* among the dead letters.
Carried(h) ==
  \/ \E m \in Range(stream) \cup unacked : m.hook = h
  \/ \E t \in timers : t.hook = h
  \/ \E x \in Range(dlq) : x.hook = h

\* The four ways in which the code loses a delivery: fireWebhook only logs a
\* publish that fails; toDLQ only logs a dead letter that is not saved; a retry
\* whose timer fires in a process that is shutting down is published, and then
\* saved, on a cancelled context; a crash takes the waiting retries with it.
Lost == unsent \cup dropped \cup cutOff \cup forgotten

\* A webhook that reached no receiver is still in the system, unless it was lost
\* in one of these four ways.  Nothing else loses one: not an ack that fails, a
\* slow dispatcher whose message another takes over, a retry the stream refuses
\* and the dead letters take, a redelivery cut short, or a shutdown while a
\* message is posted or given up.
OnlyKnownLosses == \A h \in DOMAIN hooks : h \in received \cup Lost \/ Carried(h)

\* Every webhook comes to an end: received, among the dead letters, or lost in
\* one of the four ways; no failed call, shutdown or receiver that never answers
\* leaves it going round for ever.
EveryDeliveryConcludes ==
  \A h \in 1 .. MaxHooks :
    (h \in DOMAIN hooks) ~> (\/ h \in received \cup Lost
                             \/ \E x \in Range(dlq) : x.hook = h)

\* Every redelivery request returns.
EveryRedeliverReturns == \A r \in Admins : admin[r].step # "idle" ~> admin[r].step = "idle"

\* "Delivery is at-least-once": a webhook that was accepted and reached no
\* receiver is still in the system.
NothingForgotten == \A h \in DOMAIN hooks : h \in received \cup unsent \/ Carried(h)

\* "Re-enqueued deliveries follow the same retry policy as the original": no
\* dead letter has been tried more often than its rule allows.
SamePolicy == \A x \in Range(dlq) : x.attempts <= Cap(hooks[x.hook])

\* "Returns `404` if any specified ID is unknown or already redelivered": what a
\* request has just put on the stream was parked, and no other request's.
RedeliveredOnce ==
  \A r \in Admins : admin[r].step = "delete"
    => LET x == Head(admin[r].page)
       IN  /\ x \in Range(dlq)
           /\ \A q \in Admins \ {r} : admin[q].step = "delete" => Head(admin[q].page) # x
=============================================================================
