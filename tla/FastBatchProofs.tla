-------------------------- MODULE FastBatchProofs ---------------------------
(***************************************************************************)
(* Proofs about FastBatch for any number of publishers, entities, commands *)
(* and faults, any batch size and any channel capacity.                    *)
(***************************************************************************)
EXTENDS FastBatch, TLAPS

-----------------------------------------------------------------------------
(* The inductive invariant.  That versions have no gap is not inductive: a *)
(* planned event must follow a version that is stored or is inserted       *)
(* before it.  That events link to their predecessor is not either: the    *)
(* fold works on a cur_* and a last event that strict writers overtake, and*)
(* what saves it is that an event with a wrong link has a version that is  *)
(* already stored, so the index refuses it.                                *)

Doc == [eid : Entities, v : Nat \ {0}, key : Keys \cup {NoKey}, value : Nat, write : Nat,
        link : Int]

Plan == [at : Nat \ {0}, running : [Entities -> State \cup {Nil}],
         last : [Entities -> Nat \cup {Nil}], events : Seq(Doc), failed : SUBSET Nat,
         due : SUBSET Entities, next : Nat \ {0}]

\* A write keeps its place: what is in the channel came after what is held, and
\* that after what is in the buffer.
InLine ==
  /\ sent \in Seq(Commands) /\ publisher \in [Publishers -> Commands \cup {Nil}]
  /\ chan \in Seq(Nat) /\ buf \in Seq(Nat) /\ held \in 0 .. Len(sent)
  /\ \A i \in 1 .. Len(chan) : chan[i] \in 1 .. Len(sent) /\ held < chan[i]
  /\ \A i, j \in 1 .. Len(chan) : i < j => chan[i] < chan[j]
  /\ \A k \in 1 .. Len(buf) :
       /\ buf[k] \in 1 .. Len(sent) /\ (held # 0 => buf[k] < held)
       /\ \A i \in 1 .. Len(chan) : buf[k] < chan[i]
  /\ \A k, l \in 1 .. Len(buf) : k < l => buf[k] < buf[l]

\* The versions of an entity are 1, 2, ..., n, and its cur_* is one of them.
History ==
  /\ docs \subseteq Doc /\ cur \in [Entities -> State]
  /\ \A e \in Entities : \E n \in Nat : Versions(e) = 1 .. n
  /\ \A e \in Entities : cur[e].v \in Versions(e) \cup {0}

\* What is stored came before what waits.
StoredFirst ==
  \A d \in docs :
    /\ d.write <= Len(sent) /\ (held # 0 => d.write < held)
    /\ \A i \in 1 .. Len(chan) : d.write < chan[i]
    /\ loop \in {"wait", "fold", "last"} => \A k \in 1 .. Len(buf) : d.write < buf[k]

\* The locals of a flush.
InPlan ==
  /\ plan \in Plan /\ plan.at <= Len(buf) + 1 /\ plan.next <= Len(plan.events) + 1
  /\ loop \in {"wait", "off"} => plan = NoPlan
  /\ loop = "last" => plan.at <= Len(buf)
  /\ loop \in {"fold", "last"} => plan.next = 1
  /\ loop = "insert" => plan.next <= Len(plan.events)
  /\ loop = "upsert" => plan.next = Len(plan.events) + 1
  /\ loop \in {"insert", "upsert"} => plan.at = Len(buf) + 1
  /\ plan.due \subseteq {d.eid : d \in Range(plan.events)}

\* The planned events, in the order of their writes, of which those before next
\* are stored and the others come after everything stored.
EventsInLine ==
  /\ \A i \in 1 .. Len(plan.events) :
       /\ \E k \in 1 .. plan.at - 1 : k <= Len(buf) /\ plan.events[i].write = buf[k]
       /\ plan.running[plan.events[i].eid] \in State
       /\ i < plan.next => plan.events[i] \in docs
       /\ i >= plan.next => \A d \in docs : d.write < plan.events[i].write
  /\ \A i, j \in 1 .. Len(plan.events) : i < j => plan.events[i].write < plan.events[j].write

\* Version v of the entity is stored, or planned at a place before i.
Reached(e, v, i) ==
  \/ v = 0 \/ v \in Versions(e)
  \/ \E j \in 1 .. Len(plan.events) : /\ plan.next <= j /\ j < i
                                      /\ plan.events[j].eid = e /\ plan.events[j].v = v

NoGap ==
  /\ \A i \in 1 .. Len(plan.events) : plan.next <= i
       => Reached(plan.events[i].eid, plan.events[i].v - 1, i)
  /\ \A e \in Entities : plan.running[e] \in State
       => Reached(e, plan.running[e].v, Len(plan.events) + 1)

Tickets ==
  /\ Len(outcome) = Len(sent) /\ outcome \in Seq({"accepted", "stored", "failed"})
  /\ StoredDiffLanded

\* A folded diff that did not fail has its event, planned ...
DiffPlanned ==
  loop \in {"fold", "last", "insert", "upsert"} =>
    \A k \in 1 .. plan.at - 1 : sent[buf[k]].kind = "diff" /\ buf[k] \notin plan.failed
      => \E i \in 1 .. Len(plan.events) : plan.events[i].write = buf[k]

\* ... and in the end stored.
DiffStored ==
  loop = "settle" =>
    \A k \in 1 .. Len(buf) : sent[buf[k]].kind = "diff" /\ buf[k] \notin plan.failed
      => Of(buf[k]) # {}

IndInv == /\ InLine /\ History /\ StoredInOrder /\ StoredFirst
          /\ InPlan /\ EventsInLine /\ NoGap /\ Tickets /\ DiffPlanned /\ DiffStored

\* A planned event links to its predecessor, or will be refused.
Linked(d) == d.link = d.v - 1 \/ d.v \in Versions(d.eid)

Links ==
  /\ \A d \in docs : d.link = d.v - 1
  /\ loop = "insert" \/ (loop \in {"fold", "last"} /\ ~Interrupted) =>
       \A i \in 1 .. Len(plan.events) : plan.next <= i => Linked(plan.events[i])
  /\ loop \in {"fold", "last"} /\ ~Interrupted =>
       \A e \in Entities : plan.running[e] \in State /\ ~(loop = "last" /\ e = Entity)
         => /\ plan.last[e] \in Nat
            /\ plan.last[e] = plan.running[e].v \/ plan.running[e].v + 1 \in Versions(e)
  /\ loop = "last" => /\ plan.running[Entity] \in State
                      /\ plan.running[Entity].v \in Versions(Entity) \cup {0}

-----------------------------------------------------------------------------
(* The queue.                                                              *)

\* The last version of an entity whose versions are 1, 2, ..., n.
LEMMA LastVersionIs ==
  ASSUME NEW e, NEW n \in Nat, Versions(e) = 1 .. n
  PROVE  LastVersion(e) = n
<1> DEFINE S == 1 .. n \cup {0}
<1>1. n \in S /\ \A y \in S : n >= y
  OBVIOUS
<1>2. \A x \in S : (\A y \in S : x >= y) => x = n
  OBVIOUS
<1> HIDE DEF S
<1>3. Max(S) = n
  BY <1>1, <1>2, Zenon DEF Max
<1> QED
  BY <1>3 DEF LastVersion, S

\* A function on 1 .. n is a sequence.
LEMMA FunIsSeq ==
  ASSUME NEW S, NEW n \in Nat, NEW f \in [1 .. n -> S]
  PROVE  f \in Seq(S) /\ Len(f) = n
  OBVIOUS

\* At first nothing is sent, planned or stored.
LEMMA InitInv == Init => IndInv /\ Links
<1> SUFFICES ASSUME Init
             PROVE  IndInv /\ Links
  OBVIOUS
<1>1. NoPlan \in Plan /\ NoPlan.at = 1 /\ NoPlan.next = 1 /\ NoPlan.events = <<>> /\ NoPlan.due = {}
  BY DEF NoPlan, Plan
<1>2. /\ sent = <<>> /\ chan = <<>> /\ buf = <<>> /\ held = 0 /\ docs = {} /\ loop = "wait"
      /\ plan = NoPlan /\ outcome = <<>>
      /\ publisher = [p \in Publishers |-> Nil]
      /\ cur = [e \in Entities |-> [v |-> 0, value |-> Absent]]
  BY DEF Init
<1>3. InLine
  BY <1>2 DEF InLine
<1>4. History
  <2>1. \A e \in Entities : Versions(e) = 1 .. 0
    BY <1>2 DEF Versions
  <2> QED
    BY <1>2, <2>1, Zenon DEF History, State, Absent
<1>5. StoredInOrder /\ StoredFirst
  BY <1>2 DEF StoredInOrder, StoredFirst
<1>6. InPlan
  BY <1>1, <1>2 DEF InPlan
<1>7. EventsInLine
  BY <1>1, <1>2 DEF EventsInLine
<1>8. NoGap
  <2>1. \A e \in Entities : plan.running[e] = Nil
    BY <1>2 DEF NoPlan
  <2> QED
    BY <1>1, <1>2, <2>1, FastBatchAssumption DEF NoGap
<1>9. Tickets /\ DiffPlanned /\ DiffStored
  BY <1>1, <1>2 DEF Tickets, DiffPlanned, DiffStored, StoredDiffLanded, Writes
<1> QED
  BY <1>2, <1>3, <1>4, <1>5, <1>6, <1>7, <1>8, <1>9 DEF IndInv, Links

\* A step of the queue changes nothing that is planned or stored.
LEMMA QueueMoves ==
  ASSUME IndInv, InLine', StoredFirst', UNCHANGED <<loop, buf, plan, docs, cur, sent, outcome>>
  PROVE  IndInv'
<1>1. History' /\ StoredInOrder'
  BY DEF IndInv, History, StoredInOrder, Versions
<1>2. InPlan' /\ EventsInLine'
  BY DEF IndInv, InPlan, EventsInLine
<1>3. NoGap'
  BY DEF IndInv, NoGap, Reached, Versions
<1>4. Tickets' /\ DiffPlanned' /\ DiffStored'
  BY DEF IndInv, Tickets, DiffPlanned, DiffStored, StoredDiffLanded, Writes, Of
<1> QED
  BY <1>1, <1>2, <1>3, <1>4 DEF IndInv

\* A publish that begins, or ends without room for it, leaves no write.
LEMMA PublishKeeps ==
  ASSUME IndInv, NEW p \in Publishers,
         PublishBegin(p) \/ PublishReleased(p) \/ PublishGivesUp(p)
  PROVE  IndInv'
<1>1. UNCHANGED <<sent, chan, held, loop, buf, plan, outcome, docs, cur>>
  BY DEF PublishBegin, PublishReleased, PublishGivesUp, queueVars
<1>2. publisher' \in [Publishers -> Commands \cup {Nil}]
  <2>1. publisher \in [Publishers -> Commands \cup {Nil}]
    BY DEF IndInv, InLine
  <2>2. \E c \in Commands \cup {Nil} : publisher' = [publisher EXCEPT ![p] = c]
    BY DEF PublishBegin, PublishReleased, PublishGivesUp
  <2> QED
    BY <2>1, <2>2
<1>3. InLine'
  BY <1>1, <1>2 DEF IndInv, InLine
<1>4. StoredFirst'
  BY <1>1 DEF IndInv, StoredFirst
<1> QED
  BY <1>1, <1>3, <1>4, QueueMoves

\* An enqueued write is the last in line.
LEMMA EnqueueKeeps ==
  ASSUME IndInv, NEW p \in Publishers, PublishEnqueues(p)
  PROVE  IndInv'
<1> DEFINE m == Len(sent) + 1
<1>1. /\ sent \in Seq(Commands) /\ chan \in Seq(Nat) /\ publisher \in [Publishers -> Commands \cup {Nil}]
      /\ outcome \in Seq({"accepted", "stored", "failed"}) /\ Len(outcome) = Len(sent)
  BY DEF IndInv, InLine, Tickets
<1>2. /\ publisher[p] # Nil /\ sent' = Append(sent, publisher[p]) /\ chan' = Append(chan, Len(sent'))
      /\ outcome' = Append(outcome, "accepted") /\ publisher' = [publisher EXCEPT ![p] = Nil]
      /\ UNCHANGED <<held, loop, buf, plan, docs, cur>>
  BY DEF PublishEnqueues
<1>3. /\ sent' \in Seq(Commands) /\ Len(sent') = m /\ m \in Nat
      /\ \A i \in 1 .. Len(sent) : sent'[i] = sent[i]
  BY <1>1, <1>2
<1>4. /\ chan' \in Seq(Nat) /\ Len(chan') = Len(chan) + 1 /\ chan'[Len(chan) + 1] = m
      /\ \A i \in 1 .. Len(chan) : chan'[i] = chan[i]
  BY <1>1, <1>2, <1>3
<1>5. /\ outcome' \in Seq({"accepted", "stored", "failed"}) /\ Len(outcome') = m
      /\ outcome'[m] = "accepted" /\ \A i \in 1 .. Len(sent) : outcome'[i] = outcome[i]
  BY <1>1, <1>2
<1>6. publisher' \in [Publishers -> Commands \cup {Nil}]
  BY <1>1, <1>2, Zenon
<1>7. InLine'
  <2>1. \A i \in 1 .. Len(chan') : (i \in 1 .. Len(chan) /\ chan'[i] = chan[i])
                                   \/ (i = Len(chan) + 1 /\ chan'[i] = m)
    BY <1>1, <1>4
  <2>2. /\ held \in 0 .. Len(sent) /\ buf \in Seq(Nat) /\ Len(sent) \in Nat
        /\ \A i \in 1 .. Len(chan) : chan[i] \in 1 .. Len(sent) /\ held < chan[i]
        /\ \A i, j \in 1 .. Len(chan) : i < j => chan[i] < chan[j]
        /\ \A k \in 1 .. Len(buf) : /\ buf[k] \in 1 .. Len(sent) /\ (held # 0 => buf[k] < held)
                                     /\ \A i \in 1 .. Len(chan) : buf[k] < chan[i]
        /\ \A k, l \in 1 .. Len(buf) : k < l => buf[k] < buf[l]
    BY <1>1 DEF IndInv, InLine
  <2> HIDE DEF m
  <2>3. held' \in 0 .. Len(sent') /\ m > Len(sent)
    BY <1>2, <1>3, <2>2 DEF m
  <2>4. ASSUME NEW i \in 1 .. Len(chan')
        PROVE  chan'[i] \in 1 .. Len(sent') /\ held' < chan'[i]
    <3>1. CASE i \in 1 .. Len(chan) /\ chan'[i] = chan[i]
      BY <1>2, <1>3, <2>2, <2>3, <3>1
    <3>2. CASE chan'[i] = m
      BY <1>2, <1>3, <2>2, <2>3, <3>2
    <3> QED
      BY <2>1, <3>1, <3>2
  <2>5. ASSUME NEW i \in 1 .. Len(chan'), NEW j \in 1 .. Len(chan'), i < j
        PROVE  chan'[i] < chan'[j]
    <3>0. i \in 1 .. Len(chan)
      BY <1>1, <1>4, <2>5
    <3>1. chan'[i] = chan[i] /\ chan[i] \in 1 .. Len(sent)
      BY <1>4, <2>2, <3>0, Zenon
    <3>2. CASE j \in 1 .. Len(chan) /\ chan'[j] = chan[j]
      BY <2>2, <2>5, <3>0, <3>1, <3>2
    <3>3. CASE chan'[j] = m
      BY <1>3, <2>2, <2>3, <3>1, <3>3
    <3> QED
      BY <2>1, <3>2, <3>3
  <2>6. ASSUME NEW k \in 1 .. Len(buf)
        PROVE  /\ buf[k] \in 1 .. Len(sent') /\ (held' # 0 => buf[k] < held')
               /\ \A i \in 1 .. Len(chan') : buf[k] < chan'[i]
    <3>1. buf[k] \in 1 .. Len(sent') /\ (held' # 0 => buf[k] < held') /\ buf[k] < m
      BY <1>2, <1>3, <2>2, <2>3
    <3>2. ASSUME NEW i \in 1 .. Len(chan')
          PROVE  buf[k] < chan'[i]
      BY <2>1, <2>2, <3>1, Zenon
    <3> QED
      BY <3>1, <3>2
  <2>7. /\ buf' \in Seq(Nat) /\ \A k, l \in 1 .. Len(buf') : k < l => buf'[k] < buf'[l]
        /\ \A k \in 1 .. Len(buf') :
             /\ buf'[k] \in 1 .. Len(sent') /\ (held' # 0 => buf'[k] < held')
             /\ \A i \in 1 .. Len(chan') : buf'[k] < chan'[i]
    BY <1>2, <2>2, <2>6, Zenon
  <2>8. sent' \in Seq(Commands) /\ chan' \in Seq(Nat)
    BY <1>3, <1>4, Zenon
  <2> QED
    BY <1>6, <2>3, <2>4, <2>5, <2>7, <2>8, Zenon DEF InLine
<1>8. StoredFirst'
  <2>1. \A d \in docs : d.write \in Nat
    BY DEF IndInv, History, Doc
  <2> QED
    BY <1>1, <1>2, <1>3, <1>4, <2>1 DEF IndInv, StoredFirst
<1>9. History' /\ StoredInOrder' /\ InPlan' /\ EventsInLine' /\ NoGap'
  <2>1. History' /\ StoredInOrder'
    BY <1>2, Zenon DEF IndInv, History, StoredInOrder, Versions
  <2>2. InPlan' /\ EventsInLine'
    BY <1>2, Zenon DEF IndInv, InPlan, EventsInLine
  <2>3. NoGap'
    BY <1>2 DEF IndInv, NoGap, Reached, Versions
  <2> QED
    BY <2>1, <2>2, <2>3
<1>10. Tickets' /\ DiffPlanned' /\ DiffStored'
  <2>1. \A k \in 1 .. Len(buf) : sent'[buf[k]] = sent[buf[k]]
    BY <1>3, Zenon DEF IndInv, InLine
  <2>2. plan.at - 1 <= Len(buf) /\ plan.at \in Nat /\ buf \in Seq(Nat)
    BY DEF IndInv, InPlan, Plan, InLine
  <2>3. StoredDiffLanded'
    <3> SUFFICES ASSUME NEW i \in Writes', outcome'[i] = "stored", sent'[i].kind = "diff"
                 PROVE  Of(i)' # {}
      BY DEF StoredDiffLanded
    <3>1. i \in 1 .. m
      BY <1>3 DEF Writes
    <3>2. i \in 1 .. Len(sent)
      BY <1>1, <1>5, <3>1
    <3>3. i \in Writes /\ outcome[i] = "stored" /\ sent[i].kind = "diff"
      BY <1>1, <1>3, <1>5, <3>2 DEF Writes
    <3> QED
      BY <1>2, <3>3 DEF IndInv, Tickets, StoredDiffLanded, Of
  <2>4. \A k \in 1 .. plan.at - 1 : k \in 1 .. Len(buf)
    BY <2>2
  <2> QED
    <3>1. DiffPlanned'
      BY <1>2, <2>1, <2>4, Zenon DEF IndInv, DiffPlanned
    <3>2. DiffStored'
      BY <1>2, <2>1, Zenon DEF IndInv, DiffStored, Of
    <3> QED
      BY <1>3, <1>5, <2>3, <3>1, <3>2, Zenon DEF Tickets
<1> QED
  BY <1>7, <1>8, <1>9, <1>10 DEF IndInv

\* The goroutine of Subscribe moves the first write in line.
LEMMA SubscribeKeeps ==
  ASSUME IndInv, SubscribeTakes \/ SubscribeEnds \/ Cancel \/ Close
  PROVE  IndInv'
<1>1. UNCHANGED <<sent, publisher, loop, buf, plan, outcome, docs, cur>>
  BY DEF SubscribeTakes, SubscribeEnds, Cancel, Close, clientVars
<1>2. /\ chan \in Seq(Nat) /\ held \in Nat /\ Len(sent) \in Nat
      /\ \A i \in 1 .. Len(chan) : chan[i] \in 1 .. Len(sent)
      /\ \A i, j \in 1 .. Len(chan) : i < j => chan[i] < chan[j]
      /\ \A d \in docs : d.write \in Nat
  BY DEF IndInv, InLine, History, Doc
<1>3. CASE SubscribeTakes
  <2>1. held' = chan[1] /\ 1 \in 1 .. Len(chan) /\ held = 0
    BY <1>2, <1>3 DEF SubscribeTakes
  <2>2. /\ chan' \in Seq(Nat) /\ Len(chan') = Len(chan) - 1
        /\ \A i \in 1 .. Len(chan') : chan'[i] = chan[i + 1] /\ i + 1 \in 1 .. Len(chan)
    <3>1. chan # <<>> /\ chan' = Tail(chan)
      BY <1>3 DEF SubscribeTakes
    <3> QED
      BY <1>2, <3>1
  <2>3. ASSUME NEW i \in 1 .. Len(chan')
        PROVE  chan'[i] \in 1 .. Len(sent) /\ held' < chan'[i]
    <3>1. 1 < i + 1 /\ i + 1 \in 1 .. Len(chan) /\ chan'[i] = chan[i + 1]
      BY <2>2
    <3> QED
      BY <1>2, <2>1, <3>1
  <2>4. ASSUME NEW i \in 1 .. Len(chan'), NEW j \in 1 .. Len(chan'), i < j
        PROVE  chan'[i] < chan'[j]
    <3>1. i + 1 < j + 1 /\ i + 1 \in 1 .. Len(chan) /\ j + 1 \in 1 .. Len(chan)
      BY <2>2, <2>4
    <3> QED
      BY <1>2, <2>2, <3>1, Zenon
  <2>5. ASSUME NEW k \in 1 .. Len(buf)
        PROVE  /\ buf[k] \in 1 .. Len(sent) /\ buf[k] < held'
               /\ \A i \in 1 .. Len(chan') : buf[k] < chan'[i]
    BY <2>1, <2>2, Zenon DEF IndInv, InLine
  <2>6. InLine'
    <3>1. /\ sent \in Seq(Commands) /\ publisher \in [Publishers -> Commands \cup {Nil}]
          /\ buf \in Seq(Nat) /\ \A k, l \in 1 .. Len(buf) : k < l => buf[k] < buf[l]
      BY DEF IndInv, InLine
    <3>2. held' \in 0 .. Len(sent)
      BY <1>2, <2>1
    <3> QED
      BY <1>1, <2>2, <2>3, <2>4, <2>5, <3>1, <3>2, Zenon DEF InLine
  <2>7. StoredFirst'
    BY <1>1, <2>1, <2>2, Zenon DEF IndInv, StoredFirst
  <2> QED
    BY <1>1, <2>6, <2>7, QueueMoves
<1>4. CASE SubscribeEnds \/ Cancel \/ Close
  <2>1. chan' = chan /\ (held' = held \/ held' = 0)
    BY <1>4 DEF SubscribeEnds, Cancel, Close, queueVars
  <2>2. InLine'
    BY <1>1, <1>2, <2>1 DEF IndInv, InLine
  <2>3. StoredFirst'
    BY <1>1, <2>1 DEF IndInv, StoredFirst
  <2> QED
    BY <1>1, <2>2, <2>3, QueueMoves
<1> QED
  BY <1>3, <1>4

-----------------------------------------------------------------------------
(* The loop.                                                               *)

\* Nothing is planned outside a flush, and at its start.
LEMMA Unplanned ==
  ASSUME plan' = NoPlan, loop' \in {"wait", "fold", "off"}, InLine', History', StoredInOrder',
         StoredFirst', Tickets'
  PROVE  IndInv'
<1>1. /\ NoPlan \in Plan /\ NoPlan.at = 1 /\ NoPlan.next = 1 /\ NoPlan.events = <<>>
      /\ NoPlan.due = {} /\ \A e \in Entities : NoPlan.running[e] = Nil
  BY DEF NoPlan, Plan
<1>2. Len(buf') \in Nat
  BY DEF InLine
<1> USE <1>1
<1>3. InPlan'
  BY <1>2 DEF InPlan
<1>4. EventsInLine'
  BY DEF EventsInLine
<1>5. NoGap'
  BY FastBatchAssumption DEF NoGap
<1>6. DiffPlanned' /\ DiffStored'
  BY DEF DiffPlanned, DiffStored
<1> QED
  BY <1>3, <1>4, <1>5, <1>6, Zenon DEF IndInv

\* A write goes from the goroutine to the buffer.
LEMMA BufferKeeps ==
  ASSUME IndInv, Buffer
  PROVE  IndInv'
<1>1. /\ loop = "wait" /\ held # 0 /\ held' = 0 /\ buf' = Append(buf, held)
      /\ loop' \in {"wait", "fold"}
      /\ UNCHANGED <<sent, publisher, chan, plan, outcome, docs, cur>>
  BY Zenon DEF Buffer, clientVars
<1>2. /\ buf \in Seq(Nat) /\ held \in 0 .. Len(sent) /\ Len(sent) \in Nat /\ chan \in Seq(Nat)
      /\ plan = NoPlan
  BY <1>1 DEF IndInv, InLine, InPlan
<1>3. /\ buf' \in Seq(Nat) /\ Len(buf') = Len(buf) + 1 /\ buf'[Len(buf) + 1] = held
      /\ \A k \in 1 .. Len(buf) : buf'[k] = buf[k]
  BY <1>1, <1>2
<1>4. \A k \in 1 .. Len(buf') : (k \in 1 .. Len(buf) /\ buf'[k] = buf[k])
                                \/ (k = Len(buf) + 1 /\ buf'[k] = held)
  BY <1>2, <1>3
<1>5. InLine'
  <2>1. \A k \in 1 .. Len(buf') : buf'[k] \in 1 .. Len(sent)
    BY <1>1, <1>2, <1>4 DEF IndInv, InLine
  <2>2. \A k \in 1 .. Len(buf'), i \in 1 .. Len(chan) : buf'[k] < chan[i]
    BY <1>4, Zenon DEF IndInv, InLine
  <2>3. ASSUME NEW k \in 1 .. Len(buf'), NEW l \in 1 .. Len(buf'), k < l
        PROVE  buf'[k] < buf'[l]
    <3>1. k \in 1 .. Len(buf)
      BY <1>2, <1>3, <2>3
    <3>2. buf'[k] = buf[k] /\ buf[k] < held
      BY <1>1, <1>3, <3>1, Zenon DEF IndInv, InLine
    <3>3. CASE l \in 1 .. Len(buf) /\ buf'[l] = buf[l]
      BY <2>3, <3>1, <3>2, <3>3 DEF IndInv, InLine
    <3> QED
      BY <1>4, <3>2, <3>3
  <2>4. \A i \in 1 .. Len(chan) : chan[i] \in 1 .. Len(sent) /\ 0 < chan[i]
    BY <1>2 DEF IndInv, InLine
  <2>5. \A i, j \in 1 .. Len(chan) : i < j => chan[i] < chan[j]
    BY DEF IndInv, InLine
  <2>6. sent \in Seq(Commands) /\ publisher \in [Publishers -> Commands \cup {Nil}]
    BY DEF IndInv, InLine
  <2> QED
    BY <1>1, <1>2, <1>3, <2>1, <2>2, <2>3, <2>4, <2>5, <2>6 DEF InLine
<1>6. StoredFirst'
  BY <1>1, <1>4, Zenon DEF IndInv, StoredFirst
<1>7. History' /\ StoredInOrder' /\ Tickets'
  BY <1>1, Zenon DEF IndInv, History, StoredInOrder, Versions, Tickets, StoredDiffLanded, Writes, Of
<1> QED
  BY <1>1, <1>2, <1>5, <1>6, <1>7, Unplanned

\* The loop begins a flush, or ends.
LEMMA LoopKeeps ==
  ASSUME IndInv, Linger \/ StopOnContext \/ StopOnClosedChannel
  PROVE  IndInv'
<1>1. /\ loop = "wait" /\ loop' \in {"fold", "off"} /\ (buf' = buf \/ buf' = <<>>)
      /\ UNCHANGED <<sent, publisher, chan, held, plan, outcome, docs, cur>>
  BY DEF Linger, StopOnContext, StopOnClosedChannel, clientVars, queueVars
<1>2. plan = NoPlan
  BY <1>1, Zenon DEF IndInv, InPlan
<1>3. InLine'
  <2>1. CASE buf' = buf
    BY <1>1, <2>1 DEF IndInv, InLine
  <2>2. CASE buf' = <<>>
    BY <1>1, <2>2 DEF IndInv, InLine
  <2> QED
    BY <1>1, <2>1, <2>2
<1>4. StoredFirst'
  BY <1>1 DEF IndInv, StoredFirst
<1>5. History' /\ StoredInOrder' /\ Tickets'
  BY <1>1, Zenon DEF IndInv, History, StoredInOrder, Versions, Tickets, StoredDiffLanded, Writes, Of
<1> QED
  BY <1>1, <1>2, <1>3, <1>4, <1>5, Unplanned

-----------------------------------------------------------------------------
(* The flush.                                                              *)

\* The parts of a plan and of its events.
LEMMA PlanParts ==
  ASSUME plan \in Plan
  PROVE  /\ plan.at \in Nat \ {0} /\ plan.next \in Nat \ {0} /\ plan.events \in Seq(Doc)
         /\ plan.failed \subseteq Nat /\ plan.due \subseteq Entities
         /\ plan.running \in [Entities -> State \cup {Nil}]
         /\ plan.last \in [Entities -> Nat \cup {Nil}] /\ Len(plan.events) \in Nat
         /\ \A i \in 1 .. Len(plan.events) :
              /\ plan.events[i] \in Doc /\ plan.events[i].eid \in Entities
              /\ plan.events[i].v \in Nat \ {0} /\ plan.events[i].write \in Nat
<1>1. plan.events \in Seq(Doc)
  BY DEF Plan
<1>2. \A i \in 1 .. Len(plan.events) : plan.events[i] \in Doc
  BY <1>1
<1>3. \A d \in Doc : d.eid \in Entities /\ d.v \in Nat \ {0} /\ d.write \in Nat
  BY Zenon DEF Doc
<1> QED
  BY <1>1, <1>2, <1>3 DEF Plan

\* What a step of the flush leaves alone when it stores nothing.
LEMMA FlushMoves ==
  ASSUME IndInv, UNCHANGED <<flushVars, docs>>, loop \notin {"wait", "off"},
         loop' \in {"fold", "last"} => loop \in {"fold", "last"},
         loop' \notin {"wait", "off"}
  PROVE  InLine' /\ StoredInOrder' /\ StoredFirst' /\ Tickets' /\ (UNCHANGED cur => History')
<1>1. UNCHANGED <<sent, publisher, chan, held, buf, outcome>>
  BY DEF flushVars, clientVars, queueVars
<1>2. InLine'
  BY <1>1, Zenon DEF IndInv, InLine
<1>3. StoredInOrder' /\ StoredFirst'
  BY <1>1 DEF IndInv, StoredInOrder, StoredFirst
<1>4. Tickets'
  BY <1>1 DEF IndInv, Tickets, StoredDiffLanded, Writes, Of
<1> QED
  BY <1>2, <1>3, <1>4, Zenon DEF IndInv, History, Versions

\* A step of the fold that plans no event: what it loads is stored, and a diff
\* it passes has failed.
LEMMA FoldMoves ==
  ASSUME IndInv, UNCHANGED <<flushVars, docs, cur>>,
         loop \in {"fold", "last"}, loop' \in {"fold", "last"},
         plan' \in Plan, plan.at <= plan'.at, plan'.at <= Len(buf) + 1,
         loop' = "last" => plan'.at <= Len(buf),
         plan'.events = plan.events, plan'.next = plan.next, plan'.due = plan.due,
         plan.failed \subseteq plan'.failed,
         \A e \in Entities : \/ plan'.running[e] = plan.running[e]
                             \/ /\ plan'.running[e] \in State
                                /\ plan'.running[e].v \in Versions(e) \cup {0},
         \A k \in plan.at .. plan'.at - 1 : sent[buf[k]].kind = "diff" => buf[k] \in plan'.failed
  PROVE  IndInv'
<1>1. UNCHANGED <<sent, buf>> /\ \A e : Versions(e)' = Versions(e)
  BY Zenon DEF flushVars, clientVars, Versions
<1>2. InLine' /\ History' /\ StoredInOrder' /\ StoredFirst' /\ Tickets'
  BY FlushMoves, ZenonT(40)
<1>3. plan \in Plan /\ plan.at \in Nat /\ plan'.at \in Nat /\ Len(buf) \in Nat
  <2>1. plan \in Plan /\ buf \in Seq(Nat)
    BY Zenon DEF IndInv, InPlan, InLine
  <2>2. plan.at \in Nat /\ plan'.at \in Nat
    BY <2>1 DEF Plan
  <2> QED
    BY <2>1, <2>2
<1>4. InPlan'
  BY <1>1, Zenon DEF IndInv, InPlan
<1>5. EventsInLine'
  <2>1. \A i \in 1 .. Len(plan.events) : plan.events[i].eid \in Entities
    BY <1>3, PlanParts, Zenon
  <2>2. \A k \in 1 .. plan.at - 1 : k \in 1 .. plan'.at - 1
    BY <1>3
  <2> QED
    BY <1>1, <2>1, <2>2, Zenon DEF IndInv, EventsInLine
<1>6. NoGap'
  <2>1. \A e, v, i : Reached(e, v, i)' <=> Reached(e, v, i)
    BY <1>1, Zenon DEF Reached
  <2>2. \A e, i : \A v \in Versions(e) \cup {0} : Reached(e, v, i)
    BY Zenon DEF Reached
  <2> QED
    BY <2>1, <2>2, Zenon DEF IndInv, NoGap
<1>7. DiffPlanned'
  <2> SUFFICES ASSUME NEW k \in 1 .. plan'.at - 1, sent[buf[k]].kind = "diff",
                      buf[k] \notin plan'.failed
               PROVE  \E i \in 1 .. Len(plan.events) : plan.events[i].write = buf[k]
    BY <1>1, ZenonT(40) DEF DiffPlanned
  <2>1. k \in 1 .. plan.at - 1
    BY <1>3
  <2>2. buf[k] \notin plan.failed
    BY Zenon
  <2> QED
    BY <2>1, <2>2, Zenon DEF IndInv, DiffPlanned
<1>8. DiffStored'
  BY Zenon DEF DiffStored
<1> QED
  BY <1>2, <1>4, <1>5, <1>6, <1>7, <1>8 DEF IndInv

\* The planned events, when nothing is stored.
LEMMA PlanStays ==
  ASSUME EventsInLine, NoGap, UNCHANGED <<buf, docs>>, plan'.at = plan.at,
         plan'.events = plan.events, plan'.next = plan.next, plan'.running = plan.running
  PROVE  EventsInLine' /\ NoGap'
<1>1. \A e, v, i : Reached(e, v, i)' = Reached(e, v, i)
  BY DEF Reached, Versions
<1>2. NoGap'
  BY <1>1 DEF NoGap
<1>3. EventsInLine'
  BY ZenonT(40) DEF EventsInLine
<1> QED
  BY <1>2, <1>3

\* The flush is over: a diff that did not fail is stored.
LEMMA FlushEnds ==
  ASSUME IndInv, UNCHANGED <<flushVars, docs, cur>>, loop \notin {"wait", "off"},
         loop' = "settle", plan' \in Plan, plan'.at = plan.at,
         plan'.events = plan.events, plan'.next = plan.next, plan'.due = plan.due,
         plan'.running = plan.running,
         \A k \in 1 .. Len(buf) : sent[buf[k]].kind = "diff" /\ buf[k] \notin plan'.failed
           => Of(buf[k]) # {}
  PROVE  IndInv'
<1>1. UNCHANGED <<sent, buf>> /\ \A e : Versions(e)' = Versions(e)
  BY Zenon DEF flushVars, clientVars, Versions
<1>2. InLine' /\ History' /\ StoredInOrder' /\ StoredFirst' /\ Tickets'
  BY FlushMoves, Zenon
<1>3. InPlan'
  BY <1>1, Zenon DEF IndInv, InPlan
<1>4. EventsInLine /\ NoGap
  BY Zenon DEF IndInv
<1>5. EventsInLine' /\ NoGap'
  BY <1>1, <1>4, PlanStays, Zenon
<1>6. DiffPlanned' /\ DiffStored'
  BY <1>1, Zenon DEF DiffPlanned, DiffStored, Of
<1> QED
  BY <1>2, <1>3, <1>5, <1>6, Zenon DEF IndInv

\* The item at hand is an accepted write.
LEMMA ItemIs ==
  ASSUME IndInv, plan.at <= Len(buf)
  PROVE  /\ plan.at \in 1 .. Len(buf) /\ Len(buf) \in Nat /\ Item \in 1 .. Len(sent)
         /\ sent[Item] \in Command /\ Entity \in Entities
<1>1. plan.at \in 1 .. Len(buf) /\ Len(buf) \in Nat
  BY PlanParts DEF IndInv, InPlan, InLine
<1>2. buf[plan.at] \in 1 .. Len(sent) /\ sent \in Seq(Commands)
  BY <1>1, Zenon DEF IndInv, InLine
<1>3. sent[Item] \in Commands
  BY <1>2 DEF Item
<1>4. sent[Item] \in Command
  BY <1>3, FastBatchAssumption, Zenon
<1> QED
  BY <1>1, <1>2, <1>4, Zenon DEF Item, Entity, Command

\* A failed item is passed by the fold.
LEMMA FailItemKeeps ==
  ASSUME IndInv, UNCHANGED <<flushVars, docs, cur>>,
         loop \in {"fold", "last"}, plan.at <= Len(buf), loop' = "fold", plan' = FailItem
  PROVE  IndInv'
<1>1. /\ plan.at \in 1 .. Len(buf) /\ Len(buf) \in Nat /\ Item \in Nat
  BY ItemIs
<1>2. plan \in Plan /\ plan.at \in Nat \ {0} /\ plan.failed \subseteq Nat
  BY PlanParts DEF IndInv, InPlan
<1>3. /\ plan' = [plan EXCEPT !.failed = plan.failed \cup {Item}, !.at = plan.at + 1]
  BY DEF FailItem
<1>4. /\ plan'.at = plan.at + 1 /\ plan'.failed = plan.failed \cup {Item}
      /\ plan'.events = plan.events /\ plan'.next = plan.next /\ plan'.due = plan.due
      /\ plan'.running = plan.running
  BY <1>2, <1>3 DEF Plan
<1>5. plan' \in Plan
  <2>1. plan.failed \cup {Item} \in SUBSET Nat /\ plan.at + 1 \in Nat \ {0}
    BY <1>1, <1>2
  <2> QED
    BY <1>2, <1>3, <2>1, Zenon DEF Plan
<1>6. \A k \in plan.at .. plan'.at - 1 : buf[k] \in plan'.failed
  <2>1. \A k \in plan.at .. plan'.at - 1 : k = plan.at
    BY <1>1, <1>4
  <2> QED
    BY <2>1, <1>4, Zenon DEF Item
<1>7. plan.at <= plan'.at /\ plan'.at <= Len(buf) + 1
  BY <1>1, <1>4
<1> QED
  BY <1>4, <1>5, <1>6, <1>7, FoldMoves, Zenon

\* EnsureCollection fails every item.
LEMMA ConfigKeeps == IndInv /\ ConfigFails => IndInv'
<1> SUFFICES ASSUME IndInv, ConfigFails
             PROVE  IndInv'
  OBVIOUS
<1>1. /\ loop = "fold" /\ loop' = "settle" /\ UNCHANGED <<flushVars, docs, cur>>
      /\ plan' = [plan EXCEPT !.failed = Range(buf)]
  BY Zenon DEF ConfigFails, Folding
<1>2. plan \in Plan /\ buf \in Seq(Nat)
  BY DEF IndInv, InPlan, InLine
<1>3. Range(buf) \subseteq Nat /\ \A k \in 1 .. Len(buf) : buf[k] \in Range(buf)
  BY <1>2 DEF Range
<1>4. /\ plan' \in Plan /\ plan'.failed = Range(buf) /\ plan'.at = plan.at
      /\ plan'.events = plan.events /\ plan'.next = plan.next /\ plan'.due = plan.due
      /\ plan'.running = plan.running
  BY <1>1, <1>2, <1>3, Zenon DEF Plan
<1> QED
  BY <1>1, <1>3, <1>4, FlushEnds

\* What is loaded of an entity is stored.
LEMMA LoadCurrentKeeps == IndInv /\ LoadCurrent => IndInv'
<1> SUFFICES ASSUME IndInv, LoadCurrent
             PROVE  IndInv'
  OBVIOUS
<1>1. loop = "fold" /\ plan.at <= Len(buf) /\ UNCHANGED <<flushVars, docs, cur>>
  BY DEF LoadCurrent, Folding
<1>2. /\ plan.at \in 1 .. Len(buf) /\ Len(buf) \in Nat /\ Entity \in Entities
  BY <1>1, ItemIs
<1>3. CASE /\ plan' = [plan EXCEPT !.running[Entity] = cur[Entity]]
           /\ loop' = IF PreStore THEN "last" ELSE "fold"
  <2>1. plan \in Plan /\ plan.running \in [Entities -> State \cup {Nil}]
    BY PlanParts DEF IndInv, InPlan
  <2>2. cur[Entity] \in State /\ cur[Entity].v \in Versions(Entity) \cup {0}
    BY <1>2 DEF IndInv, History
  <2>3. plan' = [plan EXCEPT !.running = [plan.running EXCEPT ![Entity] = cur[Entity]]]
    BY <1>3, Zenon
  <2>4. [plan.running EXCEPT ![Entity] = cur[Entity]] \in [Entities -> State \cup {Nil}]
    BY <2>1, <2>2, Zenon
  <2>5. /\ plan' \in Plan /\ plan'.failed = plan.failed /\ plan'.at = plan.at
        /\ plan'.events = plan.events /\ plan'.next = plan.next /\ plan'.due = plan.due
        /\ plan'.running = [plan.running EXCEPT ![Entity] = cur[Entity]]
    BY <2>1, <2>3, <2>4, Zenon DEF Plan
  <2>6. \A e \in Entities : \/ plan'.running[e] = plan.running[e]
                            \/ /\ plan'.running[e] \in State
                               /\ plan'.running[e].v \in Versions(e) \cup {0}
    <3> TAKE e \in Entities
    <3>1. CASE e = Entity
      BY <2>1, <2>2, <2>5, <3>1, Zenon
    <3>2. CASE e # Entity
      BY <2>1, <2>5, <3>2, Zenon
    <3> QED
      BY <3>1, <3>2, Zenon
  <2>7. /\ plan.at <= plan'.at /\ plan'.at <= Len(buf) + 1 /\ plan'.at <= Len(buf)
        /\ plan.at .. plan'.at - 1 = {}
    BY <1>2, <2>5
  <2>8. loop' \in {"fold", "last"}
    BY <1>3
  <2> QED
    BY <1>1, <2>5, <2>6, <2>7, <2>8, FoldMoves, ZenonT(40)
<1>4. CASE plan' = FailItem /\ UNCHANGED loop
  BY <1>1, <1>4, FailItemKeeps
<1> QED
  BY <1>3, <1>4 DEF LoadCurrent

\* The last event of an entity is read for the hooks.
LEMMA LoadLastKeeps == IndInv /\ LoadLast => IndInv'
<1> SUFFICES ASSUME IndInv, LoadLast
             PROVE  IndInv'
  OBVIOUS
<1>1. loop = "last" /\ loop' = "fold" /\ UNCHANGED <<flushVars, docs, cur>>
  BY Zenon DEF LoadLast
<1>2. plan.at <= Len(buf)
  BY <1>1 DEF IndInv, InPlan
<1>3. plan.at \in 1 .. Len(buf) /\ Len(buf) \in Nat /\ Entity \in Entities
  BY <1>2, ItemIs, Zenon
<1>4. CASE plan' = [plan EXCEPT !.last[Entity] = LastVersion(Entity)]
  <2>1. plan \in Plan /\ plan.last \in [Entities -> Nat \cup {Nil}]
    BY PlanParts DEF IndInv, InPlan
  <2>2. PICK n \in Nat : Versions(Entity) = 1 .. n
    BY <1>3 DEF IndInv, History
  <2>3. LastVersion(Entity) \in Nat
    BY <2>2, LastVersionIs
  <2>4. plan' = [plan EXCEPT !.last = [plan.last EXCEPT ![Entity] = LastVersion(Entity)]]
    BY <1>4
  <2>5. [plan.last EXCEPT ![Entity] = LastVersion(Entity)] \in [Entities -> Nat \cup {Nil}]
    BY <2>1, <2>3, Zenon
  <2>6. /\ plan' \in Plan /\ plan'.failed = plan.failed /\ plan'.at = plan.at
        /\ plan'.events = plan.events /\ plan'.next = plan.next /\ plan'.due = plan.due
        /\ plan'.running = plan.running
    BY <2>1, <2>4, <2>5, Zenon DEF Plan
  <2>7. /\ plan.at <= plan'.at /\ plan'.at <= Len(buf) + 1 /\ plan.at .. plan'.at - 1 = {}
    BY <1>3, <2>6
  <2> QED
    BY <1>1, <2>6, <2>7, FoldMoves, Zenon
<1>5. CASE plan' = FailItem
  BY <1>1, <1>2, <1>5, FailItemKeeps
<1> QED
  BY <1>4, <1>5 DEF LoadLast

\* The write at hand gets its event, after the running state of its entity.
LEMMA CarryKeeps ==
  ASSUME IndInv, UNCHANGED <<flushVars, docs, cur, loop>>, Folding,
         plan.running[Entity] # Nil,
         plan' = [plan EXCEPT !.at = @ + 1, !.events = Append(@, Event),
                              !.running[Entity] = After, !.last[Entity] = After.v]
  PROVE  IndInv'
<1>1. loop = "fold" /\ plan.at <= Len(buf)
  BY DEF Folding
<1>2. /\ plan.at \in 1 .. Len(buf) /\ Len(buf) \in Nat /\ Item \in 1 .. Len(sent)
      /\ sent[Item] \in Command /\ Entity \in Entities /\ Item = buf[plan.at]
  BY <1>1, ItemIs DEF Item
<1>3. /\ plan \in Plan /\ plan.next = 1
      /\ plan.due \subseteq {d.eid : d \in Range(plan.events)}
  BY <1>1 DEF IndInv, InPlan
<1>4. /\ plan.running \in [Entities -> State \cup {Nil}] /\ plan.at \in Nat \ {0}
      /\ plan.last \in [Entities -> Nat \cup {Nil}] /\ plan.events \in Seq(Doc)
      /\ Len(plan.events) \in Nat
      /\ \A i \in 1 .. Len(plan.events) : plan.events[i].eid \in Entities
  BY <1>3, PlanParts
<1>5. /\ After \in State /\ After.v = plan.running[Entity].v + 1 /\ After.v - 1 \in Nat
      /\ plan.running[Entity] \in State /\ plan.running[Entity].v \in Nat
      /\ After.v - 1 = plan.running[Entity].v /\ After.v \in Nat \ {0}
  <2>1. plan.running[Entity] \in State
    BY <1>2, <1>4
  <2>2. plan.running[Entity].v \in Nat
    BY <2>1 DEF State
  <2>3. After.v = plan.running[Entity].v + 1 /\ After \in State
    <3>1. (IF sent[Item].kind = "diff" THEN Absent ELSE sent[Item].to) \in Nat
      BY <1>2, Zenon DEF Command, Absent
    <3> QED
      BY <2>2, <3>1 DEF After, State
  <2> QED
    BY <2>1, <2>2, <2>3
<1>6. /\ Event \in Doc /\ Event.eid = Entity /\ Event.v = After.v /\ Event.write = buf[plan.at]
  <2>1. LinkOf(Entity) \in Int
    BY <1>2, <1>4 DEF LinkOf
  <2>2. After.value \in Nat
    BY <1>5 DEF State
  <2>3. Item \in Nat /\ sent[Item].key \in Keys \cup {NoKey}
    BY <1>2 DEF Command
  <2> QED
    BY <1>2, <1>5, <2>1, <2>2, <2>3 DEF Event, Doc
<1>7. plan' = [plan EXCEPT !.at = plan.at + 1, !.events = Append(plan.events, Event),
                           !.running = [plan.running EXCEPT ![Entity] = After],
                           !.last = [plan.last EXCEPT ![Entity] = After.v]]
  OBVIOUS
<1>8. /\ plan'.at = plan.at + 1 /\ plan'.events = Append(plan.events, Event)
      /\ plan'.running = [plan.running EXCEPT ![Entity] = After]
      /\ plan'.failed = plan.failed /\ plan'.next = 1 /\ plan'.due = plan.due
  BY <1>3, <1>7 DEF Plan
<1>9. plan' \in Plan
  <2>1. /\ [plan.running EXCEPT ![Entity] = After] \in [Entities -> State \cup {Nil}]
        /\ [plan.last EXCEPT ![Entity] = After.v] \in [Entities -> Nat \cup {Nil}]
        /\ Append(plan.events, Event) \in Seq(Doc) /\ plan.at + 1 \in Nat \ {0}
    <3>1. [plan.running EXCEPT ![Entity] = After] \in [Entities -> State \cup {Nil}]
      BY <1>2, <1>4, <1>5, Zenon
    <3>2. [plan.last EXCEPT ![Entity] = After.v] \in [Entities -> Nat \cup {Nil}]
      BY <1>2, <1>4, <1>5, Zenon
    <3>3. Append(plan.events, Event) \in Seq(Doc)
      BY <1>4, <1>6
    <3>4. plan.at + 1 \in Nat \ {0}
      BY <1>4
    <3> QED
      BY <3>1, <3>2, <3>3, <3>4, Zenon
  <2> QED
    BY <1>3, <1>7, <2>1, ZenonT(40) DEF Plan
<1>10. /\ Len(plan'.events) = Len(plan.events) + 1
       /\ plan'.events[Len(plan.events) + 1] = Event
       /\ \A i \in 1 .. Len(plan.events) : plan'.events[i] = plan.events[i]
       /\ \A i \in 1 .. Len(plan'.events) : i \in 1 .. Len(plan.events) \/ i = Len(plan.events) + 1
  BY <1>4, <1>6, <1>8
<1>11. UNCHANGED <<sent, buf>> /\ \A e : Versions(e)' = Versions(e)
  BY DEF flushVars, clientVars, Versions
<1>12. InLine' /\ History' /\ StoredInOrder' /\ StoredFirst' /\ Tickets'
  BY <1>1, FlushMoves
<1>13. InPlan'
  <2>1. plan'.due \subseteq {d.eid : d \in Range(plan'.events)}
    <3>1. Range(plan.events) \subseteq Range(plan'.events)
      BY <1>4, <1>6, <1>8, <1>10 DEF Range
    <3> QED
      BY <1>3, <1>8, <3>1
  <2>2. plan'.at <= Len(buf) + 1 /\ plan'.next <= Len(plan'.events) + 1
    <3>1. plan.at + 1 <= Len(buf) + 1
      BY <1>2
    <3>2. 1 <= Len(plan.events) + 1 + 1
      BY <1>4
    <3> QED
      BY <1>8, <1>10, <3>1, <3>2, Zenon
  <2> QED
    BY <1>1, <1>8, <1>9, <1>11, <2>1, <2>2 DEF InPlan
<1>14. EventsInLine'
  <2> DEFINE n == Len(plan.events)
  <2>1. /\ \A i \in 1 .. n :
             /\ \E k \in 1 .. plan.at - 1 : k <= Len(buf) /\ plan.events[i].write = buf[k]
             /\ plan.running[plan.events[i].eid] \in State
             /\ \A d \in docs : d.write < plan.events[i].write
        /\ \A i, j \in 1 .. n : i < j => plan.events[i].write < plan.events[j].write
    BY <1>3 DEF IndInv, EventsInLine
  <2>2. \A i \in 1 .. n : plan.events[i].write < Event.write
    <3> TAKE i \in 1 .. n
    <3>1. PICK k \in 1 .. plan.at - 1 : k <= Len(buf) /\ plan.events[i].write = buf[k]
      BY <2>1
    <3>2. k \in 1 .. Len(buf) /\ k < plan.at
      BY <1>2, <3>1
    <3>3. \A a, b \in 1 .. Len(buf) : a < b => buf[a] < buf[b]
      BY Zenon DEF IndInv, InLine
    <3> QED
      BY <1>2, <1>6, <3>1, <3>2, <3>3, Zenon
  <2>3. \A d \in docs : d.write < Event.write
    BY <1>1, <1>2, <1>6 DEF IndInv, StoredFirst
  <2>4. \A i \in 1 .. n : \E k \in 1 .. plan'.at - 1 :
          k <= Len(buf) /\ plan.events[i].write = buf[k]
    <3>1. \A k \in 1 .. plan.at - 1 : k \in 1 .. plan'.at - 1
      BY <1>4, <1>8
    <3> QED
      BY <2>1, <3>1
  <2>5. plan.at \in 1 .. plan'.at - 1 /\ plan.at <= Len(buf)
    BY <1>2, <1>8
  <2>6. \A e \in Entities : plan.running[e] \in State \/ e = Entity => plan'.running[e] \in State
    BY <1>2, <1>4, <1>5, <1>8
  <2> HIDE DEF n
  <2>7. \A i \in 1 .. Len(plan'.events) :
             /\ \E k \in 1 .. plan'.at - 1 : k <= Len(buf) /\ plan'.events[i].write = buf[k]
             /\ plan'.running[plan'.events[i].eid] \in State
             /\ \A d \in docs : d.write < plan'.events[i].write
    <3> TAKE i \in 1 .. Len(plan'.events)
    <3>1. CASE i \in 1 .. n
      BY <1>4, <1>10, <2>1, <2>4, <2>6, <3>1 DEF n
    <3>2. CASE i = n + 1
      BY <1>2, <1>6, <1>10, <2>3, <2>5, <2>6, <3>2, ZenonT(40) DEF n
    <3> QED
      BY <1>10, <3>1, <3>2, Zenon DEF n
  <2>8. \A i, j \in 1 .. Len(plan'.events) : i < j => plan'.events[i].write < plan'.events[j].write
    <3> TAKE i, j \in 1 .. Len(plan'.events)
    <3> HAVE i < j
    <3>1. i \in 1 .. n
      BY <1>4, <1>10 DEF n
    <3>2. CASE j \in 1 .. n
      BY <1>10, <2>1, <3>1, <3>2, Zenon DEF n
    <3>3. CASE j = n + 1
      BY <1>10, <2>2, <3>1, <3>3, Zenon DEF n
    <3> QED
      BY <1>10, <3>2, <3>3 DEF n
  <2>9. \A i \in 1 .. Len(plan'.events) : ~(i < plan'.next)
    BY <1>8, <1>10, <1>4
  <2> QED
    <3>1. buf' = buf /\ docs' = docs
      BY <1>11
    <3>2. \A i \in 1 .. Len(plan'.events) :
            /\ \E k \in 1 .. plan'.at - 1 : k <= Len(buf') /\ plan'.events[i].write = buf'[k]
            /\ plan'.running[plan'.events[i].eid] \in State
            /\ i < plan'.next => plan'.events[i] \in docs'
            /\ i >= plan'.next => \A d \in docs' : d.write < plan'.events[i].write
      BY <2>7, <2>9, <3>1
    <3> QED
      BY <2>8, <3>2, Zenon DEF EventsInLine
<1>15. NoGap'
  <2> DEFINE R(e, v, i) ==
        \/ v = 0 \/ v \in Versions(e)
        \/ \E j \in 1 .. Len(plan'.events) : /\ j < i
                                             /\ plan'.events[j].eid = e /\ plan'.events[j].v = v
  <2>1. \A e, v : \A i, j \in Nat : Reached(e, v, i) /\ i <= j => R(e, v, j)
    BY <1>3, <1>4, <1>10 DEF Reached
  <2>2. /\ \A i \in 1 .. Len(plan.events) : Reached(plan.events[i].eid, plan.events[i].v - 1, i)
        /\ \A e \in Entities : plan.running[e] \in State
             => Reached(e, plan.running[e].v, Len(plan.events) + 1)
    BY <1>3 DEF IndInv, NoGap
  <2>3. R(Entity, Event.v, Len(plan'.events) + 1)
    <3>1. /\ Len(plan.events) + 1 \in 1 .. Len(plan'.events)
          /\ Len(plan.events) + 1 < Len(plan'.events) + 1
      BY <1>4, <1>10
    <3> QED
      BY <1>6, <1>10, <3>1
  <2>4. ASSUME NEW e, NEW v, NEW i \in Nat, R(e, v, i)
        PROVE  \/ v = 0 \/ v \in Versions(e)'
               \/ \E j \in 1 .. Len(plan'.events) :
                    /\ plan'.next <= j /\ j < i
                    /\ plan'.events[j].eid = e /\ plan'.events[j].v = v
    <3>1. \A j \in 1 .. Len(plan'.events) : plan'.next <= j
      BY <1>8
    <3> QED
      BY <1>11, <2>4, <3>1
  <2> HIDE DEF R
  <2>5. \A i \in 1 .. Len(plan'.events) : R(plan'.events[i].eid, plan'.events[i].v - 1, i)
    <3> TAKE i \in 1 .. Len(plan'.events)
    <3>1. CASE i \in 1 .. Len(plan.events)
      BY <1>10, <2>1, <2>2, <3>1
    <3>2. CASE i = Len(plan.events) + 1
      <4>1. R(Entity, After.v - 1, i)
        <5>1. Reached(Entity, After.v - 1, i)
          BY <1>2, <1>5, <2>2, <3>2, Zenon
        <5>2. i \in Nat /\ i <= i
          BY <1>4, <3>2
        <5> QED
          BY <2>1, <5>1, <5>2, Zenon
      <4> QED
        BY <1>6, <1>10, <3>2, <4>1, Zenon
    <3> QED
      BY <1>10, <3>1, <3>2, Zenon
  <2>6. ASSUME NEW e \in Entities, plan'.running[e] \in State
        PROVE  R(e, plan'.running[e].v, Len(plan'.events) + 1)
    <3>1. CASE e = Entity
      <4>1. plan'.running[e].v = Event.v
        BY <1>4, <1>6, <1>8, <3>1
      <4> QED
        BY <2>3, <3>1, <4>1
    <3>2. CASE e # Entity
      <4>1. plan'.running[e] = plan.running[e]
        BY <1>4, <1>8, <3>2
      <4>2. Reached(e, plan.running[e].v, Len(plan.events) + 1)
        BY <2>2, <2>6, <4>1
      <4>3. Len(plan.events) + 1 \in Nat /\ Len(plan'.events) + 1 \in Nat
            /\ Len(plan.events) + 1 <= Len(plan'.events) + 1
        BY <1>4, <1>10
      <4> QED
        BY <2>1, <4>1, <4>2, <4>3, Zenon
    <3> QED
      BY <3>1, <3>2
  <2>7. Len(plan'.events) + 1 \in Nat /\ \A i \in 1 .. Len(plan'.events) : i \in Nat
    BY <1>4, <1>10
  <2>8. \A e, v : \A i \in Nat : R(e, v, i)
          => \/ v = 0 \/ v \in Versions(e)'
             \/ \E j \in 1 .. Len(plan'.events) :
                  /\ plan'.next <= j /\ j < i
                  /\ plan'.events[j].eid = e /\ plan'.events[j].v = v
    BY <2>4, ZenonT(40)
  <2>9. \A i \in 1 .. Len(plan'.events) : Reached(plan.events[i].eid, plan.events[i].v - 1, i)'
    <3> TAKE i \in 1 .. Len(plan'.events)
    <3>1. PICK e, v : e = plan'.events[i].eid /\ v = plan'.events[i].v - 1
      BY Zenon
    <3>2. \/ v = 0 \/ \E d \in docs' : d.eid = e /\ d.v = v
          \/ \E j \in 1 .. Len(plan'.events) :
                  /\ plan'.next <= j /\ j < i
                  /\ plan'.events[j].eid = e /\ plan'.events[j].v = v
      <4>1. R(e, v, i) /\ i \in Nat
        BY <2>5, <2>7, <3>1
      <4>2. v \in Versions(e)' => \E d \in docs' : d.eid = e /\ d.v = v
        BY DEF Versions
      <4> QED
        BY <2>8, <4>1, <4>2
    <3> QED
      BY <3>1, <3>2 DEF Reached, Versions
  <2>10. \A e \in Entities : plan'.running[e] \in State
           => Reached(e, plan.running[e].v, Len(plan.events) + 1)'
    BY <2>6, <2>7, <2>8 DEF Reached
  <2> QED
    BY <2>9, <2>10 DEF NoGap
<1>16. DiffPlanned'
  <2>1. \A k \in 1 .. plan'.at - 1 : k \in 1 .. plan.at - 1 \/ k = plan.at
    BY <1>4, <1>8
  <2>2. \A k \in 1 .. plan.at - 1 : sent[buf[k]].kind = "diff" /\ buf[k] \notin plan.failed
          => \E i \in 1 .. Len(plan.events) : plan.events[i].write = buf[k]
    BY <1>1 DEF IndInv, DiffPlanned
  <2>3. Len(plan.events) + 1 \in 1 .. Len(plan'.events)
        /\ \A i \in 1 .. Len(plan.events) : i \in 1 .. Len(plan'.events)
    BY <1>4, <1>10
  <2>4. \A k \in 1 .. plan'.at - 1 : sent[buf[k]].kind = "diff" /\ buf[k] \notin plan'.failed
          => \E i \in 1 .. Len(plan'.events) : plan'.events[i].write = buf[k]
    <3> TAKE k \in 1 .. plan'.at - 1
    <3>1. CASE k = plan.at
      BY <1>6, <1>10, <2>3, <3>1, Zenon
    <3>2. CASE k \in 1 .. plan.at - 1
      BY <1>8, <1>10, <2>2, <2>3, <3>2
    <3> QED
      BY <2>1, <3>1, <3>2, Zenon
  <2> QED
    BY <1>11, <2>4 DEF DiffPlanned
<1>17. DiffStored'
  BY <1>1 DEF DiffStored
<1> QED
  BY <1>12, <1>13, <1>14, <1>15, <1>16, <1>17 DEF IndInv

\* The rest of an item keeps the invariant.
LEMMA PlanItemKeeps == IndInv /\ PlanItem => IndInv'
<1> SUFFICES ASSUME IndInv, PlanItem
             PROVE  IndInv'
  OBVIOUS
<1>1. /\ Folding /\ loop = "fold" /\ plan.at <= Len(buf) /\ plan.running[Entity] # Nil
      /\ UNCHANGED <<flushVars, loop, docs, cur>>
  BY DEF PlanItem, Folding
<1>2. CASE plan' = FailItem
  BY <1>1, <1>2, FailItemKeeps
<1>3. CASE plan' = [plan EXCEPT !.at = @ + 1, !.events = Append(@, Event),
                                !.running[Entity] = After, !.last[Entity] = After.v]
  BY <1>1, <1>3, CarryKeeps
<1>4. CASE Planned(sent[Item], plan.running[Entity]) = "none" /\ plan' = [plan EXCEPT !.at = @ + 1]
  <2>1. plan \in Plan /\ plan.at \in 1 .. Len(buf) /\ Len(buf) \in Nat
    BY <1>1, ItemIs DEF IndInv, InPlan
  <2>2. /\ plan' \in Plan /\ plan'.failed = plan.failed /\ plan'.at = plan.at + 1
        /\ plan'.events = plan.events /\ plan'.next = plan.next /\ plan'.due = plan.due
        /\ plan'.running = plan.running
    BY <1>4, <2>1 DEF Plan
  <2>3. sent[Item].kind # "diff"
    BY <1>4 DEF Planned
  <2>4. \A k \in plan.at .. plan'.at - 1 : sent[buf[k]].kind # "diff"
    <3>1. \A k \in plan.at .. plan'.at - 1 : k = plan.at
      BY <2>1, <2>2
    <3> QED
      BY <2>3, <3>1, Zenon DEF Item
  <2>5. plan.at <= plan'.at /\ plan'.at <= Len(buf) + 1
    BY <2>1, <2>2
  <2> QED
    BY <1>1, <2>2, <2>4, <2>5, FoldMoves
<1> QED
  BY <1>2, <1>3, <1>4 DEF PlanItem

\* Every diff of a folded batch has failed or has its event.
LEMMA AllPlanned ==
  ASSUME IndInv, loop \in {"fold", "insert", "upsert"}, plan.at > Len(buf)
  PROVE  \A k \in 1 .. Len(buf) : sent[buf[k]].kind = "diff" /\ buf[k] \notin plan.failed
           => \E i \in 1 .. Len(plan.events) : plan.events[i].write = buf[k]
<1>1. plan.at \in Nat /\ Len(buf) \in Nat
  BY PlanParts DEF IndInv, InPlan, InLine
<1>2. \A k \in 1 .. Len(buf) : k \in 1 .. plan.at - 1
  BY <1>1
<1> QED
  BY <1>2, ZenonT(40) DEF IndInv, DiffPlanned

\* A failed insert fails every item that fed it, and the flush is over.
LEMMA FailAllKeeps ==
  ASSUME IndInv, UNCHANGED <<flushVars, docs, cur>>, loop \in {"fold", "insert"},
         plan.at > Len(buf), loop' = "settle", plan' = FailAll
  PROVE  IndInv'
<1> DEFINE W == {d.write : d \in Range(plan.events)}
<1>1. plan \in Plan /\ plan.failed \subseteq Nat /\ plan.events \in Seq(Doc)
  BY PlanParts, Zenon DEF IndInv, InPlan
<1>2. W \subseteq Nat /\ \A i \in 1 .. Len(plan.events) : plan.events[i].write \in W
  <2>1. \A i \in 1 .. Len(plan.events) : plan.events[i] \in Range(plan.events)
    BY <1>1 DEF Range
  <2>2. \A d \in Range(plan.events) : d.write \in Nat
    BY <1>1, PlanParts DEF Range
  <2> QED
    BY <2>1, <2>2, Zenon
<1>3. plan' = [plan EXCEPT !.failed = plan.failed \cup W]
  BY DEF FailAll
<1> HIDE DEF W
<1>4. /\ plan' \in Plan /\ plan'.failed = plan.failed \cup W /\ plan'.at = plan.at
      /\ plan'.events = plan.events /\ plan'.next = plan.next /\ plan'.due = plan.due
      /\ plan'.running = plan.running
  BY <1>1, <1>2, <1>3, Zenon DEF Plan
<1>5. \A k \in 1 .. Len(buf) : ~(sent[buf[k]].kind = "diff" /\ buf[k] \notin plan'.failed)
  BY <1>2, <1>4, AllPlanned, Zenon
<1> QED
  BY <1>4, <1>5, FlushEnds, Zenon

\* The folded batch goes to the insert, or is settled.
LEMMA FoldEndsKeeps == IndInv /\ FoldEnds => IndInv'
<1> SUFFICES ASSUME IndInv, FoldEnds
             PROVE  IndInv'
  OBVIOUS
<1>1. loop = "fold" /\ plan.at > Len(buf) /\ UNCHANGED <<flushVars, docs, cur>>
  BY DEF FoldEnds
<1>2. /\ plan \in Plan /\ plan.at \in Nat \ {0} /\ Len(buf) \in Nat /\ plan.at <= Len(buf) + 1
      /\ plan.next = 1 /\ plan.events \in Seq(Doc)
  BY <1>1, PlanParts DEF IndInv, InPlan, InLine
<1>3. CASE plan.events = <<>> /\ loop' = "settle" /\ UNCHANGED plan
  <2>1. 1 .. Len(plan.events) = {}
    BY <1>3
  <2>2. \A k \in 1 .. Len(buf) : ~(sent[buf[k]].kind = "diff" /\ buf[k] \notin plan'.failed)
    BY <1>1, <1>3, <2>1, AllPlanned, Zenon
  <2> QED
    BY <1>1, <1>2, <1>3, <2>2, FlushEnds, Zenon
<1>4. CASE loop' = "settle" /\ plan' = FailAll
  BY <1>1, <1>4, FailAllKeeps, Zenon
<1>5. CASE /\ plan.events # <<>> /\ loop' = "insert"
           /\ plan' = [plan EXCEPT !.due = {d.eid : d \in Range(plan.events)}]
  <2>1. {d.eid : d \in Range(plan.events)} \subseteq Entities
    <3>1. \A d \in Range(plan.events) : d.eid \in Entities
      BY <1>2, PlanParts DEF Range
    <3> QED
      BY <3>1, Zenon
  <2>2. /\ plan' \in Plan /\ plan'.failed = plan.failed /\ plan'.at = plan.at
        /\ plan'.events = plan.events /\ plan'.next = plan.next
        /\ plan'.due = {d.eid : d \in Range(plan.events)}
        /\ plan'.running = plan.running
    BY <1>2, <1>5, <2>1, Zenon DEF Plan
  <2>3. UNCHANGED <<sent, buf>> /\ \A e : Versions(e)' = Versions(e)
    BY <1>1, Zenon DEF flushVars, clientVars, Versions
  <2>4. InLine' /\ History' /\ StoredInOrder' /\ StoredFirst' /\ Tickets'
    BY <1>1, <1>5, FlushMoves
  <2>5. InPlan'
    <3>1. plan'.at = Len(buf) + 1
      BY <1>1, <1>2, <2>2
    <3>2. 1 <= Len(plan.events)
      BY <1>2, <1>5
    <3>3. plan'.next <= Len(plan'.events) + 1 /\ plan'.next <= Len(plan'.events)
      BY <1>2, <2>2, <3>2
    <3>4. plan'.due = {d.eid : d \in Range(plan'.events)}
      BY <2>2, Zenon
    <3> QED
      BY <1>2, <1>5, <2>2, <2>3, <3>1, <3>3, <3>4, Zenon DEF InPlan
  <2>6. EventsInLine /\ NoGap
    BY Zenon DEF IndInv
  <2>7. EventsInLine' /\ NoGap'
    BY <1>1, <2>2, <2>3, <2>6, PlanStays, Zenon
  <2>8. DiffPlanned' /\ DiffStored'
    BY <1>1, <1>5, <2>2, <2>3 DEF IndInv, DiffPlanned, DiffStored
  <2> QED
    BY <2>4, <2>5, <2>7, <2>8, Zenon DEF IndInv
<1> QED
  BY <1>3, <1>4, <1>5 DEF FoldEnds

\* The refresh of cur_* stores a version the flush has reached.
LEMMA UpsertKeeps == IndInv /\ Upsert => IndInv'
<1> SUFFICES ASSUME IndInv, Upsert
             PROVE  IndInv'
  OBVIOUS
<1>1. loop = "upsert" /\ UNCHANGED <<flushVars, docs>>
  BY DEF Upsert
<1>2. /\ plan \in Plan /\ plan.at = Len(buf) + 1 /\ plan.next = Len(plan.events) + 1
      /\ Len(buf) \in Nat /\ Len(plan.events) \in Nat /\ plan.events \in Seq(Doc)
      /\ plan.due \subseteq {d.eid : d \in Range(plan.events)} /\ plan.due \subseteq Entities
  <2>1. /\ plan \in Plan /\ plan.at = Len(buf) + 1 /\ plan.next = Len(plan.events) + 1
        /\ plan.due \subseteq {d.eid : d \in Range(plan.events)}
    BY <1>1, Zenon DEF IndInv, InPlan
  <2>2. buf \in Seq(Nat)
    BY Zenon DEF IndInv, InLine
  <2>3. Len(buf) \in Nat
    BY <2>2
  <2> QED
    BY <2>1, <2>3, PlanParts, Zenon
<1>3. UNCHANGED <<sent, buf>> /\ \A e : Versions(e)' = Versions(e)
  BY <1>1, Zenon DEF flushVars, clientVars, Versions
<1>4. \A i \in 1 .. Len(plan.events) : plan.events[i] \in docs /\ i < plan.next
                                       /\ plan.running[plan.events[i].eid] \in State
  <2>1. \A i \in 1 .. Len(plan.events) : i < plan.next
    BY <1>2
  <2> QED
    BY <2>1, Zenon DEF IndInv, EventsInLine
<1>5. CASE plan.due = {} /\ loop' = "settle" /\ UNCHANGED <<plan, cur>>
  <2>1. plan.at > Len(buf)
    BY <1>2
  <2>2. \A k \in 1 .. Len(buf) : sent[buf[k]].kind = "diff" /\ buf[k] \notin plan.failed
          => Of(buf[k]) # {}
    BY <1>1, <1>4, <2>1, AllPlanned, Zenon DEF Of
  <2> QED
    BY <1>1, <1>2, <1>5, <2>2, FlushEnds, Zenon
<1>6. ASSUME NEW e \in plan.due, plan' = [plan EXCEPT !.due = @ \ {e}], loop' = loop,
             cur' = cur \/ cur' = [cur EXCEPT ![e] = plan.running[e]]
      PROVE  IndInv'
  <2>1. /\ plan' \in Plan /\ plan'.failed = plan.failed /\ plan'.at = plan.at
        /\ plan'.events = plan.events /\ plan'.next = plan.next
        /\ plan'.due = plan.due \ {e} /\ plan'.running = plan.running
    BY <1>2, <1>6, Zenon DEF Plan
  <2>2. InLine' /\ StoredInOrder' /\ StoredFirst' /\ Tickets'
    BY <1>1, <1>6, FlushMoves
  <2>3. History'
    <3>1. PICK i \in 1 .. Len(plan.events) : plan.events[i].eid = e
      BY <1>2, <1>6 DEF Range
    <3>2. e \in Entities /\ plan.running[e] \in State
      BY <1>2, <1>4, <1>6, <3>1, Zenon
    <3>3. plan.running[e].v \in Versions(e) \cup {0}
      <4>1. Reached(e, plan.running[e].v, Len(plan.events) + 1)
        BY <3>2, Zenon DEF IndInv, NoGap
      <4>2. \A j \in 1 .. Len(plan.events) : ~(plan.next <= j)
        BY <1>2
      <4> QED
        BY <4>1, <4>2, Zenon DEF Reached
    <3>4. /\ docs \subseteq Doc /\ cur \in [Entities -> State]
          /\ \A x \in Entities : \E n \in Nat : Versions(x) = 1 .. n
          /\ \A x \in Entities : cur[x].v \in Versions(x) \cup {0}
      BY DEF IndInv, History
    <3>5. cur' \in [Entities -> State] /\ \A x \in Entities : cur'[x].v \in Versions(x) \cup {0}
      <4>1. CASE cur' = cur
        BY <3>4, <4>1, Zenon
      <4>2. CASE cur' = [cur EXCEPT ![e] = plan.running[e]]
        <5>1. \A x \in Entities : cur'[x] = IF x = e THEN plan.running[e] ELSE cur[x]
          BY <3>4, <4>2
        <5> QED
          BY <3>2, <3>3, <3>4, <4>2, <5>1, Zenon
      <4> QED
        BY <1>6, <4>1, <4>2, Zenon
    <3> QED
      BY <1>1, <1>3, <3>4, <3>5, Zenon DEF History
  <2>4. InPlan'
    <3>1. plan'.due \subseteq {d.eid : d \in Range(plan'.events)}
      BY <1>2, <2>1, Zenon
    <3>2. plan'.next <= Len(plan'.events) + 1 /\ plan'.at <= Len(buf) + 1
      BY <1>2, <2>1
    <3> QED
      BY <1>1, <1>2, <1>3, <1>6, <2>1, <3>1, <3>2, Zenon DEF InPlan
  <2>5. EventsInLine /\ NoGap
    BY Zenon DEF IndInv
  <2>6. EventsInLine' /\ NoGap'
    BY <1>1, <1>3, <2>1, <2>5, PlanStays, Zenon
  <2>7. DiffPlanned' /\ DiffStored'
    BY <1>1, <1>3, <1>6, <2>1 DEF IndInv, DiffPlanned, DiffStored
  <2> QED
    BY <2>2, <2>3, <2>4, <2>6, <2>7 DEF IndInv
<1> QED
  BY <1>5, <1>6 DEF Upsert

-----------------------------------------------------------------------------
(* The steps that store, and the end of a flush.                           *)

\* The event that follows the last one is stored.
LEMMA HistoryGrows ==
  ASSUME History, NEW d \in Doc, docs' = docs \cup {d},
         d.v \notin Versions(d.eid), d.v - 1 \in Versions(d.eid) \cup {0},
         cur' \in [Entities -> State],
         \A e \in Entities : \/ cur'[e].v \in Versions(e) \cup {0}
                             \/ e = d.eid /\ cur'[e].v = d.v
  PROVE  /\ History' /\ d.v \in Versions(d.eid)' /\ \A e : Versions(e) \subseteq Versions(e)'
         /\ \A x \in docs : x.eid = d.eid => x.v < d.v
<1>1. \A e : Versions(e)' = IF e = d.eid THEN Versions(e) \cup {d.v} ELSE Versions(e)
  BY Zenon DEF Versions
<1>2. d.eid \in Entities /\ d.v \in Nat \ {0}
  BY Zenon DEF Doc
<1>3. PICK n \in Nat : Versions(d.eid) = 1 .. n
  BY <1>2, Zenon DEF History
<1>4. d.v = n + 1
  BY <1>2, <1>3
<1>5. Versions(d.eid)' = 1 .. n + 1
  <2>1. (1 .. n) \cup {n + 1} = 1 .. n + 1
    OBVIOUS
  <2> QED
    BY <1>1, <1>3, <1>4, <2>1, Zenon
<1>6. \A e \in Entities : \E k \in Nat : Versions(e)' = 1 .. k
  <2> TAKE e \in Entities
  <2>1. CASE e = d.eid
    BY <1>5, <2>1
  <2>2. CASE e # d.eid
    BY <1>1, <2>2, Zenon DEF History
  <2> QED
    BY <2>1, <2>2, Zenon
<1>7. \A e \in Entities : cur'[e].v \in Versions(e)' \cup {0}
  BY <1>1, Zenon
<1>8. History'
  BY <1>6, <1>7, Zenon DEF History
<1>9. \A x \in docs : x.eid = d.eid => x.v < d.v
  <2>1. \A x \in docs : x.eid = d.eid => x.v \in Versions(d.eid)
    BY Zenon DEF Versions
  <2> QED
    BY <1>3, <1>4, <2>1
<1> QED
  BY <1>1, <1>8, <1>9, Zenon

\* What a stored event leaves true of the plan and the tickets.
LEMMA StoringKeeps ==
  ASSUME IndInv, NEW d, docs' = docs \cup {d}, UNCHANGED <<sent, buf, outcome>>
  PROVE  /\ Tickets' /\ \A m : Of(m) \subseteq Of(m)'
<1>1. \A m : Of(m) \subseteq Of(m)'
  BY DEF Of
<1>2. Tickets /\ Writes' = Writes
  BY Zenon DEF IndInv, Writes
<1>3. StoredDiffLanded'
  BY <1>1, <1>2, Zenon DEF Tickets, StoredDiffLanded
<1> QED
  BY <1>1, <1>2, <1>3, Zenon DEF Tickets

\* A strict write takes the version after the last.
LEMMA StrictKeeps ==
  ASSUME IndInv, NEW e \in Entities, StrictWrite(e)
  PROVE  IndInv'
<1>1. PICK value \in StrictValues :
        /\ docs' = docs \cup {[eid |-> e, v |-> LastVersion(e) + 1, key |-> NoKey,
                              value |-> value, write |-> 0,
                              link |-> IF PreStore THEN LastVersion(e) ELSE -1]}
        /\ cur' = [cur EXCEPT ![e] = [v |-> LastVersion(e) + 1, value |-> value]]
  BY Zenon DEF StrictWrite
<1>2. UNCHANGED <<sent, publisher, chan, held, loop, buf, plan, outcome>>
  BY Zenon DEF StrictWrite, queueVars
<1>3. PICK n \in Nat : Versions(e) = 1 .. n
  BY Zenon DEF IndInv, History
<1>4. LastVersion(e) = n
  BY <1>3, LastVersionIs
<1> DEFINE d == [eid |-> e, v |-> n + 1, key |-> NoKey, value |-> value, write |-> 0,
                 link |-> IF PreStore THEN n ELSE -1]
           c == [v |-> n + 1, value |-> value]
<1>5. docs' = docs \cup {d} /\ cur' = [cur EXCEPT ![e] = c]
  BY <1>1, <1>4, ZenonT(40)
<1>6. /\ d \in Doc /\ c \in State /\ c.v = n + 1 /\ d.eid = e /\ d.v = n + 1 /\ d.write = 0
  BY FastBatchAssumption DEF Doc, State
<1> HIDE DEF d, c
<1>7. History' /\ \A x : Versions(x) \subseteq Versions(x)'
  <2>1. d.v \notin Versions(d.eid) /\ d.v - 1 \in Versions(d.eid) \cup {0}
    BY <1>3, <1>6
  <2>2. cur \in [Entities -> State] /\ \A x \in Entities : cur[x].v \in Versions(x) \cup {0}
    BY Zenon DEF IndInv, History
  <2>3. \A x \in Entities : cur'[x] = IF x = e THEN c ELSE cur[x]
    BY <1>5, <2>2, Zenon
  <2>4. cur' \in [Entities -> State]
    BY <1>5, <1>6, <2>2, Zenon
  <2>5. History
    BY Zenon DEF IndInv
  <2> QED
    BY <1>5, <1>6, <2>1, <2>2, <2>3, <2>4, <2>5, HistoryGrows
<1>8. Tickets' /\ \A m : Of(m) \subseteq Of(m)'
  BY <1>2, <1>5, StoringKeeps, Zenon
<1>9. InLine'
  BY <1>2, Zenon DEF IndInv, InLine
<1>10. StoredInOrder'
  <2>1. \A x, y \in docs : x.eid = y.eid /\ 0 < x.write /\ x.write <= y.write => x = y \/ x.v < y.v
    BY Zenon DEF IndInv, StoredInOrder
  <2>2. \A x \in docs : x.write \in Nat
    BY DEF IndInv, History, Doc
  <2>3. \A x \in docs' : x \in docs \/ x = d
    BY <1>5, Zenon
  <2> QED
    BY <1>6, <2>1, <2>2, <2>3 DEF StoredInOrder
<1>11. StoredFirst'
  <2>1. /\ 0 <= Len(sent) /\ (held # 0 => 0 < held)
        /\ \A i \in 1 .. Len(chan) : 0 < chan[i]
        /\ \A k \in 1 .. Len(buf) : 0 < buf[k]
    BY DEF IndInv, InLine
  <2>2. \A x \in docs' : x \in docs \/ x.write = 0
    BY <1>5, <1>6, Zenon
  <2> QED
    BY <1>2, <2>1, <2>2, Zenon DEF IndInv, StoredFirst
<1>12. InPlan'
  BY <1>2, Zenon DEF IndInv, InPlan
<1>13. EventsInLine'
  <2>1. \A i \in 1 .. Len(plan.events) : 0 < plan.events[i].write
    <3> TAKE i \in 1 .. Len(plan.events)
    <3>1. PICK k \in 1 .. plan.at - 1 : k <= Len(buf) /\ plan.events[i].write = buf[k]
      BY Zenon DEF IndInv, EventsInLine
    <3>2. k \in 1 .. Len(buf) /\ \A l \in 1 .. Len(buf) : 0 < buf[l]
      BY <3>1 DEF IndInv, InLine
    <3> QED
      BY <3>1, <3>2, Zenon
  <2>2. EventsInLine
    BY DEF IndInv
  <2>3. \A x \in docs' : x \in docs \/ x.write = 0
    BY <1>5, <1>6, Zenon
  <2> QED
    BY <1>2, <1>5, <2>1, <2>2, <2>3, ZenonT(40) DEF EventsInLine
<1>14. NoGap'
  <2>1. \A x, v, i : Reached(x, v, i) => Reached(x, v, i)'
    BY <1>2, <1>7 DEF Reached
  <2>2. NoGap
    BY Zenon DEF IndInv
  <2> QED
    BY <1>2, <2>1, <2>2, Zenon DEF NoGap
<1>15. DiffPlanned'
  BY <1>2, Zenon DEF IndInv, DiffPlanned
<1>16. DiffStored'
  <2>1. DiffStored
    BY DEF IndInv
  <2> QED
    BY <1>2, <1>8, <2>1, Zenon DEF DiffStored
<1> QED
  BY <1>7, <1>8, <1>9, <1>10, <1>11, <1>12, <1>13, <1>14, <1>15, <1>16, Zenon DEF IndInv

\* A planned event is inserted: its predecessor is stored, and every other
\* stored event of its entity came before.
LEMMA InsertsKeeps ==
  ASSUME IndInv, loop = "insert", UNCHANGED <<flushVars, cur>>,
         ~Clash(plan.events[plan.next]), docs' = docs \cup {plan.events[plan.next]},
         plan' = [plan EXCEPT !.next = @ + 1],
         loop' = IF plan.next = Len(plan.events) THEN "upsert" ELSE "insert"
  PROVE  IndInv'
<1>0. PICK n, d, N : n = plan.next /\ d = plan.events[n] /\ N = Len(plan.events)
  OBVIOUS
<1>1. /\ plan \in Plan /\ n <= N /\ plan.at = Len(buf) + 1
      /\ plan.due \subseteq {x.eid : x \in Range(plan.events)}
  BY <1>0 DEF IndInv, InPlan
<1>2. n \in 1 .. N /\ N \in Nat /\ n \in Nat /\ d \in Doc /\ Len(buf) \in Nat
  <2>1. n \in Nat \ {0} /\ N \in Nat /\ \A i \in 1 .. N : plan.events[i] \in Doc
    BY <1>0, <1>1, PlanParts
  <2>2. n \in 1 .. N
    BY <1>1, <2>1
  <2>3. Len(buf) \in Nat
    BY DEF IndInv, InLine
  <2> QED
    BY <1>0, <2>1, <2>2, <2>3
<1>3. /\ plan' \in Plan /\ plan'.next = n + 1 /\ plan'.failed = plan.failed
      /\ plan'.at = plan.at /\ plan'.events = plan.events /\ plan'.due = plan.due
      /\ plan'.running = plan.running
  BY <1>0, <1>1, <1>2 DEF Plan
<1>4. UNCHANGED <<sent, publisher, chan, held, buf, outcome>> /\ docs' = docs \cup {d}
  BY <1>0 DEF flushVars, clientVars, queueVars
<1>5. /\ \A i \in 1 .. N :
           /\ \E k \in 1 .. plan.at - 1 : k <= Len(buf) /\ plan.events[i].write = buf[k]
           /\ plan.running[plan.events[i].eid] \in State
           /\ i < n => plan.events[i] \in docs
           /\ i >= n => \A x \in docs : x.write < plan.events[i].write
      /\ \A i, j \in 1 .. N : i < j => plan.events[i].write < plan.events[j].write
  BY <1>0, Zenon DEF IndInv, EventsInLine
<1>6. \A x \in docs : x.write < d.write
  BY <1>0, <1>2, <1>5
<1>7. d.v \notin Versions(d.eid) /\ d.v - 1 \in Versions(d.eid) \cup {0}
  <2>1. d.v \notin Versions(d.eid)
    BY <1>0 DEF Clash, Versions
  <2>2. Reached(d.eid, d.v - 1, n)
    BY <1>0, <1>2 DEF IndInv, NoGap
  <2>3. \A j \in 1 .. N : ~(plan.next <= j /\ j < n)
    BY <1>0, <1>2
  <2> QED
    BY <1>0, <2>1, <2>2, <2>3, Zenon DEF Reached
<1>8. /\ loop' \in {"insert", "upsert"} /\ (loop' = "insert" => n + 1 <= N)
      /\ (loop' = "upsert" => n = N)
  BY <1>0, <1>1, <1>2
<1>9. /\ History' /\ d.v \in Versions(d.eid)' /\ \A e : Versions(e) \subseteq Versions(e)'
      /\ \A x \in docs : x.eid = d.eid => x.v < d.v
  <2>1. History /\ cur' = cur
    BY DEF IndInv
  <2> QED
    BY <1>2, <1>4, <1>7, <2>1, HistoryGrows DEF History
<1>10. Tickets' /\ \A m : Of(m) \subseteq Of(m)'
  BY <1>4, StoringKeeps, Zenon
<1>11. InLine'
  BY <1>4 DEF IndInv, InLine
<1>12. StoredInOrder'
  <2>1. \A x, y \in docs : x.eid = y.eid /\ 0 < x.write /\ x.write <= y.write => x = y \/ x.v < y.v
    BY DEF IndInv, StoredInOrder
  <2>2. /\ \A x \in docs : x.write \in Nat
        /\ d.write \in Nat
    BY <1>2 DEF IndInv, History, Doc
  <2>3. \A x \in docs : ~(d.write <= x.write)
    BY <1>6, <2>2
  <2>4. \A x \in docs' : x \in docs \/ x = d
    BY <1>4
  <2> QED
    BY <1>9, <2>1, <2>3, <2>4 DEF StoredInOrder
<1>13. PICK k \in 1 .. Len(buf) : d.write = buf[k]
  BY <1>0, <1>2, <1>5
<1>14. StoredFirst'
  <2>1. /\ d.write <= Len(sent) /\ (held # 0 => d.write < held)
        /\ \A i \in 1 .. Len(chan) : d.write < chan[i]
    BY <1>13 DEF IndInv, InLine
  <2>2. \A x \in docs' : x \in docs \/ x = d
    BY <1>4
  <2>3. StoredFirst
    BY DEF IndInv
  <2> QED
    BY <1>4, <1>8, <2>1, <2>2, <2>3, Zenon DEF StoredFirst
<1>15. InPlan'
  <2>1. plan'.next <= Len(plan'.events) + 1
    BY <1>0, <1>1, <1>2, <1>3
  <2>2. (loop' = "insert" => plan'.next <= Len(plan'.events))
        /\ (loop' = "upsert" => plan'.next = Len(plan'.events) + 1)
    BY <1>0, <1>3, <1>8, Zenon
  <2>3. plan'.at = Len(buf') + 1 /\ plan'.at <= Len(buf') + 1
    BY <1>1, <1>2, <1>3, <1>4
  <2>4. plan'.due \subseteq {x.eid : x \in Range(plan'.events)}
    BY <1>1, <1>3, Zenon
  <2> QED
    BY <1>3, <1>8, <2>1, <2>2, <2>3, <2>4, Zenon DEF InPlan
<1>16. EventsInLine'
  <2>1. \A i \in 1 .. N : /\ i < n + 1 => i < n \/ i = n
                          /\ i >= n + 1 => i >= n /\ n < i
    BY <1>2
  <2>2. \A i \in 1 .. N :
          /\ i < n + 1 => plan.events[i] \in docs'
          /\ i >= n + 1 => \A x \in docs' : x.write < plan.events[i].write
    <3> TAKE i \in 1 .. N
    <3>1. i < n + 1 => plan.events[i] \in docs'
      BY <1>0, <1>4, <1>5, <2>1
    <3>2. ASSUME i >= n + 1, NEW x \in docs'
          PROVE  x.write < plan.events[i].write
      <4>1. CASE x \in docs
        BY <1>5, <2>1, <3>2, <4>1, Zenon
      <4>2. CASE x = d
        BY <1>0, <1>2, <1>5, <2>1, <3>2, <4>2, Zenon
      <4> QED
        BY <1>4, <4>1, <4>2, Zenon
    <3> QED
      BY <3>1, <3>2
  <2>3. \A i \in 1 .. N :
          /\ \E l \in 1 .. plan'.at - 1 : l <= Len(buf') /\ plan'.events[i].write = buf'[l]
          /\ plan'.running[plan'.events[i].eid] \in State
    BY <1>3, <1>4, <1>5
  <2>4. N = Len(plan'.events) /\ plan'.next = n + 1 /\ plan'.events = plan.events
    BY <1>0, <1>3, Zenon
  <2>5. \A i \in 1 .. Len(plan'.events) :
          /\ \E l \in 1 .. plan'.at - 1 : l <= Len(buf') /\ plan'.events[i].write = buf'[l]
          /\ plan'.running[plan'.events[i].eid] \in State
          /\ i < plan'.next => plan'.events[i] \in docs'
          /\ i >= plan'.next => \A x \in docs' : x.write < plan'.events[i].write
    BY <2>2, <2>3, <2>4, ZenonT(40)
  <2>6. \A i, j \in 1 .. Len(plan'.events) : i < j => plan'.events[i].write < plan'.events[j].write
    BY <1>5, <2>4, Zenon
  <2> QED
    BY <2>5, <2>6, Zenon DEF EventsInLine
<1>17. NoGap'
  <2>1. \A e, v, i : Reached(e, v, i) => Reached(e, v, i)'
    <3> SUFFICES ASSUME NEW e, NEW v, NEW i, Reached(e, v, i)
                 PROVE  Reached(e, v, i)'
      OBVIOUS
    <3>1. CASE v = 0 \/ v \in Versions(e)
      BY <1>9, <3>1 DEF Reached
    <3>2. ASSUME NEW j \in 1 .. N, n <= j, j < i, plan.events[j].eid = e, plan.events[j].v = v
          PROVE  Reached(e, v, i)'
      <4>1. CASE j = n
        BY <1>0, <1>9, <3>2, <4>1, Zenon DEF Reached
      <4>2. CASE j # n
        <5>1. n + 1 <= j
          BY <1>2, <3>2, <4>2
        <5> QED
          BY <1>0, <1>3, <3>2, <5>1 DEF Reached
      <4> QED
        BY <4>1, <4>2
    <3> QED
      BY <1>0, <3>1, <3>2 DEF Reached
  <2>2. NoGap
    BY DEF IndInv
  <2>3. \A i \in 1 .. N : plan'.next <= i => plan.next <= i
    BY <1>0, <1>2, <1>3
  <2>4. \A i \in 1 .. N : plan'.next <= i => Reached(plan.events[i].eid, plan.events[i].v - 1, i)
    BY <1>0, <2>2, <2>3 DEF NoGap
  <2>5. \A e \in Entities : plan.running[e] \in State => Reached(e, plan.running[e].v, N + 1)
    BY <1>0, <2>2 DEF NoGap
  <2> QED
    BY <1>0, <1>3, <2>1, <2>4, <2>5 DEF NoGap
<1>18. DiffPlanned' /\ DiffStored'
  <2>1. DiffPlanned
    BY DEF IndInv
  <2> QED
    BY <1>3, <1>4, <1>8, <2>1 DEF DiffPlanned, DiffStored
<1> QED
  BY <1>9, <1>10, <1>11, <1>12, <1>14, <1>15, <1>16, <1>17, <1>18, Zenon DEF IndInv

\* The insert stores the next event, or ends the flush.
LEMMA InsertKeeps == IndInv /\ Insert => IndInv'
<1> SUFFICES ASSUME IndInv, Insert
             PROVE  IndInv'
  OBVIOUS
<1>1. loop = "insert" /\ UNCHANGED <<flushVars, cur>>
  BY Zenon DEF Insert
<1>2. plan.at > Len(buf)
  BY <1>1 DEF IndInv, InPlan, InLine
<1>3. CASE plan' = FailAll /\ loop' = "settle" /\ UNCHANGED docs
  BY <1>1, <1>2, <1>3, FailAllKeeps
<1>4. CASE /\ ~Clash(plan.events[plan.next]) /\ docs' = docs \cup {plan.events[plan.next]}
           /\ plan' = [plan EXCEPT !.next = @ + 1]
           /\ loop' = IF plan.next = Len(plan.events) THEN "upsert" ELSE "insert"
  BY <1>1, <1>4, InsertsKeeps, Zenon
<1> QED
  BY <1>3, <1>4 DEF Insert

\* The tickets say stored of the diffs that are.
LEMMA SettleKeeps == IndInv /\ Settle => IndInv'
<1> SUFFICES ASSUME IndInv, Settle
             PROVE  IndInv'
  OBVIOUS
<1>1. /\ loop = "settle" /\ loop' \in {"wait", "off"} /\ plan' = NoPlan /\ buf' = <<>>
      /\ UNCHANGED <<sent, publisher, chan, held, docs, cur>>
      /\ outcome' = [m \in DOMAIN outcome |->
           IF m \notin Range(buf) \/ Interrupted THEN outcome[m]
           ELSE IF m \in plan.failed THEN "failed" ELSE "stored"]
  BY Zenon DEF Settle, clientVars
<1>2. InLine' /\ StoredFirst'
  <2>1. InLine /\ StoredFirst
    BY ZenonT(40) DEF IndInv
  <2>2. InLine'
    <3>1. UNCHANGED <<sent, publisher, chan, held>> /\ buf' = <<>>
      BY <1>1, Zenon
    <3>2. buf' \in Seq(Nat) /\ \A k \in 1 .. Len(buf') : FALSE
      BY <3>1
    <3> QED
      BY <2>1, <3>1, <3>2, Zenon DEF InLine
  <2>3. StoredFirst'
    <3>1. \A k \in 1 .. Len(buf') : FALSE
      BY <1>1
    <3> QED
      BY <1>1, <2>1, <3>1, Zenon DEF StoredFirst
  <2> QED
    BY <2>2, <2>3
<1>3. History' /\ StoredInOrder'
  BY <1>1, Zenon DEF IndInv, History, StoredInOrder, Versions
<1>4. Tickets'
  <2>1. /\ Len(outcome) = Len(sent) /\ outcome \in Seq({"accepted", "stored", "failed"})
        /\ StoredDiffLanded /\ sent \in Seq(Commands) /\ buf \in Seq(Nat)
    BY DEF IndInv, Tickets, InLine
  <2>2. DOMAIN outcome = 1 .. Len(sent) /\ Len(sent) \in Nat
    BY <2>1
  <2>3. /\ outcome' \in [1 .. Len(sent) -> {"accepted", "stored", "failed"}]
    <3>1. \A m \in 1 .. Len(sent) : outcome[m] \in {"accepted", "stored", "failed"}
      BY <2>1, <2>2
    <3> QED
      BY <1>1, <2>2, <3>1, Zenon
  <2>4. outcome' \in Seq({"accepted", "stored", "failed"}) /\ Len(outcome') = Len(sent)
    BY <2>2, <2>3, FunIsSeq, Zenon
  <2>5. ASSUME NEW m \in 1 .. Len(sent), outcome'[m] = "stored", sent[m].kind = "diff"
        PROVE  Of(m) # {}
    <3>1. CASE outcome[m] = "stored"
      <4>1. m \in Writes
        BY <2>1 DEF Writes
      <4> QED
        BY <2>1, <2>5, <3>1, <4>1, Zenon DEF StoredDiffLanded
    <3>2. CASE m \in Range(buf) /\ m \notin plan.failed
      <4>1. PICK k \in 1 .. Len(buf) : buf[k] = m
        BY <2>1, <3>2 DEF Range
      <4> QED
        BY <1>1, <2>5, <3>2, <4>1, Zenon DEF IndInv, DiffStored
    <3> QED
      BY <1>1, <2>2, <2>5, <3>1, <3>2, ZenonT(40)
  <2>6. StoredDiffLanded'
    <3>1. \A m : Of(m)' = Of(m)
      BY <1>1, Zenon DEF Of
    <3>2. DOMAIN sent' = 1 .. Len(sent) /\ sent' = sent
      BY <1>1, <2>1
    <3> QED
      BY <2>5, <3>1, <3>2, Zenon DEF StoredDiffLanded, Writes
  <2> QED
    BY <1>1, <2>4, <2>6, Zenon DEF Tickets
<1> QED
  BY <1>1, <1>2, <1>3, <1>4, Unplanned, Zenon

\* A crash leaves the tickets and the history.
LEMMA CrashKeeps == IndInv /\ Crash => IndInv'
<1> SUFFICES ASSUME IndInv, Crash
             PROVE  IndInv'
  OBVIOUS
<1>1. /\ loop' = "wait" /\ plan' = NoPlan /\ buf' = <<>> /\ chan' = <<>> /\ held' = 0
      /\ publisher' = [p \in Publishers |-> Nil] /\ UNCHANGED <<sent, outcome, docs, cur>>
  BY ZenonT(40) DEF Crash
<1>2. InLine' /\ StoredFirst'
  BY <1>1 DEF IndInv, InLine, StoredFirst
<1>3. History' /\ StoredInOrder' /\ Tickets'
  BY <1>1, Zenon DEF IndInv, History, StoredInOrder, Versions, Tickets, StoredDiffLanded, Writes, Of
<1> QED
  BY <1>1, <1>2, <1>3, Unplanned, Zenon

-----------------------------------------------------------------------------
(* The theorems.                                                           *)

\* Every step keeps the invariant.
LEMMA NextKeeps == IndInv /\ [Next]_vars => IndInv'
<1> SUFFICES ASSUME IndInv, [Next]_vars
             PROVE  IndInv'
  BY Zenon
<1>1. ASSUME NEW p \in Publishers,
             \/ PublishBegin(p) \/ PublishEnqueues(p) \/ PublishReleased(p) \/ PublishGivesUp(p)
      PROVE  IndInv'
  BY <1>1, PublishKeeps, EnqueueKeeps
<1>2. CASE SubscribeTakes \/ SubscribeEnds \/ Cancel \/ Close
  BY <1>2, SubscribeKeeps, Zenon
<1>3. CASE Work
  BY <1>3, BufferKeeps, LoopKeeps, ConfigKeeps, LoadCurrentKeeps, LoadLastKeeps, PlanItemKeeps,
     FoldEndsKeeps, InsertKeeps, UpsertKeeps, SettleKeeps, Zenon DEF Work, Fold
<1>4. ASSUME NEW e \in Entities, StrictWrite(e)
      PROVE  IndInv'
  BY <1>4, StrictKeeps
<1>5. CASE Crash
  BY <1>5, CrashKeeps, Zenon
<1>6. CASE UNCHANGED vars
  <2>1. UNCHANGED <<sent, publisher, chan, held, loop, buf, plan, outcome, docs, cur>>
    BY <1>6, Zenon DEF vars, clientVars, queueVars
  <2>2. InLine' /\ History' /\ StoredInOrder' /\ StoredFirst' /\ Tickets'
    BY <2>1, Zenon DEF IndInv, InLine, History, StoredInOrder, StoredFirst, Versions, Tickets,
                StoredDiffLanded, Writes, Of
  <2>3. InPlan' /\ EventsInLine'
    BY <2>1, Zenon DEF IndInv, InPlan, EventsInLine
  <2>4. NoGap'
    BY <2>1, PlanStays, Zenon DEF IndInv
  <2>5. DiffPlanned' /\ DiffStored'
    BY <2>1, Zenon DEF IndInv, DiffPlanned, DiffStored, Of
  <2> QED
    BY <2>2, <2>3, <2>4, <2>5, Zenon DEF IndInv
<1> QED
  BY <1>1, <1>2, <1>3, <1>4, <1>5, <1>6 DEF Next, Done

\* The invariant holds in every reachable state of the fast path.
LEMMA Invariance == Spec => []IndInv
<1>1. Init => IndInv
  BY InitInv
<1> QED
  BY <1>1, NextKeeps, PTL DEF Spec

\* However batches, strict writes, failed and partial inserts and crashes
\* follow one another, every entity's events are numbered 1, 2, ... without a
\* gap: AppendEvents inserts in order under a unique index.
THEOREM GapFree == Spec => []GapFreeHistory
<1>1. IndInv => GapFreeHistory
  <2> SUFFICES ASSUME IndInv, NEW e \in Entities
               PROVE  Versions(e) = 1 .. LastVersion(e)
    BY DEF GapFreeHistory
  <2>1. PICK n \in Nat : Versions(e) = 1 .. n
    BY DEF IndInv, History
  <2> QED
    BY <2>1, LastVersionIs
<1> QED
  BY <1>1, Invariance, PTL

\* An entity's fast writes are stored in the order they were accepted and at
\* most once, and the ticket of a diff says stored only when its event is.
THEOREM HistoryIsTold == Spec => []FastHistoryIsTold
<1>1. IndInv => FastHistoryIsTold
  BY DEF IndInv, Tickets, FastHistoryIsTold
<1> QED
  BY <1>1, Invariance, PTL

-----------------------------------------------------------------------------
(* The chain.  A last event that cannot be read for a reason other than the*)
(* shutdown is left out: the entity's next item of the batch then links to *)
(* the genesis (see the README).                                           *)

\* Links survive what leaves the flush alone and stores at most a linked event.
LEMMA LinksStay ==
  ASSUME Links, UNCHANGED <<plan, loop>>, Interrupted => Interrupted',
         loop = "last" => Entity' = Entity,
         \A e : Versions(e) \subseteq Versions(e)',
         \A d \in docs' : d \in docs \/ d.link = d.v - 1
  PROVE  Links'
<1>1. \A d \in docs' : d.link = d.v - 1
  BY Zenon DEF Links
<1>2. \A d : Linked(d) => Linked(d)'
  BY Zenon DEF Linked
<1>3. ASSUME loop' = "insert" \/ (loop' \in {"fold", "last"} /\ ~Interrupted')
      PROVE  \A i \in 1 .. Len(plan'.events) : plan'.next <= i => Linked(plan.events[i])'
  <2>1. \A i \in 1 .. Len(plan.events) : plan.next <= i => Linked(plan.events[i])
    BY <1>3, Zenon DEF Links
  <2> QED
    BY <1>2, <2>1, Zenon
<1>4. ASSUME loop' \in {"fold", "last"}, ~Interrupted', NEW e \in Entities,
             plan'.running[e] \in State, ~(loop' = "last" /\ e = Entity')
      PROVE  /\ plan'.last[e] \in Nat
             /\ plan'.last[e] = plan'.running[e].v \/ plan'.running[e].v + 1 \in Versions(e)'
  BY <1>4, Zenon DEF Links
<1>5. ASSUME loop' = "last"
      PROVE  /\ plan'.running[Entity'] \in State
             /\ plan'.running[Entity'].v \in Versions(Entity)' \cup {0}
  <2>1. PICK e : e = Entity
    BY Zenon
  <2>2. plan.running[e] \in State /\ plan.running[e].v \in Versions(e) \cup {0}
    BY <1>5, <2>1, Zenon DEF Links
  <2>3. Entity' = e
    BY <1>5, <2>1, Zenon
  <2>4. plan.running[e].v \in {x.v : x \in {y \in docs' : y.eid = e}} \cup {0}
    BY <2>2, Zenon DEF Versions
  <2> QED
    BY <2>2, <2>3, <2>4, Zenon DEF Versions
<1> QED
  BY <1>1, <1>3, <1>4, <1>5, Zenon DEF Links

\* Nothing is planned.
LEMMA LinksIdle ==
  ASSUME Links, plan' = NoPlan, docs' = docs, loop' \in {"wait", "fold", "off"}
  PROVE  Links'
<1>1. NoPlan.events = <<>> /\ \A e \in Entities : NoPlan.running[e] = Nil
  BY Zenon DEF NoPlan
<1>2. Len(plan'.events) = 0 /\ \A e \in Entities : plan'.running[e] \notin State
  BY <1>1, FastBatchAssumption
<1>3. \A i \in 1 .. Len(plan'.events) : FALSE
  BY <1>2
<1>4. \A d \in docs' : d.link = d.v - 1
  BY DEF Links
<1> QED
  BY <1>2, <1>3, <1>4, Zenon DEF Links

\* The insert is over.
LEMMA LinksEnd ==
  ASSUME Links, docs' = docs, loop' \in {"upsert", "settle"}
  PROVE  Links'
  BY Zenon DEF Links

\* An item is passed without an event.
LEMMA LinksPass ==
  ASSUME Links, UNCHANGED <<docs, loop, cancelled, draining>>, loop = "fold",
         plan'.events = plan.events, plan'.next = plan.next, plan'.running = plan.running,
         plan'.last = plan.last
  PROVE  Links'
<1>1. UNCHANGED Interrupted
  BY Zenon DEF Interrupted
<1>2. \A e : Versions(e)' = Versions(e)
  BY Zenon DEF Versions
<1>3. \A d : Linked(d)' = Linked(d)
  BY <1>2 DEF Linked
<1> QED
  BY <1>1, <1>2, <1>3, Zenon DEF Links

\* The running state that is loaded is a stored one.
LEMMA LinksLoad ==
  ASSUME IndInv, Links, PreStore, LoadCurrent
  PROVE  Links'
<1>1. loop = "fold" /\ plan.at <= Len(buf) /\ UNCHANGED <<flushVars, docs, cur>>
  BY Zenon DEF LoadCurrent, Folding
<1>2. UNCHANGED <<sent, buf, cancelled, draining>>
  BY <1>1, Zenon DEF flushVars, clientVars, processVars
<1>3. plan \in Plan /\ plan.running \in [Entities -> State \cup {Nil}] /\ Entity \in Entities
  BY <1>1, ItemIs, PlanParts, Zenon DEF IndInv, InPlan
<1>4. CASE plan' = FailItem /\ UNCHANGED loop
  <2>1. /\ plan'.events = plan.events /\ plan'.next = plan.next /\ plan'.running = plan.running
        /\ plan'.last = plan.last
    BY <1>3, <1>4 DEF Plan, FailItem
  <2> QED
    BY <1>1, <1>2, <1>4, <2>1, LinksPass, Zenon
<1>5. CASE plan' = [plan EXCEPT !.running[Entity] = cur[Entity]] /\ loop' = "last"
  <2>0. PICK e0 : e0 = Entity
    OBVIOUS
  <2>1. /\ plan'.events = plan.events /\ plan'.next = plan.next /\ plan'.last = plan.last
        /\ plan'.running = [plan.running EXCEPT ![e0] = cur[e0]] /\ plan'.at = plan.at
    BY <1>3, <1>5, <2>0, Zenon DEF Plan
  <2>2. Entity' = e0
    BY <1>2, <2>0, <2>1, Zenon DEF Entity, Item
  <2>3. cur[e0] \in State /\ cur[e0].v \in Versions(e0) \cup {0}
    BY <1>3, <2>0, Zenon DEF IndInv, History
  <2>4. plan'.running[e0] = cur[e0] /\ \A e \in Entities : e # e0 => plan'.running[e] = plan.running[e]
    BY <1>3, <2>0, <2>1, Zenon
  <2>5. /\ Interrupted' = Interrupted /\ \A e : Versions(e)' = Versions(e)
        /\ Versions(Entity)' = Versions(e0)
    BY <1>1, <1>2, <2>2, Zenon DEF Interrupted, Versions
  <2>6. \A d : Linked(d)' = Linked(d)
    BY <2>5, Zenon DEF Linked
  <2>7. ASSUME ~Interrupted'
        PROVE  \A i \in 1 .. Len(plan'.events) : plan'.next <= i => Linked(plan.events[i])'
    <3>1. \A i \in 1 .. Len(plan.events) : plan.next <= i => Linked(plan.events[i])
      BY <1>1, <2>5, <2>7, Zenon DEF Links
    <3> QED
      BY <2>1, <2>6, <3>1, Zenon
  <2>8. ASSUME ~Interrupted', NEW e \in Entities, plan'.running[e] \in State, e # e0
        PROVE  /\ plan'.last[e] \in Nat
               /\ plan'.last[e] = plan'.running[e].v \/ plan'.running[e].v + 1 \in Versions(e)'
    BY <1>1, <2>1, <2>4, <2>5, <2>8, ZenonT(40) DEF Links
  <2>9. \A d \in docs' : d.link = d.v - 1
    BY <1>1 DEF Links
  <2> QED
    BY <1>5, <2>2, <2>3, <2>4, <2>5, <2>7, <2>8, <2>9, Zenon DEF Links
<1> QED
  BY <1>4, <1>5 DEF LoadCurrent

\* The last event that is read is the running state's, or a later one.
LEMMA LinksLast ==
  ASSUME IndInv, Links, "last" \notin FaultKinds, LoadLast
  PROVE  Links'
<1>1. loop = "last" /\ loop' = "fold" /\ UNCHANGED <<flushVars, docs, cur>>
  BY Zenon DEF LoadLast
<1>2. UNCHANGED <<sent, buf, cancelled, draining>>
  BY <1>1, Zenon DEF flushVars, clientVars, processVars
<1>3. plan.at <= Len(buf)
  BY <1>1, Zenon DEF IndInv, InPlan
<1>4. plan \in Plan /\ plan.last \in [Entities -> Nat \cup {Nil}] /\ Entity \in Entities
  BY <1>3, ItemIs, PlanParts, Zenon DEF IndInv, InPlan
<1>5. \A d \in docs' : d.link = d.v - 1
  BY <1>1, Zenon DEF Links
<1>6. /\ Interrupted' = Interrupted /\ \A e : Versions(e)' = Versions(e)
  BY <1>1, <1>2, Zenon DEF Interrupted, Versions
<1>7. CASE CallFails("last")
  <2>1. Interrupted
    BY <1>7, Zenon DEF CallFails, Fault
  <2> QED
    BY <1>1, <1>5, <1>6, <2>1, Zenon DEF Links
<1>8. CASE ~Interrupted /\ plan' = [plan EXCEPT !.last[Entity] = LastVersion(Entity)]
  <2>0. PICK e0 : e0 = Entity
    OBVIOUS
  <2>1. /\ plan'.events = plan.events /\ plan'.next = plan.next /\ plan'.running = plan.running
        /\ plan'.last = [plan.last EXCEPT ![e0] = LastVersion(e0)]
    BY <1>4, <1>8, <2>0, Zenon DEF Plan
  <2>2. PICK n \in Nat : Versions(e0) = 1 .. n
    BY <1>4, <2>0, ZenonT(40) DEF IndInv, History
  <2>3. /\ plan'.last[e0] = n /\ \A e \in Entities : e # e0 => plan'.last[e] = plan.last[e]
    BY <1>4, <2>0, <2>1, <2>2, LastVersionIs
  <2>4. plan.running[e0].v = n \/ plan.running[e0].v + 1 \in 1 .. n
    <3>1. plan.running[e0].v \in (1 .. n) \cup {0}
      BY <1>1, <2>0, <2>2, Zenon DEF Links
    <3> QED
      BY <3>1
  <2>5. \A d : Linked(d)' = Linked(d)
    BY <1>6, Zenon DEF Linked
  <2>6. \A i \in 1 .. Len(plan'.events) : plan'.next <= i => Linked(plan.events[i])'
    <3>1. \A i \in 1 .. Len(plan.events) : plan.next <= i => Linked(plan.events[i])
      BY <1>1, <1>8, Zenon DEF Links
    <3> QED
      BY <2>1, <2>5, <3>1, Zenon
  <2>7. ASSUME NEW e \in Entities, plan'.running[e] \in State
        PROVE  /\ plan'.last[e] \in Nat
               /\ plan'.last[e] = plan'.running[e].v \/ plan'.running[e].v + 1 \in Versions(e)'
    <3>1. CASE e = e0
      BY <1>6, <2>1, <2>2, <2>3, <2>4, <3>1, Zenon
    <3>2. CASE e # e0
      BY <1>1, <1>6, <1>8, <2>0, <2>1, <2>3, <2>7, <3>2, Zenon DEF Links
    <3> QED
      BY <3>1, <3>2, Zenon
  <2> QED
    BY <1>1, <1>5, <2>6, <2>7, Zenon DEF Links
<1> QED
  BY <1>7, <1>8 DEF LoadLast

\* A planned event links to the running state's, or its version is taken.
LEMMA LinksPlan ==
  ASSUME IndInv, Links, PreStore, PlanItem
  PROVE  Links'
<1>1. /\ loop = "fold" /\ plan.at <= Len(buf) /\ plan.running[Entity] # Nil
      /\ UNCHANGED <<flushVars, loop, docs, cur>>
  BY Zenon DEF PlanItem, Folding
<1>2. UNCHANGED <<sent, buf, cancelled, draining>>
  BY <1>1, Zenon DEF flushVars, clientVars, processVars
<1>3. /\ plan \in Plan /\ plan.running \in [Entities -> State \cup {Nil}] /\ Entity \in Entities
      /\ plan.last \in [Entities -> Nat \cup {Nil}] /\ plan.events \in Seq(Doc)
      /\ Len(plan.events) \in Nat
  BY <1>1, ItemIs, PlanParts, Zenon DEF IndInv, InPlan
<1>4. CASE plan' = FailItem \/ plan' = [plan EXCEPT !.at = @ + 1]
  <2>1. /\ plan'.events = plan.events /\ plan'.next = plan.next /\ plan'.running = plan.running
        /\ plan'.last = plan.last
    BY <1>3, <1>4, Zenon DEF Plan, FailItem
  <2> QED
    BY <1>1, <1>2, <2>1, LinksPass, Zenon
<1>5. CASE plan' = [plan EXCEPT !.at = @ + 1, !.events = Append(@, Event),
                                !.running[Entity] = After, !.last[Entity] = After.v]
  <2>0. PICK e0, d0, a0 : e0 = Entity /\ d0 = Event /\ a0 = After
    OBVIOUS
  <2>1. /\ plan'.events = Append(plan.events, d0) /\ plan'.next = plan.next
        /\ plan'.running = [plan.running EXCEPT ![e0] = a0]
        /\ plan'.last = [plan.last EXCEPT ![e0] = a0.v]
    BY <1>3, <1>5, <2>0 DEF Plan
  <2>2. plan.running[e0] \in State /\ plan.running[e0].v \in Nat
    BY <1>1, <1>3, <2>0 DEF State
  <2>3. /\ a0.v = plan.running[e0].v + 1 /\ d0.eid = e0 /\ d0.v = a0.v
        /\ d0.link = LinkOf(e0)
    BY <2>0, Zenon DEF After, Event
  <2>4. /\ Interrupted' = Interrupted /\ \A e : Versions(e)' = Versions(e)
    BY <1>1, <1>2, Zenon DEF Interrupted, Versions
  <2>5. \A d : Linked(d)' = Linked(d)
    BY <2>4, Zenon DEF Linked
  <2>6. \A d \in docs' : d.link = d.v - 1
    BY <1>1, Zenon DEF Links
  <2>7. CASE Interrupted
    BY <1>1, <2>4, <2>6, <2>7, Zenon DEF Links
  <2>8. CASE ~Interrupted
    <3>1. /\ plan.last[e0] \in Nat
          /\ plan.last[e0] = plan.running[e0].v \/ plan.running[e0].v + 1 \in Versions(e0)
      BY <1>1, <1>3, <2>0, <2>2, <2>8, Zenon DEF Links
    <3>2. Linked(d0)
      <4>1. d0.link = plan.last[e0]
        BY <2>3, <3>1, FastBatchAssumption, Zenon DEF LinkOf
      <4>2. d0.v = plan.running[e0].v + 1 /\ d0.v - 1 = plan.running[e0].v
        BY <2>2, <2>3
      <4> QED
        BY <2>3, <3>1, <4>1, <4>2, Zenon DEF Linked
    <3>3. \A i \in 1 .. Len(plan.events) : plan.next <= i => Linked(plan.events[i])
      BY <1>1, <2>8, Zenon DEF Links
    <3>4. \A i \in 1 .. Len(plan'.events) : \/ i \in 1 .. Len(plan.events)
                                               /\ plan'.events[i] = plan.events[i]
                                            \/ plan'.events[i] = d0
      BY <1>3, <2>1
    <3>5. \A i \in 1 .. Len(plan'.events) : plan'.next <= i => Linked(plan'.events[i])
      BY <2>1, <3>2, <3>3, <3>4, Zenon
    <3>6. \A i \in 1 .. Len(plan'.events) : plan'.next <= i => Linked(plan.events[i])'
      <4>1. \A d : Linked(d) => d.link = d.v - 1 \/ \E x \in docs' : x.eid = d.eid /\ x.v = d.v
        BY <1>1, Zenon DEF Linked, Versions
      <4> QED
        BY <3>5, <4>1, Zenon DEF Linked, Versions
    <3>7. ASSUME NEW e \in Entities, plan'.running[e] \in State
          PROVE  /\ plan'.last[e] \in Nat
                 /\ plan'.last[e] = plan'.running[e].v \/ plan'.running[e].v + 1 \in Versions(e)'
      <4>1. CASE e = e0
        <5>1. plan'.last[e0] = a0.v /\ plan'.running[e0] = a0
          BY <1>3, <2>0, <2>1, Zenon
        <5>2. a0.v \in Nat
          BY <2>2, <2>3
        <5> QED
          BY <4>1, <5>1, <5>2, Zenon
      <4>2. CASE e # e0
        <5>1. plan'.last[e] = plan.last[e] /\ plan'.running[e] = plan.running[e]
          BY <1>3, <2>1, <4>2, Zenon
        <5> QED
          BY <1>1, <2>4, <2>8, <3>7, <5>1, Zenon DEF Links
      <4> QED
        BY <4>1, <4>2, Zenon
    <3> QED
      BY <1>1, <2>6, <3>6, <3>7, Zenon DEF Links
  <2> QED
    BY <2>7, <2>8
<1> QED
  BY <1>4, <1>5 DEF PlanItem

\* The event that is inserted has a free version, so its link is right.
LEMMA LinksInsert ==
  ASSUME IndInv, Links, loop = "insert" \/ ~Interrupted, loop \in {"fold", "insert"},
         loop' \in {"insert", "upsert"}, plan'.events = plan.events,
         \/ docs' = docs /\ plan'.next = plan.next
         \/ /\ ~Clash(plan.events[plan.next]) /\ docs' = docs \cup {plan.events[plan.next]}
            /\ plan'.next = plan.next + 1 /\ loop = "insert"
  PROVE  Links'
<1>1. /\ plan.next \in Nat \ {0} /\ Len(plan.events) \in Nat
      /\ loop = "insert" => plan.next <= Len(plan.events)
  BY PlanParts, Zenon DEF IndInv, InPlan
<1>2. \A i \in 1 .. Len(plan.events) : plan.next <= i => Linked(plan.events[i])
  BY Zenon DEF Links
<1>3. \A d \in docs : d.link = d.v - 1
  BY Zenon DEF Links
<1>4. \A d \in docs' : d.link = d.v - 1
  <2>1. CASE docs' = docs
    BY <1>3, <2>1, Zenon
  <2>2. CASE /\ ~Clash(plan.events[plan.next]) /\ docs' = docs \cup {plan.events[plan.next]}
             /\ loop = "insert"
    <3>1. plan.next \in 1 .. Len(plan.events)
      BY <1>1, <2>2
    <3>2. PICK d : d = plan.events[plan.next]
      BY Zenon
    <3>3. Linked(d)
      BY <1>2, <3>1, <3>2
    <3>4. d.v \notin Versions(d.eid)
      BY <2>2, <3>2, ZenonT(40) DEF Clash, Versions
    <3> QED
      BY <1>3, <2>2, <3>2, <3>3, <3>4, ZenonT(40) DEF Linked
  <2> QED
    BY <2>1, <2>2, Zenon
<1>5. \A i \in 1 .. Len(plan'.events) : plan'.next <= i => Linked(plan.events[i])'
  <2>1. \A i \in 1 .. Len(plan'.events) : plan'.next <= i => Linked(plan.events[i])
    BY <1>1, <1>2
  <2>2. \A d : Linked(d) => d.link = d.v - 1 \/ \E x \in docs' : x.eid = d.eid /\ x.v = d.v
    BY Zenon DEF Linked, Versions
  <2> QED
    BY <2>1, <2>2 DEF Linked, Versions
<1> QED
  BY <1>4, <1>5, Zenon DEF Links

\* Every step keeps the links.
LEMMA LinksKeep ==
  ASSUME PreStore, "last" \notin FaultKinds, IndInv, Links, [Next]_vars
  PROVE  Links'
<1>1. CASE UNCHANGED <<buf, plan, loop, docs, draining>> /\ (cancelled => cancelled')
           /\ (sent' = sent \/ \E c : sent' = Append(sent, c))
  <2>1. loop = "last" => Entity' = Entity
    <3> HAVE loop = "last"
    <3>1. Item \in 1 .. Len(sent) /\ sent \in Seq(Commands) /\ Item' = Item
      BY <1>1, ItemIs, Zenon DEF IndInv, InPlan, InLine, Item
    <3>2. sent'[Item] = sent[Item]
      BY <1>1, <3>1
    <3> QED
      BY <3>1, <3>2 DEF Entity
  <2>2. Interrupted => Interrupted'
    BY <1>1, Zenon DEF Interrupted
  <2>3. \A e : Versions(e) \subseteq Versions(e)'
    BY <1>1, Zenon DEF Versions
  <2> QED
    BY <1>1, <2>1, <2>2, <2>3, LinksStay, Zenon
<1>2. ASSUME NEW p \in Publishers,
             \/ PublishBegin(p) \/ PublishEnqueues(p) \/ PublishReleased(p) \/ PublishGivesUp(p)
      PROVE  Links'
  <2>1. UNCHANGED <<buf, plan, loop, docs, draining, cancelled>>
    BY <1>2, Zenon DEF PublishBegin, PublishEnqueues, PublishReleased, PublishGivesUp, processVars
  <2>2. sent' = sent \/ \E c : sent' = Append(sent, c)
    BY <1>2, Zenon DEF PublishBegin, PublishEnqueues, PublishReleased, PublishGivesUp
  <2> QED
    BY <1>1, <2>1, <2>2, Zenon
<1>3. CASE SubscribeTakes \/ SubscribeEnds \/ Cancel \/ Close \/ UNCHANGED vars
  <2>1. UNCHANGED <<buf, plan, loop, docs, draining, sent>> /\ (cancelled => cancelled')
    BY <1>3 DEF SubscribeTakes, SubscribeEnds, Cancel, Close, vars, clientVars, processVars
  <2> QED
    BY <1>1, <2>1, ZenonT(40)
<1>4. ASSUME NEW e \in Entities, StrictWrite(e)
      PROVE  Links'
  <2>1. UNCHANGED <<plan, loop, buf, sent, cancelled, draining>>
    BY <1>4, Zenon DEF StrictWrite, processVars
  <2>2. PICK d : docs' = docs \cup {d} /\ d.link = LastVersion(e) /\ d.v = LastVersion(e) + 1
    <3>1. PICK value \in StrictValues :
            docs' = docs \cup {[eid |-> e, v |-> LastVersion(e) + 1, key |-> NoKey,
                                value |-> value, write |-> 0,
                                link |-> IF PreStore THEN LastVersion(e) ELSE -1]}
      BY <1>4, Zenon DEF StrictWrite
    <3>2. PICK d : d = [eid |-> e, v |-> LastVersion(e) + 1, key |-> NoKey, value |-> value,
                        write |-> 0, link |-> IF PreStore THEN LastVersion(e) ELSE -1]
      BY Zenon
    <3>3. d.link = LastVersion(e) /\ d.v = LastVersion(e) + 1
      BY <3>2, Zenon
    <3> QED
      BY <3>1, <3>2, <3>3, Zenon
  <2>3. PICK n \in Nat : Versions(e) = 1 .. n
    BY DEF IndInv, History
  <2>4. LastVersion(e) \in Nat
    BY <2>3, LastVersionIs, Zenon
  <2>5. \A x \in docs' : x \in docs \/ x.link = x.v - 1
    BY <2>2, <2>4
  <2>6. \A x : Versions(x) \subseteq Versions(x)'
    BY <2>2, Zenon DEF Versions
  <2>7. Interrupted' = Interrupted /\ Entity' = Entity
    BY <2>1, Zenon DEF Interrupted, Entity, Item
  <2> QED
    BY <2>1, <2>5, <2>6, <2>7, LinksStay, Zenon
<1>5. CASE Buffer \/ Linger \/ StopOnContext \/ StopOnClosedChannel
  <2>1. loop = "wait" /\ loop' \in {"wait", "fold", "off"} /\ plan' = plan /\ docs' = docs
    BY <1>5, Zenon DEF Buffer, Linger, StopOnContext, StopOnClosedChannel
  <2>2. plan' = NoPlan
    BY <2>1, Zenon DEF IndInv, InPlan
  <2> QED
    BY <2>1, <2>2, LinksIdle, Zenon
<1>6. CASE Settle \/ Crash
  <2>1. loop' \in {"wait", "off"} /\ plan' = NoPlan /\ docs' = docs
    BY <1>6, Zenon DEF Settle, Crash
  <2> QED
    BY <2>1, LinksIdle, Zenon
<1>7. CASE Fold
  <2>1. CASE ConfigFails
    BY <2>1, LinksEnd, Zenon DEF ConfigFails
  <2>2. CASE LoadCurrent
    BY <2>2, LinksLoad, Zenon
  <2>3. CASE LoadLast
    BY <2>3, LinksLast, Zenon
  <2>4. CASE PlanItem
    BY <2>4, LinksPlan
  <2>5. CASE FoldEnds
    <3>1. CASE loop' = "settle"
      BY <2>5, <3>1, LinksEnd DEF FoldEnds
    <3>2. CASE /\ ~Interrupted /\ loop' = "insert"
               /\ plan' = [plan EXCEPT !.due = {d.eid : d \in Range(plan.events)}]
      <4>1. plan \in Plan /\ loop = "fold" /\ docs' = docs
        BY <2>5 DEF IndInv, InPlan, FoldEnds
      <4>2. plan'.events = plan.events /\ plan'.next = plan.next
        BY <3>2, <4>1 DEF Plan
      <4> QED
        BY <3>2, <4>1, <4>2, LinksInsert, Zenon
    <3> QED
      BY <2>5, <3>1, <3>2, Zenon DEF FoldEnds
  <2> QED
    BY <1>7, <2>1, <2>2, <2>3, <2>4, <2>5, Zenon DEF Fold
<1>8. CASE Insert
  <2>1. CASE loop' = "settle" /\ UNCHANGED docs
    BY <2>1, LinksEnd
  <2>2. CASE /\ ~Clash(plan.events[plan.next]) /\ docs' = docs \cup {plan.events[plan.next]}
             /\ plan' = [plan EXCEPT !.next = @ + 1]
             /\ loop' = IF plan.next = Len(plan.events) THEN "upsert" ELSE "insert"
    <3>1. plan \in Plan /\ loop = "insert"
      BY <1>8 DEF IndInv, InPlan, Insert
    <3>2. plan'.events = plan.events /\ plan'.next = plan.next + 1
      BY <2>2, <3>1 DEF Plan
    <3> QED
      BY <2>2, <3>1, <3>2, LinksInsert, Zenon
  <2> QED
    BY <1>8, <2>1, <2>2, Zenon DEF Insert
<1>9. CASE Upsert
  BY <1>9, LinksEnd, Zenon DEF Upsert
<1> QED
  BY <1>2, <1>3, <1>4, <1>5, <1>6, <1>7, <1>8, <1>9, Zenon DEF Next, Work, Done

\* With the hash-chain plugin on, every event links to the one before it,
\* whichever batch or strict write stored that one, as long as the read of an
\* entity's last event does not fail on its own.
THEOREM ChainLinear ==
  ASSUME "last" \notin FaultKinds
  PROVE  Spec => []FastChainLinear
<1>1. CASE ~PreStore
  <2>1. FastChainLinear
    BY <1>1 DEF FastChainLinear
  <2> QED
    BY <2>1, PTL
<1>2. CASE PreStore
  <2>1. Init => Links
    BY InitInv
  <2>2. IndInv /\ Links /\ [Next]_vars => Links'
    BY <1>2, LinksKeep, Zenon
  <2>3. Links => FastChainLinear
    BY Zenon DEF Links, FastChainLinear
  <2> QED
    BY <2>1, <2>2, <2>3, Invariance, PTL DEF Spec
<1> QED
  BY <1>1, <1>2
=============================================================================
