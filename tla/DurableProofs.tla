---------------------------- MODULE DurableProofs ---------------------------
(***************************************************************************)
(* Theorems about Durable for any number of clients, workers, requests,    *)
(* event_ids and faults.  What each step does is shown in DurableSteps.    *)
(***************************************************************************)
EXTENDS DurableSteps, OrderProofs

\* Numbered entries of a bounded number of requests and items are bounded, sets
\* of entries have a least one and a size.
LEMMA ArithmeticHolds == Arithmetic
<1>1. \A S \in SUBSET Nat : S # {} => \E x \in S : \A y \in S : x <= y
  BY LeastNatural
<1>2. \A n \in Nat : \A S \in SUBSET (1 .. n) : Cardinality(S) \in Nat
  <2> TAKE n \in Nat
  <2> TAKE S \in SUBSET (1 .. n)
  <2>1. IsFiniteSet(1 .. n)
    BY FS_Interval
  <2>2. IsFiniteSet(S)
    BY <2>1, FS_Subset, Zenon
  <2> QED
    BY <2>2, FS_CardinalityType
<1>3. ASSUME NEW n \in Nat, NEW a \in Nat, NEW b \in Nat,
             NEW f \in [1 .. n -> (1 .. a) \X (1 .. b)],
             \A i, j \in 1 .. n : f[i] = f[j] => i = j
      PROVE  n <= a * b
  <2> DEFINE T == (1 .. a) \X (1 .. b)
  <2>1. \A k \in Nat : IsFiniteSet(1 .. k) /\ Cardinality(1 .. k) = k
    BY FS_Interval
  <2>2. IsFiniteSet(T) /\ Cardinality(T) = a * b
    <3> DEFINE A == 1 .. a
               B == 1 .. b
    <3>1. IsFiniteSet(A) /\ Cardinality(A) = a
      BY <2>1
    <3>2. IsFiniteSet(B) /\ Cardinality(B) = b
      BY <2>1
    <3> HIDE DEF A, B
    <3>3. IsFiniteSet(A \X B) /\ Cardinality(A \X B) = Cardinality(A) * Cardinality(B)
      BY <3>1, <3>2, FS_Product
    <3>4. T = A \X B
      BY DEF A, B
    <3> QED
      BY <3>1, <3>2, <3>3, <3>4
  <2>3. f \in [1 .. n -> T]
    OBVIOUS
  <2> HIDE DEF T
  <2>4. f \in Injection(1 .. n, T)
    BY <1>3, <2>3 DEF Injection, IsInjective
  <2>5. Cardinality(1 .. n) <= Cardinality(T)
    BY <2>2, <2>4, FS_Injection
  <2> QED
    BY <2>1, <2>2, <2>5
<1> QED
  BY <1>1, <1>2, <1>3, Zenon DEF Arithmetic

\* The invariant holds in every reachable state.
LEMMA Inductive == Spec => []IndInv
BY InitInd, NextInd, ArithmeticHolds, PTL DEF Spec

\* Every request, entry, ticket and event is one the code can make, and what
\* a worker holds has been delivered to it.
THEOREM TypeCorrect == Spec => []TypeOK
<1>1. IndInv => TypeOK
  BY DEF IndInv
<1> QED
  BY <1>1, Inductive, PTL

\* However often an event_id is sent, reserved, released, forgotten by Redis or
\* delivered again to any number of workers: one event carries it.  The
\* reservation is no part of the argument, the barrier of the store is all of it.
THEOREM EventIdsAreStoredOnce == Spec => []OneEventPerKey
<1>1. IndInv => OneEventPerKey
  BY DEF IndInv
<1> QED
  BY <1>1, Inductive, PTL

\* A ticket that reads stored or failed belongs to a write with that verdict,
\* with any number of workers, crashes, reclaims and failed marks.
THEOREM TicketsAreTrue == Spec => []TicketsTellTheTruth
<1>1. IndInv => TicketsTellTheTruth
  BY DEF IndInv
<1> QED
  BY <1>1, Inductive, PTL

\* A lapsed ticket never comes back: no client opens a ticket id a second time,
\* and a mark that was read before the TTL lapsed is not saved after it.
THEOREM LapsedTicketsStayGone == Spec => ExpiredTicketsStayGone
<1>1. IndInv /\ [Next]_vars =>
        [\A t \in Tickets : tickets[t] = "expired" => tickets'[t] = "expired"]_vars
  BY TicketSteps
<1> QED
  BY <1>1, Inductive, PTL DEF Spec, ExpiredTicketsStayGone

\* The stream, its pending list and the workers implement the queue with
\* acknowledgements of AtLeastOnce: with any number of workers, whatever
\* crashes, fails or is claimed twice, an accepted write leaves the queue only
\* after the Ingester came to a verdict on it.
THEOREM QueueKeepsItsPromise == Spec => KeepsAcceptedWrites
<1>1. Init => Ledger!LedgerInit
  BY DEF Init, Ledger!LedgerInit, Published
<1>2. IndInv /\ [Next]_vars => [Ledger!LedgerNext]_(Ledger!ledger)
  <2> SUFFICES ASSUME IndInv, [Next]_vars
               PROVE  [Ledger!LedgerNext]_(Ledger!ledger)
    OBVIOUS
  <2>1. ASSUME NEW m, Accepts(m)
        PROVE  m \in Entries /\ Ledger!Accept(m)
    BY <2>1 DEF Accepts, Owed, Handled, Settled, Ledger!Accept
  <2>2. ASSUME NEW m, Handles(m)
        PROVE  m \in Entries /\ Ledger!Handle(m)
    BY <2>2 DEF Handles, Owed, Handled, Settled, Ledger!Handle
  <2>3. ASSUME NEW m, Settles(m)
        PROVE  m \in Entries /\ Ledger!SettleOne(m)
    BY <2>3 DEF Settles, Owed, Handled, Settled, Ledger!SettleOne
  <2>4. UNCHANGED <<Owed, Handled, Settled>> => UNCHANGED Ledger!ledger
    BY DEF Owed, Handled, Settled, Ledger!ledger
  <2> QED
    BY <2>1, <2>2, <2>3, <2>4, StepOfTheLedger, ArithmeticHolds DEF Ledger!LedgerNext
<1> QED
  BY <1>1, <1>2, Inductive, PTL DEF Spec, KeepsAcceptedWrites, Ledger!LedgerSpec

\* "A reprocessed delivery never drags a stored ticket back" when a shard has
\* one worker process: of a crash, a failed acknowledgement and a reclaim none
\* moves a ticket out of stored, failed or partial, but its TTL.
THEOREM OneWorkerKeepsEndedTickets ==
  ASSUME OneWorker
  PROVE  Spec => TerminalTicketsStay
<1>1. Init => SaveInv
  BY DEF Init, SaveInv, IdleWorker
<1>2. IndInv /\ SaveInv /\ [Next]_vars => SaveInv'
  BY NextSaves, ArithmeticHolds
<1>3. IndInv /\ SaveInv /\ [Next]_vars =>
        [\A t \in Tickets : tickets[t] \in Terminal
                            => tickets'[t] \in {tickets[t], "expired"}]_vars
  <2> SUFFICES ASSUME IndInv, SaveInv, [Next]_vars, NEW t \in Tickets,
                      tickets[t] \in Terminal, tickets'[t] \notin {tickets[t], "expired"}
               PROVE  FALSE
    OBVIOUS
  <2>1. tickets[t] # "none"
    BY DEF Terminal
  <2>2. PICK w \in Workers : worker[w].pc = "save" /\ t = Ticket(Current(w))
    BY <2>1, TicketSteps
  <2>3. CanTransition(tickets[t], worker[w].mark)
    BY <2>2 DEF SaveInv, Terminal
  <2> QED
    BY <2>3 DEF CanTransition, Terminal
<1> QED
  BY <1>1, <1>2, <1>3, Inductive, PTL DEF Spec, TerminalTicketsStay

\* "A retry isn't pinned to a ticket that never shipped", when Redis answers
\* and no API process dies in between: at rest, whoever holds an event_id has a
\* task in the stream, however often the queue refuses one.
THEOREM ReservationsShip ==
  ASSUME RedisAnswers
  PROVE  Spec => []NoOrphanReservation
<1>1. Init => HeldInv
  BY DEF Init, HeldInv
<1>2. IndInv /\ HeldInv /\ [Next]_vars => HeldInv'
  BY NextHeld
<1>3. HeldInv => NoOrphanReservation
  BY DEF HeldInv, NoOrphanReservation, Quiet, Ships, Holds
<1> QED
  BY <1>1, <1>2, <1>3, Inductive, PTL DEF Spec

\* "All events of one entity hash to the same shard so a single consumer
\* applies them in order", when the shard has one worker process, nothing fails
\* and no write carries an expected_version: the reclaim ticker, which may
\* claim an entry that is already in hand, never puts a newer write first.
THEOREM OneWorkerAppliesInOrder ==
  ASSUME OneWorker, Unconditional
  PROVE  Spec => []AppliedInOrder
<1>1. Init => OrderInv
  <2> SUFFICES ASSUME Init
               PROVE  OrderInv
    OBVIOUS
  <2>1. Published = {} /\ DOMAIN events = {} /\ delivered = 0 /\ pel = {}
    BY DEF Init, Published
  <2>2. \A w \in Workers : slot[w] = 0
    BY DEF Init
  <2> QED
    BY <2>1, <2>2 DEF OrderInv, TasksInv, HandsInv, InHand, EntriesInOrder, Init, IdleWorker
<1>2. IndInv /\ OrderInv /\ [Next]_vars => OrderInv'
  <2> SUFFICES ASSUME IndInv, OrderInv, [Next]_vars
               PROVE  OrderInv'
    OBVIOUS
  <2>1. TasksInv'
    BY NextTasks DEF OrderInv
  <2>2. faults' = 0 => faults = 0 /\ faults' = faults
    BY FaultsGrow DEF IndInv, TypeOK, StoreType
  <2>3. faults' = 0 => HandsInv' /\ EntriesInOrder'
    BY <2>2, NextHands, NextEntries, ArithmeticHolds DEF OrderInv
  <2> QED
    BY <2>1, <2>3 DEF OrderInv
<1>3. IndInv /\ OrderInv => AppliedInOrder
  BY OrderImplies, ArithmeticHolds
<1> QED
  BY <1>1, <1>2, <1>3, Inductive, PTL DEF Spec
=============================================================================
