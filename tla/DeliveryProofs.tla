--------------------------- MODULE DeliveryProofs ---------------------------
(***************************************************************************)
(* Proofs about Delivery for any number of dispatchers, redelivery         *)
(* requests, webhooks and faults.                                          *)
(***************************************************************************)
EXTENDS Delivery, TLAPS

-----------------------------------------------------------------------------
(* The inductive invariant.  That a lost delivery is a known loss is not   *)
(* inductive: an ack removes the message it names, a delete the dead       *)
(* letter, so what matters is that something else still carries the        *)
(* delivery by the time its carrier is about to be removed.                *)

Message == [id : Nat, hook : Nat, attempt : Nat, cap : Nat]

DeadLetter == [id : Nat, hook : Nat, attempts : Nat]

Request == [step : {"idle", "list", "requeue", "delete"}, again : BOOLEAN, rule : Nat,
            page : Seq(DeadLetter)]

Held == UNION {Range(hand[d]) : d \in Dispatchers}

Messages == Range(stream) \cup unacked \cup Held

Listed == UNION {Range(admin[r].page) : r \in Admins}

Letters == Range(dlq) \cup Listed

QueueType ==
  /\ stream \in Seq(Message)
  /\ unacked \subseteq Message /\ IsFiniteSet(unacked)

HandType ==
  /\ hand \in [Dispatchers -> Seq(Message)]
  /\ pc \in [Dispatchers -> {"idle", "post", "park", "ack"}]
  /\ stopping \in [Dispatchers -> BOOLEAN]
  /\ \A d \in Dispatchers : pc[d] # "idle" => hand[d] # <<>>

TimerType == \A t \in timers : t.hook \in Nat /\ t.attempt \in Nat /\ t.cap \in Nat

LetterType ==
  /\ dlq \in Seq(DeadLetter)
  /\ admin \in [Admins -> Request]
  /\ \A r \in Admins : admin[r].step \in {"requeue", "delete"} => admin[r].page # <<>>

\* An id names one delivery, wherever its copies are.
OneHookPerMessage == \A m, n \in Messages : m.id = n.id => m.hook = n.hook

OneHookPerLetter == \A x, y \in Letters : x.id = y.id => x.hook = y.hook

\* A dispatcher is about to ack the message, and not on a cancelled context; a
\* request, to delete the letter.
Acking(id) == \E d \in Dispatchers : pc[d] = "ack" /\ ~stopping[d] /\ Head(hand[d]).id = id

Deleting(id) == \E r \in Admins : admin[r].step = "delete" /\ Head(admin[r].page).id = id

\* Something carries the delivery that nobody is about to remove.
Kept(h) ==
  \/ \E m \in Range(stream) \cup unacked : m.hook = h /\ ~Acking(m.id)
  \/ \E t \in timers : t.hook = h
  \/ \E x \in Range(dlq) : x.hook = h /\ ~Deleting(x.id)

KnownFate == received \cup Lost

NoneLost == \A h \in DOMAIN hooks : h \in KnownFate \/ Kept(h)

IndInv ==
  /\ hooks \in Seq(Triggers) /\ QueueType /\ HandType /\ TimerType /\ LetterType
  /\ OneHookPerMessage /\ OneHookPerLetter /\ NoneLost

-----------------------------------------------------------------------------
(* What the lemmas below use of finite sets.  They assume it; the last     *)
(* part of this module proves it from the library.                         *)

Covers(f, S, T) == \A y \in T : \E x \in S : y = f[x]

Finiteness ==
  /\ IsFiniteSet({})
  /\ \A n \in Nat : IsFiniteSet(1 .. n)
  /\ \A S : IsFiniteSet(S) => Cardinality(S) \in Nat /\ (Cardinality(S) = 0 => S = {})
  /\ \A S : IsFiniteSet(S) => \A T \in SUBSET S : IsFiniteSet(T)
  /\ \A S, T : IsFiniteSet(S) /\ IsFiniteSet(T) => IsFiniteSet(S \cup T)
  /\ \A S : IsFiniteSet(S) => \A x : IsFiniteSet(S \cup {x})
  /\ \A S : IsFiniteSet(S) /\ (\A T \in S : IsFiniteSet(T)) => IsFiniteSet(UNION S)
  /\ \A S, T, f : IsFiniteSet(S) /\ Covers(f, S, T) => IsFiniteSet(T)
  /\ \A S : IsFiniteSet(S) => Fresh(S) \in Nat /\ Fresh(S) \notin S

-----------------------------------------------------------------------------
(* Sequences, and the ids of stream entries and dead letters.              *)

\* A message counts its attempts, and so does the retry of it.
LEMMA MessageParts ==
  ASSUME NEW m \in Message
  PROVE  /\ m.id \in Nat /\ m.hook \in Nat /\ m.attempt \in Nat /\ m.cap \in Nat
         /\ NextAttempt(m) \in Nat
BY DEF Message, NextAttempt

\* The members of a sequence.
LEMMA RangeIs ==
  ASSUME NEW S, NEW s \in Seq(S)
  PROVE  /\ Range(s) \subseteq S
         /\ \A x : x \in Range(s) <=> \E i \in 1 .. Len(s) : x = s[i]
BY DEF Range

\* They are finitely many.
LEMMA RangeFinite ==
  ASSUME Finiteness, NEW S, NEW s \in Seq(S)
  PROVE  IsFiniteSet(Range(s))
<1> DEFINE T == 1 .. Len(s)
<1>1. Len(s) \in Nat /\ Covers(s, T, Range(s))
  BY DEF Range, Covers
<1>2. IsFiniteSet(T)
  BY <1>1 DEF Finiteness
<1> HIDE DEF T
<1> QED
  BY <1>1, <1>2 DEF Finiteness

\* Append adds its element.
LEMMA AppendIs ==
  ASSUME NEW S, NEW s \in Seq(S), NEW x \in S
  PROVE  Append(s, x) \in Seq(S) /\ Range(Append(s, x)) = Range(s) \cup {x}
<1>1. Append(s, x) \in Seq(S) /\ Len(Append(s, x)) = Len(s) + 1
  OBVIOUS
<1>2. \A i \in 1 .. Len(s) + 1 : Append(s, x)[i] = IF i = Len(s) + 1 THEN x ELSE s[i]
  OBVIOUS
<1>3. \A y : y \in Range(Append(s, x)) <=> \E i \in 1 .. Len(s) + 1 : y = Append(s, x)[i]
  BY <1>1, RangeIs, Zenon
<1>4. \A y : y \in Range(s) <=> \E i \in 1 .. Len(s) : y = s[i]
  BY RangeIs
<1>5. Len(s) \in Nat
  OBVIOUS
<1> HIDE DEF Range
<1>6. ASSUME NEW y PROVE y \in Range(Append(s, x)) <=> y \in Range(s) \/ y = x
  BY <1>2, <1>3, <1>4, <1>5
<1> QED
  BY <1>1, <1>6

\* A sequence is its head and its tail.
LEMMA TailIs ==
  ASSUME NEW S, NEW s \in Seq(S), s # <<>>
  PROVE  /\ Head(s) \in S /\ Tail(s) \in Seq(S)
         /\ Range(s) = {Head(s)} \cup Range(Tail(s))
         /\ Len(s) > 1 => Tail(s) # <<>>
<1>1. /\ Head(s) \in S /\ Tail(s) \in Seq(S) /\ Len(Tail(s)) = Len(s) - 1
      /\ \A i \in 1 .. Len(Tail(s)) : Tail(s)[i] = s[i + 1]
  OBVIOUS
<1>2. Head(s) = s[1] /\ Len(s) \in Nat /\ Len(s) >= 1
  OBVIOUS
<1>3. \A y : y \in Range(s) <=> \E i \in 1 .. Len(s) : y = s[i]
  BY RangeIs
<1>4. \A y : y \in Range(Tail(s)) <=> \E i \in 1 .. Len(s) - 1 : y = s[i + 1]
  <2> DEFINE t == Tail(s)
  <2>1. t \in Seq(S) /\ Len(t) = Len(s) - 1 /\ \A i \in 1 .. Len(s) - 1 : t[i] = s[i + 1]
    BY <1>1
  <2> HIDE DEF t
  <2>2. \A y : y \in Range(t) <=> \E i \in 1 .. Len(t) : y = t[i]
    BY <2>1, RangeIs
  <2>3. \A y : y \in Range(t) <=> \E i \in 1 .. Len(s) - 1 : y = s[i + 1]
    BY <2>1, <2>2
  <2> QED
    BY <2>3 DEF t
<1>5. ASSUME NEW y PROVE y \in Range(s) <=> y = Head(s) \/ y \in Range(Tail(s))
  <2>1. ASSUME NEW i \in 1 .. Len(s), y = s[i]
        PROVE  y = s[1] \/ \E j \in 1 .. Len(s) - 1 : y = s[j + 1]
    <3>1. CASE i = 1
      BY <2>1, <3>1
    <3>2. CASE i # 1
      <4>1. i - 1 \in 1 .. Len(s) - 1 /\ (i - 1) + 1 = i
        BY <1>2, <3>2
      <4> QED
        BY <2>1, <4>1, Zenon
    <3> QED
      BY <3>1, <3>2
  <2>2. ASSUME NEW j \in 1 .. Len(s) - 1, y = s[j + 1]
        PROVE  \E i \in 1 .. Len(s) : y = s[i]
    <3>1. j + 1 \in 1 .. Len(s)
      BY <1>2
    <3> QED
      BY <2>2, <3>1
  <2>3. 1 \in 1 .. Len(s)
    BY <1>2
  <2> QED
    BY <1>2, <1>3, <1>4, <2>1, <2>2, <2>3
<1>6. Len(s) > 1 => Tail(s) # <<>>
  <2> DEFINE t == Tail(s)
  <2>1. t \in Seq(S) /\ Len(t) = Len(s) - 1
    BY <1>1
  <2> HIDE DEF t
  <2>2. Len(s) > 1 => t # <<>>
    BY <1>2, <2>1
  <2> QED
    BY <2>2 DEF t
<1> QED
  BY <1>1, <1>5, <1>6

\* RemoveAt keeps the members at every other place.
LEMMA RemoveAtIs ==
  ASSUME NEW S, NEW s \in Seq(S), NEW i \in 1 .. Len(s)
  PROVE  /\ RemoveAt(s, i) \in Seq(S) /\ Range(RemoveAt(s, i)) \subseteq Range(s)
         /\ \A x \in Range(s) : x # s[i] => x \in Range(RemoveAt(s, i))
<1> DEFINE a == SubSeq(s, 1, i - 1)
           b == SubSeq(s, i + 1, Len(s))
<1>1. Len(s) \in Nat /\ \A j \in 1 .. Len(s) : s[j] \in S
  OBVIOUS
<1>2. /\ a \in Seq(S) /\ Len(a) = i - 1
      /\ \A j \in 1 .. i - 1 : a[j] = s[j]
  <2>1. \A j \in 1 .. i - 1 : s[j] \in S
    BY <1>1
  <2> QED
    BY <1>1, <2>1
<1>3. /\ b \in Seq(S) /\ Len(b) = Len(s) - i
      /\ \A j \in 1 .. Len(s) - i : b[j] = s[i + j]
  <2>1. \A j \in i + 1 .. Len(s) : s[j] \in S
    BY <1>1
  <2>2. /\ b \in Seq(S) /\ Len(b) = IF i + 1 <= Len(s) THEN Len(s) - (i + 1) + 1 ELSE 0
        /\ \A j \in 1 .. Len(s) - (i + 1) + 1 : b[j] = s[i + 1 + j - 1]
    BY <1>1, <2>1
  <2> HIDE DEF b
  <2> QED
    BY <1>1, <2>2
<1> HIDE DEF a, b
<1>4. /\ a \o b \in Seq(S) /\ Len(a \o b) = Len(s) - 1
      /\ \A j \in 1 .. Len(s) - 1 : (a \o b)[j] = IF j < i THEN s[j] ELSE s[j + 1]
  <2>1. /\ a \o b \in Seq(S) /\ Len(a \o b) = Len(a) + Len(b)
        /\ \A j \in 1 .. Len(a) + Len(b) :
             (a \o b)[j] = IF j <= Len(a) THEN a[j] ELSE b[j - Len(a)]
    <3>1. a \in Seq(S) /\ b \in Seq(S)
      BY <1>2, <1>3
    <3>2. a \o b \in Seq(S)
      BY <3>1
    <3>3. Len(a \o b) = Len(a) + Len(b)
      BY <3>1
    <3>4. \A j \in 1 .. Len(a) + Len(b) :
             (a \o b)[j] = IF j <= Len(a) THEN a[j] ELSE b[j - Len(a)]
      BY <3>1
    <3> QED
      BY <3>2, <3>3, <3>4
  <2>2. Len(a) + Len(b) = Len(s) - 1
    BY <1>1, <1>2, <1>3
  <2>3. ASSUME NEW j \in 1 .. Len(s) - 1
        PROVE  (a \o b)[j] = IF j < i THEN s[j] ELSE s[j + 1]
    <3>1. CASE j < i
      <4>1. j <= Len(a) /\ j \in 1 .. i - 1
        BY <1>1, <1>2, <3>1
      <4>2. (a \o b)[j] = a[j]
        BY <2>1, <2>2, <4>1
      <4> QED
        BY <1>2, <3>1, <4>1, <4>2
    <3>2. CASE ~(j < i)
      <4>1. ~(j <= Len(a)) /\ j - (i - 1) \in 1 .. Len(s) - i /\ i + (j - (i - 1)) = j + 1
        BY <1>1, <1>2, <3>2
      <4>2. (a \o b)[j] = b[j - (i - 1)]
        BY <1>2, <2>1, <2>2, <4>1, Zenon
      <4>3. b[j - (i - 1)] = s[i + (j - (i - 1))]
        BY <1>3, <4>1
      <4> QED
        BY <3>2, <4>1, <4>2, <4>3
    <3> QED
      BY <3>1, <3>2, Zenon
  <2> QED
    BY <2>1, <2>2, <2>3
<1> DEFINE c == a \o b
<1>5. /\ RemoveAt(s, i) = c /\ c \in Seq(S) /\ Len(c) = Len(s) - 1
      /\ \A j \in 1 .. Len(s) - 1 : c[j] = IF j < i THEN s[j] ELSE s[j + 1]
  BY <1>4, Zenon DEF RemoveAt, a, b
<1> HIDE DEF c
<1>6. \A y : y \in Range(s) <=> \E j \in 1 .. Len(s) : y = s[j]
  BY RangeIs
<1>7. \A y : y \in Range(c) <=> \E j \in 1 .. Len(s) - 1 : y = c[j]
  <2>1. \A y : y \in Range(c) <=> \E j \in 1 .. Len(c) : y = c[j]
    BY <1>5, RangeIs
  <2> QED
    BY <1>5, <2>1
<1>8. ASSUME NEW y \in Range(c)
      PROVE  y \in Range(s)
  <2>1. PICK j \in 1 .. Len(s) - 1 : y = IF j < i THEN s[j] ELSE s[j + 1]
    BY <1>5, <1>7
  <2>2. j \in 1 .. Len(s) /\ j + 1 \in 1 .. Len(s)
    BY <1>1
  <2> QED
    BY <1>6, <2>1, <2>2
<1>9. ASSUME NEW y \in Range(s), y # s[i]
      PROVE  y \in Range(c)
  <2>1. PICK j \in 1 .. Len(s) : y = s[j] /\ j # i
    BY <1>6, <1>9
  <2>2. CASE j < i
    <3>1. j \in 1 .. Len(s) - 1
      BY <1>1, <2>2
    <3> QED
      BY <1>5, <1>7, <2>1, <2>2, <3>1
  <2>3. CASE j > i
    <3>1. j - 1 \in 1 .. Len(s) - 1 /\ ~(j - 1 < i) /\ (j - 1) + 1 = j
      BY <1>1, <2>3
    <3>2. c[j - 1] = s[j]
      BY <1>5, <3>1
    <3> QED
      BY <1>7, <2>1, <3>1, <3>2
  <2> QED
    BY <1>1, <2>1, <2>2, <2>3
<1> QED
  BY <1>5, <1>8, <1>9
\* Finitely many entries have finitely many ids.
LEMMA IdsFinite ==
  ASSUME Finiteness, NEW S, IsFiniteSet(S)
  PROVE  IsFiniteSet({m.id : m \in S})
<1> DEFINE f == [m \in S |-> m.id]
           T == {m.id : m \in S}
<1>1. Covers(f, S, T)
  BY DEF Covers
<1> HIDE DEF f, T
<1>2. IsFiniteSet(T)
  BY <1>1 DEF Finiteness
<1> QED
  BY <1>2 DEF T

\* The id of a message put on the stream is no other message's.
LEMMA FreshMessage ==
  ASSUME Finiteness, QueueType, HandType
  PROVE  /\ Fresh(MessageIds) \in Nat
         /\ \A m \in Messages : m.id # Fresh(MessageIds)
<1> DEFINE U == {Range(hand[d]) : d \in Dispatchers}
           f == [d \in Dispatchers |-> Range(hand[d])]
<1>1. IsFiniteSet(Range(stream))
  BY RangeFinite DEF QueueType
<1>2. \A T \in U : IsFiniteSet(T)
  BY RangeFinite DEF HandType
<1>3. IsFiniteSet(U)
  <2>1. Covers(f, Dispatchers, U)
    BY DEF Covers
  <2> HIDE DEF f, U
  <2> QED
    BY <2>1, DeliveryAssumption DEF Finiteness
<1>4. IsFiniteSet(Held)
  <2> HIDE DEF U
  <2>1. IsFiniteSet(UNION U)
    BY <1>2, <1>3, Zenon DEF Finiteness
  <2> QED
    BY <2>1 DEF U, Held
<1>5. IsFiniteSet(Messages)
  <2>1. IsFiniteSet(Range(stream) \cup unacked)
    BY <1>1 DEF QueueType, Finiteness
  <2> QED
    BY <1>4, <2>1, Zenon DEF Messages, Finiteness
<1>6. IsFiniteSet({m.id : m \in Messages})
  BY <1>5, IdsFinite
<1>7. MessageIds = {m.id : m \in Messages}
  BY DEF MessageIds, Messages, Held
<1>8. Fresh(MessageIds) \in Nat /\ Fresh(MessageIds) \notin {m.id : m \in Messages}
  BY <1>6, <1>7, Zenon DEF Finiteness
<1> QED
  BY <1>8

\* The id of a new dead letter is no other dead letter's, listed or stored.
LEMMA FreshLetter ==
  ASSUME Finiteness, LetterType
  PROVE  /\ Fresh(DeadLetterIds) \in Nat
         /\ \A x \in Letters : x.id # Fresh(DeadLetterIds)
<1> DEFINE U == {Range(admin[r].page) : r \in Admins}
           f == [r \in Admins |-> Range(admin[r].page)]
<1>1. IsFiniteSet(Range(dlq))
  BY RangeFinite DEF LetterType
<1>2. \A T \in U : IsFiniteSet(T)
  <2>1. \A r \in Admins : admin[r].page \in Seq(DeadLetter)
    BY DEF LetterType, Request
  <2> QED
    BY <2>1, RangeFinite
<1>3. IsFiniteSet(U)
  <2>1. Covers(f, Admins, U)
    BY DEF Covers
  <2> HIDE DEF f, U
  <2> QED
    BY <2>1, DeliveryAssumption DEF Finiteness
<1>4. IsFiniteSet(Listed)
  <2> HIDE DEF U
  <2>1. IsFiniteSet(UNION U)
    BY <1>2, <1>3, Zenon DEF Finiteness
  <2> QED
    BY <2>1 DEF U, Listed
<1>5. IsFiniteSet(Letters)
  BY <1>1, <1>4 DEF Letters, Finiteness
<1>6. IsFiniteSet({x.id : x \in Letters})
  BY <1>5, IdsFinite
<1>7. DeadLetterIds = {x.id : x \in Letters}
  BY DEF DeadLetterIds, Letters, Listed
<1>8. Fresh(DeadLetterIds) \in Nat /\ Fresh(DeadLetterIds) \notin {x.id : x \in Letters}
  BY <1>6, <1>7, Zenon DEF Finiteness
<1> QED
  BY <1>8

-----------------------------------------------------------------------------
(* The parts of a step.                                                    *)

\* What is being acked is in a hand.
LEMMA AckingIsHeld ==
  ASSUME HandType, NEW d \in Dispatchers, pc[d] # "idle"
  PROVE  /\ Head(hand[d]) \in Held /\ Head(hand[d]) \in Message
         /\ Head(hand[d]) \in Messages
<1>1. hand[d] \in Seq(Message) /\ hand[d] # <<>>
  BY DEF HandType
<1>2. Head(hand[d]) \in Range(hand[d]) /\ Head(hand[d]) \in Message
  BY <1>1, TailIs
<1> QED
  BY <1>2 DEF Held, Messages

\* What is being deleted is on a page.
LEMMA DeletingIsListed ==
  ASSUME LetterType, NEW r \in Admins, admin[r].step \in {"requeue", "delete"}
  PROVE  /\ Head(admin[r].page) \in Listed /\ Head(admin[r].page) \in DeadLetter
         /\ Head(admin[r].page) \in Letters
<1>1. admin[r].page \in Seq(DeadLetter) /\ admin[r].page # <<>>
  BY DEF LetterType, Request
<1>2. Head(admin[r].page) \in Range(admin[r].page) /\ Head(admin[r].page) \in DeadLetter
  BY <1>1, TailIs
<1> QED
  BY <1>2 DEF Listed, Letters

\* Nothing is put on the stream, taken or acked.
LEMMA SameQueue ==
  ASSUME IndInv, UNCHANGED <<stream, unacked, hand, pc, stopping>>
  PROVE  /\ QueueType' /\ HandType' /\ OneHookPerMessage'
         /\ \A id : Acking(id)' <=> Acking(id)
<1>1. QueueType' /\ OneHookPerMessage'
  BY DEF IndInv, QueueType, OneHookPerMessage, Messages, Held
<1>2. HandType'
  BY DEF IndInv, HandType
<1>3. \A id : Acking(id)' <=> Acking(id)
  BY DEF Acking
<1> QED
  BY <1>1, <1>2, <1>3

\* Nothing is received or lost.
LEMMA SameFate ==
  ASSUME UNCHANGED fateVars
  PROVE  KnownFate' = KnownFate
BY DEF fateVars, KnownFate, Lost

\* Nothing is parked, listed or deleted.
LEMMA SameLetters ==
  ASSUME IndInv, UNCHANGED <<dlq, admin>>
  PROVE  /\ LetterType' /\ OneHookPerLetter'
         /\ \A id : Deleting(id)' <=> Deleting(id)
BY DEF IndInv, LetterType, OneHookPerLetter, Letters, Listed, Deleting

\* A message put on the stream is a carrier that nobody is about to ack.
LEMMA StreamGrows ==
  ASSUME Finiteness, IndInv, NEW hook \in Nat, NEW attempt \in Nat, NEW cap \in Nat,
         stream' = Enqueued(hook, attempt, cap), UNCHANGED <<unacked, hand, pc, stopping>>
  PROVE  /\ QueueType' /\ HandType' /\ OneHookPerMessage'
         /\ \A id : Acking(id)' <=> Acking(id)
         /\ Range(stream) \subseteq Range(stream')
         /\ \E m \in Range(stream') : m.hook = hook /\ ~Acking(m.id)
<1> DEFINE m == [id |-> Fresh(MessageIds), hook |-> hook, attempt |-> attempt, cap |-> cap]
<1>1. QueueType /\ HandType /\ OneHookPerMessage
  BY DEF IndInv
<1>2. m \in Message /\ m.hook = hook /\ \A n \in Messages : n.id # m.id
  BY <1>1, FreshMessage DEF Message
<1>3. stream' = Append(stream, m)
  BY DEF Enqueued
<1> HIDE DEF m
<1>4. stream' \in Seq(Message) /\ Range(stream') = Range(stream) \cup {m}
  BY <1>1, <1>2, <1>3, AppendIs DEF QueueType
<1>5. QueueType' /\ HandType' /\ \A id : Acking(id)' <=> Acking(id)
  BY <1>1, <1>4 DEF QueueType, HandType, Acking
<1>6. Messages' = Messages \cup {m}
  BY <1>4 DEF Messages, Held
<1>7. OneHookPerMessage'
  BY <1>1, <1>2, <1>6 DEF OneHookPerMessage
<1>8. ~Acking(m.id)
  BY <1>1, <1>2, AckingIsHeld DEF Acking
<1> QED
  BY <1>2, <1>4, <1>5, <1>7, <1>8

\* A dead letter that is saved is a carrier that nobody is about to delete.
LEMMA DlqGrows ==
  ASSUME Finiteness, IndInv, NEW hook \in Nat, NEW attempts \in Nat,
         dlq' = Parked(hook, attempts), UNCHANGED admin
  PROVE  /\ LetterType' /\ OneHookPerLetter'
         /\ \A id : Deleting(id)' <=> Deleting(id)
         /\ Range(dlq) \subseteq Range(dlq')
         /\ \E x \in Range(dlq') : x.hook = hook /\ ~Deleting(x.id)
<1> DEFINE x == [id |-> Fresh(DeadLetterIds), hook |-> hook, attempts |-> attempts]
<1>1. LetterType /\ OneHookPerLetter
  BY DEF IndInv
<1>2. x \in DeadLetter /\ x.hook = hook /\ \A y \in Letters : y.id # x.id
  BY <1>1, FreshLetter DEF DeadLetter
<1>3. dlq' = Append(dlq, x)
  BY DEF Parked
<1> HIDE DEF x
<1>4. dlq' \in Seq(DeadLetter) /\ Range(dlq') = Range(dlq) \cup {x}
  BY <1>1, <1>2, <1>3, AppendIs DEF LetterType
<1>5. LetterType' /\ \A id : Deleting(id)' <=> Deleting(id)
  BY <1>1, <1>4 DEF LetterType, Deleting
<1>6. Letters' = Letters \cup {x}
  BY <1>4 DEF Letters, Listed
<1>7. OneHookPerLetter'
  BY <1>1, <1>2, <1>6 DEF OneHookPerLetter
<1>8. ~Deleting(x.id)
  BY <1>1, <1>2, DeletingIsListed DEF Deleting
<1> QED
  BY <1>2, <1>4, <1>5, <1>7, <1>8

\* Messages that are only moved or copied keep their ids.
LEMMA OnlyCopies ==
  ASSUME IndInv, \A m \in Messages' : \E n \in Messages : n.id = m.id /\ n.hook = m.hook
  PROVE  OneHookPerMessage'
BY DEF IndInv, OneHookPerMessage

\* Dead letters that are only listed or deleted keep theirs.
LEMMA OnlyListed ==
  ASSUME IndInv, Letters' \subseteq Letters
  PROVE  OneHookPerLetter'
BY DEF IndInv, OneHookPerLetter

\* Carriers that stay, with no more acks or deletes under way, keep a delivery.
LEMMA StillKept ==
  ASSUME NEW h, Kept(h),
         Range(stream) \cup unacked \subseteq Range(stream') \cup unacked',
         timers \subseteq timers', Range(dlq) \subseteq Range(dlq'),
         \A id : Acking(id)' => Acking(id), \A id : Deleting(id)' => Deleting(id)
  PROVE  Kept(h)'
BY DEF Kept

-----------------------------------------------------------------------------
(* One lemma per action.                                                   *)

\* At first there is nothing to lose.
LEMMA InitInv ==
  ASSUME Finiteness
  PROVE  Init => IndInv
<1> SUFFICES ASSUME Init
             PROVE  IndInv
  OBVIOUS
<1>1. hooks \in Seq(Triggers) /\ DOMAIN hooks = {}
  BY DEF Init
<1>2. QueueType
  BY DEF Init, QueueType, Finiteness
<1>3. HandType /\ TimerType
  BY DEF Init, HandType, TimerType
<1>4. NoRequest \in Request /\ NoRequest.step = "idle" /\ NoRequest.page = <<>>
  BY DEF NoRequest, Request
<1>5. LetterType
  BY <1>4 DEF Init, LetterType
<1>6. Messages = {} /\ Letters = {}
  BY <1>4 DEF Init, Messages, Letters, Held, Listed, Range
<1> QED
  BY <1>1, <1>2, <1>3, <1>5, <1>6 DEF IndInv, OneHookPerMessage, OneHookPerLetter, NoneLost

\* A webhook is on the stream or, the publish having failed, unsent.
LEMMA PublishKeeps ==
  ASSUME Finiteness, IndInv, Publish
  PROVE  IndInv'
<1>1. PICK t \in Triggers :
        /\ hooks' = Append(hooks, t)
        /\ \/ stream' = Enqueued(Len(hooks'), 0, t.cap) /\ UNCHANGED <<faults, unsent>>
           \/ /\ Fault("publish") /\ unsent' = unsent \cup {Len(hooks')}
              /\ UNCHANGED stream
  BY DEF Publish
<1>2. UNCHANGED <<unacked, hand, pc, stopping, timers, dlq, admin, received, dropped, cutOff,
                  forgotten>>
  BY DEF Publish, workVars
<1>3. t.cap \in Nat
  BY DeliveryAssumption DEF Trigger
<1>4. PICK new \in Nat : new = Len(hooks')
  BY <1>1 DEF IndInv
<1>5. /\ hooks \in Seq(Triggers) /\ hooks' \in Seq(Triggers)
      /\ \A h \in DOMAIN hooks' : h \in DOMAIN hooks \/ h = new
  BY <1>1, <1>4 DEF IndInv
<1>6. TimerType' /\ LetterType' /\ OneHookPerLetter' /\ \A id : Deleting(id)' <=> Deleting(id)
  BY <1>2, SameLetters DEF IndInv, TimerType
<1>7. CASE stream' = Enqueued(new, 0, t.cap) /\ UNCHANGED unsent
  <2>1. /\ QueueType' /\ HandType' /\ OneHookPerMessage'
        /\ \A id : Acking(id)' <=> Acking(id)
        /\ Range(stream) \subseteq Range(stream')
        /\ \E m \in Range(stream') : m.hook = new /\ ~Acking(m.id)
    BY <1>2, <1>3, <1>5, <1>7, StreamGrows
  <2>2. Kept(new)'
    BY <2>1 DEF Kept
  <2>3. \A h : Kept(h) => Kept(h)'
    BY <1>2, <1>6, <2>1, StillKept
  <2>4. NoneLost'
    BY <1>2, <1>5, <1>7, <2>2, <2>3 DEF IndInv, NoneLost, KnownFate, Lost
  <2> QED
    BY <1>5, <1>6, <2>1, <2>4 DEF IndInv
<1>8. CASE unsent' = unsent \cup {new} /\ UNCHANGED stream
  <2>1. QueueType' /\ HandType' /\ OneHookPerMessage' /\ \A id : Acking(id)' <=> Acking(id)
    BY <1>2, <1>8, SameQueue
  <2>2. \A h : Kept(h) => Kept(h)'
    BY <1>2, <1>6, <1>8, <2>1, StillKept
  <2>3. NoneLost'
    BY <1>2, <1>5, <1>8, <2>2 DEF IndInv, NoneLost, KnownFate, Lost
  <2> QED
    BY <1>5, <1>6, <2>1, <2>3 DEF IndInv
<1> QED
  BY <1>1, <1>4, <1>7, <1>8

\* A dispatcher whose hand is replaced by messages that are on the stream or
\* unacked, or by fewer of its own, and which is not at an ack.
LEMMA HandMoves ==
  ASSUME IndInv, NEW d \in Dispatchers, NEW batch \in Seq(Message), NEW next,
         hand' = [hand EXCEPT ![d] = batch], pc' = [pc EXCEPT ![d] = next],
         stopping' \in [Dispatchers -> BOOLEAN],
         \A x \in Dispatchers : x # d => stopping'[x] = stopping[x],
         (next = "post" /\ batch # <<>>) \/ next = "idle",
         Range(batch) \subseteq Messages
  PROVE  /\ HandType' /\ Held' \subseteq Messages
         /\ \A id : Acking(id)' => Acking(id)
<1>1. HandType
  BY DEF IndInv
<1>2. /\ hand'[d] = batch /\ pc'[d] = next
      /\ \A x \in Dispatchers : x # d => hand'[x] = hand[x] /\ pc'[x] = pc[x]
  BY <1>1 DEF HandType
<1>3. HandType'
  BY <1>1, <1>2 DEF HandType
<1>4. Held' \subseteq Messages
  BY <1>2 DEF Held, Messages
<1>5. \A id : Acking(id)' => Acking(id)
  BY <1>2 DEF Acking
<1> QED
  BY <1>3, <1>4, <1>5

\* The invariant after a step on the queue alone that only copies messages and
\* keeps those nobody is about to ack.
LEMMA QueueMoves ==
  ASSUME IndInv, QueueType', HandType', Messages' \subseteq Messages,
         \A id : Acking(id)' => Acking(id),
         \A m \in Range(stream) \cup unacked :
           ~Acking(m.id) => m \in Range(stream') \cup unacked',
         UNCHANGED <<hooks, dlq, admin>>, KnownFate \subseteq KnownFate',
         \A t \in timers : t \in timers' \/ t.hook \in KnownFate',
         timers' \subseteq timers
  PROVE  IndInv'
<1>1. LetterType' /\ OneHookPerLetter' /\ \A id : Deleting(id)' <=> Deleting(id)
  BY SameLetters
<1>2. TimerType' /\ OneHookPerMessage' /\ hooks' \in Seq(Triggers)
  BY OnlyCopies, Zenon DEF IndInv, TimerType
<1>3. ASSUME NEW h, Kept(h)
      PROVE  h \in KnownFate' \/ Kept(h)'
  BY <1>1, <1>3 DEF Kept
<1>4. NoneLost'
  BY <1>3 DEF IndInv, NoneLost
<1> QED
  BY <1>1, <1>2, <1>4 DEF IndInv

\* The stream hands out its first message, which is now unacked.
LEMMA TakeKeeps ==
  ASSUME Finiteness, IndInv, NEW d \in Dispatchers, Take(d)
  PROVE  IndInv'
<1> DEFINE m == Head(stream)
<1>1. QueueType
  BY DEF IndInv
<1>2. /\ stream # <<>> /\ hand' = [hand EXCEPT ![d] = <<m>>] /\ pc' = [pc EXCEPT ![d] = "post"]
      /\ stream' = Tail(stream) /\ unacked' = unacked \cup {m}
      /\ UNCHANGED <<hooks, timers, stopping, dlq, admin>> /\ UNCHANGED fateVars
  BY DEF Take
<1>3. m \in Message /\ stream' \in Seq(Message) /\ Range(stream) = {m} \cup Range(stream')
  BY <1>1, <1>2, TailIs DEF QueueType
<1> HIDE DEF m
<1>4. QueueType'
  BY <1>1, <1>2, <1>3, Zenon DEF QueueType, Finiteness
<1>5. <<m>> \in Seq(Message) /\ <<m>> # <<>> /\ Range(<<m>>) = {m}
  BY <1>3 DEF Range
<1>6. m \in Messages
  BY <1>3 DEF Messages
<1>7. HandType' /\ Held' \subseteq Messages /\ \A id : Acking(id)' => Acking(id)
  <2>1. stopping' \in [Dispatchers -> BOOLEAN] /\ stopping' = stopping
    BY <1>2 DEF IndInv, HandType
  <2> QED
    BY <1>2, <1>5, <1>6, <2>1, HandMoves, Zenon
<1>8. Range(stream') \cup unacked' = Range(stream) \cup unacked
  BY <1>2, <1>3
<1>9. Messages' \subseteq Messages
  BY <1>7, <1>8 DEF Messages
<1>10. KnownFate' = KnownFate
  BY <1>2, SameFate, Zenon
<1> QED
  BY <1>2, <1>4, <1>7, <1>8, <1>9, <1>10, QueueMoves

\* A reclaimed message stays unacked.
LEMMA ReclaimKeeps ==
  ASSUME Finiteness, IndInv, NEW d \in Dispatchers, Reclaim(d)
  PROVE  IndInv'
<1>1. QueueType
  BY DEF IndInv
<1>2. PICK claimed \in (SUBSET unacked) \ {{}} :
        \E batch \in [1 .. Cardinality(claimed) -> claimed] : hand' = [hand EXCEPT ![d] = batch]
  BY Zenon DEF Reclaim
<1>3. PICK batch \in [1 .. Cardinality(claimed) -> claimed] : hand' = [hand EXCEPT ![d] = batch]
  BY <1>2, Zenon
<1>4. Cardinality(claimed) \in Nat /\ Cardinality(claimed) # 0
  <2>1. IsFiniteSet(claimed)
    BY <1>1 DEF QueueType, Finiteness
  <2> QED
    BY <2>1 DEF Finiteness
<1>5. batch \in Seq(Message) /\ batch # <<>> /\ Range(batch) \subseteq unacked
  <2>1. claimed \subseteq Message
    BY <1>1 DEF QueueType
  <2>2. batch \in Seq(Message) /\ Len(batch) = Cardinality(claimed)
    BY <1>4, <2>1
  <2> QED
    BY <1>4, <2>2 DEF Range
<1>6. /\ pc' = [pc EXCEPT ![d] = "post"]
      /\ UNCHANGED <<hooks, stream, unacked, timers, stopping, dlq, admin>> /\ UNCHANGED fateVars
  BY Zenon DEF Reclaim, queueVars
<1>7. Range(batch) \subseteq Messages
  BY <1>5 DEF Messages
<1>8. HandType' /\ Held' \subseteq Messages /\ \A id : Acking(id)' => Acking(id)
  <2>1. stopping' \in [Dispatchers -> BOOLEAN] /\ stopping' = stopping
    BY <1>6 DEF IndInv, HandType
  <2> QED
    BY <1>3, <1>5, <1>6, <1>7, <2>1, HandMoves, Zenon
<1>9. QueueType' /\ Messages' \subseteq Messages
  BY <1>1, <1>6, <1>8, Zenon DEF QueueType, Messages
<1>10. KnownFate' = KnownFate
  BY <1>6, SameFate, Zenon
<1> QED
  BY <1>6, <1>8, <1>9, <1>10, QueueMoves

\* A dispatcher goes on to ack a message: what it carries must have a known fate
\* by then, or another carrier.
LEMMA AckFollows ==
  ASSUME IndInv, NEW d \in Dispatchers, pc[d] \in {"post", "park"},
         pc' = [pc EXCEPT ![d] = "ack"], UNCHANGED <<hooks, stream, unacked, hand, stopping, admin>>,
         TimerType', LetterType', OneHookPerLetter', KnownFate \subseteq KnownFate',
         timers \subseteq timers', Range(dlq) \subseteq Range(dlq'),
         LET h == Head(hand[d]).hook
         IN  \/ h \in KnownFate'
             \/ \E t \in timers' : t.hook = h
             \/ \E x \in Range(dlq') : x.hook = h /\ ~Deleting(x.id)
  PROVE  IndInv'
<1> DEFINE m == Head(hand[d])
<1>1. QueueType /\ HandType /\ OneHookPerMessage
  BY DEF IndInv
<1>2. m \in Messages
  BY <1>1, AckingIsHeld, Zenon
<1>3. pc'[d] = "ack" /\ \A x \in Dispatchers : x # d => pc'[x] = pc[x]
  BY <1>1 DEF HandType
<1>4. QueueType' /\ HandType' /\ OneHookPerMessage' /\ hooks' \in Seq(Triggers)
  <2>1. QueueType' /\ OneHookPerMessage'
    BY <1>1 DEF QueueType, OneHookPerMessage, Messages, Held
  <2>2. HandType'
    BY <1>1, <1>3, Zenon DEF HandType
  <2>3. hooks' \in Seq(Triggers)
    BY Zenon DEF IndInv
  <2> QED
    BY <2>1, <2>2, <2>3, Zenon
<1>5. \A id : Acking(id)' => Acking(id) \/ id = m.id
  BY <1>3, Zenon DEF Acking
<1>6. \A id : Deleting(id)' <=> Deleting(id)
  BY Zenon DEF Deleting
<1>7. \A n \in Range(stream) \cup unacked : n.id = m.id => n.hook = m.hook
  BY <1>1, <1>2 DEF OneHookPerMessage, Messages
<1>8. PICK taken : taken = m.hook
  BY Zenon
<1> HIDE DEF m
<1>9. taken \in KnownFate' \/ Kept(taken)'
  BY <1>6, <1>8, Zenon DEF Kept, m
<1>10. ASSUME NEW h, Kept(h)
      PROVE  h \in KnownFate' \/ Kept(h)'
  <2>1. CASE \E n \in Range(stream) \cup unacked : n.hook = h /\ ~Acking(n.id)
    <3>1. PICK n \in Range(stream) \cup unacked : n.hook = h /\ ~Acking(n.id)
      BY <2>1, Zenon
    <3>2. CASE n.id = m.id
      <4>1. h = taken
        BY <1>7, <1>8, <3>1, <3>2, Zenon
      <4> QED
        BY <1>9, <4>1, Zenon
    <3>3. CASE n.id # m.id
      BY <1>5, <3>1, <3>3, Zenon DEF Kept
    <3> QED
      BY <3>2, <3>3, Zenon
  <2>2. CASE \E t \in timers : t.hook = h
    BY <2>2, Zenon DEF Kept
  <2>3. CASE \E x \in Range(dlq) : x.hook = h /\ ~Deleting(x.id)
    BY <1>6, <2>3, Zenon DEF Kept
  <2> QED
    BY <1>10, <2>1, <2>2, <2>3, Zenon DEF Kept
<1>11. NoneLost'
  BY <1>10, Zenon DEF IndInv, NoneLost
<1> QED
  BY <1>4, <1>11, Zenon DEF IndInv

\* A post ends in a delivery, a waiting retry, or a task to be parked.
LEMMA PostKeeps ==
  ASSUME IndInv, NEW d \in Dispatchers, Post(d)
  PROVE  IndInv'
<1> DEFINE m == Head(hand[d])
<1>1. QueueType /\ HandType /\ TimerType
  BY Zenon DEF IndInv
<1>2. /\ pc[d] = "post"
      /\ UNCHANGED <<hooks, stream, unacked, stopping, dlq, admin, unsent, dropped, cutOff,
                     forgotten>>
  BY DEF Post, queueVars
<1>3. m \in Message /\ hand[d] \in Seq(Message) /\ hand[d] # <<>>
  BY <1>1, <1>2, AckingIsHeld DEF HandType
<1>4. LetterType' /\ OneHookPerLetter' /\ \A id : Deleting(id)' <=> Deleting(id)
  BY <1>2, SameLetters
<1>5. ASSUME pc' = [pc EXCEPT ![d] = "park"], UNCHANGED timers, received \subseteq received',
             \/ UNCHANGED hand
             \/ hand' = [hand EXCEPT ![d][1].attempt = NextAttempt(m)]
      PROVE  IndInv'
  <2>1. pc'[d] = "park" /\ \A x \in Dispatchers : x # d => pc'[x] = pc[x]
    BY <1>1, <1>5 DEF HandType
  <2>2. NextAttempt(m) \in Nat
    BY <1>3, MessageParts, Zenon
  <2>3. /\ hand' \in [Dispatchers -> Seq(Message)] /\ hand'[d] # <<>>
        /\ \A x \in Dispatchers : x # d => hand'[x] = hand[x]
        /\ \A n \in Range(hand'[d]) : \E k \in Range(hand[d]) : k.id = n.id /\ k.hook = n.hook
    <3>1. CASE UNCHANGED hand
      BY <1>1, <1>3, <3>1 DEF HandType
    <3>2. CASE hand' = [hand EXCEPT ![d][1].attempt = NextAttempt(m)]
      <4> DEFINE q == [hand[d] EXCEPT ![1] = [hand[d][1] EXCEPT !.attempt = NextAttempt(m)]]
      <4>1. hand' = [hand EXCEPT ![d] = q]
        BY <3>2
      <4>2. [hand[d][1] EXCEPT !.attempt = NextAttempt(m)] \in Message
        <5>1. hand[d][1] \in Message
          BY <1>3
        <5> HIDE DEF m
        <5> QED
          BY <2>2, <5>1 DEF Message
      <4>3. q \in Seq(Message) /\ Len(q) = Len(hand[d])
        BY <1>3, <4>2
      <4>4. \A j \in 1 .. Len(hand[d]) : q[j].id = hand[d][j].id /\ q[j].hook = hand[d][j].hook
        <5> TAKE j \in 1 .. Len(hand[d])
        <5>1. hand[d][j] \in Message
          BY <1>3
        <5>2. q[j] = IF j = 1 THEN [hand[d][j] EXCEPT !.attempt = NextAttempt(m)] ELSE hand[d][j]
          BY <1>3
        <5> HIDE DEF q
        <5> QED
          BY <5>1, <5>2 DEF Message
      <4> HIDE DEF q
      <4>5. q # <<>>
        BY <1>3, <4>3
      <4>6. /\ \A n : n \in Range(q) <=> \E j \in 1 .. Len(q) : n = q[j]
            /\ \A n : n \in Range(hand[d]) <=> \E j \in 1 .. Len(hand[d]) : n = hand[d][j]
        BY <1>3, <4>3, RangeIs, Zenon
      <4>7. \A n \in Range(q) : \E k \in Range(hand[d]) : k.id = n.id /\ k.hook = n.hook
        BY <4>3, <4>4, <4>6
      <4>8. hand'[d] = q /\ \A x \in Dispatchers : x # d => hand'[x] = hand[x]
        BY <1>1, <4>1 DEF HandType
      <4>9. hand' \in [Dispatchers -> Seq(Message)]
        BY <1>1, <4>1, <4>3, Zenon DEF HandType
      <4> QED
        BY <4>5, <4>7, <4>8, <4>9, Zenon
    <3> QED
      BY <1>5, <3>1, <3>2
  <2>4. HandType'
    <3>1. /\ pc' \in [Dispatchers -> {"idle", "post", "park", "ack"}]
          /\ stopping' \in [Dispatchers -> BOOLEAN]
      BY <1>1, <1>2, <1>5 DEF HandType
    <3> QED
      BY <1>1, <2>1, <2>3, <3>1 DEF HandType
  <2>5. \A n \in Messages' : \E k \in Messages : k.id = n.id /\ k.hook = n.hook
    BY <1>2, <2>3 DEF Messages, Held
  <2>6. QueueType' /\ TimerType' /\ OneHookPerMessage' /\ hooks' \in Seq(Triggers)
    BY <1>1, <1>2, <1>5, <2>5, OnlyCopies, Zenon DEF IndInv, QueueType, TimerType
  <2>7. \A id : Acking(id)' => Acking(id)
    BY <1>2, <2>1, <2>3 DEF Acking
  <2>8. \A h : Kept(h) => Kept(h)'
    BY <1>2, <1>4, <1>5, <2>7, StillKept
  <2>9. NoneLost'
    BY <1>2, <1>5, <2>8 DEF IndInv, NoneLost, KnownFate, Lost
  <2> QED
    BY <1>4, <2>4, <2>6, <2>9 DEF IndInv
<1>6. ASSUME pc' = [pc EXCEPT ![d] = "ack"], UNCHANGED hand, received \subseteq received',
             timers \subseteq timers',
             \A t \in timers' \ timers : t.hook = m.hook /\ t.attempt = NextAttempt(m) /\ t.cap = m.cap,
             m.hook \in received' \/ \E t \in timers' : t.hook = m.hook
      PROVE  IndInv'
  <2>1. m.hook \in Nat /\ NextAttempt(m) \in Nat /\ m.cap \in Nat
    BY <1>3, MessageParts, Zenon
  <2>2. TimerType'
    <3>1. \A t \in timers' : t \in timers \/ t \in timers' \ timers
      BY Zenon
    <3>2. ASSUME NEW t \in timers' \ timers
          PROVE  t.hook \in Nat /\ t.attempt \in Nat /\ t.cap \in Nat
      <4>1. t.hook = m.hook /\ t.attempt = NextAttempt(m) /\ t.cap = m.cap
        BY <1>6, <3>2, Zenon
      <4> QED
        BY <2>1, <4>1, Zenon
    <3> QED
      BY <1>1, <3>1, <3>2, Zenon DEF TimerType
  <2>3. KnownFate \subseteq KnownFate' /\ received' \subseteq KnownFate'
    BY <1>2, <1>6, Zenon DEF KnownFate, Lost
  <2> QED
    BY <1>2, <1>4, <1>6, <2>2, <2>3, AckFollows, Zenon
<1>7. CASE pc' = [pc EXCEPT ![d] = "park"] /\ UNCHANGED <<hand, timers, received>>
  BY <1>5, <1>7
<1>8. ASSUME NEW answer \in Answers,
             received' = (IF answer = "refused" THEN received ELSE received \cup {m.hook}),
             pc' = [pc EXCEPT ![d] = IF answer # "ok" /\ Exhausted(m) THEN "park" ELSE "ack"],
             hand' = (IF answer # "ok" /\ Exhausted(m)
                      THEN [hand EXCEPT ![d][1].attempt = NextAttempt(m)] ELSE hand),
             timers' = (IF answer = "ok" \/ Exhausted(m) THEN timers
                        ELSE timers \cup {[id |-> Fresh({t.id : t \in timers}),
                                           by |-> d, hook |-> m.hook,
                                           attempt |-> NextAttempt(m), cap |-> m.cap]})
      PROVE  IndInv'
  <2>1. received \subseteq received'
    BY <1>8
  <2>2. CASE answer # "ok" /\ Exhausted(m)
    BY <1>5, <1>8, <2>1, <2>2
  <2>3. CASE answer = "ok"
    BY <1>6, <1>8, <2>1, <2>3, Zenon
  <2>4. CASE answer # "ok" /\ ~Exhausted(m)
    <3> DEFINE t == [id |-> Fresh({x.id : x \in timers}), by |-> d, hook |-> m.hook,
                     attempt |-> NextAttempt(m), cap |-> m.cap]
    <3>1. timers' = timers \cup {t}
      BY <1>8, <2>4, Zenon
    <3>2. t.hook = m.hook /\ t.attempt = NextAttempt(m) /\ t.cap = m.cap
      OBVIOUS
    <3> HIDE DEF t
    <3>3. pc' = [pc EXCEPT ![d] = "ack"] /\ UNCHANGED hand
      BY <1>8, <2>4, Zenon
    <3> QED
      BY <1>6, <2>1, <3>1, <3>2, <3>3
  <2> QED
    BY <2>2, <2>3, <2>4
<1> QED
  BY <1>7, <1>8 DEF Post

\* A task that is given up is a dead letter, or dropped; in a shutdown it stays
\* unacked.
LEMMA ParkKeeps ==
  ASSUME Finiteness, IndInv, NEW d \in Dispatchers, Park(d)
  PROVE  IndInv'
<1> DEFINE m == Head(hand[d])
<1>1. /\ pc[d] = "park" /\ pc' = [pc EXCEPT ![d] = "ack"]
      /\ \/ ~stopping[d] /\ ToDLQ(m.hook, m.attempt)
         \/ stopping[d] /\ UNCHANGED <<dlq, dropped>>
      /\ UNCHANGED <<hooks, stream, unacked, hand, timers, stopping, admin, received, unsent,
                     cutOff, forgotten>>
  BY DEF Park, queueVars
<1>2. m \in Message
  BY <1>1, AckingIsHeld DEF IndInv
<1>3. m.hook \in Nat /\ m.attempt \in Nat
  BY <1>2 DEF Message
<1>4. TimerType'
  BY <1>1 DEF IndInv, TimerType
<1> HIDE DEF m
<1>5. CASE dlq' = Parked(m.hook, m.attempt) /\ UNCHANGED dropped
  <2>1. /\ LetterType' /\ OneHookPerLetter' /\ Range(dlq) \subseteq Range(dlq')
        /\ \E x \in Range(dlq') : x.hook = m.hook /\ ~Deleting(x.id)
    BY <1>1, <1>3, <1>5, DlqGrows, Zenon
  <2>2. KnownFate \subseteq KnownFate'
    BY <1>1, <1>5 DEF KnownFate, Lost
  <2> QED
    BY <1>1, <1>4, <2>1, <2>2, AckFollows, Zenon DEF m
<1>6. CASE dropped' = dropped \cup {m.hook} /\ UNCHANGED dlq
  <2>1. LetterType' /\ OneHookPerLetter'
    BY <1>1, <1>6, SameLetters
  <2>2. KnownFate \subseteq KnownFate' /\ m.hook \in KnownFate'
    BY <1>1, <1>6 DEF KnownFate, Lost
  <2> QED
    BY <1>1, <1>4, <1>6, <2>1, <2>2, AckFollows, Zenon DEF m
<1>7. CASE stopping[d] /\ UNCHANGED <<dlq, dropped>>
  <2>1. QueueType /\ HandType
    BY Zenon DEF IndInv
  <2>2. pc'[d] = "ack" /\ \A x \in Dispatchers : x # d => pc'[x] = pc[x]
    BY <1>1, <2>1 DEF HandType
  <2>3. HandType'
    BY <1>1, <2>1, <2>2, Zenon DEF HandType
  <2>4. \A id : Acking(id)' => Acking(id)
    BY <1>1, <1>7, <2>2 DEF Acking
  <2>5. QueueType' /\ Messages' = Messages
    BY <1>1, <2>1 DEF QueueType, Messages, Held
  <2>6. KnownFate' = KnownFate
    BY <1>1, <1>7 DEF KnownFate, Lost
  <2> QED
    BY <1>1, <1>7, <2>3, <2>4, <2>5, <2>6, QueueMoves, Zenon
<1> QED
  BY <1>1, <1>5, <1>6, <1>7, Zenon DEF ToDLQ

\* An ack removes what was about to be acked, and nothing else.
LEMMA AckKeeps ==
  ASSUME Finiteness, IndInv, NEW d \in Dispatchers, Ack(d)
  PROVE  IndInv'
<1> DEFINE m == Head(hand[d])
           batch == Tail(hand[d])
           next == IF Len(hand[d]) > 1 THEN "post" ELSE "idle"
<1>1. /\ pc[d] = "ack" /\ pc' = [pc EXCEPT ![d] = next]
      /\ UNCHANGED <<hooks, stream, timers, stopping, dlq, admin>> /\ UNCHANGED fateVars
  BY DEF Ack, Leave
<1>2. QueueType /\ HandType
  BY Zenon DEF IndInv
<1>3. hand' = [hand EXCEPT ![d] = batch]
  BY <1>2, Zenon DEF Ack, Leave, HandType
<1>4. unacked' = unacked \/ (~stopping[d] /\ unacked' = {n \in unacked : n.id # m.id})
  BY DEF Ack
<1>5. hand[d] \in Seq(Message) /\ hand[d] # <<>>
  BY <1>1, <1>2, Zenon DEF HandType
<1>6. /\ batch \in Seq(Message) /\ Range(batch) \subseteq Range(hand[d])
      /\ Len(hand[d]) > 1 => batch # <<>>
  BY <1>5, TailIs
<1>7. Range(batch) \subseteq Messages
  BY <1>6 DEF Messages, Held
<1>8. (next = "post" /\ batch # <<>>) \/ next = "idle"
  BY <1>6, Zenon
<1>9. ~stopping[d] => Acking(m.id)
  BY <1>1 DEF Acking
<1> HIDE DEF batch, next, m
<1>10. /\ HandType' /\ Held' \subseteq Messages
       /\ \A id : Acking(id)' => Acking(id)
  <2>1. stopping' \in [Dispatchers -> BOOLEAN] /\ stopping' = stopping
    BY <1>1, <1>2 DEF HandType
  <2> QED
    BY <1>1, <1>3, <1>6, <1>7, <1>8, <2>1, HandMoves, Zenon
<1>11. QueueType'
  <2>1. unacked' \subseteq unacked
    BY <1>4
  <2>2. IsFiniteSet(unacked')
    BY <1>2, <2>1, Zenon DEF QueueType, Finiteness
  <2> QED
    BY <1>1, <1>2, <2>1, <2>2 DEF QueueType
<1>12. Messages' \subseteq Messages
  BY <1>1, <1>4, <1>10, Zenon DEF Messages
<1>13. \A n \in Range(stream) \cup unacked :
         ~Acking(n.id) => n \in Range(stream') \cup unacked'
  BY <1>1, <1>4, <1>9, Zenon
<1>14. KnownFate' = KnownFate
  BY <1>1, SameFate, Zenon
<1> QED
  BY <1>1, <1>10, <1>11, <1>12, <1>13, <1>14, QueueMoves, Zenon

\* A retry that leaves a dispatcher's memory is on the stream, a dead letter, or
\* dropped, and what had another carrier keeps it.
LEMMA RepublishKeeps ==
  ASSUME Finiteness, IndInv, NEW t \in timers, Republish(t), timers' = timers \ {t},
         UNCHANGED <<hooks, unacked, hand, pc, stopping, admin, received, unsent, cutOff,
                     forgotten>>
  PROVE  IndInv'
<1>1. t.hook \in Nat /\ t.attempt \in Nat /\ t.cap \in Nat
  BY DEF IndInv, TimerType
<1>2. TimerType' /\ hooks' \in Seq(Triggers)
  BY DEF IndInv, TimerType
<1>3. PICK gone \in Nat : gone = t.hook
  BY <1>1, Zenon
<1>4. ASSUME QueueType', HandType', LetterType', OneHookPerMessage', OneHookPerLetter',
             dropped \subseteq dropped',
             Range(stream) \subseteq Range(stream'), Range(dlq) \subseteq Range(dlq'),
             \A id : Acking(id)' <=> Acking(id), \A id : Deleting(id)' <=> Deleting(id),
             gone \in dropped' \/ Kept(gone)'
      PROVE  IndInv'
  <2>1. ASSUME NEW h, Kept(h)
        PROVE  h \in dropped' \/ Kept(h)'
    <3>1. CASE h = gone
      BY <1>4, <3>1, Zenon
    <3>2. CASE h # gone
      BY <1>3, <1>4, <2>1, <3>2, Zenon DEF Kept
    <3> QED
      BY <3>1, <3>2
  <2>2. NoneLost'
    BY <1>4, <2>1 DEF IndInv, NoneLost, KnownFate, Lost
  <2> QED
    BY <1>2, <1>4, <2>2 DEF IndInv
<1>5. UNCHANGED stream =>
        QueueType' /\ HandType' /\ OneHookPerMessage' /\ \A id : Acking(id)' <=> Acking(id)
  BY SameQueue
<1>6. UNCHANGED dlq =>
        LetterType' /\ OneHookPerLetter' /\ \A id : Deleting(id)' <=> Deleting(id)
  BY SameLetters, Zenon
<1>7. CASE stream' = Enqueued(gone, t.attempt, t.cap) /\ UNCHANGED <<dlq, dropped>>
  <2>1. /\ QueueType' /\ HandType' /\ OneHookPerMessage'
        /\ \A id : Acking(id)' <=> Acking(id)
        /\ Range(stream) \subseteq Range(stream')
        /\ \E m \in Range(stream') : m.hook = gone /\ ~Acking(m.id)
    BY <1>1, <1>7, StreamGrows, Zenon
  <2>2. Kept(gone)'
    BY <2>1, Zenon DEF Kept
  <2> QED
    BY <1>4, <1>6, <1>7, <2>1, <2>2, Zenon
<1>8. CASE dlq' = Parked(gone, t.attempt) /\ UNCHANGED <<stream, dropped>>
  <2>1. /\ LetterType' /\ OneHookPerLetter'
        /\ \A id : Deleting(id)' <=> Deleting(id)
        /\ Range(dlq) \subseteq Range(dlq')
        /\ \E x \in Range(dlq') : x.hook = gone /\ ~Deleting(x.id)
    BY <1>1, <1>8, DlqGrows
  <2>2. Kept(gone)'
    BY <2>1, Zenon DEF Kept
  <2> QED
    BY <1>4, <1>5, <1>8, <2>1, <2>2, Zenon
<1>9. CASE dropped' = dropped \cup {gone} /\ UNCHANGED <<stream, dlq>>
  BY <1>4, <1>5, <1>6, <1>9
<1> QED
  BY <1>3, <1>7, <1>8, <1>9 DEF Republish

\* A retry fires, or is flushed by a shutdown; one that fires in a shutdown is
\* cut off.
LEMMA RetryKeeps ==
  ASSUME Finiteness, IndInv, NEW t \in timers, RetryFires(t) \/ RetryFlushed(t)
  PROVE  IndInv'
<1>1. /\ timers' = timers \ {t}
      /\ UNCHANGED <<hooks, unacked, hand, pc, stopping, admin, received, unsent, forgotten>>
      /\ \/ Republish(t) /\ UNCHANGED cutOff
         \/ cutOff' = cutOff \cup {t.hook} /\ UNCHANGED <<stream, dlq, dropped>>
  BY Zenon DEF RetryFires, RetryFlushed
<1>2. CASE Republish(t) /\ UNCHANGED cutOff
  BY <1>1, <1>2, RepublishKeeps, Zenon
<1>3. CASE cutOff' = cutOff \cup {t.hook} /\ UNCHANGED <<stream, dlq, dropped>>
  <2>1. QueueType' /\ HandType' /\ \A id : Acking(id)' <=> Acking(id)
    BY <1>1, <1>3, SameQueue
  <2>2. Messages' = Messages
    BY <1>1, <1>3 DEF Messages, Held
  <2>3. KnownFate \subseteq KnownFate' /\ t.hook \in KnownFate'
    BY <1>1, <1>3 DEF KnownFate, Lost
  <2>4. timers' \subseteq timers /\ \A x \in timers : x \in timers' \/ x.hook \in KnownFate'
    BY <1>1, <2>3
  <2> QED
    BY <1>1, <1>3, <2>1, <2>2, <2>3, <2>4, QueueMoves, Zenon
<1> QED
  BY <1>1, <1>2, <1>3, Zenon

\* A process that dies forgets its retries; what it held is unacked.
LEMMA CrashKeeps ==
  ASSUME IndInv, NEW d \in Dispatchers, Crash(d)
  PROVE  IndInv'
<1>1. /\ hand' = [hand EXCEPT ![d] = <<>>] /\ pc' = [pc EXCEPT ![d] = "idle"]
      /\ forgotten' = forgotten \cup {t.hook : t \in {x \in timers : x.by = d}}
      /\ timers' = {t \in timers : t.by # d}
      /\ stopping' = [stopping EXCEPT ![d] = FALSE]
      /\ UNCHANGED <<hooks, stream, unacked, dlq, admin, received, unsent, dropped, cutOff>>
  BY DEF Crash, queueVars
<1>2. <<>> \in Seq(Message) /\ Range(<<>>) \subseteq Messages
  BY DEF Range
<1>3. HandType' /\ Held' \subseteq Messages /\ \A id : Acking(id)' => Acking(id)
  <2>1. /\ stopping' \in [Dispatchers -> BOOLEAN]
        /\ \A x \in Dispatchers : x # d => stopping'[x] = stopping[x]
    BY <1>1 DEF IndInv, HandType
  <2> QED
    BY <1>1, <1>2, <2>1, HandMoves, Zenon
<1>4. QueueType' /\ Messages' \subseteq Messages
  BY <1>1, <1>3, Zenon DEF IndInv, QueueType, Messages
<1>5. \A t \in timers : t \in timers' \/ t.hook \in forgotten'
  BY <1>1
<1>6. timers' \subseteq timers /\ forgotten \subseteq forgotten'
  BY <1>1, Zenon
<1>7. KnownFate \subseteq KnownFate' /\ forgotten' \subseteq KnownFate'
  BY <1>1, <1>6 DEF KnownFate, Lost
<1> QED
  BY <1>1, <1>3, <1>4, <1>5, <1>6, <1>7, QueueMoves, Zenon

\* A shutdown and a restart move nothing; an ack a shutdown overtakes will fail,
\* and no ack is under way at a restart.
LEMMA StopKeeps ==
  ASSUME IndInv,
         (\E d \in Dispatchers : Stop(d) \/ Restart(d)) \/ Done \/ UNCHANGED vars
  PROVE  IndInv'
<1>1. /\ UNCHANGED <<hooks, stream, unacked, hand, pc, timers, dlq, admin>>
      /\ UNCHANGED fateVars
  BY DEF Stop, Restart, Done, vars, queueVars, fateVars
<1>2. QueueType /\ HandType
  BY Zenon DEF IndInv
<1>3. stopping' \in [Dispatchers -> BOOLEAN] /\ \A id : Acking(id)' => Acking(id)
  <2>1. CASE UNCHANGED stopping
    BY <1>1, <1>2, <2>1 DEF HandType, Acking
  <2>2. ASSUME NEW d \in Dispatchers, stopping' = [stopping EXCEPT ![d] = TRUE]
        PROVE  stopping' \in [Dispatchers -> BOOLEAN] /\ \A id : Acking(id)' => Acking(id)
    BY <1>1, <1>2, <2>2 DEF HandType, Acking
  <2>3. ASSUME NEW d \in Dispatchers, stopping' = [stopping EXCEPT ![d] = FALSE], hand[d] = <<>>
        PROVE  stopping' \in [Dispatchers -> BOOLEAN] /\ \A id : Acking(id)' => Acking(id)
    <3>1. pc[d] # "ack"
      BY <1>2, <2>3 DEF HandType
    <3> QED
      BY <1>1, <1>2, <2>3, <3>1 DEF HandType, Acking
  <2> QED
    BY <2>1, <2>2, <2>3 DEF Stop, Restart, Done, vars
<1>4. QueueType' /\ HandType' /\ Messages' = Messages
  BY <1>1, <1>2, <1>3 DEF QueueType, HandType, Messages, Held
<1>5. KnownFate' = KnownFate
  BY <1>1, SameFate, Zenon
<1> QED
  BY <1>1, <1>3, <1>4, <1>5, QueueMoves, Zenon

\* The invariant after a step of a redelivery request that goes on to anything
\* but a delete, and of the dead letters takes away at most what was about to be
\* deleted.
LEMMA RequestMoves ==
  ASSUME IndInv, NEW r \in Admins, NEW q \in Request,
         admin' = [admin EXCEPT ![r] = q], q.step # "delete", Range(q.page) \subseteq Letters,
         q.step = "requeue" => q.page # <<>>,
         dlq' \in Seq(DeadLetter), Range(dlq') \subseteq Range(dlq),
         \A x \in Range(dlq) : ~Deleting(x.id) => x \in Range(dlq'),
         UNCHANGED <<hooks, stream, unacked, hand, pc, stopping, timers>>, KnownFate' = KnownFate
  PROVE  IndInv'
<1>1. LetterType
  BY Zenon DEF IndInv
<1>2. admin'[r] = q /\ \A a \in Admins : a # r => admin'[a] = admin[a]
  BY <1>1, Zenon DEF LetterType
<1>3. LetterType'
  BY <1>1, <1>2, Zenon DEF LetterType
<1>4. Letters' \subseteq Letters
  BY <1>2, Zenon DEF Letters, Listed
<1>5. OneHookPerLetter'
  BY <1>4, OnlyListed, Zenon
<1>6. \A id : Deleting(id)' => Deleting(id)
  BY <1>2, Zenon DEF Deleting
<1>7. QueueType' /\ HandType' /\ OneHookPerMessage' /\ \A id : Acking(id)' <=> Acking(id)
  BY SameQueue, Zenon
<1>8. TimerType' /\ hooks' \in Seq(Triggers)
  BY Zenon DEF IndInv, TimerType
<1>9. \A h : Kept(h) => Kept(h)'
  BY <1>6, <1>7, ZenonT(30) DEF Kept
<1>10. NoneLost'
  BY <1>9, Zenon DEF IndInv, NoneLost
<1> QED
  BY <1>3, <1>5, <1>7, <1>8, <1>10, ZenonT(30) DEF IndInv

\* A new request reads a dead letter, or is to list them.
LEMMA RedeliverKeeps ==
  ASSUME IndInv, NEW r \in Admins, Redeliver(r)
  PROVE  IndInv'
<1>1. UNCHANGED <<hooks, stream, unacked, hand, pc, stopping, timers, dlq>> /\ KnownFate' = KnownFate
  BY SameFate, Zenon DEF Redeliver, queueVars, workVars
<1>2. dlq \in Seq(DeadLetter)
  BY Zenon DEF IndInv, LetterType
<1>3. PICK h \in DOMAIN hooks :
        \/ admin' = [admin EXCEPT ![r] = [step |-> "list", again |-> FALSE,
                                           rule |-> hooks[h].rule, page |-> <<>>]]
        \/ \E i \in OfRule(hooks[h].rule) :
             admin' = [admin EXCEPT ![r] = [step |-> "requeue", again |-> FALSE,
                                            rule |-> hooks[h].rule, page |-> <<dlq[i]>>]]
  BY Zenon DEF Redeliver
<1>4. hooks[h].rule \in Nat
  <2>1. hooks[h] \in Triggers
    BY DEF IndInv
  <2> QED
    BY <2>1, DeliveryAssumption DEF Trigger
<1>5. CASE admin' = [admin EXCEPT ![r] = [step |-> "list", again |-> FALSE,
                                          rule |-> hooks[h].rule, page |-> <<>>]]
  <2> DEFINE q == [step |-> "list", again |-> FALSE, rule |-> hooks[h].rule, page |-> <<>>]
  <2>2. q \in Request /\ q.step = "list" /\ q.page = <<>>
    BY <1>4 DEF Request
  <2>3. Range(<<>>) = {}
    BY DEF Range
  <2> HIDE DEF q
  <2> QED
    BY <1>1, <1>2, <1>5, <2>2, <2>3, RequestMoves, Zenon DEF q
<1>6. ASSUME NEW i \in OfRule(hooks[h].rule),
             admin' = [admin EXCEPT ![r] = [step |-> "requeue", again |-> FALSE,
                                            rule |-> hooks[h].rule, page |-> <<dlq[i]>>]]
      PROVE  IndInv'
  <2> DEFINE x == dlq[i]
             q == [step |-> "requeue", again |-> FALSE, rule |-> hooks[h].rule, page |-> <<x>>]
  <2>1. i \in 1 .. Len(dlq)
    BY <1>2 DEF OfRule
  <2>2. x \in DeadLetter /\ x \in Range(dlq)
    BY <1>2, <2>1, RangeIs, Zenon
  <2>3. admin' = [admin EXCEPT ![r] = q]
    BY <1>6
  <2> HIDE DEF x
  <2>4. <<x>> \in Seq(DeadLetter) /\ <<x>> # <<>> /\ Range(<<x>>) = {x}
    BY <2>2 DEF Range
  <2>5. q \in Request /\ q.step = "requeue" /\ q.page = <<x>>
    BY <1>4, <2>4, Zenon DEF Request
  <2>6. Range(<<x>>) \subseteq Letters
    BY <2>2, <2>4 DEF Letters
  <2> HIDE DEF q
  <2> QED
    BY <1>1, <1>2, <2>3, <2>4, <2>5, <2>6, RequestMoves, Zenon
<1> QED
  BY <1>3, <1>5, <1>6, Zenon

\* A page lists dead letters that are stored.
LEMMA ListPageKeeps ==
  ASSUME Finiteness, IndInv, NEW r \in Admins, ListPage(r)
  PROVE  IndInv'
<1> DEFINE found == OfRule(admin[r].rule)
           size == IF Cardinality(found) < PageSize THEN Cardinality(found) ELSE PageSize
<1>1. /\ admin[r].step = "list"
      /\ UNCHANGED <<hooks, stream, unacked, hand, pc, stopping, timers, dlq>>
      /\ KnownFate' = KnownFate
  <2>1. admin[r].step = "list" /\ UNCHANGED <<hooks, queueVars, workVars, dlq, fateVars>>
    BY Zenon DEF ListPage
  <2> QED
    BY <2>1, SameFate DEF queueVars, workVars
<1>2. dlq \in Seq(DeadLetter) /\ admin[r] \in Request
  BY DEF IndInv, LetterType
<1>3. found \subseteq 1 .. Len(dlq) /\ size \in Nat
  <2>1. found \subseteq 1 .. Len(dlq)
    BY <1>2 DEF OfRule
  <2>2. IsFiniteSet(1 .. Len(dlq))
    <3>1. Len(dlq) \in Nat
      BY <1>2
    <3>2. \A n \in Nat : IsFiniteSet(1 .. n)
      BY Zenon DEF Finiteness
    <3> QED
      BY <3>1, <3>2
  <2> HIDE DEF found
  <2>3. IsFiniteSet(found)
    BY <2>1, <2>2, Zenon DEF Finiteness
  <2>4. PICK c : c = Cardinality(found) /\ c \in Nat
    BY <2>3, Zenon DEF Finiteness
  <2>5. size = IF c < PageSize THEN c ELSE PageSize
    BY <2>4
  <2>6. PageSize \in Nat
    BY DeliveryAssumption
  <2> QED
    BY <2>1, <2>4, <2>5, <2>6, Zenon
<1>4. PICK at \in [1 .. size -> found] :
        admin' = [admin EXCEPT ![r] = AfterPage(admin[r], [i \in DOMAIN at |-> dlq[at[i]]])]
  BY Zenon DEF ListPage, Newest
<1> HIDE DEF found, size
<1> DEFINE page == [i \in DOMAIN at |-> dlq[at[i]]]
           more == ~PageIsLast(page)
           q == AfterPage(admin[r], page)
<1>5. \A i \in 1 .. size : dlq[at[i]] \in DeadLetter /\ dlq[at[i]] \in Range(dlq)
  BY <1>2, <1>3, <1>4, RangeIs, Zenon
<1>6. page \in Seq(DeadLetter) /\ Range(page) \subseteq Range(dlq)
  <2>1. page = [i \in 1 .. size |-> dlq[at[i]]]
    BY <1>4, Zenon
  <2>2. page \in Seq(DeadLetter)
    BY <1>3, <1>5, <2>1
  <2>3. Range(page) \subseteq Range(dlq)
    BY <1>5, <2>1 DEF Range
  <2> QED
    BY <2>2, <2>3
<1>7. admin' = [admin EXCEPT ![r] = q]
  BY <1>4
<1>8. more \in BOOLEAN
  BY DEF PageIsLast
<1> HIDE DEF page, more
<1>9. /\ q \in Request /\ q.step # "delete" /\ Range(q.page) \subseteq Letters
      /\ q.step = "requeue" => q.page # <<>>
  <2>1. CASE page = <<>>
    <3>1. q = NoRequest
      BY <2>1, Zenon DEF AfterPage
    <3>2. NoRequest \in Request /\ NoRequest.step = "idle" /\ Range(NoRequest.page) = {}
      BY DEF NoRequest, Request, Range
    <3> QED
      BY <3>1, <3>2, Zenon
  <2>2. CASE page # <<>>
    <3>1. q = [admin[r] EXCEPT !.step = "requeue", !.again = more, !.page = page]
      BY <2>2 DEF AfterPage, more
    <3>2. q \in Request /\ q.step = "requeue" /\ q.page = page
      BY <1>2, <1>6, <1>8, <3>1, Zenon DEF Request
    <3> QED
      BY <1>6, <2>2, <3>2 DEF Letters
  <2> QED
    BY <2>1, <2>2, Zenon
<1> HIDE DEF q
<1> QED
  BY <1>1, <1>2, <1>7, <1>9, RequestMoves, Zenon

\* A dead letter that is put on the stream again has a new carrier before the
\* request goes on to delete it; a failed publish ends the request.
LEMMA RequeueKeeps ==
  ASSUME Finiteness, IndInv, NEW r \in Admins, Requeue(r)
  PROVE  IndInv'
<1> DEFINE x == Head(admin[r].page)
<1>1. /\ admin[r].step = "requeue"
      /\ UNCHANGED <<hooks, unacked, hand, pc, stopping, timers, dlq>> /\ KnownFate' = KnownFate
  BY SameFate DEF Requeue, workVars
<1>2. LetterType /\ OneHookPerLetter /\ TimerType
  BY Zenon DEF IndInv
<1>3. dlq \in Seq(DeadLetter) /\ admin[r] \in Request
  BY <1>2, Zenon DEF LetterType
<1>4. x \in DeadLetter /\ x \in Letters
  BY <1>1, <1>2, DeletingIsListed
<1>5. CASE admin' = [admin EXCEPT ![r] = NoRequest] /\ UNCHANGED stream
  <2>1. /\ NoRequest \in Request /\ NoRequest.step = "idle" /\ NoRequest.page = <<>>
        /\ Range(<<>>) = {}
    BY DEF NoRequest, Request, Range
  <2> QED
    BY <1>1, <1>3, <1>5, <2>1, RequestMoves, Zenon
<1>6. CASE stream' = Enqueued(x.hook, 0, 0) /\ admin' = [admin EXCEPT ![r].step = "delete"]
  <2> DEFINE q == [admin[r] EXCEPT !.step = "delete"]
  <2>1. admin' = [admin EXCEPT ![r] = q]
    BY <1>6
  <2>2. q \in Request /\ q.step = "delete" /\ q.page = admin[r].page
    BY <1>3, Zenon DEF Request
  <2> HIDE DEF q
  <2>3. /\ admin' \in [Admins -> Request]
        /\ admin'[r].step = "delete" /\ admin'[r].page = admin[r].page
        /\ \A a \in Admins : a # r => admin'[a] = admin[a]
    BY <1>2, <2>1, <2>2, Zenon DEF LetterType
  <2>4. LetterType'
    <3>1. admin[r].page # <<>>
      BY <1>1, <1>2 DEF LetterType
    <3> QED
      BY <1>1, <1>2, <2>3, <3>1, Zenon DEF LetterType
  <2>5. OneHookPerLetter'
    <3>1. Letters' \subseteq Letters
      BY <1>1, <2>3 DEF Letters, Listed
    <3> QED
      BY <3>1, OnlyListed, Zenon
  <2>6. PICK again \in Nat : again = x.hook
    BY <1>4, Zenon DEF DeadLetter
  <2>7. /\ QueueType' /\ HandType' /\ OneHookPerMessage'
        /\ \A id : Acking(id)' <=> Acking(id)
        /\ Range(stream) \subseteq Range(stream')
        /\ \E m \in Range(stream') : m.hook = again /\ ~Acking(m.id)
    BY <1>1, <1>6, <2>6, StreamGrows, Zenon
  <2>8. Kept(again)'
    BY <2>7, Zenon DEF Kept
  <2>9. \A id : Deleting(id)' => Deleting(id) \/ id = x.id
    BY <2>3, Zenon DEF Deleting
  <2>10. \A y \in Range(dlq) : y.id = x.id => y.hook = again
    BY <1>2, <1>4, <2>6 DEF OneHookPerLetter, Letters
  <2> HIDE DEF x
  <2>11. ASSUME NEW h, Kept(h)
         PROVE  Kept(h)'
    <3>1. CASE h = again
      BY <2>8, <3>1, Zenon
    <3>2. CASE h # again
      BY <1>1, <2>7, <2>9, <2>10, <2>11, <3>2, Zenon DEF Kept
    <3> QED
      BY <3>1, <3>2
  <2>12. NoneLost' /\ TimerType' /\ hooks' \in Seq(Triggers)
    BY <1>1, <1>2, <2>11 DEF IndInv, NoneLost, TimerType
  <2> QED
    BY <2>4, <2>5, <2>7, <2>12 DEF IndInv
<1> QED
  BY <1>5, <1>6 DEF Requeue

\* A delete removes what was about to be deleted, and nothing else.
LEMMA DeleteKeeps ==
  ASSUME IndInv, NEW r \in Admins, Delete(r)
  PROVE  IndInv'
<1> DEFINE x == Head(admin[r].page)
           rest == Tail(admin[r].page)
           q == IF rest # <<>> THEN [admin[r] EXCEPT !.step = "requeue", !.page = rest]
                ELSE IF admin[r].again
                     THEN [admin[r] EXCEPT !.step = "list", !.page = <<>>, !.again = FALSE]
                     ELSE NoRequest
<1>1. /\ admin[r].step = "delete" /\ admin' = [admin EXCEPT ![r] = q]
      /\ UNCHANGED <<hooks, stream, unacked, hand, pc, stopping, timers>> /\ KnownFate' = KnownFate
  BY SameFate DEF Delete, queueVars, workVars
<1>2. LetterType
  BY DEF IndInv
<1>3. dlq \in Seq(DeadLetter) /\ admin[r] \in Request
  BY <1>2 DEF LetterType
<1>4. \/ UNCHANGED dlq
      \/ \E i \in DOMAIN dlq : dlq[i].id = x.id /\ dlq' = RemoveAt(dlq, i)
  BY DEF Delete
<1>5. Deleting(x.id)
  BY <1>1, Zenon DEF Deleting
<1>6. /\ dlq' \in Seq(DeadLetter) /\ Range(dlq') \subseteq Range(dlq)
      /\ \A y \in Range(dlq) : ~Deleting(y.id) => y \in Range(dlq')
  <2>1. CASE UNCHANGED dlq
    BY <1>3, <2>1, Zenon
  <2>2. ASSUME NEW i \in DOMAIN dlq, dlq[i].id = x.id, dlq' = RemoveAt(dlq, i)
        PROVE  /\ dlq' \in Seq(DeadLetter) /\ Range(dlq') \subseteq Range(dlq)
               /\ \A y \in Range(dlq) : ~Deleting(y.id) => y \in Range(dlq')
    <3>1. i \in 1 .. Len(dlq)
      BY <1>3
    <3>2. /\ dlq' \in Seq(DeadLetter) /\ Range(dlq') \subseteq Range(dlq)
          /\ \A y \in Range(dlq) : y # dlq[i] => y \in Range(dlq')
      BY <1>3, <2>2, <3>1, RemoveAtIs
    <3> HIDE DEF x
    <3> QED
      BY <1>5, <2>2, <3>2
  <2> HIDE DEF x
  <2> QED
    BY <1>4, <2>1, <2>2, Zenon
<1>7. admin[r].page \in Seq(DeadLetter) /\ admin[r].page # <<>> /\ admin[r].rule \in Nat
  BY <1>1, <1>2, <1>3, Zenon DEF LetterType, Request
<1>8. rest \in Seq(DeadLetter) /\ Range(rest) \subseteq Range(admin[r].page)
  BY <1>7, TailIs
<1>9. Range(admin[r].page) \subseteq Letters
  BY DEF Letters, Listed
<1> HIDE DEF rest
<1>10. /\ q \in Request /\ q.step # "delete" /\ Range(q.page) \subseteq Letters
       /\ q.step = "requeue" => q.page # <<>>
  <2>1. CASE rest # <<>>
    <3>1. q = [admin[r] EXCEPT !.step = "requeue", !.page = rest]
      BY <2>1
    <3>2. q \in Request /\ q.step = "requeue" /\ q.page = rest
      BY <1>3, <1>8, <3>1, Zenon DEF Request
    <3> QED
      BY <1>8, <1>9, <2>1, <3>2
  <2>2. CASE rest = <<>> /\ admin[r].again
    <3>1. q = [admin[r] EXCEPT !.step = "list", !.page = <<>>, !.again = FALSE]
      BY <2>2, Zenon
    <3>2. q \in Request /\ q.step = "list" /\ q.page = <<>>
      <4>1. <<>> \in Seq(DeadLetter)
        OBVIOUS
      <4>2. q = [step |-> "list", again |-> FALSE, rule |-> admin[r].rule, page |-> <<>>]
        BY <1>3, <3>1, Zenon DEF Request
      <4> HIDE DEF q
      <4> QED
        BY <1>7, <4>1, <4>2 DEF Request
    <3>3. Range(<<>>) = {}
      BY DEF Range
    <3> QED
      BY <3>2, <3>3
  <2>3. CASE rest = <<>> /\ ~admin[r].again
    <3>1. q = NoRequest
      BY <2>3, Zenon
    <3>2. NoRequest \in Request /\ NoRequest.step = "idle" /\ NoRequest.page = <<>>
      BY DEF NoRequest, Request
    <3>3. Range(<<>>) = {}
      BY DEF Range
    <3> QED
      BY <3>1, <3>2, <3>3, Zenon
  <2> QED
    BY <2>1, <2>2, <2>3
<1> HIDE DEF q
<1> QED
  BY <1>1, <1>6, <1>10, RequestMoves, Zenon

-----------------------------------------------------------------------------
(* What holds of every behaviour.                                          *)

\* Every step keeps the invariant.
LEMMA NextKeeps ==
  ASSUME Finiteness
  PROVE  IndInv /\ [Next]_vars => IndInv'
<1> SUFFICES ASSUME IndInv, [Next]_vars
             PROVE  IndInv'
  OBVIOUS
<1>1. CASE Publish
  BY <1>1, PublishKeeps, Zenon
<1>2. ASSUME NEW d \in Dispatchers, Take(d) \/ Reclaim(d) \/ Handle(d) \/ Crash(d)
      PROVE  IndInv'
  BY <1>2, TakeKeeps, ReclaimKeeps, PostKeeps, ParkKeeps, AckKeeps, CrashKeeps, Zenon DEF Handle
<1>3. ASSUME NEW t \in timers, RetryFires(t) \/ RetryFlushed(t)
      PROVE  IndInv'
  BY <1>3, RetryKeeps, Zenon
<1>4. ASSUME NEW r \in Admins, Redeliver(r) \/ Administer(r)
      PROVE  IndInv'
  BY <1>4, RedeliverKeeps, ListPageKeeps, RequeueKeeps, DeleteKeeps, Zenon DEF Administer
<1>5. CASE (\E d \in Dispatchers : Stop(d) \/ Restart(d)) \/ Done \/ UNCHANGED vars
  BY <1>5, StopKeeps
<1> QED
  BY <1>1, <1>2, <1>3, <1>4, <1>5 DEF Next

-----------------------------------------------------------------------------
(* The theorem.                                                            *)

INSTANCE FiniteSetTheorems

\* A new id is not in use.
LEMMA FreshIs ==
  ASSUME NEW used, IsFiniteSet(used)
  PROVE  Fresh(used) \in Nat /\ Fresh(used) \notin used
<1> DEFINE c == Cardinality(used)
           T == 1 .. c + 1
<1>1. c \in Nat
  BY FS_CardinalityType, Zenon
<1>2. \E n \in T : n \notin used
  <2> SUFFICES ASSUME T \subseteq used
               PROVE  FALSE
    BY Zenon
  <2>1. Cardinality(T) <= c
    <3> HIDE DEF T
    <3> QED
      BY FS_Subset, Zenon
  <2>2. Cardinality(T) = c + 1
    <3> HIDE DEF c
    <3>1. Cardinality(1 .. c + 1) = IF 1 > c + 1 THEN 0 ELSE (c + 1) - 1 + 1
      BY <1>1, FS_Interval
    <3> QED
      BY <1>1, <3>1
  <2> HIDE DEF T, c
  <2> QED
    BY <1>1, <2>1, <2>2
<1>3. Fresh(used) \in T /\ Fresh(used) \notin used
  BY <1>2, Zenon DEF Fresh
<1> HIDE DEF c
<1> QED
  BY <1>1, <1>3

\* The facts about finite sets that the lemmas assumed.
LEMMA FinitenessHolds == Finiteness
<1>1. \A S, T, f : IsFiniteSet(S) /\ Covers(f, S, T) => IsFiniteSet(T)
  <2> SUFFICES ASSUME NEW S, NEW T, NEW f, IsFiniteSet(S), Covers(f, S, T)
               PROVE  IsFiniteSet(T)
    BY Zenon
  <2> DEFINE U == {x \in S : f[x] \in T}
             g == [x \in U |-> f[x]]
  <2>1. g \in Surjection(U, T)
    BY DEF Surjection, Covers
  <2>2. U \in SUBSET S
    BY Zenon
  <2> HIDE DEF g, U
  <2> QED
    BY <2>1, <2>2, FS_Subset, FS_Surjection, Zenon
<1>2. IsFiniteSet({}) /\ \A n \in Nat : IsFiniteSet(1 .. n)
  BY FS_EmptySet, FS_Interval
<1>3. \A S : IsFiniteSet(S) => Cardinality(S) \in Nat /\ (Cardinality(S) = 0 => S = {})
  BY FS_CardinalityType, FS_EmptySet, Zenon
<1>4. \A S : IsFiniteSet(S) => \A T \in SUBSET S : IsFiniteSet(T)
  BY FS_Subset
<1>5. \A S, T : IsFiniteSet(S) /\ IsFiniteSet(T) => IsFiniteSet(S \cup T)
  BY FS_Union, Zenon
<1>6. \A S : IsFiniteSet(S) => \A x : IsFiniteSet(S \cup {x})
  BY FS_AddElement, Zenon
<1>7. \A S : IsFiniteSet(S) /\ (\A T \in S : IsFiniteSet(T)) => IsFiniteSet(UNION S)
  BY FS_UNION, Zenon
<1>8. \A S : IsFiniteSet(S) => Fresh(S) \in Nat /\ Fresh(S) \notin S
  BY FreshIs
<1> QED
  BY <1>1, <1>2, <1>3, <1>4, <1>5, <1>6, <1>7, <1>8, Zenon DEF Finiteness

\* The invariant holds throughout.
THEOREM Invariance == Spec => []IndInv
BY FinitenessHolds, InitInv, NextKeeps, PTL DEF Spec

\* Of every webhook that was fired and reached no receiver, the stream, a waiting
\* retry or the dead letters still have a copy, whatever crashes, shutdowns,
\* slow posts, failed acks, publishes, saves and deletes happened to it and to the
\* other webhooks, unless it was lost in one of the four ways the code has: its
\* first publish failed, no dead letter of it could be saved, its retry was due
\* while its process was shutting down, or it waited in a process that crashed.
THEOREM LossesAreKnown == Spec => []OnlyKnownLosses
<1>1. IndInv => OnlyKnownLosses
  BY DEF IndInv, NoneLost, KnownFate, Kept, OnlyKnownLosses, Carried
<1> QED
  BY <1>1, Invariance, PTL

=============================================================================
